------------------------- MODULE OrchestrationProofs -------------------------
(***************************************************************************)
(* Proofs about Orchestration, for every value of the constants.           *)
(*                                                                         *)
(* The agent keeps the invariant of RuntimeAgentProofs under its new       *)
(* callers.  What is added relates the manager's records to calls the      *)
(* agent has not finished, of which some have no caller any more: which    *)
(* records allow such a create, and which answers of a removal are still   *)
(* true when the manager acts on them.                                     *)
(***************************************************************************)
EXTENDS Orchestration, RuntimeAgentProofs

-----------------------------------------------------------------------------
(* The inductive invariant *)

Calling == mgr.pc \in {"send", "wait"}
Unfinished(u) == thread[u].op = "create" /\ thread[u].pc # "answered"
HasRuntime(p) == \E c \in Managed : c.pid = p

\* Point, job and parameters of the manager belong together, and so does the
\* thread it waits for, unless that died.
MgrOK ==
  /\ Calling => mgr.job # "none" /\ (mgr.job = "list" <=> mgr.pid = NoRequest)
  /\ mgr.pc = "ready" => mgr.job = "create" /\ mgr.pid # NoRequest
  /\ mgr.pc = "wait" =>
       /\ mgr.t \in Threads
       /\ thread[mgr.t].pc # "idle" =>
            thread[mgr.t].op = Op(mgr.job) /\ thread[mgr.t].pid = mgr.pid

\* What the record says while a call is made for it.
RecordOK ==
  /\ Calling /\ mgr.job \in {"create", "cleanup"} => seat[mgr.pid] = "starting"
  /\ Calling /\ mgr.job \in {"retire", "fail"} => seat[mgr.pid] = "active"
  /\ Calling /\ mgr.job = "close" => seat[mgr.pid] \in {"starting", "active"}
  /\ mgr.pc = "ready" => seat[mgr.pid] = "starting"

\* Creates without a caller belong to records that were given up.
FlightOK ==
  /\ \A p \in InFlight : seat[p] \in {"starting", "error", "expired"}
  /\ mgr.pc = "send" /\ mgr.job = "create" => mgr.pid \notin InFlight
  /\ mgr.pc = "wait" /\ mgr.job = "create" =>
       \A u \in Threads : Unfinished(u) /\ thread[u].pid = mgr.pid => u = mgr.t
  /\ mgr.pc = "ready" => mgr.pid \notin InFlight

\* After the listing at startup: what is neither listed nor being created when
\* the list was made does not exist.
Listed ==
  \/ mgr.pc = "wait" /\ mgr.job \in {"list", "purge"}
  \/ mgr.pc = "send" /\ mgr.job = "purge"
  \/ mgr.pc = "purging"

ListOK ==
  Listed => InFlight \subseteq mgr.racing
            /\ \A c \in Managed : c.pid \in mgr.racing \cup mgr.todo

\* Nothing has failed yet: the agent does what the manager waits for and nothing
\* else, and every container has a record.
CleanOK ==
  faults = MaxFaults =>
    /\ up
    /\ mgr.pc \in {"idle", "send", "wait", "ready"}
    /\ mgr.job \notin {"close", "list", "purge"}
    /\ \A u \in Threads : thread[u].pc # "idle" <=> mgr.pc = "wait" /\ mgr.t = u
    /\ \A c \in containers : c.label # NoRequest /\ seat[c.pid] \in {"starting", "active"}
    /\ \A u \in Threads : thread[u].op = "remove" /\ thread[u].pc = "answered" =>
         thread[u].answer \in {"ok", "missing"}

\* No create can be under way for the participant that is being removed.
Certain ==
  \/ seat[mgr.pid] = "active"
  \/ faults = MaxFaults
  \/ mgr.job = "purge" /\ mgr.pid \notin mgr.racing

\* A removal that succeeded is still true when its answer is read.
GoneStays ==
  /\ mgr.pc = "wait" /\ Op(mgr.job) = "remove" /\ Certain
     /\ thread[mgr.t].pc = "answered" /\ thread[mgr.t].answer \in {"ok", "missing"}
       => ~HasRuntime(mgr.pid)
  /\ \A p \in Participants : seat[p] = "left" => ~HasRuntime(p)

\* No call of the agent's own to the engine is given up here.
Punctual == late = {} /\ \A c \in containers : c.late = "no"

OInv ==
  /\ IInv
  /\ OrchestrationTypeOK
  /\ Punctual
  /\ MgrOK /\ RecordOK /\ FlightOK /\ ListOK /\ CleanOK /\ GoneStays

-----------------------------------------------------------------------------
(* What the agent's steps mean for its callers *)

\* InFlight, without the set.
LEMMA FlightDef ==
  ASSUME NEW p
  PROVE  p \in InFlight <=> \E u \in Threads : Unfinished(u) /\ thread[u].pid = p
BY DEF InFlight, Unfinished, At

\* The same in the next state.
LEMMA FlightDefNext ==
  ASSUME NEW p
  PROVE  p \in InFlight' <=> \E u \in Threads : Unfinished(u)' /\ thread'[u].pid = p
BY DEF InFlight, Unfinished, At

\* The parts of the invariant.
LEMMA OParts ==
  ASSUME OInv
  PROVE  /\ IInv /\ Punctual /\ MgrOK /\ RecordOK /\ FlightOK /\ ListOK /\ CleanOK /\ GoneStays
         /\ seat \in [Participants -> Seats]
         /\ mgr \in [pc : {"idle", "send", "wait", "ready", "down", "booting", "purging"},
                     job : Jobs, pid : Participants \cup {NoRequest},
                     t : Threads \cup {NoRequest}, todo : SUBSET Participants,
                     racing : SUBSET Participants]
         /\ mgr.pid # NoRequest => mgr.pid \in Participants
BY DEF OInv, OrchestrationTypeOK

\* A thread at work has begun and has not answered, and keeps its request.
LEMMA WorksOn ==
  ASSUME thread \in [Threads -> Thread], NEW t \in Threads, Works(t)
  PROVE  /\ thread[t].pc \notin {"idle", "answered"} /\ thread'[t].pc # "idle"
         /\ Onward(t)
<1>1. thread[t].pc \notin {"idle", "answered"}
  BY DEF Works, Acquire, Create, Remove, Unlocked, EngineFails, EngineDown, At,
       InspectName, AdmitRuntime, CreateContainer, StartContainer, PublishRoute,
       PublishTarget, ReportRuntime, UnwindTarget, UnwindRoute, UnwindStop, UnwindRemove,
       FindRuntime, StopContainer, RemoveContainer, RemoveRoute, RemoveTarget, FindToStop,
       StopRuntime, ListRuntime
<1> DEFINE Done == thread'[t].pc # "idle" /\ Onward(t)
<1>2. ASSUME NEW a, Answer(t, a) PROVE Done
  BY <1>2 DEF Answer, Onward, Thread
<1>3. ASSUME NEW pc, Goto(t, pc), pc # "idle" PROVE Done
  BY <1>3 DEF Goto, Onward, Thread
<1>4. ASSUME CreateContainer(t) PROVE Done
  <2>1. CASE thread' = [thread EXCEPT ![t].pc = "start", ![t].id = created + 1]
    BY <2>1 DEF Onward, Thread
  <2> QED BY <1>2, <1>3, <1>4, <2>1 DEF CreateContainer
<1>11. ASSUME NEW a, Unwind(t, a) PROVE Done
  BY <1>11 DEF Unwind, Onward, Thread
<1>5. ASSUME FindRuntime(t) PROVE Done
  <2>1. CASE thread' = [thread EXCEPT ![t].pc = "unroute", ![t].answer = "missing"]
    BY <2>1 DEF Onward, Thread
  <2>2. ASSUME NEW c, thread' = [thread EXCEPT
                 ![t].pc = IF c.state = "running" THEN "stop" ELSE "remove",
                 ![t].id = c.id, ![t].answer = "ok"]
        PROVE  Done
    BY <2>2 DEF Onward, Thread
  <2> QED BY <1>2, <1>5, <2>1, <2>2 DEF FindRuntime
<1>6. ASSUME Unlocked(t) PROVE Done
  <2>1. ASSUME NEW c, thread' = [thread EXCEPT ![t].pc = "halting", ![t].id = c.id]
        PROVE  Done
    BY <2>1 DEF Onward, Thread
  <2>2. ASSUME NEW id, thread' = [thread EXCEPT ![t].todo = @ \ {id}]
        PROVE  Done
    BY <1>1, <2>2 DEF Onward, Thread
  <2> QED BY <1>2, <1>6, <2>1, <2>2 DEF Unlocked, FindToStop, StopRuntime, ListRuntime
<1> HIDE DEF Done
<1>7. ASSUME Create(t) PROVE Done
  BY <1>2, <1>3, <1>4, <1>7, <1>11 DEF Create, InspectName, AdmitRuntime, StartContainer,
       PublishRoute, PublishTarget, ReportRuntime, UnwindTarget, UnwindRoute, UnwindStop,
       UnwindRemove, PreparationFails
<1>8. ASSUME Remove(t) PROVE Done
  BY <1>2, <1>3, <1>5, <1>8 DEF Remove, StopContainer, RemoveContainer, RemoveRoute,
       RemoveTarget
<1>9. ASSUME Acquire(t) \/ EngineFails(t) PROVE Done
  BY <1>2, <1>3, <1>9, <1>11 DEF Acquire, EngineFails, EngineDown
<1>10. Done
  BY <1>6, <1>7, <1>8, <1>9 DEF Works
<1> QED BY <1>1, <1>10 DEF Done

\* Every container was there before, or thread t creates it.
Origin(t) ==
  \A d \in containers' :
    \/ \E c \in containers : c.pid = d.pid /\ c.label = d.label
    \/ Unfinished(t) /\ d.pid = thread[t].pid /\ d.label = thread[t].req

\* Containers come from creates that have not answered.
LEMMA WorksOrigin ==
  ASSUME IInv, NEW t \in Threads, Works(t)
  PROVE  Origin(t)
<1>1. CASE UNCHANGED containers
  BY <1>1 DEF Origin
<1>2. ASSUME NEW id, Restated(id) PROVE Origin(t)
  BY <1>2 DEF Origin, Restated, Kin
<1>3. ASSUME NEW id, Halt(id), UNCHANGED <<created, late>> PROVE Origin(t)
  BY <1>2, <1>3, Parts, HaltRestates
<1>4. CASE StartContainer(t)
  <2>1. Restated(thread[t].id)
    BY <1>4, Parts, SetStateRestates DEF StartContainer
  <2> QED BY <1>2, <2>1
<1>5. CASE CreateContainer(t)
  <2>1. thread[t].pc = "create" /\ Unfinished(t)
    BY <1>5, CreateRequest DEF CreateContainer, At, CreatePoints, Unfinished
  <2>2. CASE Added(thread[t].pid, thread[t].req, "created", "no")
    BY <2>1, <2>2 DEF Origin, Added
  <2> QED BY <1>1, <1>5, <2>2 DEF CreateContainer
<1>6. ASSUME NEW id, Delete(id) PROVE Origin(t)
  BY <1>6 DEF Delete, Origin
<1>7. CASE Create(t)
  BY <1>1, <1>3, <1>4, <1>5, <1>6, <1>7 DEF Create, InspectName, AdmitRuntime, PublishRoute,
       PublishTarget, ReportRuntime, UnwindTarget, UnwindRoute, UnwindStop, UnwindRemove,
       Engine
<1>8. CASE Remove(t)
  BY <1>1, <1>3, <1>6, <1>8 DEF Remove, FindRuntime, StopContainer, RemoveContainer,
       RemoveRoute, RemoveTarget, Engine
<1>9. CASE Unlocked(t)
  BY <1>1, <1>3, <1>9 DEF Unlocked, FindToStop, StopRuntime, ListRuntime, Engine
<1>10. CASE Acquire(t) \/ EngineFails(t)
  BY <1>1, <1>10 DEF Acquire, EngineFails, EngineDown, Engine
<1> QED BY <1>7, <1>8, <1>9, <1>10 DEF Works

\* Nothing that the threads do makes a container late.
LEMMA WorksPunctual ==
  ASSUME IInv, Punctual, NEW t \in Threads, Acquire(t) \/ Create(t) \/ Remove(t) \/ Unlocked(t)
  PROVE  Punctual'
<1>1. containers \subseteq Container /\ late = {} /\ \A c \in containers : c.late = "no"
  BY Parts DEF EngineOK, Punctual
<1>2. late' = late
  BY DEF Acquire, Create, Remove, Unlocked, InspectName, AdmitRuntime, CreateContainer,
       StartContainer, PublishRoute, PublishTarget, ReportRuntime, UnwindTarget,
       UnwindRoute, UnwindStop, UnwindRemove, FindRuntime, StopContainer, RemoveContainer,
       RemoveRoute, RemoveTarget, FindToStop, StopRuntime, ListRuntime, Engine
<1> DEFINE Plain == \A c \in containers' : c.late = "no"
<1>3. ASSUME UNCHANGED containers PROVE Plain
  BY <1>1, <1>3
<1>4. ASSUME NEW id, NEW state, SetState(id, state) PROVE Plain
  BY <1>1, <1>4 DEF SetState, Container
<1>5. ASSUME NEW id, Halt(id) PROVE Plain
  BY <1>1, <1>5 DEF Halt, Container
<1>6. ASSUME NEW id, Delete(id) PROVE Plain
  BY <1>1, <1>6 DEF Delete
<1>7. ASSUME NEW pid, NEW label, Added(pid, label, "created", "no") PROVE Plain
  BY <1>1, <1>7 DEF Added
<1> HIDE DEF Plain
<1>8. Plain
  BY <1>3, <1>4, <1>5, <1>6, <1>7 DEF Acquire, Create, Remove, Unlocked, InspectName,
       AdmitRuntime, CreateContainer, StartContainer, PublishRoute, PublishTarget,
       ReportRuntime, UnwindTarget, UnwindRoute, UnwindStop, UnwindRemove, FindRuntime,
       StopContainer, RemoveContainer, RemoveRoute, RemoveTarget, FindToStop, StopRuntime,
       ListRuntime, Engine
<1> QED BY <1>1, <1>2, <1>8 DEF Punctual, Plain

\* A removal that meets no failure and no foreign container answers ok or missing.
LEMMA RemovalSucceeds ==
  ASSUME IInv, Punctual, NEW t \in Threads, Works(t), thread[t].op = "remove",
         thread'[t].pc = "answered", faults' = faults,
         \A c \in containers : c.label # NoRequest
  PROVE  thread'[t].answer \in {"ok", "missing"}
<1>1. /\ \A kind : ~Fault(kind)
      /\ thread \in [Threads -> Thread]
  BY Parts DEF Fault
<1>2. thread[t].pc \notin CreatePoints \cup {"halt", "halting", "listing"}
  BY Parts DEF ThreadOK
<1>3. ASSUME NEW pc, Goto(t, pc), pc # "answered" PROVE FALSE
  BY <1>1, <1>3 DEF Goto, Thread
<1>4. ~Create(t)
  BY <1>2 DEF Create, InspectName, AdmitRuntime, CreateContainer, StartContainer,
       PublishRoute, PublishTarget, ReportRuntime, UnwindTarget, UnwindRoute, UnwindStop,
       UnwindRemove, At, CreatePoints
<1>5. ~Unlocked(t) /\ ~EngineFails(t) /\ ~Acquire(t)
  BY <1>1, <1>2, <1>3 DEF Unlocked, FindToStop, StopRuntime, ListRuntime, At, EngineFails,
       EngineDown, Acquire
<1>6. ~FindRuntime(t)
  <2> SUFFICES ASSUME FindRuntime(t) PROVE FALSE
    OBVIOUS
  <2>1. CASE thread' = [thread EXCEPT ![t].pc = "unroute", ![t].answer = "missing"]
    BY <1>1, <2>1 DEF Thread
  <2>2. ASSUME NEW c, thread' = [thread EXCEPT
                 ![t].pc = IF c.state = "running" THEN "stop" ELSE "remove",
                 ![t].id = c.id, ![t].answer = "ok"]
        PROVE  FALSE
    BY <1>1, <2>2 DEF Thread
  <2> QED BY <2>1, <2>2 DEF FindRuntime, Named
<1>7. ~RemoveRoute(t)
  BY <1>1, <1>3 DEF RemoveRoute
<1>11. CASE StopContainer(t)
  <2>1. Answer(t, "missing")
    BY <1>1, <1>3, <1>11 DEF StopContainer
  <2> QED BY <1>1, <2>1, AnswerMoves DEF Answers
<1>12. CASE RemoveContainer(t)
  <2>1. ~Running(thread[t].id)
    <3>1. \A c \in containers : c.id = thread[t].id => c.state # "running"
      BY <1>12, Parts DEF RemoveContainer, At, Sees, GoneOK, Punctual
    <3> QED BY <3>1 DEF Running, ById
  <2>2. Answer(t, "missing")
    BY <1>1, <1>3, <1>12, <2>1 DEF RemoveContainer
  <2> QED BY <1>1, <2>2, AnswerMoves DEF Answers
<1>8. CASE RemoveTarget(t)
  <2>1. thread[t].pc = "untarget" /\ Answer(t, thread[t].answer)
    BY <1>1, <1>8 DEF RemoveTarget, At
  <2>2. thread[t].answer \in {"ok", "missing"} /\ thread[t].answer \in Answers
    BY <2>1, Parts DEF Sees, GoneOK, Answers
  <2> QED BY <1>1, <2>1, <2>2, AnswerMoves
<1> QED BY <1>4, <1>5, <1>6, <1>7, <1>8, <1>11, <1>12 DEF Works, Remove

-----------------------------------------------------------------------------
(* Steps of the agent *)

\* A fault more or less.
Wanes == faults' \in Nat /\ (faults' = faults \/ (faults > 0 /\ faults' = faults - 1))

LEMMA FaultWanes ==
  ASSUME faults \in Nat, NoFault \/ \E kind : Fault(kind)
  PROVE  Wanes
BY DEF NoFault, Fault, Wanes

\* Faults that did not happen now did not happen before.
LEMMA StillClean ==
  ASSUME IInv, IInv', Wanes, faults' = MaxFaults
  PROVE  faults = MaxFaults /\ faults' = faults
BY Parts DEF Wanes

\* Every step of a thread leaves a number of faults.
LEMMA WorksWanes ==
  ASSUME IInv, NEW t \in Threads, Works(t)
  PROVE  Wanes
<1>1. NoFault \/ (\E kind : Fault(kind)) \/ UNCHANGED faults
  BY DEF Works, Acquire, Create, Remove, Unlocked, EngineFails, EngineDown,
       InspectName, AdmitRuntime, CreateContainer, StartContainer, PublishRoute,
       PublishTarget, ReportRuntime, UnwindTarget, UnwindRoute, UnwindStop, UnwindRemove,
       FindRuntime, StopContainer, RemoveContainer, RemoveRoute, RemoveTarget, FindToStop,
       StopRuntime, ListRuntime, PreparationFails
<1> QED BY <1>1, Parts, FaultWanes DEF NoFault

\* No create is under way for a participant whose removal is certain, other than
\* in the thread that removes it.
LEMMA CertainAlone ==
  ASSUME OInv, mgr.pc = "wait", Op(mgr.job) = "remove", Certain, mgr.pid # NoRequest,
         NEW u \in Threads, Unfinished(u), thread[u].pid = mgr.pid
  PROVE  FALSE
<1>1. mgr.pid \in InFlight
  BY FlightDef
<1>2. CASE seat[mgr.pid] = "active"
  BY <1>1, <1>2, OParts DEF FlightOK
<1>3. CASE faults = MaxFaults
  <2>1. thread[u].op = "create" /\ thread[u].pc # "idle"
    BY OParts, Parts DEF Unfinished, ThreadOK
  <2>2. u = mgr.t
    BY <1>3, <2>1, OParts DEF CleanOK
  <2> QED BY <2>1, <2>2, OParts DEF MgrOK
<1>4. CASE mgr.job = "purge" /\ mgr.pid \notin mgr.racing
  BY <1>1, <1>4, OParts DEF ListOK, Listed
<1> QED BY <1>2, <1>3, <1>4 DEF Certain

\* A step of a thread on its request, with or without a caller.
LEMMA ThreadStepKeeps ==
  ASSUME OInv, NEW t \in Threads, ThreadStep(t)
  PROVE  OInv'
<1>1. /\ Works(t) /\ seat' = seat /\ mgr' = mgr
      /\ Acquire(t) \/ Create(t) \/ Remove(t) \/ Unlocked(t)
  BY DEF ThreadStep, Works
<1>2. IInv /\ IInv' /\ thread \in [Threads -> Thread] /\ Wanes
  BY <1>1, OParts, Parts, ThreadSteps, WorksWanes DEF Kept
<1>3. /\ thread[t].pc \notin {"idle", "answered"} /\ thread'[t].pc # "idle" /\ Onward(t)
      /\ \A u \in Threads : u # t => thread'[u] = thread[u]
      /\ Origin(t)
  BY <1>1, <1>2, WorksOn, OthersStay, WorksOrigin
<1>4. \A u \in Threads : /\ Unfinished(u)' => Unfinished(u)
                         /\ thread'[u].pid = thread[u].pid
                         /\ thread'[u].op = thread[u].op
                         /\ thread'[u].pc = "idle" <=> thread[u].pc = "idle"
  BY <1>3 DEF Unfinished, Onward
<1>5. InFlight' \subseteq InFlight
  BY <1>4, FlightDef, FlightDefNext
<1>6. \A p : HasRuntime(p)' => HasRuntime(p) \/ (Unfinished(t) /\ thread[t].pid = p)
  BY <1>3 DEF HasRuntime, Managed, Origin
<1>7. faults' = MaxFaults => faults = MaxFaults /\ faults' = faults
  BY <1>2, StillClean
<1>8. OrchestrationTypeOK'
  BY <1>1, <1>2 DEF OInv, OrchestrationTypeOK, IInv
<1>9. MgrOK'
  BY <1>1, <1>4, OParts DEF MgrOK, Calling
<1>10. RecordOK'
  BY <1>1, OParts DEF RecordOK, Calling
<1>11. FlightOK'
  BY <1>1, <1>4, <1>5, OParts DEF FlightOK
<1>12. ListOK'
  <2> SUFFICES ASSUME Listed
               PROVE  InFlight' \subseteq mgr.racing
                      /\ \A c \in Managed' : c.pid \in mgr.racing \cup mgr.todo
    BY <1>1 DEF ListOK, Listed
  <2>1. InFlight \subseteq mgr.racing /\ \A c \in Managed : c.pid \in mgr.racing \cup mgr.todo
    BY OParts DEF ListOK
  <2>2. ASSUME NEW c \in Managed' PROVE c.pid \in mgr.racing \cup mgr.todo
    <3>1. HasRuntime(c.pid) \/ (Unfinished(t) /\ thread[t].pid = c.pid)
      BY <1>6 DEF HasRuntime
    <3>2. CASE HasRuntime(c.pid)
      BY <2>1, <3>2 DEF HasRuntime
    <3>3. CASE Unfinished(t) /\ thread[t].pid = c.pid
      BY <2>1, <3>3, FlightDef
    <3> QED BY <3>1, <3>2, <3>3
  <2> QED BY <1>5, <2>1, <2>2
<1>13. CleanOK'
  <2> SUFFICES ASSUME faults' = MaxFaults PROVE CleanOK'
    BY DEF CleanOK
  <2>1. /\ faults = MaxFaults /\ faults' = faults
        /\ up /\ mgr.pc \in {"idle", "send", "wait", "ready"}
        /\ mgr.job \notin {"close", "list", "purge"}
        /\ \A u \in Threads : thread[u].pc # "idle" <=> mgr.pc = "wait" /\ mgr.t = u
        /\ \A c \in containers : c.label # NoRequest /\ seat[c.pid] \in {"starting", "active"}
        /\ \A u \in Threads : thread[u].op = "remove" /\ thread[u].pc = "answered" =>
             thread[u].answer \in {"ok", "missing"}
    BY <1>7, OParts DEF CleanOK
  <2>2. up'
    BY <1>2, <1>3, <2>1, Parts DEF IInv, ThreadOK
  <2>3. ASSUME NEW d \in containers'
        PROVE  d.label # NoRequest /\ seat[d.pid] \in {"starting", "active"}
    <3>1. CASE \E c \in containers : c.pid = d.pid /\ c.label = d.label
      BY <2>1, <3>1
    <3>2. CASE Unfinished(t) /\ d.pid = thread[t].pid /\ d.label = thread[t].req
      <4>1. mgr.pc = "wait" /\ mgr.t = t /\ thread[t].op = "create"
        BY <1>3, <2>1, <3>2 DEF Unfinished
      <4>2. Op(mgr.job) = "create" /\ thread[t].pid = mgr.pid
        BY <1>3, <4>1, OParts DEF MgrOK
      <4>3. seat[mgr.pid] = "starting"
        BY <4>1, <4>2, OParts DEF Op, RecordOK, Calling
      <4>4. thread[t].req \in Requests
        BY <4>1, OParts, Parts DEF ThreadOK
      <4> QED BY <3>2, <4>2, <4>3, <4>4, AgentAssumption
    <3> QED BY <1>3, <3>1, <3>2 DEF Origin
  <2>4. ASSUME NEW u \in Threads, thread'[u].op = "remove", thread'[u].pc = "answered"
        PROVE  thread'[u].answer \in {"ok", "missing"}
    <3>1. CASE u = t
      BY <1>1, <1>2, <1>4, <2>1, <2>4, <3>1, OParts, RemovalSucceeds
    <3>2. CASE u # t
      BY <1>3, <2>1, <2>4, <3>2
    <3> QED BY <3>1, <3>2
  <2> QED BY <1>1, <1>4, <2>1, <2>2, <2>3, <2>4 DEF CleanOK
<1>15. Punctual'
  BY <1>1, <1>2, OParts, WorksPunctual
<1>14. GoneStays'
  <2>1. ASSUME mgr.pc = "wait", Op(mgr.job) = "remove", Certain', HasRuntime(mgr.pid)',
               thread'[mgr.t].pc = "answered", thread'[mgr.t].answer \in {"ok", "missing"}
        PROVE  FALSE
    <3>1. Certain
      BY <1>1, <1>7, <2>1 DEF Certain
    <3>2. mgr.t \in Threads /\ mgr.pid # NoRequest
      BY <2>1, OParts DEF MgrOK, Calling, Op
    <3>3. ~(Unfinished(t) /\ thread[t].pid = mgr.pid)
      BY <2>1, <3>1, <3>2, CertainAlone
    <3>4. HasRuntime(mgr.pid)
      <4>1. \E c \in Managed' : c.pid = mgr.pid
        BY <1>1, <2>1 DEF HasRuntime
      <4> QED BY <1>6, <3>3, <4>1 DEF HasRuntime
    <3>5. mgr.t = t
      BY <1>3, <2>1, <3>1, <3>2, <3>4, OParts DEF GoneStays
    <3>6. thread[t].op = "remove" /\ thread[t].pid = mgr.pid
      BY <1>3, <2>1, <3>5, OParts DEF MgrOK
    <3>7. Answering(t, "remove", {"ok", "missing"})
      BY <1>3, <2>1, <3>5, <3>6 DEF Answering
    <3>8. \A c \in containers' : c.label # NoRequest => c.pid # mgr.pid
      BY <1>1, <1>2, <1>15, <3>6, <3>7, RemovalAnswer DEF Punctual
    <3> QED BY <1>1, <2>1, <3>8 DEF HasRuntime, Managed
  <2>2. ASSUME NEW p \in Participants, seat[p] = "left", HasRuntime(p)'
        PROVE  FALSE
    <3>1. ~HasRuntime(p)
      BY <2>2, OParts DEF GoneStays
    <3>2. p \in InFlight
      BY <1>6, <2>2, <3>1, FlightDef
    <3> QED BY <2>2, <3>2, OParts DEF FlightOK
  <2> QED BY <1>1, <2>1, <2>2 DEF GoneStays
<1> QED BY <1>2, <1>8, <1>9, <1>10, <1>11, <1>12, <1>13, <1>14, <1>15 DEF OInv

\* What the agent's surroundings do, as its callers see it.
LEMMA SurroundingsSeen ==
  ASSUME IInv, Punctual, Surroundings
  PROVE  /\ Punctual'
         /\ thread' = thread \/ \A u \in Threads : thread'[u] = Quiet
         /\ \A d \in containers' : d.label # NoRequest =>
              \E c \in containers : c.pid = d.pid /\ c.label = d.label
         /\ up /\ faults' = MaxFaults =>
              /\ up' /\ thread' = thread
              /\ \A d \in containers' : \E c \in containers : c.pid = d.pid /\ c.label = d.label
         /\ Wanes
<1>1. faults \in Nat /\ faults <= MaxFaults /\ MaxFaults \in Nat
  BY Parts
<1>2. \A kind : Fault(kind) => faults' # MaxFaults
  BY <1>1 DEF Fault
<1>9. containers \subseteq Container /\ late = {} /\ \A c \in containers : c.late = "no"
  BY Parts DEF EngineOK, Punctual
<1>3. CASE Crash
  BY <1>1, <1>2, <1>3, <1>9, FaultWanes DEF Crash, Engine, Punctual
<1>4. CASE Restart
  BY <1>1, <1>4, <1>9, FaultWanes DEF Restart, Engine, Punctual
<1>5. ASSUME NEW c \in containers, ContainerExits(c)
      PROVE  /\ \A d \in containers' : \E e \in containers : e.pid = d.pid /\ e.label = d.label
             /\ thread' = thread /\ up' = up /\ Wanes /\ Punctual'
  <2>1. Restated(c.id)
    BY <1>5, Parts, SetStateRestates DEF ContainerExits
  <2>2. late' = {} /\ \A d \in containers' : d.late = "no"
    BY <1>5, <1>9 DEF ContainerExits, SetState, Container
  <2> QED BY <1>1, <1>5, <2>1, <2>2 DEF Restated, Kin, ContainerExits, Wanes, Rest, Punctual
<1>6. ASSUME NEW pid \in Participants, OutsideCreates(pid)
      PROVE  /\ \A d \in containers' : d.label # NoRequest => d \in containers
             /\ thread' = thread /\ faults' # MaxFaults /\ Wanes /\ Punctual'
  BY <1>1, <1>2, <1>6, <1>9, FaultWanes DEF OutsideCreates, Added, Punctual
<1>10. ASSUME NEW c \in containers, OutsideRemoves(c)
       PROVE  /\ containers' \subseteq containers
              /\ thread' = thread /\ faults' # MaxFaults /\ Wanes /\ Punctual'
  BY <1>1, <1>2, <1>9, <1>10, FaultWanes DEF OutsideRemoves, Delete, Punctual
<1>11. \A e \in late : ~TakesEffect(e)
  BY <1>9
<1>7. CASE \E c \in containers : ContainerExits(c)
  BY <1>5, <1>7
<1>8. CASE \E pid \in Participants : OutsideCreates(pid)
  BY <1>6, <1>8
<1>12. CASE \E c \in containers : OutsideRemoves(c)
  BY <1>10, <1>12
<1> QED BY <1>3, <1>4, <1>7, <1>8, <1>11, <1>12 DEF Surroundings

\* Crashes and restarts of the agent, exits, and containers of others.
LEMMA SurroundingsKeep ==
  ASSUME OInv, AgentSurroundings
  PROVE  OInv'
<1>1. Surroundings /\ seat' = seat /\ mgr' = mgr
  BY DEF AgentSurroundings
<1>2. IInv /\ IInv'
  BY <1>1, OParts, SurroundingsStep DEF Kept
<1>3. /\ Punctual'
      /\ thread' = thread \/ \A u \in Threads : thread'[u] = Quiet
      /\ \A d \in containers' : d.label # NoRequest =>
           \E c \in containers : c.pid = d.pid /\ c.label = d.label
      /\ up /\ faults' = MaxFaults =>
           /\ up' /\ thread' = thread
           /\ \A d \in containers' : \E c \in containers : c.pid = d.pid /\ c.label = d.label
      /\ Wanes
  BY <1>1, <1>2, OParts, SurroundingsSeen
<1>4. \A u \in Threads : thread'[u] = thread[u] \/ thread'[u] = Quiet
  BY <1>3
<1>5. /\ \A u \in Threads : Unfinished(u)' => Unfinished(u) /\ thread'[u] = thread[u]
      /\ InFlight' \subseteq InFlight
  BY <1>4, FlightDef, FlightDefNext DEF Unfinished, Quiet
<1>6. \A p : HasRuntime(p)' => HasRuntime(p)
  BY <1>3 DEF HasRuntime, Managed
<1>7. faults' = MaxFaults => faults = MaxFaults
  BY <1>2, <1>3, StillClean
<1>8. OrchestrationTypeOK' /\ RecordOK'
  BY <1>1, <1>2, OParts DEF OInv, OrchestrationTypeOK, IInv, RecordOK, Calling
<1>9. MgrOK'
  BY <1>1, <1>4, OParts DEF MgrOK, Calling, Quiet
<1>10. FlightOK'
  BY <1>1, <1>5, OParts DEF FlightOK
<1>11. ListOK'
  BY <1>1, <1>5, <1>6, OParts DEF ListOK, Listed, HasRuntime
<1>12. CleanOK'
  <2> SUFFICES ASSUME faults' = MaxFaults PROVE CleanOK'
    BY DEF CleanOK
  <2>1. faults = MaxFaults /\ up
    BY <1>7, OParts DEF CleanOK
  <2> QED BY <1>1, <1>3, <2>1, OParts DEF CleanOK
<1>13. GoneStays'
  <2>1. ASSUME mgr.pc = "wait", Op(mgr.job) = "remove", Certain', HasRuntime(mgr.pid)',
               thread'[mgr.t].pc = "answered", thread'[mgr.t].answer \in {"ok", "missing"}
        PROVE  FALSE
    <3>1. Certain
      BY <1>1, <1>7, <2>1 DEF Certain
    <3>2. mgr.t \in Threads
      BY <2>1, OParts DEF MgrOK
    <3>3. thread'[mgr.t] = thread[mgr.t]
      BY <1>4, <2>1, <3>2 DEF Quiet
    <3>4. \E c \in Managed' : c.pid = mgr.pid
      BY <1>1, <2>1 DEF HasRuntime
    <3>5. HasRuntime(mgr.pid)
      BY <1>6, <3>4 DEF HasRuntime
    <3> QED BY <2>1, <3>1, <3>3, <3>5, OParts DEF GoneStays
  <2> QED BY <1>1, <1>6, <2>1, OParts DEF GoneStays
<1> QED BY <1>2, <1>3, <1>8, <1>9, <1>10, <1>11, <1>12, <1>13 DEF OInv

-----------------------------------------------------------------------------
(* Decisions of the manager *)

\* The agent is not touched: the invariant's view of it stays.
AgentSame ==
  /\ IInv' /\ Punctual' /\ containers' = containers /\ thread' = thread /\ up' = up
  /\ faults' = MaxFaults => faults = MaxFaults

\* A step of the manager alone.
LEMMA AgentStays ==
  ASSUME OInv, UNCHANGED Agent, UNCHANGED faults \/ \E kind : Fault(kind)
  PROVE  AgentSame
<1>1. UNCHANGED <<Engine, Files, thread, Rest>>
  BY DEF Agent
<1>2. IInv /\ (NoFault \/ \E kind : Fault(kind))
  BY OParts DEF NoFault
<1>3. IInv' /\ Wanes
  BY <1>1, <1>2, FaultOnly, Parts, FaultWanes DEF Kept
<1>4. faults' = MaxFaults => faults = MaxFaults
  BY <1>2, <1>3, StillClean
<1> QED BY <1>1, <1>3, <1>4, OParts DEF AgentSame, Engine, Rest, Punctual

\* Creates and runtimes are what they were.
LEMMA SameSeen ==
  ASSUME AgentSame
  PROVE  /\ InFlight' = InFlight /\ Managed' = Managed
         /\ \A u \in Threads : Unfinished(u)' <=> Unfinished(u)
         /\ \A p : HasRuntime(p)' <=> HasRuntime(p)
BY DEF AgentSame, InFlight, Managed, Unfinished, HasRuntime, At

\* A call other than a create is begun, for a record that allows it.
LEMMA UndertakeKeeps ==
  ASSUME OInv, AgentSame, UNCHANGED seat,
         NEW job \in Jobs \ {"none", "create"}, NEW pid \in Participants \cup {NoRequest},
         Undertake(job, pid), job = "list" <=> pid = NoRequest,
         job = "cleanup" => seat[pid] = "starting",
         job \in {"retire", "fail"} => seat[pid] = "active",
         job = "close" => seat[pid] \in {"starting", "active"},
         job = "purge" => mgr.pc = "purging",
         job \in {"close", "list"} => mgr.pc = "booting",
         job \in {"cleanup", "retire", "fail"} => mgr.pc \in {"idle", "ready"}
  PROVE  OInv'
<1>1. /\ mgr'.pc = "send" /\ mgr'.job = job /\ mgr'.pid = pid
      /\ mgr'.t = mgr.t /\ mgr'.todo = mgr.todo /\ mgr'.racing = mgr.racing
  BY OParts DEF Undertake
<1>2. OrchestrationTypeOK'
  BY OParts DEF OrchestrationTypeOK, AgentSame, IInv, Undertake
<1>3. MgrOK' /\ RecordOK'
  BY <1>1 DEF MgrOK, RecordOK, Calling
<1>4. FlightOK'
  BY <1>1, OParts, SameSeen DEF FlightOK
<1>5. ListOK'
  BY <1>1, OParts, SameSeen DEF ListOK, Listed
<1>6. CleanOK'
  BY <1>1, OParts DEF CleanOK, AgentSame, Jobs
<1>7. GoneStays'
  BY <1>1, OParts, SameSeen DEF GoneStays
<1> QED BY <1>2, <1>3, <1>4, <1>5, <1>6, <1>7 DEF OInv, AgentSame

\* The manager comes to rest after a fault, or ends.
LEMMA RestKeeps ==
  ASSUME OInv, AgentSame, UNCHANGED seat, faults' # MaxFaults,
         NEW pc \in {"idle", "down", "booting"}, mgr' = [Idle EXCEPT !.pc = pc]
  PROVE  OInv'
<1>1. /\ mgr'.pc = pc /\ mgr'.job = "none" /\ mgr'.pid = NoRequest
  BY DEF Idle
<1>2. OrchestrationTypeOK'
  BY OParts DEF OrchestrationTypeOK, AgentSame, IInv, Idle, Jobs
<1>3. MgrOK' /\ RecordOK' /\ ListOK' /\ CleanOK'
  BY <1>1 DEF MgrOK, RecordOK, Calling, ListOK, Listed, CleanOK
<1>4. FlightOK' /\ GoneStays'
  BY <1>1, OParts, SameSeen DEF FlightOK, GoneStays
<1> QED BY <1>2, <1>3, <1>4 DEF OInv, AgentSame

\* A participant gets its record before its runtime.
LEMMA StartKeeps ==
  ASSUME OInv, NEW pid \in Participants, StartParticipant(pid)
  PROVE  OInv'
<1>1. AgentSame
  BY AgentStays DEF StartParticipant
<1>2. /\ mgr'.pc = "send" /\ mgr'.job = "create" /\ mgr'.pid = pid /\ pid # NoRequest
      /\ mgr.pc = "idle" /\ seat[pid] = "free"
      /\ seat' = [seat EXCEPT ![pid] = "starting"]
  BY OParts, OrchestrationAssumption DEF StartParticipant, Undertake
<1>3. \A p \in Participants : seat'[p] = IF p = pid THEN "starting" ELSE seat[p]
  BY <1>2, OParts
<1>4. \A c \in containers : c.pid \in Participants
  BY OParts, Parts DEF EngineOK, Container
<1>5. OrchestrationTypeOK'
  BY <1>1, <1>2, OParts DEF OrchestrationTypeOK, AgentSame, IInv, StartParticipant, Undertake,
       Seats, Jobs
<1>6. MgrOK' /\ RecordOK'
  BY <1>2, <1>3 DEF MgrOK, RecordOK, Calling
<1>7. FlightOK'
  <2>1. \A p \in InFlight : seat[p] \in {"starting", "error", "expired"}
    BY OParts DEF FlightOK
  <2>2. pid \notin InFlight
    BY <1>2, <2>1
  <2>3. InFlight \subseteq Participants
    BY FlightDef, OParts, Parts, AgentAssumption DEF Unfinished, ThreadOK
  <2> QED BY <1>1, <1>2, <1>3, <2>1, <2>2, <2>3, SameSeen DEF FlightOK
<1>8. ListOK'
  BY <1>2 DEF ListOK, Listed
<1>9. CleanOK'
  BY <1>1, <1>2, <1>3, <1>4, OParts DEF CleanOK, AgentSame
<1>10. GoneStays'
  BY <1>1, <1>2, <1>3, OParts, SameSeen DEF GoneStays
<1> QED BY <1>1, <1>5, <1>6, <1>7, <1>8, <1>9, <1>10 DEF OInv, AgentSame

\* A record changes while no call is made for it: it becomes active once its
\* runtime is ready, or expires.
LEMMA RecordKeeps ==
  ASSUME OInv, AgentSame, NEW pid \in Participants, NEW s \in {"active", "expired"},
         seat' = [seat EXCEPT ![pid] = s],
         s = "active" => pid \notin InFlight /\ mgr.pc = "ready" /\ mgr' = Idle,
         s = "expired" => mgr.pc \in {"down", "booting"} /\ mgr' = mgr
  PROVE  OInv'
<1>1. \A p \in Participants : seat'[p] = IF p = pid THEN s ELSE seat[p]
  BY OParts
<1>2. /\ mgr'.pc \in {"idle", "down", "booting"}
      /\ s = "active" => mgr'.pc = "idle" /\ mgr'.job = "none"
  BY DEF Idle
<1>3. \A c \in containers : c.pid \in Participants
  BY OParts, Parts DEF EngineOK, Container
<1>4. InFlight \subseteq Participants
  BY FlightDef, OParts, Parts, AgentAssumption DEF Unfinished, ThreadOK
<1>5. OrchestrationTypeOK'
  <2>1. seat' \in [Participants -> Seats]
    BY OParts DEF Seats
  <2> QED BY <2>1, OParts DEF OrchestrationTypeOK, AgentSame, IInv, Idle, Jobs
<1>6. MgrOK' /\ RecordOK' /\ ListOK'
  BY <1>2 DEF MgrOK, RecordOK, Calling, ListOK, Listed
<1>7. FlightOK'
  BY <1>1, <1>2, <1>4, OParts, SameSeen DEF FlightOK
<1>8. CleanOK'
  BY <1>1, <1>2, <1>3, OParts DEF CleanOK, AgentSame
<1>9. GoneStays'
  BY <1>1, <1>2, OParts, SameSeen DEF GoneStays
<1> QED BY <1>5, <1>6, <1>7, <1>8, <1>9 DEF OInv, AgentSame

\* Every decision of the manager.
LEMMA DecideKeeps ==
  ASSUME OInv, Decide
  PROVE  OInv'
<1>1. ASSUME NEW pid \in Participants, Retire(pid) \/ Sweep(pid) \/ SweepBlind(pid)
      PROVE  OInv'
  <2>1. AgentSame /\ UNCHANGED seat /\ mgr.pc = "idle" /\ seat[pid] = "active"
    BY <1>1, AgentStays DEF Retire, Sweep, SweepBlind
  <2>2. Undertake("retire", pid) \/ Undertake("fail", pid)
    BY <1>1 DEF Retire, Sweep, SweepBlind
  <2>3. {"retire", "fail"} \subseteq Jobs \ {"none", "create"} /\ pid # NoRequest
    BY OrchestrationAssumption DEF Jobs
  <2> QED BY <2>1, <2>2, <2>3, UndertakeKeeps
<1>2. ASSUME NEW pid \in Participants, CloseRecord(pid) PROVE OInv'
  <2>1. /\ AgentSame /\ UNCHANGED seat /\ mgr.pc = "booting"
        /\ seat[pid] \in {"starting", "active"} /\ Undertake("close", pid)
    BY <1>2, AgentStays DEF CloseRecord
  <2>2. "close" \in Jobs \ {"none", "create"} /\ pid # NoRequest
    BY OrchestrationAssumption DEF Jobs
  <2> QED BY <2>1, <2>2, UndertakeKeeps
<1>3. ASSUME NEW pid \in Participants, Purge(pid) PROVE OInv'
  <2>1. /\ AgentSame /\ UNCHANGED seat /\ mgr.pc = "purging" /\ Undertake("purge", pid)
    BY <1>3, AgentStays DEF Purge
  <2>2. "purge" \in Jobs \ {"none", "create"} /\ pid # NoRequest
    BY OrchestrationAssumption DEF Jobs
  <2> QED BY <2>1, <2>2, UndertakeKeeps
<1>4. CASE ListRuntimes
  <2>1. /\ AgentSame /\ UNCHANGED seat /\ mgr.pc = "booting" /\ Undertake("list", NoRequest)
    BY <1>4, AgentStays DEF ListRuntimes
  <2>2. "list" \in Jobs \ {"none", "create"}
    BY DEF Jobs
  <2> QED BY <2>1, <2>2, UndertakeKeeps
<1>5. CASE ReadinessFails
  <2>1. /\ AgentSame /\ UNCHANGED seat /\ mgr.pc = "ready" /\ Undertake("cleanup", mgr.pid)
    BY <1>5, AgentStays DEF ReadinessFails
  <2>2. /\ "cleanup" \in Jobs \ {"none", "create"} /\ mgr.pid # NoRequest
        /\ mgr.pid \in Participants /\ seat[mgr.pid] = "starting"
    BY <2>1, OParts DEF Jobs, MgrOK, RecordOK
  <2> QED BY <2>1, <2>2, UndertakeKeeps
<1>6. CASE BecomeActive
  <2>1. /\ AgentSame /\ mgr.pc = "ready" /\ mgr' = Idle
        /\ seat' = [seat EXCEPT ![mgr.pid] = "active"]
    BY <1>6, AgentStays DEF BecomeActive
  <2>2. mgr.pid \in Participants /\ mgr.pid \notin InFlight
    BY <2>1, OParts DEF MgrOK, FlightOK
  <2> QED BY <2>1, <2>2, RecordKeeps
<1>7. ASSUME NEW pid \in Participants, RecordExpires(pid) PROVE OInv'
  <2>1. /\ AgentSame /\ mgr.pc \in {"down", "booting"} /\ mgr' = mgr
        /\ seat' = [seat EXCEPT ![pid] = "expired"]
    BY <1>7, AgentStays DEF RecordExpires
  <2> QED BY <2>1, RecordKeeps
<1>8. CASE ManagerCrash
  <2>1. /\ AgentSame /\ UNCHANGED seat /\ Fault("crash") /\ mgr' = [Idle EXCEPT !.pc = "down"]
    BY <1>8, AgentStays DEF ManagerCrash, Down
  <2>2. faults' # MaxFaults
    BY <2>1, OParts, Parts DEF Fault
  <2> QED BY <2>1, <2>2, RestKeeps
<1>9. CASE ManagerRestart
  <2>1. /\ AgentSame /\ UNCHANGED seat /\ mgr.pc = "down" /\ UNCHANGED faults
        /\ mgr' = [Idle EXCEPT !.pc = "booting"]
    BY <1>9, AgentStays DEF ManagerRestart
  <2>2. faults' # MaxFaults
    BY <2>1, OParts DEF CleanOK
  <2> QED BY <2>1, <2>2, RestKeeps
<1>10. CASE Ready
  <2>1. /\ AgentSame /\ UNCHANGED seat /\ mgr.pc = "purging" /\ UNCHANGED faults
        /\ mgr' = [Idle EXCEPT !.pc = "idle"]
    BY <1>10, AgentStays DEF Ready, Idle
  <2>2. faults' # MaxFaults
    BY <2>1, OParts DEF CleanOK
  <2> QED BY <2>1, <2>2, RestKeeps
<1> QED BY <1>1, <1>2, <1>3, <1>4, <1>5, <1>6, <1>7, <1>8, <1>9, <1>10, StartKeeps DEF Decide

-----------------------------------------------------------------------------
(* Calls *)

\* The request reaches the agent.
LEMMA SendKeeps ==
  ASSUME OInv, NEW t \in Threads, Send(t)
  PROVE  OInv'
<1>1. PICK req \in {r \in Requests : r.pid = mgr.pid} \cup {NoRequest} :
        /\ req = NoRequest <=> mgr.job # "create"
        /\ Accept(t, Op(mgr.job), mgr.pid, req)
  BY DEF Send
<1>2. /\ mgr.pc = "send" /\ seat' = seat /\ calls' = calls
      /\ mgr.job # "none" /\ mgr.job = "list" <=> mgr.pid = NoRequest
  BY OParts DEF Send, MgrOK, Calling
<1>3. /\ mgr'.pc = "wait" /\ mgr'.job = mgr.job /\ mgr'.pid = mgr.pid /\ mgr'.t = t
      /\ mgr'.todo = IF mgr.job = "list" THEN {c.pid : c \in Managed} ELSE mgr.todo
      /\ mgr'.racing = IF mgr.job = "list" THEN InFlight ELSE mgr.racing
  BY OParts DEF Send
<1>4. /\ IInv /\ thread \in [Threads -> Thread] /\ calls \in Nat
      /\ mgr.pid # NoRequest => mgr.pid \in Participants
  BY OParts, Parts
<1>5. /\ Op(mgr.job) \in {"create", "remove", "list"}
      /\ mgr.job = "create" <=> Op(mgr.job) = "create"
      /\ mgr.job = "list" <=> Op(mgr.job) = "list"
  BY DEF Op
<1>6. IInv'
  <2>1. \/ Op(mgr.job) = "create" /\ req \in Requests /\ mgr.pid = req.pid
        \/ Op(mgr.job) \in {"remove", "stop"} /\ req = NoRequest /\ mgr.pid \in Participants
        \/ Op(mgr.job) = "list" /\ req = NoRequest /\ mgr.pid = NoRequest
    BY <1>1, <1>2, <1>4, <1>5
  <2> QED BY <1>1, <1>2, <1>4, <2>1, AcceptStep DEF Kept
<1>7. /\ thread[t].pc = "idle" /\ up
      /\ \A u \in Threads : u # t => thread'[u] = thread[u]
      /\ thread'[t].pc \in {"halt", "listing", "waiting"}
      /\ thread'[t].op = Op(mgr.job) /\ thread'[t].pid = mgr.pid
      /\ containers' = containers /\ up' = up /\ faults' = faults
  BY <1>1, <1>4, <1>5, AcceptMoves DEF Engine
<1>8. Managed' = Managed /\ \A p : HasRuntime(p)' <=> HasRuntime(p)
  BY <1>7 DEF Managed, HasRuntime
<1>9. thread[t].op = "none"
  BY <1>4, <1>7, Parts DEF ThreadOK
<1>10. /\ \A u \in Threads : Unfinished(u)' <=> Unfinished(u) \/ (u = t /\ mgr.job = "create")
       /\ \A u \in Threads : Unfinished(u) => u # t
  BY <1>5, <1>7, <1>9 DEF Unfinished
<1>11. \A p : p \in InFlight' <=> p \in InFlight \/ (mgr.job = "create" /\ p = mgr.pid)
  BY <1>7, <1>10, FlightDef, FlightDefNext
<1>12. InFlight \subseteq Participants /\ {c.pid : c \in Managed} \subseteq Participants
  <2>1. InFlight \subseteq Participants
    BY <1>4, FlightDef, Parts, AgentAssumption DEF Unfinished, ThreadOK
  <2> QED BY <1>4, <2>1, Parts DEF EngineOK, Container, Managed
<1>13. OrchestrationTypeOK'
  BY <1>2, <1>6, <1>12, OParts DEF OrchestrationTypeOK, IInv, Send
<1>14. MgrOK' /\ RecordOK'
  BY <1>2, <1>3, <1>7, OParts DEF MgrOK, RecordOK, Calling
<1>15. FlightOK'
  <2>1. \A p \in InFlight' : seat[p] \in {"starting", "error", "expired"}
    BY <1>2, <1>11, OParts DEF FlightOK, RecordOK, Calling
  <2>2. ASSUME mgr.job = "create", NEW u \in Threads, Unfinished(u)', thread'[u].pid = mgr.pid
        PROVE  u = t
    BY <1>2, <1>7, <1>10, <2>2, FlightDef, OParts DEF FlightOK
  <2> QED BY <1>2, <1>3, <2>1, <2>2 DEF FlightOK
<1>16. ListOK'
  <2>1. CASE mgr.job = "list"
    BY <1>3, <1>8, <1>11, <2>1 DEF ListOK
  <2>2. CASE mgr.job = "purge"
    BY <1>2, <1>3, <1>8, <1>11, <2>2, OParts DEF ListOK, Listed
  <2>3. CASE mgr.job \notin {"list", "purge"}
    BY <1>3, <2>3 DEF ListOK, Listed
  <2> QED BY <2>1, <2>2, <2>3
<1>17. CleanOK'
  BY <1>2, <1>3, <1>7, OParts DEF CleanOK
<1>18. GoneStays'
  BY <1>2, <1>3, <1>7, <1>8, OParts DEF GoneStays
<1>19. Punctual'
  BY <1>1, <1>4, <1>5, OParts, AcceptMoves DEF Engine, Punctual
<1> QED BY <1>6, <1>13, <1>14, <1>15, <1>16, <1>17, <1>18, <1>19 DEF OInv

\* What the manager may see of the agent when a call ends.
Ended ==
  /\ IInv' /\ Punctual' /\ containers' = containers /\ up' = up
  /\ faults' = MaxFaults => faults = MaxFaults
  /\ \A u \in Threads : thread'[u] = thread[u] \/ (u = mgr.t /\ thread'[u] = Quiet)
  /\ faults' = MaxFaults => \A u \in Threads : thread'[u].pc = "idle"

\* Creates and runtimes at the end of a call.
LEMMA EndedSeen ==
  ASSUME Ended
  PROVE  /\ InFlight' \subseteq InFlight /\ Managed' = Managed
         /\ \A p : HasRuntime(p)' <=> HasRuntime(p)
         /\ \A u \in Threads : Unfinished(u)' => Unfinished(u) /\ thread'[u] = thread[u]
<1>1. \A u \in Threads : Unfinished(u)' => Unfinished(u) /\ thread'[u] = thread[u]
  BY DEF Ended, Unfinished, Quiet
<1>2. InFlight' \subseteq InFlight
  BY <1>1, FlightDef, FlightDefNext
<1> QED BY <1>1, <1>2 DEF Ended, Managed, HasRuntime

\* A call that failed: the start is cleaned up, a startup ends, and otherwise the
\* record stays as it is.
LEMMA FailureKeeps ==
  ASSUME OInv, Calling, Ended, AfterFailure,
         faults' = MaxFaults => mgr.job = "create"
  PROVE  OInv'
<1>1. /\ mgr.job = "create" => mgr' = [mgr EXCEPT !.pc = "send", !.job = "cleanup"]
      /\ mgr.job \in {"close", "list", "purge"} => mgr' = [Idle EXCEPT !.pc = "down"]
      /\ mgr.job \notin {"create", "close", "list", "purge"} => mgr' = Idle
      /\ mgr.job # "cleanup" => seat' = seat
      /\ mgr.job = "cleanup" => seat' = [seat EXCEPT ![mgr.pid] = "error"]
  BY DEF AfterFailure, Failed, Down
<1>2. /\ mgr.job = "create" => /\ mgr'.pc = "send" /\ mgr'.job = "cleanup"
                               /\ mgr'.pid = mgr.pid
      /\ mgr.job # "create" => mgr'.pc \in {"idle", "down"}
  <2>1. CASE mgr.job = "create"
    BY <1>1, <2>1, OParts
  <2>2. CASE mgr.job \in {"close", "list", "purge"}
    BY <1>1, <2>2 DEF Idle
  <2>3. CASE mgr.job \notin {"create", "close", "list", "purge"}
    BY <1>1, <2>3 DEF Idle
  <2> QED BY <2>1, <2>2, <2>3
<1>3. /\ mgr.job # "none" /\ (mgr.job = "list" <=> mgr.pid = NoRequest)
      /\ mgr.job \in {"create", "cleanup"} => seat[mgr.pid] = "starting"
  BY OParts DEF MgrOK, RecordOK
<1>4. \A p \in Participants :
        seat'[p] = IF mgr.job = "cleanup" /\ p = mgr.pid THEN "error" ELSE seat[p]
  BY <1>1, <1>3, OParts
<1>5. OrchestrationTypeOK'
  <2>1. seat' \in [Participants -> Seats]
    BY <1>1, OParts DEF Seats
  <2>2. mgr' \in [pc : {"idle", "send", "wait", "ready", "down", "booting", "purging"},
                  job : Jobs, pid : Participants \cup {NoRequest},
                  t : Threads \cup {NoRequest}, todo : SUBSET Participants,
                  racing : SUBSET Participants]
    <3>1. CASE mgr.job = "create"
      BY <1>1, <3>1, OParts DEF Jobs
    <3>2. CASE mgr.job \in {"close", "list", "purge"}
      BY <1>1, <3>2 DEF Idle, Jobs
    <3>3. CASE mgr.job \notin {"create", "close", "list", "purge"}
      BY <1>1, <3>3 DEF Idle, Jobs
    <3> QED BY <3>1, <3>2, <3>3
  <2> QED BY <2>1, <2>2 DEF OrchestrationTypeOK, Ended, IInv
<1>6. MgrOK' /\ RecordOK'
  BY <1>1, <1>2, <1>3 DEF MgrOK, RecordOK, Calling
<1>7. InFlight \subseteq Participants
  BY FlightDef, OParts, Parts, AgentAssumption DEF Unfinished, ThreadOK
<1>8. FlightOK'
  BY <1>2, <1>4, <1>7, OParts, EndedSeen DEF FlightOK
<1>9. ListOK'
  BY <1>2 DEF ListOK, Listed
<1>10. CleanOK'
  BY <1>1, <1>2, OParts DEF CleanOK, Ended
<1>11. GoneStays'
  BY <1>2, <1>4, OParts, EndedSeen DEF GoneStays
<1> QED BY <1>5, <1>6, <1>8, <1>9, <1>10, <1>11 DEF OInv, Ended

\* A removal that succeeded closes or fails the record, and the manager rests.
LEMMA SettleKeeps ==
  ASSUME OInv, Ended, NEW pid \in Participants, NEW s \in {"error", "left"},
         NEW pc \in {"idle", "booting"}, mgr' = [Idle EXCEPT !.pc = pc],
         seat' = [seat EXCEPT ![pid] = s],
         s = "left" => ~HasRuntime(pid) /\ pid \notin InFlight,
         faults' = MaxFaults => pc = "idle" /\ ~HasRuntime(pid)
  PROVE  OInv'
<1>1. mgr'.pc = pc /\ mgr'.job = "none"
  BY DEF Idle
<1>2. \A p \in Participants : seat'[p] = IF p = pid THEN s ELSE seat[p]
  BY OParts
<1>3. OrchestrationTypeOK'
  <2>1. seat' \in [Participants -> Seats]
    BY OParts DEF Seats
  <2> QED BY <2>1, OParts DEF OrchestrationTypeOK, Ended, IInv, Idle, Jobs
<1>4. MgrOK' /\ RecordOK' /\ ListOK'
  BY <1>1 DEF MgrOK, RecordOK, Calling, ListOK, Listed
<1>5. InFlight \subseteq Participants
  BY FlightDef, OParts, Parts, AgentAssumption DEF Unfinished, ThreadOK
<1>6. FlightOK'
  BY <1>1, <1>2, <1>5, OParts, EndedSeen DEF FlightOK
<1>7. CleanOK'
  <2> SUFFICES ASSUME faults' = MaxFaults PROVE CleanOK'
    BY DEF CleanOK
  <2>1. faults = MaxFaults /\ containers' = containers /\ up' = up
        /\ \A u \in Threads : thread'[u].pc = "idle"
    BY DEF Ended
  <2>2. /\ up /\ \A c \in containers : c.label # NoRequest
                                       /\ seat[c.pid] \in {"starting", "active"}
    BY <2>1, OParts DEF CleanOK
  <2>3. \A c \in containers : c.pid # pid /\ c.pid \in Participants
    BY <2>2, OParts, Parts DEF HasRuntime, Managed, EngineOK, Container
  <2> QED BY <1>1, <1>2, <2>1, <2>2, <2>3 DEF CleanOK
<1>8. GoneStays'
  BY <1>1, <1>2, OParts, EndedSeen DEF GoneStays
<1> QED BY <1>3, <1>4, <1>6, <1>7, <1>8 DEF OInv, Ended

\* A call that succeeded.
LEMMA SuccessKeeps ==
  ASSUME OInv, mgr.pc = "wait", thread[mgr.t].pc = "answered",
         Succeeded(thread[mgr.t].answer), AfterSuccess, Ended, thread'[mgr.t] = Quiet
  PROVE  OInv'
<1> DEFINE MgrType == [pc : {"idle", "send", "wait", "ready", "down", "booting", "purging"},
                       job : Jobs, pid : Participants \cup {NoRequest},
                       t : Threads \cup {NoRequest}, todo : SUBSET Participants,
                       racing : SUBSET Participants]
<1>1. /\ mgr.job # "none" /\ (mgr.job = "list" <=> mgr.pid = NoRequest)
      /\ mgr.t \in Threads /\ mgr \in MgrType
      /\ mgr.job # "list" => mgr.pid \in Participants
  BY OParts DEF MgrOK, Calling
<1>2. Op(mgr.job) = "remove" =>
        thread[mgr.t].answer \in {"ok", "missing"} /\ (Certain => ~HasRuntime(mgr.pid))
  BY OParts DEF Succeeded, GoneStays
<1>3. faults' = MaxFaults => faults = MaxFaults
  BY DEF Ended
<1>4. CASE mgr.job = "create"
  <2>1. seat' = seat /\ mgr' = [mgr EXCEPT !.pc = "ready"]
    BY <1>4 DEF AfterSuccess
  <2>2. mgr'.pc = "ready" /\ mgr'.job = "create" /\ mgr'.pid = mgr.pid /\ mgr' \in MgrType
    BY <1>1, <1>4, <2>1
  <2>3. OrchestrationTypeOK'
    BY <2>1, <2>2, OParts DEF OrchestrationTypeOK, Ended, IInv
  <2>4. MgrOK' /\ RecordOK' /\ ListOK'
    BY <1>1, <1>4, <2>1, <2>2, OParts DEF MgrOK, RecordOK, Calling, ListOK, Listed
  <2>5. mgr.pid \notin InFlight'
    <3> SUFFICES ASSUME NEW u \in Threads, Unfinished(u)', thread'[u].pid = mgr.pid
                 PROVE  FALSE
      BY FlightDefNext
    <3>1. Unfinished(u) /\ thread'[u] = thread[u]
      BY EndedSeen
    <3>2. u = mgr.t
      BY <1>4, <3>1, OParts DEF FlightOK
    <3> QED BY <3>1, <3>2 DEF Unfinished
  <2>6. FlightOK'
    BY <2>1, <2>2, <2>5, OParts, EndedSeen DEF FlightOK
  <2>7. CleanOK'
    BY <2>1, <2>2, OParts DEF CleanOK, Ended
  <2>8. GoneStays'
    BY <2>1, <2>2, OParts, EndedSeen DEF GoneStays
  <2> QED BY <2>3, <2>4, <2>6, <2>7, <2>8 DEF OInv, Ended
<1>5. CASE mgr.job \in {"list", "purge"}
  <2>1. /\ seat' = seat
        /\ mgr' = IF mgr.job = "list" THEN [mgr EXCEPT !.pc = "purging"]
                    ELSE [mgr EXCEPT !.pc = "purging", !.todo = @ \ {mgr.pid}]
    BY <1>5 DEF AfterSuccess
  <2>2. /\ mgr'.pc = "purging" /\ mgr'.racing = mgr.racing
        /\ mgr.todo \subseteq mgr'.todo \cup (IF mgr.job = "list" THEN {} ELSE {mgr.pid})
        /\ mgr' \in MgrType
    <3>1. CASE mgr.job = "list"
      BY <1>1, <2>1, <3>1
    <3>2. CASE mgr.job = "purge"
      BY <1>1, <2>1, <3>2
    <3> QED BY <1>5, <3>1, <3>2
  <2>3. OrchestrationTypeOK'
    BY <2>1, <2>2, OParts DEF OrchestrationTypeOK, Ended, IInv
  <2>4. MgrOK' /\ RecordOK'
    BY <2>2 DEF MgrOK, RecordOK, Calling
  <2>5. /\ InFlight \subseteq mgr.racing
        /\ \A c \in Managed : c.pid \in mgr.racing \cup mgr.todo
    BY <1>5, OParts DEF ListOK, Listed
  <2>6. mgr.job = "purge" => mgr.pid \in mgr.racing \/ ~HasRuntime(mgr.pid)
    BY <1>2 DEF Op, Certain
  <2>7. ListOK'
    <3>1. ASSUME NEW c \in Managed PROVE c.pid \in mgr'.racing \cup mgr'.todo
      BY <1>5, <2>2, <2>5, <2>6 DEF HasRuntime
    <3> QED BY <2>2, <2>5, <3>1, EndedSeen DEF ListOK
  <2>8. FlightOK' /\ GoneStays'
    BY <2>1, <2>2, OParts, EndedSeen DEF FlightOK, GoneStays
  <2>9. CleanOK'
    BY <1>3, <1>5, OParts DEF CleanOK
  <2> QED BY <2>3, <2>4, <2>7, <2>8, <2>9 DEF OInv, Ended
<1>6. CASE mgr.job = "cleanup"
  <2>1. seat' = [seat EXCEPT ![mgr.pid] = "error"] /\ mgr' = [Idle EXCEPT !.pc = "idle"]
    <3>1. seat' = [seat EXCEPT ![mgr.pid] = "error"] /\ mgr' = Idle
      BY <1>6 DEF AfterSuccess
    <3>2. Idle = [Idle EXCEPT !.pc = "idle"]
      BY DEF Idle
    <3> QED BY <3>1, <3>2
  <2>2. faults' = MaxFaults => ~HasRuntime(mgr.pid)
    BY <1>2, <1>3, <1>6 DEF Op, Certain
  <2> QED BY <1>1, <1>6, <2>1, <2>2, SettleKeeps
<1>7. CASE mgr.job \in {"retire", "fail"}
  <2>1. seat[mgr.pid] = "active" /\ ~HasRuntime(mgr.pid)
    BY <1>2, <1>7, OParts DEF RecordOK, Calling, Op, Certain
  <2>2. mgr.pid \notin InFlight
    BY <2>1, OParts DEF FlightOK
  <2>3. /\ seat' = [seat EXCEPT ![mgr.pid] = IF mgr.job = "retire" THEN "left" ELSE "error"]
        /\ mgr' = [Idle EXCEPT !.pc = "idle"]
    BY <1>7 DEF AfterSuccess, Gone, Idle
  <2> QED BY <1>1, <1>7, <2>1, <2>2, <2>3, SettleKeeps
<1>8. CASE mgr.job = "close"
  <2>1. faults' # MaxFaults /\ seat[mgr.pid] \in {"starting", "active"} /\ mgr.pid # NoRequest
    BY <1>1, <1>3, <1>8, OParts DEF CleanOK, RecordOK, Calling
  <2>2. CASE seat[mgr.pid] = "active"
    <3>1. ~HasRuntime(mgr.pid) /\ mgr.pid \notin InFlight
      BY <1>2, <1>8, <2>2, OParts DEF Op, Certain, FlightOK
    <3>2. seat' = [seat EXCEPT ![mgr.pid] = "left"] /\ mgr' = [Idle EXCEPT !.pc = "booting"]
      BY <1>8, <2>1, <2>2 DEF AfterSuccess, Gone
    <3> QED BY <1>1, <1>8, <2>1, <3>1, <3>2, SettleKeeps
  <2>3. CASE seat[mgr.pid] = "starting"
    <3>1. seat' = seat /\ mgr' = [Idle EXCEPT !.pc = "down"]
      BY <1>8, <2>1, <2>3 DEF AfterSuccess, Down
    <3>2. mgr'.pc = "down"
      BY <3>1 DEF Idle
    <3>3. OrchestrationTypeOK'
      BY <3>1, OParts DEF OrchestrationTypeOK, Ended, IInv, Idle, Jobs
    <3>4. MgrOK' /\ RecordOK' /\ ListOK' /\ CleanOK'
      BY <2>1, <3>2 DEF MgrOK, RecordOK, Calling, ListOK, Listed, CleanOK
    <3>5. FlightOK' /\ GoneStays'
      BY <3>1, <3>2, OParts, EndedSeen DEF FlightOK, GoneStays
    <3> QED BY <3>3, <3>4, <3>5 DEF OInv, Ended
  <2> QED BY <2>1, <2>2, <2>3
<1> QED BY <1>1, <1>4, <1>5, <1>6, <1>7, <1>8 DEF Jobs

\* An answer arrives.
LEMMA ReceiveKeeps ==
  ASSUME OInv, Receive
  PROVE  OInv'
<1>1. /\ mgr.pc = "wait" /\ thread[mgr.t].pc = "answered" /\ mgr.t \in Threads
      /\ thread' = [thread EXCEPT ![mgr.t] = Quiet]
      /\ UNCHANGED <<Engine, Files, Rest, faults>>
  BY OParts DEF Receive, At, MgrOK
<1>2. IInv' /\ thread \in [Threads -> Thread]
  BY <1>1, OParts, Parts, ResetStep DEF Kept
<1>3. thread'[mgr.t] = Quiet /\ \A u \in Threads : u # mgr.t => thread'[u] = thread[u]
  BY <1>1, <1>2
<1>4. faults' = MaxFaults => \A u \in Threads : thread'[u].pc = "idle"
  BY <1>1, <1>3, OParts DEF CleanOK, Quiet
<1>5. Ended
  BY <1>1, <1>2, <1>3, <1>4, OParts DEF Ended, Engine, Rest, Punctual
<1>6. CASE Succeeded(thread[mgr.t].answer)
  BY <1>1, <1>3, <1>5, <1>6, SuccessKeeps DEF Receive
<1>7. CASE ~Succeeded(thread[mgr.t].answer)
  <2>1. faults' = MaxFaults => mgr.job = "create"
    <3> SUFFICES ASSUME faults = MaxFaults, mgr.job # "create" PROVE FALSE
      BY <1>1
    <3>1. mgr.job # "list" /\ thread[mgr.t].op = Op(mgr.job)
      BY <1>1, OParts DEF CleanOK, MgrOK
    <3>2. Op(mgr.job) = "remove"
      BY <3>1 DEF Op
    <3>3. thread[mgr.t].answer \in {"ok", "missing"}
      BY <1>1, <3>1, <3>2, OParts DEF CleanOK
    <3> QED BY <1>7, <3>2, <3>3 DEF Succeeded
  <2> QED BY <1>1, <1>5, <1>7, <2>1, FailureKeeps DEF Receive, Calling
<1> QED BY <1>6, <1>7

\* A call that is refused, given up or lost.
LEMMA LostKeeps ==
  ASSUME OInv, Refused \/ GiveUp \/ ConnectionLost
  PROVE  OInv'
<1>1. AgentSame /\ AfterFailure /\ Calling
  <2>1. UNCHANGED Agent /\ (UNCHANGED faults \/ \E kind : Fault(kind))
    BY DEF Refused, GiveUp, ConnectionLost
  <2> QED BY <2>1, AgentStays DEF Refused, GiveUp, ConnectionLost, Calling
<1>2. faults' # MaxFaults
  <2>1. CASE Refused
    BY <2>1, OParts DEF Refused, CleanOK
  <2>2. CASE GiveUp
    BY <2>2, OParts, Parts DEF GiveUp, Fault
  <2>3. CASE ConnectionLost
    BY <2>3, OParts DEF ConnectionLost, CleanOK, At, MgrOK
  <2> QED BY <2>1, <2>2, <2>3
<1>3. Ended
  BY <1>1, <1>2 DEF Ended, AgentSame
<1> QED BY <1>1, <1>2, <1>3, FailureKeeps

\* An answer nobody waits for.
LEMMA DiscardKeeps ==
  ASSUME OInv, NEW t \in Threads, Discard(t)
  PROVE  OInv'
<1>1. /\ ~(mgr.pc = "wait" /\ mgr.t = t) /\ seat' = seat /\ mgr' = mgr
      /\ thread[t].pc = "answered" /\ thread' = [thread EXCEPT ![t] = Quiet]
      /\ UNCHANGED <<Engine, Files, Rest, faults>>
  BY DEF Discard, Reply, At
<1>2. IInv' /\ thread \in [Threads -> Thread]
  BY <1>1, OParts, Parts, ResetStep DEF Kept
<1>3. thread'[t] = Quiet /\ \A u \in Threads : u # t => thread'[u] = thread[u]
  BY <1>1, <1>2
<1>4. faults # MaxFaults
  BY <1>1, OParts DEF CleanOK
<1>5. \A u \in Threads : Unfinished(u)' => Unfinished(u) /\ thread'[u] = thread[u]
  BY <1>3 DEF Unfinished, Quiet
<1>6. InFlight' \subseteq InFlight
  BY <1>5, FlightDef, FlightDefNext
<1>7. Managed' = Managed /\ \A p : HasRuntime(p)' <=> HasRuntime(p)
  BY <1>1 DEF Engine, Managed, HasRuntime
<1>8. OrchestrationTypeOK' /\ RecordOK'
  BY <1>1, <1>2, OParts DEF OrchestrationTypeOK, IInv, RecordOK, Calling
<1>9. MgrOK'
  BY <1>1, <1>3, OParts DEF MgrOK, Calling
<1>10. FlightOK' /\ ListOK'
  BY <1>1, <1>5, <1>6, <1>7, OParts DEF FlightOK, ListOK, Listed
<1>11. CleanOK'
  BY <1>1, <1>4 DEF CleanOK
<1>12. GoneStays'
  <2>1. Certain' => Certain
    BY <1>1, <1>4 DEF Certain
  <2>2. HasRuntime(mgr.pid)' => HasRuntime(mgr.pid)
    BY <1>1 DEF HasRuntime, Managed, Engine
  <2>3. mgr.pc = "wait" => mgr.t \in Threads /\ thread'[mgr.t] = thread[mgr.t]
    BY <1>1, <1>3, OParts DEF MgrOK
  <2> QED BY <1>1, <1>7, <2>1, <2>2, <2>3, OParts DEF GoneStays
<1>13. Punctual'
  BY <1>1, OParts DEF Engine, Punctual
<1> QED BY <1>2, <1>8, <1>9, <1>10, <1>11, <1>12, <1>13 DEF OInv

-----------------------------------------------------------------------------
(* Theorems *)

\* The initial state: no record, no runtime, nothing under way.
LEMMA OrchestrationStart == OrchestrationInit => OInv /\ CapacityOK /\ Backed
<1> SUFFICES ASSUME OrchestrationInit PROVE OInv /\ CapacityOK /\ Backed
  OBVIOUS
<1>1. IInv /\ CapacityOK /\ Backed
  BY AgentInit, BackedInit DEF OrchestrationInit
<1>2. /\ containers = {} /\ up /\ mgr = Idle /\ mgr.pc = "idle" /\ mgr.job = "none"
      /\ \A u \in Threads : thread[u] = Quiet
      /\ \A p \in Participants : seat[p] = "free"
      /\ seat \in [Participants -> Seats]
  BY DEF OrchestrationInit, Init, Idle, Seats
<1>3. InFlight = {} /\ Managed = {}
  BY <1>2 DEF InFlight, Managed, Quiet, At
<1>4. OrchestrationTypeOK
  BY <1>1, <1>2 DEF OrchestrationTypeOK, IInv, Idle, Jobs
<1>5. MgrOK /\ RecordOK /\ ListOK /\ FlightOK
  BY <1>2, <1>3 DEF MgrOK, RecordOK, Calling, ListOK, Listed, FlightOK
<1>6. CleanOK /\ GoneStays
  BY <1>2, <1>3 DEF CleanOK, GoneStays, HasRuntime, Quiet
<1>7. Punctual
  BY DEF OrchestrationInit, Init, Punctual
<1> QED BY <1>1, <1>4, <1>5, <1>6, <1>7 DEF OInv

\* A step in which nothing changes.
LEMMA StutterKeeps ==
  ASSUME OInv, UNCHANGED allVars
  PROVE  OInv'
<1>1. UNCHANGED vars /\ seat' = seat /\ mgr' = mgr
  BY DEF allVars
<1>2. UNCHANGED <<Agent, faults>>
  BY <1>1 DEF vars, Agent, Engine, Files, Rest
<1>3. AgentSame
  BY <1>2, AgentStays
<1>4. OrchestrationTypeOK' /\ MgrOK' /\ RecordOK' /\ FlightOK' /\ ListOK'
  BY <1>1, <1>3, OParts, SameSeen DEF OInv, OrchestrationTypeOK, MgrOK, RecordOK, Calling,
       FlightOK, ListOK, Listed, AgentSame, IInv
<1>5. CleanOK'
  BY <1>1, <1>3, OParts DEF CleanOK, AgentSame
<1>6. GoneStays'
  <2>1. Certain' <=> Certain
    BY <1>1, <1>2 DEF Certain
  <2>2. HasRuntime(mgr.pid)' <=> HasRuntime(mgr.pid)
    BY <1>1, <1>3 DEF HasRuntime, Managed, AgentSame
  <2> QED BY <1>1, <1>3, <2>1, <2>2, OParts, SameSeen DEF GoneStays, AgentSame
<1> QED BY <1>3, <1>4, <1>5, <1>6 DEF OInv, AgentSame

\* Every step of the two programs together.
LEMMA OrchestrationStep ==
  ASSUME OInv, [OrchestrationNext]_allVars
  PROVE  OInv'
BY ThreadStepKeeps, SurroundingsKeep, DecideKeeps, SendKeeps, ReceiveKeeps, LostKeeps,
   DiscardKeeps, StutterKeeps DEF OrchestrationNext, Connection

\* The invariant, for every number of threads, participants, requests and faults.
LEMMA OrchestrationInvariant == OrchestrationSpec => []OInv
<1>1. OInv /\ [OrchestrationNext]_allVars => OInv'
  BY OrchestrationStep
<1>2. OrchestrationInit => OInv
  BY OrchestrationStart
<1> QED BY <1>1, <1>2, PTL DEF OrchestrationSpec

\* Type correctness of manager and agent.
THEOREM OrchestrationTypes == OrchestrationSpec => []OrchestrationTypeOK
<1>1. OInv => OrchestrationTypeOK
  BY DEF OInv
<1> QED BY <1>1, OrchestrationInvariant, PTL

\* A participant recorded as LEFT has no runtime and will not get one, whatever
\* was given up, crashed or was retried.
THEOREM LeftStaysLeft == OrchestrationSpec => []LeftIsFinal
<1>1. OInv => LeftIsFinal
  BY OParts DEF LeftIsFinal, GoneStays, HasRuntime, FlightOK
<1> QED BY <1>1, OrchestrationInvariant, PTL

\* Without a fault no runtime loses its record.
THEOREM NothingOrphaned == OrchestrationSpec => []NoOrphanWithoutFault
<1>1. OInv => NoOrphanWithoutFault
  BY OParts DEF NoOrphanWithoutFault, CleanOK, Managed
<1> QED BY <1>1, OrchestrationInvariant, PTL

\* Only the end of the startup opens a purging manager.
LEMMA OpensWithReady ==
  ASSUME OInv, OrchestrationNext, mgr.pc = "purging", mgr'.pc = "idle"
  PROVE  Ready
<1>1. ~(\E t \in Threads : ThreadStep(t)) /\ ~AgentSurroundings
  BY DEF ThreadStep, AgentSurroundings
<1>2. ~Connection
  BY DEF Connection, Refused, Receive, GiveUp, ConnectionLost, Send, Discard
<1>3. Decide
  BY <1>1, <1>2 DEF OrchestrationNext
<1>4. ~ManagerCrash
  BY DEF ManagerCrash, Down, Idle
<1>5. \A pid \in Participants : ~Purge(pid)
  BY OParts DEF Purge, Undertake
<1> QED BY <1>3, <1>4, <1>5 DEF Decide, StartParticipant, Retire, Sweep, SweepBlind,
          RecordExpires, CloseRecord, BecomeActive, ReadinessFails, ManagerRestart,
          ListRuntimes

\* When a restarted manager opens, only creates that were under way during the
\* listing may have left a runtime.
THEOREM StartupCleans == OrchestrationSpec => ReconciledClean
<1>1. OInv /\ [OrchestrationNext]_allVars =>
        [mgr.pc = "purging" /\ mgr'.pc = "idle" =>
           \A c \in Managed' : c.pid \in mgr.racing]_allVars
  <2> SUFFICES ASSUME OInv, OrchestrationNext, mgr.pc = "purging", mgr'.pc = "idle"
               PROVE  \A c \in Managed' : c.pid \in mgr.racing
    OBVIOUS
  <2>1. Ready
    BY OpensWithReady
  <2>2. mgr.todo = {} /\ containers' = containers
    BY <2>1 DEF Ready, Agent, Engine
  <2>3. \A c \in Managed : c.pid \in mgr.racing \cup mgr.todo
    BY OParts DEF ListOK, Listed
  <2> QED BY <2>2, <2>3 DEF Managed
<1> QED BY <1>1, OrchestrationInvariant, PTL DEF OrchestrationSpec, ReconciledClean

\* max_runtimes is respected under the manager's calls, given up or not.
THEOREM CapacityUnderCalls == OrchestrationSpec => []WithinMaxRuntimes
<1>1. OInv /\ CapacityOK /\ [OrchestrationNext]_allVars => CapacityOK'
  <2> SUFFICES ASSUME OInv, CapacityOK, [OrchestrationNext]_allVars PROVE CapacityOK'
    OBVIOUS
  <2>0. IInv
    BY OParts
  <2>1. ASSUME NEW t \in Threads, ThreadStep(t) PROVE CapacityOK'
    BY <2>0, <2>1, ThreadSteps DEF ThreadStep, Kept
  <2>2. CASE AgentSurroundings
    BY <2>0, <2>2, SurroundingsStep DEF AgentSurroundings, Kept
  <2>3. ASSUME UNCHANGED <<containers, thread>> PROVE CapacityOK'
    BY <2>3 DEF CapacityOK, WithinMaxRuntimes, Timely, Managed
  <2>4. CASE Decide \/ Refused \/ GiveUp \/ ConnectionLost
    BY <2>3, <2>4 DEF Decide, Refused, GiveUp, ConnectionLost, StartParticipant, Retire,
         Sweep, SweepBlind, RecordExpires, CloseRecord, Purge, BecomeActive, ReadinessFails,
         ManagerCrash, ManagerRestart, ListRuntimes, Ready, Agent, Engine
  <2>5. CASE UNCHANGED allVars
    BY <2>3, <2>5 DEF allVars, vars
  <2>6. ASSUME NEW t \in Threads, thread' = [thread EXCEPT ![t] = Quiet],
               UNCHANGED <<Engine, Files, Rest, faults>>
        PROVE  CapacityOK'
    BY <2>0, <2>6, ResetStep DEF Kept
  <2>7. CASE Receive
    <3>1. mgr.t \in Threads
      BY <2>7, OParts DEF Receive, MgrOK
    <3> QED BY <2>6, <2>7, <3>1 DEF Receive
  <2>8. ASSUME NEW t \in Threads, Discard(t) PROVE CapacityOK'
    BY <2>6, <2>8 DEF Discard, Reply
  <2>9. ASSUME NEW t \in Threads, Send(t) PROVE CapacityOK'
    <3>1. PICK req : Accept(t, Op(mgr.job), mgr.pid, req)
      BY <2>9 DEF Send
    <3>2. Op(mgr.job) \in {"create", "remove", "stop", "list"}
      BY DEF Op
    <3>3. /\ \A u \in Threads : thread'[u].pc = "create" => thread[u].pc = "create"
          /\ UNCHANGED Engine
      BY <2>0, <3>1, <3>2, Parts, AcceptMoves
    <3> QED BY <2>0, <3>3, Parts, StaysShrinks, CapacityKept
  <2> QED BY <2>1, <2>2, <2>4, <2>5, <2>7, <2>8, <2>9 DEF OrchestrationNext, Connection
<1> QED BY <1>1, OrchestrationStart, OrchestrationInvariant, PTL
     DEF OrchestrationSpec, CapacityOK

\* Routes lead to containers under the manager's calls, if engine and disk work and
\* nobody else removes containers.
THEOREM RoutesUnderCalls ==
  ASSUME FaultKinds \cap {"engine", "late", "disk", "vanish"} = {}
  PROVE  OrchestrationSpec => []RoutesBacked
<1> Reliable
  BY DEF Reliable
<1>1. OInv /\ Backed /\ [OrchestrationNext]_allVars => Backed'
  <2> SUFFICES ASSUME OInv, Backed, [OrchestrationNext]_allVars PROVE Backed'
    OBVIOUS
  <2>0. IInv /\ thread \in [Threads -> Thread]
    BY OParts, Parts
  <2>1. ASSUME NEW t \in Threads, ThreadStep(t) PROVE Backed'
    BY <2>0, <2>1, BackedWorks DEF ThreadStep, Works
  <2>2. CASE AgentSurroundings
    BY <2>0, <2>2, BackedSurroundings DEF AgentSurroundings
  <2>3. ASSUME UNCHANGED <<containers, thread, routes, targets, up>> PROVE Backed'
    BY <2>3 DEF Backed, Managed
  <2>4. CASE Decide \/ Refused \/ GiveUp \/ ConnectionLost
    BY <2>3, <2>4 DEF Decide, Refused, GiveUp, ConnectionLost, StartParticipant, Retire,
         Sweep, SweepBlind, RecordExpires, CloseRecord, Purge, BecomeActive, ReadinessFails,
         ManagerCrash, ManagerRestart, ListRuntimes, Ready, Agent, Engine, Files, Rest
  <2>5. CASE UNCHANGED allVars
    BY <2>3, <2>5 DEF allVars, vars
  <2>6. ASSUME NEW t \in Threads, thread' = [thread EXCEPT ![t] = Quiet],
               thread[t].pc = "answered", UNCHANGED <<Engine, Files, Rest, faults>>
        PROVE  Backed'
    <3>1. /\ thread'[t].pc = "idle" /\ \A u \in Threads : u # t => thread'[u] = thread[u]
          /\ UNCHANGED <<Engine, Files, up>>
      BY <2>0, <2>6 DEF Quiet, Rest
    <3> QED BY <2>6, <3>1, BackedIdle DEF FreePoints
  <2>7. CASE Receive
    <3>1. mgr.t \in Threads
      BY <2>7, OParts DEF Receive, MgrOK
    <3> QED BY <2>6, <2>7, <3>1 DEF Receive, At
  <2>8. ASSUME NEW t \in Threads, Discard(t) PROVE Backed'
    BY <2>6, <2>8 DEF Discard, Reply, At
  <2>9. ASSUME NEW t \in Threads, Send(t) PROVE Backed'
    <3>1. PICK req : Accept(t, Op(mgr.job), mgr.pid, req)
      BY <2>9 DEF Send
    <3>2. Op(mgr.job) \in {"create", "remove", "stop", "list"}
      BY DEF Op
    <3> QED BY <2>0, <3>1, <3>2, AcceptMoves, BackedIdle DEF FreePoints
  <2> QED BY <2>1, <2>2, <2>4, <2>5, <2>7, <2>8, <2>9 DEF OrchestrationNext, Connection
<1>2. OrchestrationInit => Backed
  BY OrchestrationStart
<1> QED BY <1>1, <1>2, OrchestrationInvariant, BackedSuffices, PTL DEF OrchestrationSpec
=============================================================================

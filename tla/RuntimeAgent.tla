---------------------------- MODULE RuntimeAgent ----------------------------
(***************************************************************************)
(* The Runtime Agent: a threaded server on a UNIX socket that creates,     *)
(* stops, lists and removes participant containers through the Docker      *)
(* Engine, and publishes one Traefik route file and one Prometheus target  *)
(* file per runtime.                                                       *)
(*                                                                         *)
(* create_runtime and remove_runtime hold the lifecycle lock; stop and     *)
(* list do not.  Every call to the engine and every file operation is a    *)
(* step of its own, so that threads interleave, the process may die and    *)
(* the call may fail, with or without effect, between any two of them.  A  *)
(* call the agent gave up may also take effect later, and containers may   *)
(* be removed by somebody else.                                            *)
(***************************************************************************)
EXTENDS Integers, FiniteSets

CONSTANTS
  Threads,       \* connections served at the same time
  Participants,  \* participant identifiers, one container name each
  Requests,      \* create requests: [pid, save]; save is the save key
  NoSave,        \* the save key of a request that mounts no save (a client's)
  NoRequest,     \* the label of a container the agent did not create
  MaxRuntimes,   \* max_runtimes of the agent's configuration
  MaxCalls,      \* bound: requests sent to the agent
  MaxFaults,     \* bound: failed calls, crashes, what others do
  FaultKinds     \* the kinds of fault a run looks at

AllFaultKinds == {"engine", "late", "disk", "crash", "outside", "vanish", "timeout"}

ASSUME AgentAssumption ==
  /\ MaxRuntimes \in Nat \ {0} /\ MaxCalls \in Nat /\ MaxFaults \in Nat
  /\ FaultKinds \subseteq AllFaultKinds
  /\ \A r \in Requests : r.pid \in Participants
  /\ NoRequest \notin Requests

VARIABLES
  containers,  \* the engine's containers: [id, pid, label, state, late]
  created,     \* containers ever created, the source of identifiers
  late,        \* calls the agent gave up that the engine may still carry out
  routes,      \* participants with a route file
  targets,     \* participants with a metrics target file
  thread,      \* what each connection's thread is doing
  up,          \* the agent process runs
  calls,       \* requests that may still be sent
  faults       \* faults that may still happen

vars == <<containers, created, late, routes, targets, thread, up, calls, faults>>

-----------------------------------------------------------------------------
(* State *)

CreatePoints == {"inspect", "admit", "create", "reinspect", "start", "route",
                 "target", "report", "unwind_target", "unwind_route", "unwind_stop",
                 "unwind_remove"}
RemovePoints == {"find", "stop", "remove", "unroute", "untarget"}
LockedPoints == CreatePoints \cup RemovePoints
FreePoints   == {"idle", "waiting", "halt", "halting", "listing", "answered"}

Answers == {"none", "ok", "missing", "conflict", "forbidden", "error"}

\* late: whether it was created, or started, by a call the agent had given up.
Container ==
  [id : Nat, pid : Participants, label : Requests \cup {NoRequest},
   state : {"created", "running", "exited"}, late : {"no", "create", "start"}]

LateCall ==
  [command : {"create", "start", "stop", "delete"}, pid : Participants,
   label : Requests \cup {NoRequest}, id : Nat]

Thread ==
  [pc : LockedPoints \cup FreePoints, op : {"none", "create", "remove", "stop", "list"},
   pid : Participants \cup {NoRequest}, req : Requests \cup {NoRequest},
   id : Nat, todo : SUBSET Nat, answer : Answers]

Quiet == [pc |-> "idle", op |-> "none", pid |-> NoRequest, req |-> NoRequest,
          id |-> 0, todo |-> {}, answer |-> "none"]

\* The containers that carry the agent's labels, and those of a participant.
Managed    == {c \in containers : c.label # NoRequest}
Named(pid) == {c \in containers : c.pid = pid}
ById(id)   == {c \in containers : c.id = id}

Init ==
  /\ containers = {}
  /\ created = 0
  /\ late = {}
  /\ routes = {}
  /\ targets = {}
  /\ thread = [t \in Threads |-> Quiet]
  /\ up = TRUE
  /\ calls = MaxCalls
  /\ faults = MaxFaults

NoFault == faults' = faults
Fault(kind) ==
  /\ kind \in FaultKinds
  /\ faults > 0
  /\ faults' = faults - 1

At(t, pc)     == thread[t].pc = pc
Goto(t, pc)   == thread' = [thread EXCEPT ![t].pc = pc]
Answer(t, a)  == thread' = [thread EXCEPT ![t].pc = "answered", ![t].answer = a]
Files         == <<routes, targets>>
Engine        == <<containers, created, late>>
Rest          == <<up, calls>>

Missing(id) == ById(id) = {}
Running(id) == \E c \in ById(id) : c.state = "running"

SetState(id, state) ==
  containers' = {IF c.id = id THEN [c EXCEPT !.state = state] ELSE c :
                   c \in containers}
Halt(id) ==
  containers' = {IF c.id = id /\ c.state = "running"
                   THEN [c EXCEPT !.state = "exited"] ELSE c : c \in containers}
StartLate(id) ==
  containers' = {IF c.id = id /\ c.state # "running"
                   THEN [c EXCEPT !.state = "running", !.late = "start"] ELSE c :
                   c \in containers}
Delete(id) == containers' = containers \ ById(id)

Added(pid, label, state, by) ==
  /\ created' = created + 1
  /\ containers' = containers \cup
       {[id |-> created + 1, pid |-> pid, label |-> label, state |-> state, late |-> by]}

-----------------------------------------------------------------------------
(* Requests.  One that fails validation changes nothing and is left out.     *)

\* A connection gets a thread of its own.  list asks the engine for the managed
\* containers first and inspects them one by one afterwards.
Accept(t, op, pid, req) ==
  /\ up
  /\ At(t, "idle")
  /\ thread' = [thread EXCEPT ![t] =
                  [Quiet EXCEPT !.op = op, !.pid = pid, !.req = req,
                     !.pc = CASE op = "stop" -> "halt"
                              [] op = "list" -> "listing"
                              [] OTHER -> "waiting",
                     !.todo = IF op = "list" THEN {c.id : c \in Managed} ELSE {}]]
  /\ UNCHANGED <<Engine, Files, up, faults>>

Arrive(t, op, pid, req) ==
  /\ calls > 0
  /\ calls' = calls - 1
  /\ Accept(t, op, pid, req)

LockFree == \A t \in Threads : thread[t].pc \notin LockedPoints

\* with self._lifecycle_lock
Acquire(t) ==
  /\ At(t, "waiting")
  /\ LockFree
  /\ Goto(t, IF thread[t].op = "create" THEN "inspect" ELSE "find")
  /\ UNCHANGED <<Engine, Files, Rest, faults>>

Reply(t) ==
  /\ At(t, "answered")
  /\ thread' = [thread EXCEPT ![t] = Quiet]
  /\ UNCHANGED <<Engine, Files, Rest, faults>>

\* The calls that change something, by the points they are made at.
Command ==
  [create |-> "create", start |-> "start", stop |-> "stop", halting |-> "stop",
   remove |-> "delete", unwind_stop |-> "stop", unwind_remove |-> "delete"]

\* A call to the engine that raises and has had no effect.  After the timeout of
\* 30 seconds the engine may still have the call to carry out.
EngineDown(t, pc, next) ==
  /\ At(t, pc)
  /\ \/ Fault("engine") /\ UNCHANGED late
     \/ /\ Fault("late")
        /\ pc \in DOMAIN Command
        /\ late' = late \cup {[command |-> Command[pc], pid |-> thread[t].pid,
                              label |-> thread[t].req, id |-> thread[t].id]}
  /\ next
  /\ UNCHANGED <<containers, created, Files, Rest>>

-----------------------------------------------------------------------------
(* _create_runtime *)

\* What create answers when a container of that name exists.
Existing(c, req) ==
  IF c.label = NoRequest THEN "forbidden"
  ELSE IF c.label = req THEN "ok" ELSE "conflict"

\* First of all, and again when the engine says that the name is taken.
InspectName(t) ==
  /\ At(t, "inspect") \/ At(t, "reinspect")
  /\ IF Named(thread[t].pid) = {}
       THEN IF At(t, "inspect") THEN Goto(t, "admit") ELSE Answer(t, "missing")
       ELSE \E c \in Named(thread[t].pid) : Answer(t, Existing(c, thread[t].req))
  /\ NoFault
  /\ UNCHANGED <<Engine, Files, Rest>>

\* Mutant: one runtime too many.
HasCapacity_OffByOne == Cardinality(Managed) <= MaxRuntimes

HasCapacity == Cardinality(Managed) < MaxRuntimes

\* Mutant: only running containers are asked for their save.
SaveAvailable_RunningOnly(req) ==
  req.save # NoSave =>
    \A c \in Managed : c.state = "running" => c.label.save # req.save

SaveAvailable(req) ==
  req.save # NoSave => \A c \in Managed : c.label.save # req.save

\* The directories or runtime-spec.json cannot be written: nothing is launched.
PreparationFails(t) == Fault("disk") /\ Answer(t, "error")

\* The two listings; then the directories and the runtime specification.
AdmitRuntime(t) ==
  /\ At(t, "admit")
  /\ \/ /\ HasCapacity /\ SaveAvailable(thread[t].req)
        /\ NoFault
        /\ Goto(t, "create")
     \/ /\ ~(HasCapacity /\ SaveAvailable(thread[t].req))
        /\ NoFault
        /\ Answer(t, "conflict")
     \/ PreparationFails(t)
  /\ UNCHANGED <<Engine, Files, Rest>>

CreateContainer(t) ==
  /\ At(t, "create")
  /\ \/ /\ Named(thread[t].pid) = {}
        /\ Added(thread[t].pid, thread[t].req, "created", "no")
        /\ \/ /\ NoFault
              /\ thread' = [thread EXCEPT ![t].pc = "start", ![t].id = created + 1]
           \/ Fault("engine") /\ Answer(t, "error")
     \/ /\ Named(thread[t].pid) # {}
        /\ Goto(t, "reinspect")
        /\ NoFault
        /\ UNCHANGED <<containers, created>>
  /\ UNCHANGED <<late, Files, Rest>>

\* The except branch raises again in the end: the answer is that of the failure.
Unwind(t, answer) ==
  thread' = [thread EXCEPT ![t].pc = "unwind_target", ![t].answer = answer]

StartContainer(t) ==
  /\ At(t, "start")
  /\ SetState(thread[t].id, "running")
  /\ \/ NoFault /\ IF Missing(thread[t].id) THEN Unwind(t, "missing") ELSE Goto(t, "route")
     \/ Fault("engine") /\ Unwind(t, "error")
  /\ UNCHANGED <<created, late, Files, Rest>>

\* os.replace is the last call that can fail: publishing is all or nothing.
PublishRoute(t) ==
  /\ At(t, "route")
  /\ \/ NoFault /\ routes' = routes \cup {thread[t].pid} /\ Goto(t, "target")
     \/ Fault("disk") /\ UNCHANGED routes /\ Unwind(t, "error")
  /\ UNCHANGED <<Engine, targets, Rest>>

\* Mutant: a target that cannot be written is ignored.
PublishTarget_Ignored(t) ==
  /\ At(t, "target")
  /\ \/ NoFault /\ targets' = targets \cup {thread[t].pid}
     \/ Fault("disk") /\ UNCHANGED targets
  /\ Goto(t, "report")
  /\ UNCHANGED <<Engine, routes, Rest>>

PublishTarget(t) ==
  /\ At(t, "target")
  /\ \/ NoFault /\ targets' = targets \cup {thread[t].pid} /\ Goto(t, "report")
     \/ Fault("disk") /\ UNCHANGED targets /\ Unwind(t, "error")
  /\ UNCHANGED <<Engine, routes, Rest>>

ReportRuntime(t) ==
  /\ At(t, "report")
  /\ NoFault
  /\ Answer(t, IF Missing(thread[t].id) THEN "missing" ELSE "ok")
  /\ UNCHANGED <<Engine, Files, Rest>>

\* The except branch.  An OSError of the first removal ends it.
UnwindTarget(t) ==
  /\ At(t, "unwind_target")
  /\ \/ /\ NoFault
        /\ targets' = targets \ {thread[t].pid}
        /\ Goto(t, "unwind_route")
     \/ Fault("disk") /\ UNCHANGED targets /\ Answer(t, "error")
  /\ UNCHANGED <<Engine, routes, Rest>>

UnwindRoute(t) ==
  /\ At(t, "unwind_route")
  /\ \/ NoFault /\ routes' = routes \ {thread[t].pid}
     \/ Fault("disk") /\ UNCHANGED routes
  /\ Goto(t, "unwind_stop")
  /\ UNCHANGED <<Engine, targets, Rest>>

\* Mutant: the container is not stopped before it is removed.
UnwindStop_Skipped(t) ==
  /\ At(t, "unwind_stop")
  /\ Goto(t, "unwind_remove")
  /\ UNCHANGED <<Engine, Files, Rest, faults>>

\* Errors of the agent's own kind are swallowed, a missing container is one of
\* them.  An engine that does not answer in HTTP raises another kind.
UnwindStop(t) ==
  /\ At(t, "unwind_stop")
  /\ Halt(thread[t].id)
  /\ \/ (NoFault \/ Fault("engine")) /\ Goto(t, "unwind_remove")
     \/ Fault("engine") /\ Answer(t, "error")
  /\ UNCHANGED <<created, late, Files, Rest>>

\* The engine refuses to remove a running container.
UnwindRemove(t) ==
  /\ At(t, "unwind_remove")
  /\ IF Running(thread[t].id) THEN UNCHANGED containers ELSE Delete(thread[t].id)
  /\ \/ (NoFault \/ Fault("engine")) /\ Answer(t, thread[t].answer)
     \/ Fault("engine") /\ Answer(t, "error")
  /\ UNCHANGED <<created, late, Files, Rest>>

-----------------------------------------------------------------------------
(* _remove_runtime *)

\* Mutant: a missing container is answered at once, its files stay.
FindRuntime_FilesKept(t) ==
  /\ At(t, "find")
  /\ IF Named(thread[t].pid) = {}
       THEN Answer(t, "missing")
       ELSE \E c \in Named(thread[t].pid) :
              IF c.label = NoRequest
                THEN Answer(t, "forbidden")
                ELSE thread' = [thread EXCEPT
                       ![t].pc = IF c.state = "running" THEN "stop" ELSE "remove",
                       ![t].id = c.id, ![t].answer = "ok"]
  /\ NoFault
  /\ UNCHANGED <<Engine, Files, Rest>>

\* Mutant: the labels are not looked at.
FindRuntime_AnyOwner(t) ==
  /\ At(t, "find")
  /\ IF Named(thread[t].pid) = {}
       THEN thread' = [thread EXCEPT ![t].pc = "unroute", ![t].answer = "missing"]
       ELSE \E c \in Named(thread[t].pid) :
              thread' = [thread EXCEPT
                ![t].pc = IF c.state = "running" THEN "stop" ELSE "remove",
                ![t].id = c.id, ![t].answer = "ok"]
  /\ NoFault
  /\ UNCHANGED <<Engine, Files, Rest>>

\* A missing container still loses its files, and answers not found.
FindRuntime(t) ==
  /\ At(t, "find")
  /\ IF Named(thread[t].pid) = {}
       THEN thread' = [thread EXCEPT ![t].pc = "unroute", ![t].answer = "missing"]
       ELSE \E c \in Named(thread[t].pid) :
              IF c.label = NoRequest
                THEN Answer(t, "forbidden")
                ELSE thread' = [thread EXCEPT
                       ![t].pc = IF c.state = "running" THEN "stop" ELSE "remove",
                       ![t].id = c.id, ![t].answer = "ok"]
  /\ NoFault
  /\ UNCHANGED <<Engine, Files, Rest>>

\* From here on the container has an identifier, and may be gone or, started by a
\* call given up earlier, run again: the engine's own not found or conflict is
\* then the answer, and ends the removal where it is.
StopContainer(t) ==
  /\ At(t, "stop")
  /\ Halt(thread[t].id)
  /\ \/ NoFault /\ IF Missing(thread[t].id) THEN Answer(t, "missing") ELSE Goto(t, "remove")
     \/ Fault("engine") /\ Answer(t, "error")
  /\ UNCHANGED <<created, late, Files, Rest>>

RemoveContainer(t) ==
  /\ At(t, "remove")
  /\ IF Running(thread[t].id) THEN UNCHANGED containers ELSE Delete(thread[t].id)
  /\ \/ /\ NoFault
        /\ IF Missing(thread[t].id) THEN Answer(t, "missing")
           ELSE IF Running(thread[t].id) THEN Answer(t, "conflict")
           ELSE Goto(t, "unroute")
     \/ Fault("engine") /\ Answer(t, "error")
  /\ UNCHANGED <<created, late, Files, Rest>>

RemoveRoute(t) ==
  /\ At(t, "unroute")
  /\ \/ NoFault /\ routes' = routes \ {thread[t].pid} /\ Goto(t, "untarget")
     \/ Fault("disk") /\ UNCHANGED routes /\ Answer(t, "error")
  /\ UNCHANGED <<Engine, targets, Rest>>

RemoveTarget(t) ==
  /\ At(t, "untarget")
  /\ \/ /\ NoFault
        /\ targets' = targets \ {thread[t].pid}
        /\ Answer(t, thread[t].answer)
     \/ Fault("disk") /\ UNCHANGED targets /\ Answer(t, "error")
  /\ UNCHANGED <<Engine, routes, Rest>>

-----------------------------------------------------------------------------
(* stop_runtime and list_managed_runtimes, outside the lock.  Containers are *)
(* found by name or listed, and then addressed by identifier.                *)

FindToStop(t) ==
  /\ At(t, "halt")
  /\ IF Named(thread[t].pid) = {}
       THEN Answer(t, "missing")
       ELSE \E c \in Named(thread[t].pid) :
              IF c.label = NoRequest
                THEN Answer(t, "forbidden")
                ELSE thread' = [thread EXCEPT ![t].pc = "halting", ![t].id = c.id]
  /\ NoFault
  /\ UNCHANGED <<Engine, Files, Rest>>

StopRuntime(t) ==
  /\ At(t, "halting")
  /\ Halt(thread[t].id)
  /\ \/ NoFault /\ Answer(t, IF Missing(thread[t].id) THEN "missing" ELSE "ok")
     \/ Fault("engine") /\ Answer(t, "error")
  /\ UNCHANGED <<created, late, Files, Rest>>

ListRuntime(t) ==
  /\ At(t, "listing")
  /\ \/ thread[t].todo = {} /\ Answer(t, "ok")
     \/ \E id \in thread[t].todo :
          IF Missing(id)
            THEN Answer(t, "missing")
            ELSE thread' = [thread EXCEPT ![t].todo = @ \ {id}]
  /\ NoFault
  /\ UNCHANGED <<Engine, Files, Rest>>

\* Where an engine call may raise without effect, and what happens then.
EngineFails(t) ==
  \/ \E pc \in {"inspect", "admit", "create", "reinspect", "report", "find", "stop",
                "remove", "halt", "halting", "listing", "unwind_stop"} :
       EngineDown(t, pc, Answer(t, "error"))
  \/ EngineDown(t, "start", Unwind(t, "error"))
  \/ EngineDown(t, "unwind_stop", Goto(t, "unwind_remove"))
  \/ \E a \in {"error", thread[t].answer} : EngineDown(t, "unwind_remove", Answer(t, a))

-----------------------------------------------------------------------------
(* The process and its surroundings *)

Crash ==
  /\ up
  /\ Fault("crash")
  /\ up' = FALSE
  /\ thread' = [t \in Threads |-> Quiet]
  /\ UNCHANGED <<Engine, Files, calls>>

\* Mutant: startup reconciles the routes and forgets the metrics targets.
Restart_RoutesOnly ==
  /\ ~up
  /\ routes' = routes \cap {c.pid : c \in Managed}
  /\ up' = TRUE
  /\ UNCHANGED <<Engine, targets, thread, calls, faults>>

\* reconcile_routes, routes first, before the socket is bound; an exception ends
\* the process.
Restart ==
  LET managed == {c.pid : c \in Managed} IN
  /\ ~up
  /\ \/ /\ NoFault
        /\ routes' = routes \cap managed
        /\ targets' = targets \cap managed
        /\ up' = TRUE
     \/ /\ Fault("disk")
        /\ \E r \in SUBSET (routes \ managed), m \in SUBSET (targets \ managed) :
             /\ r # {} => m = targets \ managed
             /\ routes' = (routes \cap managed) \cup r
             /\ targets' = (targets \cap managed) \cup m
        /\ UNCHANGED up
  /\ UNCHANGED <<Engine, thread, calls>>

\* The participant's processes end.
ContainerExits(c) ==
  /\ c \in Managed
  /\ c.state = "running"
  /\ SetState(c.id, "exited")
  /\ UNCHANGED <<created, late, Files, thread, Rest, faults>>

\* Somebody else creates a container under a participant's name.
OutsideCreates(pid) ==
  /\ Named(pid) = {}
  /\ Fault("outside")
  /\ Added(pid, NoRequest, "running", "no")
  /\ UNCHANGED <<late, Files, thread, Rest>>

\* Somebody else removes a container of the agent, or prunes the exited ones.
OutsideRemoves(c) ==
  /\ c \in Managed
  /\ Fault("vanish")
  /\ Delete(c.id)
  /\ UNCHANGED <<created, late, Files, thread, Rest>>

\* The engine carries out a call that was given up; it need not ever do so.
TakesEffect(e) ==
  /\ e \in late
  /\ late' = late \ {e}
  /\ \/ /\ e.command = "create" /\ Named(e.pid) = {}
        /\ Added(e.pid, e.label, "created", "create")
     \/ e.command = "start" /\ StartLate(e.id) /\ UNCHANGED created
     \/ e.command = "stop" /\ Halt(e.id) /\ UNCHANGED created
     \/ e.command = "delete" /\ ~Running(e.id) /\ Delete(e.id) /\ UNCHANGED created
  /\ UNCHANGED <<Files, thread, Rest, faults>>

-----------------------------------------------------------------------------
(* Specification *)

Request(t) ==
  \/ \E req \in Requests : Arrive(t, "create", req.pid, req)
  \/ \E pid \in Participants, op \in {"remove", "stop"} :
       Arrive(t, op, pid, NoRequest)
  \/ Arrive(t, "list", NoRequest, NoRequest)

Create(t) ==
  \/ InspectName(t)
  \/ AdmitRuntime(t)
  \/ CreateContainer(t)
  \/ StartContainer(t)
  \/ PublishRoute(t)
  \/ PublishTarget(t)
  \/ ReportRuntime(t)
  \/ UnwindTarget(t)
  \/ UnwindRoute(t)
  \/ UnwindStop(t)
  \/ UnwindRemove(t)

Remove(t) ==
  \/ FindRuntime(t)
  \/ StopContainer(t)
  \/ RemoveContainer(t)
  \/ RemoveRoute(t)
  \/ RemoveTarget(t)

Unlocked(t) ==
  \/ FindToStop(t)
  \/ StopRuntime(t)
  \/ ListRuntime(t)

Step(t) ==
  \/ Acquire(t)
  \/ Create(t)
  \/ Remove(t)
  \/ Unlocked(t)
  \/ Reply(t)

Surroundings ==
  \/ Crash
  \/ Restart
  \/ \E c \in containers : ContainerExits(c)
  \/ \E pid \in Participants : OutsideCreates(pid)
  \/ \E c \in containers : OutsideRemoves(c)
  \/ \E e \in late : TakesEffect(e)

Next ==
  \/ \E t \in Threads : Request(t) \/ Step(t) \/ EngineFails(t)
  \/ Surroundings

Spec == Init /\ [][Next]_vars

-----------------------------------------------------------------------------
(* Properties *)

\* Every variable has its type, and a name belongs to one container.
TypeOK ==
  /\ containers \subseteq Container
  /\ \A c, d \in containers : c.pid = d.pid \/ c.id = d.id => c = d
  /\ created \in Nat /\ late \subseteq LateCall
  /\ routes \subseteq Participants /\ targets \subseteq Participants
  /\ thread \in [Threads -> Thread]
  /\ up \in BOOLEAN /\ calls \in Nat /\ faults \in Nat

\* The containers the agent knows it has created.
Timely == {c \in Managed : c.late # "create"}

\* Concurrent creates, of which each lists the containers before it adds one,
\* never exceed max_runtimes together, whatever failed or crashed before.  Only
\* a create that the engine carries out after the agent gave it up comes on top:
\* the agent cannot count it before it is there.
WithinMaxRuntimes == Cardinality(Timely) <= MaxRuntimes

\* Two containers never mount the same persistent save, also while one of them
\* is only created, has exited, or is left over from a failed create, with the
\* same exception.
OneWriterPerSave ==
  \A c, d \in Timely : c.label.save = d.label.save /\ c.label.save # NoSave => c = d

\* Between requests of an agent whose engine and disk work, every route and
\* metrics target leads to a container, also after a crash in mid-removal.
RoutesBacked ==
  up /\ LockFree => routes \cup targets \subseteq {c.pid : c \in Managed}

\* A step in which thread t answers its request.
Answering(t, op, answers) ==
  /\ thread[t].pc # "answered"
  /\ thread'[t].pc = "answered"
  /\ thread[t].op = op
  /\ thread'[t].answer \in answers

\* The Session Manager takes removed (200) and not found (404) as proof that
\* the runtime is gone.  At that moment it has no container, whichever earlier
\* removal or creation failed half-way, unless a create that was given up has
\* just taken effect.  It has no route and no target either, unless the answer
\* is the not found of the engine for a container that vanished after it was
\* inspected: that one ends the removal before the files.
RemovedIsGone ==
  [][\A t \in Threads : Answering(t, "remove", {"ok", "missing"}) =>
       /\ \A c \in containers' : c.pid = thread[t].pid =>
            c.label = NoRequest \/ c.late = "create"
       /\ \/ thread[t].pid \notin routes' \cup targets'
          \/ thread'[t].answer = "missing" /\ thread[t].pc \in {"stop", "remove"}]_vars

\* When a new runtime is reported, its container, with the labels of this
\* request, its route and its target are all there: no removal came between.
CreatedIsServed ==
  [][\A t \in Threads : Answering(t, "create", {"ok"}) /\ At(t, "report") =>
       /\ thread[t].pid \in routes' \cap targets'
       /\ \E c \in containers' : c.id = thread[t].id /\ c.label = thread[t].req]_vars

\* A create that fails after the container was created takes everything back,
\* if nothing else ever failed (MaxFaults - 1 faults are left): no container
\* keeps a seat or a save, no file stays.  The exception is a start that was
\* given up and takes effect between the stop and the removal.
FailedCreateUnwinds ==
  [][\A t \in Threads :
       (/\ Answering(t, "create", {"error", "missing"})
        /\ At(t, "unwind_remove")
        /\ faults' = MaxFaults - 1) =>
       /\ thread[t].pid \notin routes' \cup targets'
       /\ \A c \in containers' : c.id = thread[t].id => c.late = "start"]_vars

\* The agent never stops, removes or replaces a container that is not its own.
ForeignUntouched ==
  [][\A c \in containers : c.label = NoRequest => c \in containers']_vars
=============================================================================

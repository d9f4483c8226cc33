------------------------- MODULE RuntimeAgentProofs -------------------------
(***************************************************************************)
(* Proofs about RuntimeAgent, for every value of its constants.            *)
(*                                                                         *)
(* The lifecycle lock is not a variable: a thread at one of LockedPoints   *)
(* has it.  So the first fact is Mutex; what the holder saw of the engine  *)
(* and of the files then stays true until it acts on it, because the other *)
(* threads, the participants' processes, other users of the engine and     *)
(* calls that take effect late can only change states of containers, take  *)
(* containers away at the price of a fault, and add containers that are    *)
(* either without labels or the result of a late create.                   *)
(***************************************************************************)
EXTENDS RuntimeAgent, FiniteSetTheorems, TLAPS

-----------------------------------------------------------------------------
(* The inductive invariant *)

\* Points at which the lock holder works on a container that it created or found.
Holding == {"start", "route", "target", "report", "unwind_target", "unwind_route",
            "unwind_stop", "unwind_remove", "stop", "remove"}
Unwinding == {"unwind_target", "unwind_route", "unwind_stop", "unwind_remove"}

Mutex ==
  \A t, u \in Threads :
    thread[t].pc \in LockedPoints /\ thread[u].pc \in LockedPoints => t = u

\* Operation, program point and parameters of a thread belong together.
ThreadOK(t) ==
  /\ thread[t].pc \in CreatePoints => thread[t].op = "create"
  /\ thread[t].pc \in RemovePoints => thread[t].op = "remove"
  /\ thread[t].pc = "waiting" => thread[t].op \in {"create", "remove"}
  /\ thread[t].pc \in {"halt", "halting"} => thread[t].op = "stop"
  /\ thread[t].pc = "listing" => thread[t].op = "list"
  /\ thread[t].pc = "idle" => thread[t].op = "none"
  /\ thread[t].op = "create" =>
       thread[t].req \in Requests /\ thread[t].pid = thread[t].req.pid
  /\ thread[t].op \in {"remove", "stop"} => thread[t].pid \in Participants
  /\ ~up => thread[t].pc = "idle"

\* Containers may get lost: that took a fault of one of these kinds.
Lossy == faults < MaxFaults /\ FaultKinds \cap {"late", "vanish"} # {}

\* The container a lock holder works on is the agent's own, and there unless
\* containers may get lost.
HoldsOK(t) ==
  thread[t].pc \in Holding =>
    /\ thread[t].id <= created
    /\ \A c \in containers : c.id = thread[t].id =>
         /\ c.pid = thread[t].pid
         /\ c.label # NoRequest
         /\ thread[t].op = "create" => c.label = thread[t].req /\ c.late # "create"
    /\ Lossy \/ \E c \in containers : c.id = thread[t].id

\* The container an unlocked stop will address is the agent's own, if there.
HaltsOK(t) ==
  thread[t].pc = "halting" =>
    /\ thread[t].id <= created
    /\ \A c \in containers : c.id = thread[t].id => c.label # NoRequest

\* What a create was admitted for is still true when the container is created.
SaveFree(req) == req.save # NoSave => \A c \in Timely : c.label.save # req.save
AdmitOK(t) == thread[t].pc = "create" => SaveFree(thread[t].req)

\* A create has published what it reports.
FilesOK(t) ==
  /\ thread[t].pc \in {"target", "report"} => thread[t].pid \in routes
  /\ thread[t].pc = "report" => thread[t].pid \in targets

\* A removal deletes a container that does not run, and the files of a runtime
\* whose container is gone.
GoneOK(t) ==
  /\ thread[t].pc \in {"stop", "remove", "unroute", "untarget"} =>
       thread[t].answer \in {"ok", "missing"}
  /\ thread[t].pc \in {"stop", "remove"} =>
       \A c \in Timely : c.pid = thread[t].pid => c.id = thread[t].id
  /\ thread[t].pc = "remove" =>
       \A c \in containers : c.id = thread[t].id =>
         c.state # "running" \/ c.late = "start"
  /\ thread[t].pc \in {"unroute", "untarget"} =>
       \A c \in Timely : c.pid # thread[t].pid
  /\ thread[t].pc = "untarget" => thread[t].pid \notin routes

\* A create that takes back what it did, when its own failure was the only one.
UnwindOK(t) ==
  /\ thread[t].pc \in Unwinding => faults < MaxFaults
  /\ faults = MaxFaults - 1 =>
       /\ thread[t].pc \in Unwinding \ {"unwind_target"} => thread[t].pid \notin targets
       /\ thread[t].pc \in {"unwind_stop", "unwind_remove"} => thread[t].pid \notin routes
       /\ thread[t].pc = "unwind_remove" =>
            \A c \in containers : c.id = thread[t].id =>
              c.state # "running" \/ c.late = "start"

Sees(t) == HoldsOK(t) /\ HaltsOK(t) /\ AdmitOK(t) /\ FilesOK(t) /\ GoneOK(t) /\ UnwindOK(t)

IdsOK == \A c \in containers : c.id <= created

\* Calls given up for a container concern one of the agent's; those that would
\* start it, one that the agent created in time.
LateOK ==
  \A e \in late : e.command # "create" =>
    /\ e.id <= created
    /\ \A c \in containers : c.id = e.id =>
         c.label # NoRequest /\ (e.command = "start" => c.late # "create")

\* What holds of the engine alone: types, unique names and identifiers, one
\* container per save.
EngineOK ==
  /\ containers \subseteq Container
  /\ \A c, d \in containers : c.pid = d.pid \/ c.id = d.id => c = d
  /\ created \in Nat
  /\ IdsOK
  /\ OneWriterPerSave
  /\ late \subseteq LateCall
  /\ LateOK

IInv ==
  /\ TypeOK
  /\ IdsOK
  /\ LateOK
  /\ late # {} => Lossy
  /\ Mutex
  /\ OneWriterPerSave
  /\ faults <= MaxFaults
  /\ \A t \in Threads : ThreadOK(t) /\ Sees(t)

\* The places that are taken, and the one a create was admitted to.
CapacityOK ==
  /\ IsFiniteSet(containers)
  /\ WithinMaxRuntimes
  /\ \A t \in Threads : thread[t].pc = "create" => Cardinality(Timely) < MaxRuntimes

-----------------------------------------------------------------------------
(* How the engine's containers change *)

Kin(c, d) ==
  /\ c.id = d.id /\ c.pid = d.pid /\ c.label = d.label
  /\ c.late = "create" <=> d.late = "create"
  /\ c.late = "start" => d.late = "start"

\* Containers change their state, but none starts to run unless it is started
\* late; they may get lost; containers without labels and late ones may appear.
\* This is all that happens to a lock holder from outside.
Calm ==
  /\ created' \in Nat /\ created' >= created
  /\ Lossy' \/ \A c \in containers : \E d \in containers' : Kin(c, d)
  /\ \A d \in containers' :
       \/ \E c \in containers :
            Kin(c, d) /\ (d.state = "running" => c.state = "running" \/ d.late = "start")
       \/ (d.label = NoRequest \/ d.late = "create") /\ d.id > created

\* No identifier is given to another container.
Inherits ==
  /\ created' \in Nat /\ created' >= created
  /\ \A d \in containers' :
       d.id > created \/ \E c \in containers : c.id = d.id /\ c.label = d.label

\* Containers without labels stay as they are.
Spares == \A c \in containers : c.label = NoRequest => c \in containers'

\* An unchanged engine, by what later steps use of it.
LEMMA EngineStays ==
  ASSUME EngineOK, UNCHANGED Engine
  PROVE  EngineOK' /\ Calm /\ Inherits /\ Spares
<1>1. UNCHANGED <<containers, created, late>>
  BY DEF Engine
<1>2. EngineOK'
  BY <1>1 DEF EngineOK, IdsOK, OneWriterPerSave, Timely, Managed, LateOK
<1>3. Calm /\ Inherits /\ Spares
  BY <1>1 DEF EngineOK, Calm, Inherits, Spares, Kin
<1> QED BY <1>2, <1>3

\* The container with this identifier changes its state, the others stay.
Restated(id) ==
  /\ created' = created /\ late' \subseteq late
  /\ containers' \subseteq Container
  /\ \A c \in containers : \E d \in containers' : Kin(c, d) /\ (c.id # id => d = c)
  /\ \A d \in containers' : \E c \in containers : Kin(c, d) /\ (c.id # id => d = c)
  /\ \A d, e \in containers' : d.id = e.id => d = e

\* start and the end of a container's processes.
LEMMA SetStateRestates ==
  ASSUME EngineOK, NEW id, NEW state \in {"created", "running", "exited"},
         SetState(id, state), UNCHANGED created,
         late' \subseteq late
  PROVE  Restated(id) /\ (state # "running" => Calm)
<1> DEFINE f(c) == IF c.id = id THEN [c EXCEPT !.state = state] ELSE c
<1>1. \A c \in containers :
        /\ f(c) \in Container /\ Kin(c, f(c)) /\ (c.id # id => f(c) = c)
        /\ state # "running" /\ f(c).state = "running" => c.state = "running"
  BY DEF EngineOK, Container, Kin
<1>2. containers' = {f(c) : c \in containers}
  BY DEF SetState
<1>3. \A c, d \in containers : c.id = d.id => c = d
  BY DEF EngineOK
<1> HIDE DEF f
<1>4. \A d, e \in containers' : d.id = e.id => d = e
  BY <1>1, <1>2, <1>3 DEF Kin
<1>5. Restated(id)
  BY <1>1, <1>2, <1>4 DEF Restated
<1>6. state # "running" => Calm
  BY <1>1, <1>2 DEF Calm, EngineOK
<1> QED BY <1>5, <1>6

\* stop: it has no effect on a container that does not run.
LEMMA HaltRestates ==
  ASSUME EngineOK, NEW id, Halt(id), UNCHANGED created,
         late' \subseteq late
  PROVE  /\ Restated(id)
         /\ Calm
         /\ \A d \in containers' : d.id = id => d.state # "running"
<1> DEFINE f(c) == IF c.id = id /\ c.state = "running"
                     THEN [c EXCEPT !.state = "exited"] ELSE c
<1>1. \A c \in containers :
        /\ f(c) \in Container /\ Kin(c, f(c)) /\ (c.id # id => f(c) = c)
        /\ f(c).state = "running" => c.state = "running" /\ c.id # id
  BY DEF EngineOK, Container, Kin
<1>2. containers' = {f(c) : c \in containers}
  BY DEF Halt
<1>3. \A c, d \in containers : c.id = d.id => c = d
  BY DEF EngineOK
<1> HIDE DEF f
<1>4. \A d, e \in containers' : d.id = e.id => d = e
  BY <1>1, <1>2, <1>3 DEF Kin
<1>5. Restated(id)
  BY <1>1, <1>2, <1>4 DEF Restated
<1>6. Calm
  BY <1>1, <1>2 DEF Calm, EngineOK
<1>7. \A d \in containers' : d.id = id => d.state # "running"
  BY <1>1, <1>2 DEF Kin
<1> QED BY <1>5, <1>6, <1>7

\* A start that takes effect late; the agent had created the container in time.
LEMMA LateStartRestates ==
  ASSUME EngineOK, NEW id, UNCHANGED created, late' \subseteq late,
         \A c \in containers : c.id = id => c.late # "create",
         StartLate(id)
  PROVE  Restated(id) /\ Calm
<1> DEFINE f(c) == IF c.id = id /\ c.state # "running"
                     THEN [c EXCEPT !.state = "running", !.late = "start"] ELSE c
<1>1. \A c \in containers :
        /\ f(c) \in Container /\ Kin(c, f(c)) /\ (c.id # id => f(c) = c)
        /\ f(c).state = "running" => c.state = "running" \/ f(c).late = "start"
  BY DEF EngineOK, Container, Kin
<1>2. containers' = {f(c) : c \in containers}
  BY DEF StartLate
<1>3. \A c, d \in containers : c.id = d.id => c = d
  BY DEF EngineOK
<1> HIDE DEF f
<1>4. \A d, e \in containers' : d.id = e.id => d = e
  BY <1>1, <1>2, <1>3 DEF Kin
<1>5. Restated(id)
  BY <1>1, <1>2, <1>4 DEF Restated
<1>6. Calm
  BY <1>1, <1>2 DEF Calm, EngineOK
<1> QED BY <1>5, <1>6

\* Names, identifiers, labels and saves survive a change of state.
LEMMA RestatedEngine ==
  ASSUME EngineOK, NEW id, Restated(id),
         \A c \in containers : c.id = id => c.label # NoRequest
  PROVE  EngineOK' /\ Inherits /\ Spares
<1>1. \A d \in containers' : \E c \in containers : Kin(c, d)
  BY DEF Restated
<1>2. \A c, d \in containers : c.pid = d.pid \/ c.id = d.id => c = d
  BY DEF EngineOK
<1>3. \A d, e \in containers' : d.id = e.id => d = e
  BY DEF Restated
<1>4. ASSUME NEW d \in containers', NEW e \in containers', d.pid = e.pid \/ d.id = e.id
      PROVE  d = e
  BY <1>1, <1>2, <1>3, <1>4 DEF Kin
<1>5. IdsOK'
  BY <1>1 DEF Restated, EngineOK, IdsOK, Kin
<1>6. OneWriterPerSave'
  <2> SUFFICES ASSUME NEW d \in containers', NEW e \in containers',
                      d.label # NoRequest, e.label # NoRequest,
                      d.late # "create", e.late # "create",
                      d.label.save = e.label.save, d.label.save # NoSave
               PROVE  d = e
    BY DEF OneWriterPerSave, Timely, Managed
  <2>1. PICK c \in containers, b \in containers : Kin(c, d) /\ Kin(b, e)
    BY <1>1
  <2>2. c = b
    BY <2>1 DEF EngineOK, OneWriterPerSave, Timely, Managed, Kin
  <2> QED BY <2>1, <2>2, <1>3 DEF Kin
<1>10. LateOK'
  BY <1>1 DEF LateOK, EngineOK, Restated, Kin
<1>7. EngineOK'
  BY <1>4, <1>5, <1>6, <1>10 DEF EngineOK, Restated
<1>8. Inherits
  BY <1>1 DEF Inherits, Restated, EngineOK, Kin
<1>9. Spares
  BY DEF Spares, Restated
<1> QED BY <1>7, <1>8, <1>9

\* A new container: its name is free, and nobody mounts its save, or it is late.
LEMMA AddedEngine ==
  ASSUME EngineOK, NEW c \in Container, c.id = created + 1,
         Named(c.pid) = {},
         c.label # NoRequest /\ c.late # "create" => SaveFree(c.label),
         created' = created + 1, containers' = containers \cup {c}, late' \subseteq late
  PROVE  EngineOK' /\ Inherits /\ Spares
<1>1. \A d \in containers : d.id \in Nat /\ d.id <= created /\ d.pid # c.pid
  BY DEF EngineOK, Container, IdsOK, Named
<1>2. created \in Nat
  BY DEF EngineOK
<1>3. OneWriterPerSave'
  BY DEF EngineOK, OneWriterPerSave, SaveFree, Timely, Managed
<1>4. LateOK'
  <2> SUFFICES ASSUME NEW e \in late, e.command # "create"
               PROVE  /\ e.id <= created + 1
                      /\ \A d \in containers \cup {c} : d.id = e.id =>
                           d.label # NoRequest /\ (e.command = "start" => d.late # "create")
    BY DEF LateOK
  <2>1. e.id \in Nat /\ e.id <= created
    BY DEF EngineOK, LateOK, LateCall
  <2> QED BY <1>2, <2>1 DEF EngineOK, LateOK
<1> QED BY <1>1, <1>2, <1>3, <1>4 DEF EngineOK, IdsOK, Inherits, Spares

\* Deleting a container of the agent.
LEMMA DeletedEngine ==
  ASSUME EngineOK, NEW id, Delete(id), UNCHANGED created, late' \subseteq late,
         \A c \in containers : c.id = id => c.label # NoRequest
  PROVE  EngineOK' /\ Inherits /\ Spares
<1>1. containers' \subseteq containers
  BY DEF Delete
<1>2. OneWriterPerSave' /\ LateOK' /\ IdsOK'
  BY <1>1 DEF EngineOK, OneWriterPerSave, Timely, Managed, LateOK, IdsOK
<1> QED BY <1>1, <1>2 DEF EngineOK, Delete, ById, Inherits, Spares

\* Deleting it when containers may get lost.
LEMMA DeletedCalm ==
  ASSUME EngineOK, NEW id, Delete(id), UNCHANGED created, Lossy'
  PROVE  Calm
BY DEF Calm, Delete, Kin, EngineOK

-----------------------------------------------------------------------------
(* How threads move *)

\* Only this thread's entry changes.
Only(t) ==
  /\ thread' \in [Threads -> Thread]
  /\ \A u \in Threads : u # t => thread'[u] = thread[u]

\* The thread goes on with the same request.
Onward(t) ==
  /\ thread'[t].op = thread[t].op
  /\ thread'[t].pid = thread[t].pid
  /\ thread'[t].req = thread[t].req

Points == LockedPoints \cup FreePoints

\* Goto.
LEMMA GotoMoves ==
  ASSUME thread \in [Threads -> Thread], NEW t \in Threads, NEW pc \in Points,
         Goto(t, pc)
  PROVE  /\ Only(t) /\ Onward(t)
         /\ thread'[t].pc = pc /\ thread'[t].id = thread[t].id
         /\ thread'[t].answer = thread[t].answer
BY DEF Goto, Only, Onward, Thread, Points

\* Answer.
LEMMA AnswerMoves ==
  ASSUME thread \in [Threads -> Thread], NEW t \in Threads, NEW a \in Answers,
         Answer(t, a)
  PROVE  /\ Only(t) /\ Onward(t)
         /\ thread'[t].pc = "answered" /\ thread'[t].id = thread[t].id
         /\ thread'[t].answer = a
BY DEF Answer, Only, Onward, Thread, LockedPoints, FreePoints

\* A thread that takes over a container by its identifier.
LEMMA TakeMoves ==
  ASSUME thread \in [Threads -> Thread], NEW t \in Threads, NEW pc \in Points,
         NEW id \in Nat, thread' = [thread EXCEPT ![t].pc = pc, ![t].id = id]
  PROVE  Only(t) /\ Onward(t) /\ thread'[t].pc = pc /\ thread'[t].id = id
BY DEF Only, Onward, Thread, Points

\* The same for an answer that is decided before the thread is finished.
LEMMA DecideMoves ==
  ASSUME thread \in [Threads -> Thread], NEW t \in Threads, NEW pc \in Points,
         NEW a \in Answers, NEW id \in Nat,
         \/ thread' = [thread EXCEPT ![t].pc = pc, ![t].answer = a]
         \/ thread' = [thread EXCEPT ![t].pc = pc, ![t].id = id, ![t].answer = a]
  PROVE  Only(t) /\ Onward(t) /\ thread'[t].pc = pc /\ thread'[t].answer = a
BY DEF Only, Onward, Thread, Points

\* A thread that leaves the lock alone keeps Mutex, and so does the holder.
LEMMA MutexKept ==
  ASSUME Mutex, NEW t \in Threads, Only(t),
         \/ thread[t].pc \in LockedPoints
         \/ thread'[t].pc \notin LockedPoints
         \/ LockFree
  PROVE  Mutex'
BY DEF Mutex, Only, LockFree

\* A thread that goes on with its request at a point of the same operation.
LEMMA ThreadKept ==
  ASSUME NEW t \in Threads, ThreadOK(t), Onward(t), up, UNCHANGED up,
         \/ thread'[t].pc = "answered"
         \/ thread[t].op = "create" /\ thread'[t].pc \in CreatePoints
         \/ thread[t].op = "remove" /\ thread'[t].pc \in RemovePoints
         \/ thread[t].op = "stop" /\ thread'[t].pc = "halting"
         \/ thread[t].op = "list" /\ thread'[t].pc = "listing"
  PROVE  ThreadOK(t)'
BY DEF ThreadOK, Onward, CreatePoints, RemovePoints

\* A fault more or less; a call that is given up costs one.
Wears ==
  /\ faults' \in Nat
  /\ faults' = faults \/ (faults > 0 /\ faults' = faults - 1)
  /\ late' \subseteq late \/ Lossy'

\* Both outcomes of a call leave a number of faults.
LEMMA FaultWears ==
  ASSUME faults \in Nat, NoFault \/ \E kind : Fault(kind),
         UNCHANGED late \/ UNCHANGED Engine
  PROVE  Wears
BY DEF NoFault, Fault, Wears, Engine

\* A container that somebody removes, or a call given up, makes things lossy, and
\* they stay so.
LEMMA FaultLossy ==
  ASSUME faults \in Nat, MaxFaults \in Nat, faults <= MaxFaults,
         NEW kind \in {"late", "vanish"}, Fault(kind)
  PROVE  Lossy' /\ Wears
BY DEF Fault, Lossy, Wears

LEMMA LossyStays ==
  ASSUME faults \in Nat, MaxFaults \in Nat, Wears, Lossy
  PROVE  Lossy'
BY DEF Lossy, Wears

\* What a thread saw stays true while others do calm things and leave the files.
LEMMA CalmKeeps ==
  ASSUME EngineOK, MaxFaults \in Nat, NEW u \in Threads, Sees(u), faults \in Nat,
         thread[u] \in Thread, thread'[u] = thread[u],
         Calm, Wears, UNCHANGED Files
  PROVE  Sees(u)'
<1>1. HoldsOK(u)'
  <2> SUFFICES ASSUME thread[u].pc \in Holding
               PROVE  HoldsOK(u)'
    BY DEF HoldsOK
  <2>1. /\ thread[u].id <= created /\ thread[u].id \in Nat
        /\ \A c \in containers : c.id = thread[u].id =>
             /\ c.pid = thread[u].pid /\ c.label # NoRequest
             /\ thread[u].op = "create" => c.label = thread[u].req /\ c.late # "create"
        /\ Lossy \/ \E c \in containers : c.id = thread[u].id
    BY DEF Sees, HoldsOK, Thread
  <2>2. thread[u].id <= created'
    BY <2>1 DEF Calm, EngineOK
  <2>3. \A d \in containers' : d.id = thread[u].id => \E c \in containers : Kin(c, d)
    BY <2>1 DEF Calm, EngineOK
  <2>4. Lossy' \/ \E d \in containers' : d.id = thread[u].id
    BY <2>1, LossyStays DEF Calm, Kin
  <2> QED BY <2>1, <2>2, <2>3, <2>4 DEF HoldsOK, Kin
<1>2. HaltsOK(u)'
  <2> SUFFICES ASSUME thread[u].pc = "halting"
               PROVE  /\ thread[u].id <= created'
                      /\ \A d \in containers' : d.id = thread[u].id => d.label # NoRequest
    BY DEF HaltsOK
  <2>1. /\ thread[u].id <= created
        /\ \A c \in containers : c.id = thread[u].id => c.label # NoRequest
    BY DEF Sees, HaltsOK
  <2>2. thread[u].id \in Nat
    BY DEF Thread
  <2> QED BY <2>1, <2>2 DEF Calm, Kin, EngineOK
<1>7. \A d \in Timely' :
        \E c \in Timely : c.id = d.id /\ c.pid = d.pid /\ c.label = d.label
  BY DEF Timely, Managed, Calm, Kin
<1>3. AdmitOK(u)'
  BY <1>7 DEF Sees, AdmitOK, SaveFree
<1>4. FilesOK(u)'
  BY DEF Sees, FilesOK, Files
<1>8. ASSUME thread[u].pc \in Holding,
             \A c \in containers : c.id = thread[u].id => c.state # "running" \/ c.late = "start",
             NEW d \in containers', d.id = thread[u].id
      PROVE  d.state # "running" \/ d.late = "start"
  <2>1. thread[u].id <= created /\ thread[u].id \in Nat /\ created \in Nat
    BY <1>8 DEF Sees, HoldsOK, Thread, EngineOK
  <2>2. PICK c \in containers :
          Kin(c, d) /\ (d.state = "running" => c.state = "running" \/ d.late = "start")
    BY <1>8, <2>1 DEF Calm
  <2> QED BY <1>8, <2>2 DEF Kin
<1>5. GoneOK(u)'
  BY <1>7, <1>8 DEF Sees, GoneOK, Files, Holding
<1>6. UnwindOK(u)'
  <2>1. UnwindOK(u) /\ routes' = routes /\ targets' = targets
    BY DEF Sees, Files
  <2>2. thread[u].pc \in Unwinding => faults' < MaxFaults
    BY <2>1 DEF UnwindOK, Wears
  <2>3. thread[u].pc \in Unwinding /\ faults' = MaxFaults - 1 => faults' = faults
    BY <2>1 DEF UnwindOK, Wears
  <2>4. ASSUME thread[u].pc = "unwind_remove", faults' = MaxFaults - 1,
               NEW d \in containers', d.id = thread[u].id
        PROVE  d.state # "running" \/ d.late = "start"
    <3>1. \A c \in containers : c.id = thread[u].id => c.state # "running" \/ c.late = "start"
      BY <2>1, <2>3, <2>4 DEF UnwindOK, Unwinding
    <3> QED BY <1>8, <2>4, <3>1 DEF Holding
  <2> QED BY <2>1, <2>2, <2>3, <2>4 DEF UnwindOK, Unwinding
<1> QED BY <1>1, <1>2, <1>3, <1>4, <1>5, <1>6 DEF Sees

\* Outside the lock a thread sees only that identifiers are not given away.
LEMMA UnlockedKeeps ==
  ASSUME EngineOK, NEW u \in Threads, Sees(u), thread[u].pc \notin LockedPoints,
         thread[u] \in Thread, thread'[u] = thread[u], Inherits
  PROVE  Sees(u)'
<1>1. HaltsOK(u)'
  <2> SUFFICES ASSUME thread[u].pc = "halting"
               PROVE  /\ thread[u].id <= created'
                      /\ \A d \in containers' : d.id = thread[u].id => d.label # NoRequest
    BY DEF HaltsOK
  <2>1. /\ thread[u].id <= created
        /\ \A c \in containers : c.id = thread[u].id => c.label # NoRequest
    BY DEF Sees, HaltsOK
  <2>2. thread[u].id \in Nat
    BY DEF Thread
  <2> QED BY <2>1, <2>2 DEF Inherits, EngineOK
<1> QED BY <1>1 DEF Sees, HoldsOK, AdmitOK, FilesOK, GoneOK, UnwindOK, Holding,
          Unwinding, LockedPoints, CreatePoints, RemovePoints

\* A thread that has nothing in hand sees nothing.
LEMMA RestedSees ==
  ASSUME NEW t \in Threads, thread'[t].pc \in FreePoints \ {"halting"}
  PROVE  Sees(t)'
BY DEF Sees, HoldsOK, HaltsOK, AdmitOK, FilesOK, GoneOK, UnwindOK, Holding, Unwinding,
       FreePoints

-----------------------------------------------------------------------------
(* The number of the agent's containers *)

\* The engine holds no more timely containers of the agent than before.
Shrinks ==
  IsFiniteSet(containers) =>
    IsFiniteSet(containers') /\ Cardinality(Timely') <= Cardinality(Timely)

\* Managed and Timely are finite with the containers.
LEMMA ManagedFinite ==
  ASSUME IsFiniteSet(containers)
  PROVE  /\ IsFiniteSet(Managed) /\ Cardinality(Managed) \in Nat
         /\ IsFiniteSet(Timely) /\ Cardinality(Timely) \in Nat
         /\ Cardinality(Timely) <= Cardinality(Managed)
<1>1. Managed \subseteq containers /\ Timely \subseteq Managed
  BY DEF Managed, Timely
<1>2. IsFiniteSet(Managed) /\ IsFiniteSet(Timely)
  BY <1>1, FS_Subset
<1> QED BY <1>1, <1>2, FS_Subset, FS_CardinalityType

\* Nothing, or a container without labels or a late one, is added.
LEMMA ForeignShrinks ==
  ASSUME NEW c, c.label = NoRequest \/ c.late = "create",
         UNCHANGED containers \/ containers' = containers \cup {c}
  PROVE  Shrinks
<1> SUFFICES ASSUME IsFiniteSet(containers)
             PROVE  IsFiniteSet(containers') /\ Cardinality(Timely') <= Cardinality(Timely)
  BY DEF Shrinks
<1>1. Timely' = Timely
  BY DEF Timely, Managed
<1>2. IsFiniteSet(containers')
  BY FS_AddElement
<1> QED BY <1>1, <1>2, ManagedFinite

\* An unchanged engine.
LEMMA StaysShrinks ==
  ASSUME UNCHANGED Engine
  PROVE  Shrinks
BY ManagedFinite DEF Shrinks, Engine, Timely, Managed

\* A container is deleted.
LEMMA DeleteShrinks ==
  ASSUME NEW id, Delete(id)
  PROVE  Shrinks
<1> SUFFICES ASSUME IsFiniteSet(containers)
             PROVE  IsFiniteSet(containers') /\ Cardinality(Timely') <= Cardinality(Timely)
  BY DEF Shrinks
<1>1. containers' \subseteq containers /\ Timely' \subseteq Timely
  BY DEF Delete, Timely, Managed
<1> QED BY <1>1, ManagedFinite, FS_Subset

\* A change of state maps the old containers onto the new ones.
LEMMA RestatedShrinks ==
  ASSUME NEW id, Restated(id)
  PROVE  Shrinks
<1> SUFFICES ASSUME IsFiniteSet(containers)
             PROVE  IsFiniteSet(containers') /\ Cardinality(Timely') <= Cardinality(Timely)
  BY DEF Shrinks
<1> DEFINE next(c) == CHOOSE d \in containers' : Kin(c, d)
           f == [c \in containers |-> next(c)]
           g == [c \in Timely |-> next(c)]
<1>1. \A c \in containers : next(c) \in containers' /\ Kin(c, next(c))
  BY DEF Restated
<1>2. \A d \in containers' : \E c \in containers : Kin(c, d) /\ next(c) = d
  BY <1>1 DEF Restated, Kin
<1> HIDE DEF next
<1>3. f \in Surjection(containers, containers')
  BY <1>1, <1>2 DEF Surjection
<1>4. g \in Surjection(Timely, Timely')
  <2>1. \A c \in Timely : next(c) \in Timely'
    BY <1>1 DEF Timely, Managed, Kin
  <2>2. \A d \in Timely' : \E c \in Timely : next(c) = d
    BY <1>2 DEF Timely, Managed, Kin
  <2> QED BY <2>1, <2>2 DEF Surjection
<1> HIDE DEF f, g
<1>5. IsFiniteSet(containers')
  BY <1>3, FS_Surjection
<1>6. Cardinality(Timely') <= Cardinality(Timely)
  BY <1>4, ManagedFinite, FS_Surjection
<1> QED BY <1>5, <1>6

\* A new container takes one place.
LEMMA AddedCounts ==
  ASSUME IsFiniteSet(containers), NEW c, containers' = containers \cup {c}
  PROVE  /\ IsFiniteSet(containers')
         /\ Cardinality(Timely') \in Nat
         /\ Cardinality(Timely') <= Cardinality(Timely) + 1
<1>1. IsFiniteSet(containers')
  BY FS_AddElement
<1>2. IsFiniteSet(Timely) /\ Cardinality(Timely) \in Nat
  BY ManagedFinite
<1>3. Timely' = Timely \/ Timely' = Timely \cup {c}
  BY DEF Timely, Managed
<1>4. CASE Timely' = Timely
  BY <1>1, <1>2, <1>4
<1>5. CASE Timely' = Timely \cup {c}
  <2>1. Cardinality(Timely \cup {c}) =
          IF c \in Timely THEN Cardinality(Timely) ELSE Cardinality(Timely) + 1
    BY <1>2, FS_AddElement
  <2>2. Cardinality(Timely') = Cardinality(Timely \cup {c})
    BY <1>5
  <2> QED BY <1>1, <1>2, <2>1, <2>2
<1> QED BY <1>3, <1>4, <1>5

-----------------------------------------------------------------------------
(* What every step has to keep, and the two shapes of a thread's step *)

\* The invariant, the capacity, and the containers of others.
Kept == IInv' /\ Spares /\ (CapacityOK => CapacityOK')

\* The parts of the invariant that most steps need.
LEMMA Parts ==
  ASSUME IInv
  PROVE  /\ EngineOK /\ Mutex
         /\ routes \subseteq Participants /\ targets \subseteq Participants
         /\ thread \in [Threads -> Thread]
         /\ up \in BOOLEAN /\ calls \in Nat /\ faults \in Nat
         /\ \A t \in Threads : ThreadOK(t) /\ Sees(t)
         /\ MaxFaults \in Nat /\ MaxRuntimes \in Nat /\ faults <= MaxFaults
BY AgentAssumption DEF IInv, TypeOK, EngineOK

\* Only a thread that is alive moves.
LEMMA AliveUp ==
  ASSUME IInv, NEW t \in Threads, thread[t].pc # "idle"
  PROVE  up
BY Parts DEF ThreadOK

\* The parts put together again.
LEMMA Assemble ==
  ASSUME IInv, EngineOK', Mutex', Wears, UNCHANGED up, calls' \in Nat,
         routes' \subseteq Participants, targets' \subseteq Participants,
         NEW t \in Threads, Only(t), ThreadOK(t)',
         \A u \in Threads : Sees(u)'
  PROVE  IInv'
<1>1. TypeOK' /\ IdsOK' /\ OneWriterPerSave' /\ LateOK'
  BY Parts DEF EngineOK, TypeOK, Wears, Only
<1>4. late' # {} => Lossy'
  BY Parts, LossyStays DEF IInv, Wears
<1>2. \A u \in Threads : ThreadOK(u)'
  BY Parts DEF Only, ThreadOK
<1>3. faults' <= MaxFaults
  BY Parts DEF Wears
<1> QED BY <1>1, <1>2, <1>3, <1>4 DEF IInv

\* Places stay as long as no container of the agent is added, and creates are
\* admitted only with a place.
LEMMA CapacityKept ==
  ASSUME CapacityOK, MaxRuntimes \in Nat, Shrinks,
         \A u \in Threads : thread'[u].pc = "create" =>
           thread[u].pc = "create" \/ (HasCapacity /\ UNCHANGED Engine)
  PROVE  CapacityOK'
<1>1. /\ IsFiniteSet(containers) /\ IsFiniteSet(containers')
      /\ Cardinality(Timely') <= Cardinality(Timely)
      /\ Cardinality(Timely) <= MaxRuntimes
  BY DEF CapacityOK, Shrinks, WithinMaxRuntimes
<1>2. /\ Cardinality(Timely) \in Nat /\ Cardinality(Managed) \in Nat
      /\ Cardinality(Timely) <= Cardinality(Managed)
  BY <1>1, ManagedFinite
<1>3. Cardinality(Timely') \in Nat
  <2>1. Timely' \subseteq containers'
    BY DEF Timely, Managed
  <2> QED BY <1>1, <2>1, FS_Subset, FS_CardinalityType
<1>4. WithinMaxRuntimes'
  BY <1>1, <1>2, <1>3 DEF WithinMaxRuntimes
<1>5. HasCapacity \/ Cardinality(Timely) < MaxRuntimes => Cardinality(Timely') < MaxRuntimes
  BY <1>1, <1>2, <1>3 DEF HasCapacity
<1>6. \A u \in Threads : thread[u].pc = "create" => Cardinality(Timely) < MaxRuntimes
  BY DEF CapacityOK
<1> QED BY <1>1, <1>4, <1>5, <1>6 DEF CapacityOK

\* A step of a thread that does nothing to the files and only calm things to the
\* engine.
LEMMA CalmStep ==
  ASSUME IInv, NEW t \in Threads, Only(t), Mutex', ThreadOK(t)', Sees(t)',
         EngineOK', Calm, Spares, Shrinks, Wears, UNCHANGED <<Files, up>>, calls' \in Nat,
         thread'[t].pc = "create" => HasCapacity /\ UNCHANGED Engine
  PROVE  Kept
<1>1. \A u \in Threads : u # t => Sees(u)'
  BY Parts, CalmKeeps DEF Only
<1>2. routes' \subseteq Participants /\ targets' \subseteq Participants
  BY Parts DEF Files
<1>3. IInv'
  BY <1>1, <1>2, Assemble
<1>4. CapacityOK => CapacityOK'
  BY Parts, CapacityKept DEF Only
<1> QED BY <1>3, <1>4 DEF Kept

\* A step of the lock holder: nobody else has seen what it changes.
LEMMA HolderStep ==
  ASSUME IInv, NEW t \in Threads, thread[t].pc \in LockedPoints,
         Only(t), ThreadOK(t)', Sees(t)',
         EngineOK', Inherits, Spares, Wears, UNCHANGED Rest,
         routes' \subseteq Participants, targets' \subseteq Participants
  PROVE  /\ IInv'
         /\ Shrinks /\ (thread'[t].pc = "create" => HasCapacity /\ UNCHANGED Engine)
              => Kept
<1>1. \A u \in Threads : u # t => Sees(u)'
  BY Parts, UnlockedKeeps DEF Only, Mutex
<1>2. Mutex'
  BY Parts, MutexKept
<1>3. UNCHANGED up /\ calls' \in Nat
  BY Parts DEF Rest
<1>4. IInv'
  BY <1>1, <1>2, <1>3, Assemble
<1>5. Shrinks /\ (thread'[t].pc = "create" => HasCapacity /\ UNCHANGED Engine)
        => (CapacityOK => CapacityOK')
  BY Parts, CapacityKept DEF Only
<1> QED BY <1>4, <1>5 DEF Kept

-----------------------------------------------------------------------------
(* Requests, answers and the lock *)

\* Any answer, with whatever calm effect the failed or last call had.
LEMMA AnswerStep ==
  ASSUME IInv, NEW t \in Threads, thread[t].pc # "idle", NEW a \in Answers, Answer(t, a),
         EngineOK', Calm, Spares, Shrinks, Wears, UNCHANGED <<Files, Rest>>
  PROVE  Kept
<1>1. Only(t) /\ Onward(t) /\ thread'[t].pc = "answered"
  BY Parts, AnswerMoves
<1>2. Mutex'
  BY <1>1, Parts, MutexKept DEF LockedPoints, CreatePoints, RemovePoints
<1>3. ThreadOK(t)'
  BY <1>1, Parts, AliveUp, ThreadKept DEF Rest
<1>4. Sees(t)'
  BY <1>1, RestedSees DEF FreePoints
<1>5. UNCHANGED <<Files, up>> /\ calls' \in Nat
  BY Parts DEF Rest
<1> QED BY <1>1, <1>2, <1>3, <1>4, <1>5, CalmStep

\* An answer of a thread that changed nothing.
LEMMA PlainAnswer ==
  ASSUME IInv, NEW t \in Threads, thread[t].pc # "idle", NEW a \in Answers, Answer(t, a),
         NoFault \/ \E kind : Fault(kind), UNCHANGED <<Engine, Files, Rest>>
  PROVE  Kept
<1>1. UNCHANGED Engine /\ UNCHANGED <<Files, Rest>>
  OBVIOUS
<1> QED BY <1>1, Parts, EngineStays, StaysShrinks, FaultWears, AnswerStep

\* A request is accepted.
LEMMA AcceptStep ==
  ASSUME IInv, NEW t \in Threads, NEW op, NEW pid, NEW req,
         \/ op = "create" /\ req \in Requests /\ pid = req.pid
         \/ op \in {"remove", "stop"} /\ req = NoRequest /\ pid \in Participants
         \/ op = "list" /\ req = NoRequest /\ pid = NoRequest,
         Accept(t, op, pid, req), calls' \in Nat
  PROVE  Kept
<1> DEFINE n == thread'[t]
<1>1. pid \in Participants \cup {NoRequest} /\ req \in Requests \cup {NoRequest}
  BY AgentAssumption
<1>2. {c.id : c \in Managed} \in SUBSET Nat
  BY Parts DEF EngineOK, Managed, Container
<1>3. thread' = [thread EXCEPT ![t] =
         [Quiet EXCEPT !.op = op, !.pid = pid, !.req = req,
            !.pc = CASE op = "stop" -> "halt"
                     [] op = "list" -> "listing"
                     [] OTHER -> "waiting",
            !.todo = IF op = "list" THEN {c.id : c \in Managed} ELSE {}]]
  BY DEF Accept
<1>4. /\ n.op = op /\ n.pid = pid /\ n.req = req /\ n.id = 0 /\ n.answer = "none"
      /\ n.todo \in SUBSET Nat
      /\ n.pc = IF op = "stop" THEN "halt" ELSE IF op = "list" THEN "listing" ELSE "waiting"
  BY <1>2, <1>3, Parts DEF Quiet
<1>5. Only(t)
  BY <1>1, <1>2, <1>3, Parts DEF Only, Thread, Quiet, FreePoints, LockedPoints, Answers
<1> HIDE DEF n
<1>6. Mutex'
  BY <1>4, <1>5, Parts, MutexKept DEF n, LockedPoints, CreatePoints, RemovePoints
<1>7. ThreadOK(t)'
  BY <1>4 DEF n, ThreadOK, Accept, CreatePoints, RemovePoints
<1>8. Sees(t)'
  BY <1>4, RestedSees DEF n, FreePoints
<1>9. /\ UNCHANGED Engine /\ UNCHANGED <<Files, up>>
      /\ Wears
  BY Parts DEF Accept, Engine, Files, Wears
<1> QED BY <1>4, <1>5, <1>6, <1>7, <1>8, <1>9, Parts, EngineStays, StaysShrinks, CalmStep
     DEF n

\* A connection ends.
LEMMA ResetStep ==
  ASSUME IInv, NEW t \in Threads, thread' = [thread EXCEPT ![t] = Quiet],
         UNCHANGED <<Engine, Files, Rest, faults>>
  PROVE  Kept
<1>1. Only(t) /\ thread'[t] = Quiet
  BY Parts DEF Only, Thread, Quiet, FreePoints, LockedPoints, Answers
<1>2. Mutex'
  BY <1>1, Parts, MutexKept DEF Quiet, LockedPoints, CreatePoints, RemovePoints
<1>3. ThreadOK(t)'
  BY <1>1 DEF ThreadOK, Quiet, CreatePoints, RemovePoints
<1>4. Sees(t)'
  BY <1>1, RestedSees DEF Quiet, FreePoints
<1>5. /\ UNCHANGED Engine /\ UNCHANGED <<Files, up>> /\ calls' \in Nat
      /\ Wears
  BY Parts DEF Rest, Wears, Engine
<1>6. thread'[t].pc # "create"
  BY <1>1 DEF Quiet
<1> QED BY <1>1, <1>2, <1>3, <1>4, <1>5, <1>6, Parts, EngineStays, StaysShrinks, CalmStep

\* The lock is taken.
LEMMA AcquireStep ==
  ASSUME IInv, NEW t \in Threads, Acquire(t)
  PROVE  Kept
<1>1. /\ thread[t].pc = "waiting" /\ LockFree
      /\ UNCHANGED Engine /\ UNCHANGED <<Files, up>> /\ calls' \in Nat /\ Wears
  BY Parts DEF Acquire, At, Rest, Wears, Engine
<1> DEFINE pc == IF thread[t].op = "create" THEN "inspect" ELSE "find"
<1>2. Goto(t, pc) /\ pc \in Points
  BY DEF Acquire, Points, LockedPoints, CreatePoints, RemovePoints
<1>3. Only(t) /\ Onward(t) /\ thread'[t].pc = pc
  BY <1>2, Parts, GotoMoves
<1>4. Mutex'
  BY <1>1, <1>3, Parts, MutexKept
<1>5. up /\ thread[t].op \in {"create", "remove"} /\ ThreadOK(t)
  BY <1>1, Parts DEF ThreadOK
<1>6. ThreadOK(t)'
  BY <1>1, <1>3, <1>5, ThreadKept DEF CreatePoints, RemovePoints
<1>7. Sees(t)'
  BY <1>3 DEF Sees, HoldsOK, HaltsOK, AdmitOK, FilesOK, GoneOK, UnwindOK, Holding, Unwinding
<1>8. thread'[t].pc # "create"
  BY <1>3
<1> QED BY <1>1, <1>3, <1>4, <1>6, <1>7, <1>8, Parts, EngineStays, StaysShrinks, CalmStep

\* Something calm happens while no thread moves.
LEMMA WorldStep ==
  ASSUME IInv, UNCHANGED <<Files, thread, Rest>>,
         EngineOK', Calm, Spares, Shrinks, Wears
  PROVE  Kept
<1>1. UNCHANGED Files /\ UNCHANGED thread /\ UNCHANGED up /\ UNCHANGED calls
  BY DEF Rest
<1>3. \A u \in Threads : Sees(u)' /\ ThreadOK(u)'
  BY <1>1, Parts, CalmKeeps DEF ThreadOK
<1>4. TypeOK' /\ IdsOK' /\ OneWriterPerSave' /\ LateOK' /\ Mutex'
  BY <1>1, Parts DEF EngineOK, TypeOK, Wears, Mutex, Files
<1>7. late' # {} => Lossy'
  BY Parts, LossyStays DEF IInv, Wears
<1>5. CapacityOK => CapacityOK'
  BY <1>1, Parts, CapacityKept
<1>6. faults' <= MaxFaults
  BY Parts DEF Wears
<1> QED BY <1>3, <1>4, <1>5, <1>6, <1>7 DEF Kept, IInv

\* A client that gives up costs a fault; the agent goes on.
LEMMA FaultOnly ==
  ASSUME IInv, NoFault \/ \E kind : Fault(kind), UNCHANGED <<Engine, Files, thread, Rest>>
  PROVE  Kept
<1>1. UNCHANGED Engine /\ UNCHANGED <<Files, thread, Rest>>
  OBVIOUS
<1>2. EngineOK' /\ Calm /\ Spares /\ Wears /\ Shrinks
  BY <1>1, Parts, EngineStays, StaysShrinks, FaultWears
<1> QED BY <1>1, <1>2, WorldStep

-----------------------------------------------------------------------------
(* _create_runtime *)

\* What a lock holder knows of the container it works on.
LEMMA HeldContainer ==
  ASSUME IInv, NEW t \in Threads, thread[t].pc \in Holding
  PROVE  /\ \A c \in containers : c.id = thread[t].id =>
              /\ c.pid = thread[t].pid /\ c.label # NoRequest
              /\ thread[t].op = "create" => c.label = thread[t].req /\ c.late # "create"
         /\ thread[t].id <= created
         /\ Lossy \/ \E c \in containers : c.id = thread[t].id
BY Parts DEF Sees, HoldsOK, EngineOK

\* A thread that creates has a request of its own participant.
LEMMA CreateRequest ==
  ASSUME IInv, NEW t \in Threads, thread[t].pc \in CreatePoints
  PROVE  /\ up /\ thread[t].op = "create" /\ thread[t].req \in Requests
         /\ thread[t].pid = thread[t].req.pid /\ thread[t].pid \in Participants
         /\ thread[t].req # NoRequest
         /\ thread[t].pc \in LockedPoints /\ ThreadOK(t)
BY Parts, AgentAssumption DEF ThreadOK, CreatePoints, LockedPoints

\* A thread that removes has a participant.
LEMMA RemoveRequest ==
  ASSUME IInv, NEW t \in Threads, thread[t].pc \in RemovePoints
  PROVE  /\ up /\ thread[t].op = "remove" /\ thread[t].pid \in Participants
         /\ thread[t].pc \in LockedPoints /\ ThreadOK(t)
BY Parts DEF ThreadOK, RemovePoints, LockedPoints

\* A create goes on to its next point.
LEMMA CreateMoves ==
  ASSUME IInv, NEW t \in Threads, thread[t].pc \in CreatePoints,
         NEW pc \in CreatePoints, Goto(t, pc), Sees(t)',
         EngineOK', Inherits, Spares, Shrinks, UNCHANGED Rest, Wears,
         routes' \subseteq Participants, targets' \subseteq Participants,
         pc = "create" => HasCapacity /\ UNCHANGED Engine
  PROVE  Kept
<1>1. pc \in Points
  BY DEF Points, LockedPoints
<1>2. Only(t) /\ Onward(t) /\ thread'[t].pc = pc
  BY <1>1, Parts, GotoMoves
<1>3. ThreadOK(t)'
  BY <1>2, CreateRequest, ThreadKept DEF Rest
<1> QED BY <1>2, <1>3, CreateRequest, HolderStep

\* The same without a change of the engine.
LEMMA CreateGoes ==
  ASSUME IInv, NEW t \in Threads, thread[t].pc \in CreatePoints,
         NEW pc \in CreatePoints, Goto(t, pc), Sees(t)',
         UNCHANGED <<Engine, Rest>>, Wears,
         routes' \subseteq Participants, targets' \subseteq Participants,
         pc = "create" => HasCapacity
  PROVE  Kept
<1>1. UNCHANGED Engine /\ UNCHANGED Rest
  OBVIOUS
<1> QED BY <1>1, Parts, EngineStays, StaysShrinks, CreateMoves

\* The holder's container, found again in the next state.
LEMMA HeldKept ==
  ASSUME IInv, NEW t \in Threads, HoldsOK(t), thread[t].pc \in Holding, Onward(t),
         thread'[t].id = thread[t].id, Wears, UNCHANGED created,
         \A c \in containers : \E d \in containers' : Kin(c, d),
         \A d \in containers' : \E c \in containers : Kin(c, d)
  PROVE  HoldsOK(t)'
<1>1. Lossy => Lossy'
  BY Parts, LossyStays
<1> QED BY <1>1 DEF HoldsOK, Onward, Kin

\* The same for a container that nothing happened to.
LEMMA HeldStays ==
  ASSUME IInv, NEW t \in Threads, HoldsOK(t), thread[t].pc \in Holding, Onward(t),
         thread'[t].id = thread[t].id, Wears, UNCHANGED <<containers, created>>
  PROVE  HoldsOK(t)'
<1>1. \A c \in containers : c \in containers' /\ Kin(c, c)
  BY DEF Kin
<1> QED BY <1>1, HeldKept

\* Wherever a create begins to unwind, its answer is already known.
LEMMA UnwindMoves ==
  ASSUME thread \in [Threads -> Thread], NEW t \in Threads, NEW a \in Answers, Unwind(t, a)
  PROVE  /\ Only(t) /\ Onward(t)
         /\ thread'[t].pc = "unwind_target" /\ thread'[t].id = thread[t].id
<1>1. "unwind_target" \in Points
  BY DEF Points, LockedPoints, CreatePoints
<1> QED BY <1>1 DEF Unwind, Only, Onward, Thread, Points

\* The beginning of the unwinding, at the price of a fault that somebody had.
LEMMA UnwindStep ==
  ASSUME IInv, NEW t \in Threads, thread[t].pc \in CreatePoints, thread[t].pc \in Holding,
         NEW a \in Answers, Unwind(t, a), faults' < MaxFaults, UNCHANGED created,
         \A c \in containers : \E d \in containers' : Kin(c, d),
         \A d \in containers' : \E c \in containers : Kin(c, d),
         EngineOK', Inherits, Spares, Shrinks, UNCHANGED Rest, Wears,
         routes' \subseteq Participants, targets' \subseteq Participants
  PROVE  Kept
<1>1. /\ Only(t) /\ Onward(t)
      /\ thread'[t].pc = "unwind_target" /\ thread'[t].id = thread[t].id
  BY Parts, UnwindMoves
<1>2. HoldsOK(t)'
  BY <1>1, Parts, HeldKept DEF Sees
<1>3. Sees(t)'
  BY <1>1, <1>2 DEF Sees, HaltsOK, AdmitOK, FilesOK, GoneOK, UnwindOK, Unwinding
<1>4. ThreadOK(t)'
  BY <1>1, CreateRequest, ThreadKept DEF Rest, CreatePoints
<1> QED BY <1>1, <1>3, <1>4, CreateRequest, HolderStep

\* The look at the name.
LEMMA InspectNameStep ==
  ASSUME IInv, NEW t \in Threads, InspectName(t)
  PROVE  Kept
<1>1. /\ thread[t].pc \in {"inspect", "reinspect"} /\ thread[t].pc \in CreatePoints
      /\ NoFault /\ UNCHANGED <<Engine, Files, Rest>>
  BY DEF InspectName, At, CreatePoints
<1>2. CASE Goto(t, "admit")
  <2>1. thread'[t].pc = "admit"
    BY <1>2, Parts, GotoMoves DEF Points, LockedPoints, CreatePoints
  <2>2. Sees(t)'
    BY <2>1 DEF Sees, HoldsOK, HaltsOK, AdmitOK, FilesOK, GoneOK, UnwindOK, Holding,
         Unwinding
  <2>3. /\ routes' \subseteq Participants /\ targets' \subseteq Participants
        /\ "admit" \in CreatePoints /\ UNCHANGED <<Engine, Rest>> /\ Wears
    BY <1>1, Parts, FaultWears DEF Files, CreatePoints
  <2> QED BY <1>1, <1>2, <2>2, <2>3, CreateGoes
<1>4. CASE Answer(t, "missing")
  BY <1>1, <1>4, PlainAnswer DEF Answers
<1>3. CASE \E c \in Named(thread[t].pid) : Answer(t, Existing(c, thread[t].req))
  <2>1. PICK c : Answer(t, Existing(c, thread[t].req))
    BY <1>3
  <2>2. Existing(c, thread[t].req) \in Answers
    BY DEF Existing, Answers
  <2> QED BY <1>1, <2>1, <2>2, PlainAnswer
<1> QED BY <1>2, <1>3, <1>4 DEF InspectName

\* Admission: capacity and save are free under the lock.
LEMMA AdmitStep ==
  ASSUME IInv, NEW t \in Threads, AdmitRuntime(t)
  PROVE  Kept
<1>1. /\ thread[t].pc = "admit" /\ thread[t].pc \in CreatePoints
      /\ UNCHANGED <<Engine, Files, Rest>>
  BY DEF AdmitRuntime, At, CreatePoints
<1>2. CASE HasCapacity /\ SaveAvailable(thread[t].req) /\ NoFault /\ Goto(t, "create")
  <2>1. thread'[t].pc = "create" /\ Onward(t)
    BY <1>2, Parts, GotoMoves DEF Points, LockedPoints, CreatePoints
  <2>2. Sees(t)'
    BY <1>1, <1>2, <2>1 DEF Sees, HoldsOK, HaltsOK, AdmitOK, FilesOK, GoneOK, UnwindOK,
         Holding, Unwinding, SaveAvailable, SaveFree, Timely, Managed, Engine, Onward
  <2>3. /\ routes' \subseteq Participants /\ targets' \subseteq Participants
        /\ "create" \in CreatePoints /\ UNCHANGED <<Engine, Rest>> /\ Wears
    BY <1>1, <1>2, Parts, FaultWears DEF Files, CreatePoints
  <2> QED BY <1>1, <1>2, <2>2, <2>3, CreateGoes
<1>3. CASE NoFault /\ Answer(t, "conflict")
  BY <1>1, <1>3, PlainAnswer DEF Answers
<1>4. CASE PreparationFails(t)
  BY <1>1, <1>4, PlainAnswer DEF Answers, PreparationFails
<1> QED BY <1>2, <1>3, <1>4 DEF AdmitRuntime

\* The container is created: with a lost answer it stays without a thread.
LEMMA CreateContainerStep ==
  ASSUME IInv, NEW t \in Threads, CreateContainer(t)
  PROVE  Kept
<1>1. /\ thread[t].pc = "create" /\ thread[t].pc \in CreatePoints
      /\ UNCHANGED <<Files, Rest>>
  BY DEF CreateContainer, At, CreatePoints
<1>2. CASE Goto(t, "reinspect") /\ NoFault /\ UNCHANGED Engine
  <2>1. thread'[t].pc = "reinspect"
    BY <1>2, Parts, GotoMoves DEF Points, LockedPoints, CreatePoints
  <2>2. Sees(t)'
    BY <2>1 DEF Sees, HoldsOK, HaltsOK, AdmitOK, FilesOK, GoneOK, UnwindOK, Holding,
         Unwinding
  <2>3. /\ routes' \subseteq Participants /\ targets' \subseteq Participants
        /\ "reinspect" \in CreatePoints /\ UNCHANGED <<Engine, Rest>> /\ Wears
    BY <1>1, <1>2, Parts, FaultWears DEF Files, CreatePoints
  <2> QED BY <1>1, <1>2, <2>2, <2>3, CreateGoes
<1>3. CASE /\ Named(thread[t].pid) = {}
           /\ Added(thread[t].pid, thread[t].req, "created", "no")
           /\ UNCHANGED late
           /\ \/ /\ NoFault
                 /\ thread' = [thread EXCEPT ![t].pc = "start", ![t].id = created + 1]
              \/ Fault("engine") /\ Answer(t, "error")
  <2> DEFINE n == [id |-> created + 1, pid |-> thread[t].pid, label |-> thread[t].req,
                   state |-> "created", late |-> "no"]
  <2>1. /\ n \in Container /\ n.id = created + 1 /\ n.pid = thread[t].pid
        /\ n.label = thread[t].req /\ n.label # NoRequest /\ n.late # "create"
    BY <1>1, Parts, CreateRequest DEF Container, EngineOK
  <2>2. SaveFree(n.label)
    BY <1>1, <2>1, Parts DEF Sees, AdmitOK
  <2>10. created' = created + 1 /\ containers' = containers \cup {n}
    BY <1>3 DEF Added
  <2> HIDE DEF n
  <2>3. EngineOK' /\ Inherits /\ Spares
    BY <1>3, <2>1, <2>2, <2>10, Parts, AddedEngine
  <2>4. Wears /\ routes' \subseteq Participants /\ targets' \subseteq Participants
    BY <1>1, <1>3, Parts, FaultWears DEF Files
  <2>5. /\ Only(t) /\ Onward(t)
        /\ \/ thread'[t].pc = "start" /\ thread'[t].id = created + 1
           \/ thread'[t].pc = "answered"
    <3>1. CASE thread' = [thread EXCEPT ![t].pc = "start", ![t].id = created + 1]
      <4>1. "start" \in Points /\ created + 1 \in Nat
        BY Parts DEF EngineOK, Points, LockedPoints, CreatePoints
      <4> QED BY <3>1, <4>1, Parts, TakeMoves
    <3>2. CASE Answer(t, "error")
      BY <3>2, Parts, AnswerMoves DEF Answers
    <3> QED BY <1>3, <3>1, <3>2
  <2>6. ThreadOK(t)'
    BY <1>1, <2>5, CreateRequest, ThreadKept DEF Rest, CreatePoints
  <2>7. Sees(t)'
    <3>1. HoldsOK(t)'
      <4>1. n \in containers' /\ \A d \in containers' : d.id = created + 1 => d = n
        BY <2>1, <2>3, <2>10 DEF EngineOK
      <4>2. created' = created + 1 /\ created + 1 <= created'
        BY <2>10, Parts DEF EngineOK
      <4> QED BY <1>1, <2>1, <2>5, <4>1, <4>2, CreateRequest DEF HoldsOK, Holding, Onward
    <3> QED BY <2>5, <3>1 DEF Sees, HaltsOK, AdmitOK, FilesOK, GoneOK, UnwindOK, Unwinding
  <2>8. IInv'
    BY <1>1, <2>3, <2>4, <2>5, <2>6, <2>7, CreateRequest, HolderStep
  <2>9. CapacityOK => CapacityOK'
    <3> SUFFICES ASSUME CapacityOK PROVE CapacityOK'
      OBVIOUS
    <3>1. /\ IsFiniteSet(containers) /\ Cardinality(Timely) \in Nat
          /\ Cardinality(Timely) < MaxRuntimes
      BY <1>1, ManagedFinite DEF CapacityOK
    <3>2. /\ IsFiniteSet(containers') /\ Cardinality(Timely') \in Nat
          /\ Cardinality(Timely') <= Cardinality(Timely) + 1
      BY <2>10, <3>1, AddedCounts
    <3>3. WithinMaxRuntimes'
      BY <3>1, <3>2, Parts DEF WithinMaxRuntimes
    <3>4. \A u \in Threads : thread'[u].pc # "create"
      BY <1>1, <2>5, Parts DEF Only, Mutex, LockedPoints, CreatePoints
    <3> QED BY <3>2, <3>3, <3>4 DEF CapacityOK
  <2> QED BY <2>3, <2>8, <2>9 DEF Kept
<1> QED BY <1>2, <1>3 DEF CreateContainer, Engine

\* The container is started; when that raises, everything is taken back.
LEMMA StartContainerStep ==
  ASSUME IInv, NEW t \in Threads, StartContainer(t)
  PROVE  Kept
<1>1. /\ thread[t].pc = "start" /\ thread[t].pc \in CreatePoints /\ thread[t].pc \in Holding
      /\ SetState(thread[t].id, "running") /\ UNCHANGED created /\ late' = late
      /\ UNCHANGED Files /\ UNCHANGED Rest
  BY DEF StartContainer, At, CreatePoints, Holding
<1>2. Restated(thread[t].id)
  BY <1>1, Parts, SetStateRestates
<1>8. /\ \A c \in containers : \E d \in containers' : Kin(c, d)
      /\ \A d \in containers' : \E c \in containers : Kin(c, d)
  BY <1>2 DEF Restated
<1>3. EngineOK' /\ Inherits /\ Spares /\ Shrinks
  BY <1>1, <1>2, Parts, HeldContainer, RestatedEngine, RestatedShrinks
<1>4. routes' \subseteq Participants /\ targets' \subseteq Participants /\ Wears
  BY <1>1, Parts, FaultWears DEF Files, StartContainer
<1>5. CASE Goto(t, "route")
  <2>1. "route" \in CreatePoints /\ "route" \in Points /\ "route" # "create"
    BY DEF CreatePoints, Points, LockedPoints
  <2>2. /\ thread'[t].pc = "route" /\ Onward(t) /\ thread'[t].id = thread[t].id
    BY <1>5, <2>1, Parts, GotoMoves
  <2>3. HoldsOK(t)'
    BY <1>1, <1>4, <1>8, <2>2, Parts, HeldKept DEF Sees
  <2>4. Sees(t)'
    BY <1>5, <2>2, <2>3 DEF Sees, HaltsOK, AdmitOK, FilesOK, GoneOK, UnwindOK, Unwinding
  <2> QED BY <1>1, <1>3, <1>4, <1>5, <2>1, <2>4, CreateMoves
<1>6. CASE NoFault /\ Missing(thread[t].id) /\ Unwind(t, "missing")
  <2>1. Lossy
    BY <1>1, <1>6, HeldContainer DEF Missing, ById
  <2>2. faults' < MaxFaults
    BY <1>6, <2>1 DEF Lossy, NoFault
  <2> QED BY <1>1, <1>3, <1>4, <1>6, <1>8, <2>2, UnwindStep DEF Answers
<1>7. CASE Fault("engine") /\ Unwind(t, "error")
  <2>1. faults' < MaxFaults
    BY <1>7, Parts DEF Fault
  <2> QED BY <1>1, <1>3, <1>4, <1>7, <1>8, <2>1, UnwindStep DEF Answers
<1> QED BY <1>5, <1>6, <1>7 DEF StartContainer

\* A file is published, or the create begins to unwind.
LEMMA PublishStep ==
  ASSUME IInv, NEW t \in Threads, PublishRoute(t) \/ PublishTarget(t)
  PROVE  Kept
<1>1. /\ thread[t].pc \in {"route", "target"} /\ thread[t].pc \in CreatePoints
      /\ thread[t].pc \in Holding
      /\ thread[t].pc = "target" => thread[t].pid \in routes
      /\ UNCHANGED Engine /\ UNCHANGED Rest
  BY Parts DEF PublishRoute, PublishTarget, At, CreatePoints, Holding, Sees, FilesOK
<1>2. thread[t].pid \in Participants
  BY <1>1, CreateRequest
<1>3. Wears /\ routes' \subseteq Participants /\ targets' \subseteq Participants
  BY <1>1, <1>2, Parts, FaultWears DEF PublishRoute, PublishTarget
<1>4. ASSUME NEW pc \in {"target", "report"}, Goto(t, pc),
             thread[t].pid \in routes',
             pc = "report" => thread[t].pid \in targets'
      PROVE  Kept
  <2>1. pc \in CreatePoints /\ pc \in Points /\ pc # "create"
    BY DEF CreatePoints, Points, LockedPoints
  <2>2. thread'[t].pc = pc /\ Onward(t) /\ thread'[t].id = thread[t].id
    BY <1>4, <2>1, Parts, GotoMoves
  <2>3. HoldsOK(t)'
    BY <1>1, <1>3, <2>2, Parts, HeldStays DEF Sees, Engine
  <2>4. Sees(t)'
    BY <1>4, <2>2, <2>3 DEF Sees, HaltsOK, AdmitOK, FilesOK, GoneOK, UnwindOK, Unwinding,
         Onward
  <2> QED BY <1>1, <1>3, <1>4, <2>1, <2>4, CreateGoes
<1>5. CASE NoFault /\ routes' = routes \cup {thread[t].pid} /\ Goto(t, "target")
  BY <1>4, <1>5
<1>6. CASE Fault("disk") /\ Unwind(t, "error")
  <2>1. faults' < MaxFaults
    BY <1>6, Parts DEF Fault
  <2>2. created' = created /\ \A c \in containers : c \in containers' /\ Kin(c, c)
    BY <1>1 DEF Engine, Kin
  <2>3. containers' = containers /\ EngineOK' /\ Inherits /\ Spares /\ Shrinks
    BY <1>1, Parts, EngineStays, StaysShrinks DEF Engine
  <2>4. "error" \in Answers
    BY DEF Answers
  <2> QED BY <1>1, <1>3, <1>6, <2>1, <2>2, <2>3, <2>4, UnwindStep
<1>7. CASE /\ NoFault /\ targets' = targets \cup {thread[t].pid} /\ Goto(t, "report")
           /\ At(t, "target") /\ UNCHANGED routes
  BY <1>1, <1>4, <1>7 DEF At
<1> QED BY <1>5, <1>6, <1>7 DEF PublishRoute, PublishTarget

\* The new runtime is reported.
LEMMA ReportStep ==
  ASSUME IInv, NEW t \in Threads, ReportRuntime(t)
  PROVE  Kept
<1>1. "missing" \in Answers /\ "ok" \in Answers
  BY DEF Answers
<1> QED BY <1>1, PlainAnswer DEF ReportRuntime, At

\* The lock holder answers, and its last call may have changed anything of its own.
LEMMA HolderAnswers ==
  ASSUME IInv, NEW t \in Threads, thread[t].pc \in LockedPoints,
         NEW a \in Answers, Answer(t, a),
         EngineOK', Inherits, Spares, Shrinks, UNCHANGED Rest, Wears,
         routes' \subseteq Participants, targets' \subseteq Participants
  PROVE  Kept
<1>1. Only(t) /\ Onward(t) /\ thread'[t].pc = "answered"
  BY Parts, AnswerMoves
<1>2. thread[t].pc # "idle"
  BY DEF LockedPoints, CreatePoints, RemovePoints
<1>3. ThreadOK(t)'
  BY <1>1, <1>2, Parts, AliveUp, ThreadKept DEF Rest
<1>4. Sees(t)'
  BY <1>1, RestedSees DEF FreePoints
<1> QED BY <1>1, <1>3, <1>4, HolderStep

\* The two removals of files when a create failed.
LEMMA UnwindFilesStep ==
  ASSUME IInv, NEW t \in Threads, UnwindTarget(t) \/ UnwindRoute(t)
  PROVE  Kept
<1>1. /\ thread[t].pc \in {"unwind_target", "unwind_route"} /\ thread[t].pc \in CreatePoints
      /\ thread[t].pc \in Holding
      /\ UNCHANGED Engine /\ UNCHANGED Rest
  BY DEF UnwindTarget, UnwindRoute, At, CreatePoints, Holding
<1>2. UnwindOK(t) /\ faults < MaxFaults
  BY <1>1, Parts DEF Sees, UnwindOK, Unwinding
<1>3. Wears /\ routes' \subseteq Participants /\ targets' \subseteq Participants
  BY <1>1, Parts, FaultWears DEF UnwindTarget, UnwindRoute
<1>4. ASSUME NEW pc \in {"unwind_route", "unwind_stop"}, Goto(t, pc),
             faults' = MaxFaults - 1 =>
               thread[t].pid \notin targets' /\ (pc = "unwind_stop" => thread[t].pid \notin routes')
      PROVE  Kept
  <2>1. pc \in CreatePoints /\ pc \in Points /\ pc # "create"
    BY DEF CreatePoints, Points, LockedPoints
  <2>2. thread'[t].pc = pc /\ Onward(t) /\ thread'[t].id = thread[t].id
    BY <1>4, <2>1, Parts, GotoMoves
  <2>3. HoldsOK(t)'
    BY <1>1, <1>3, <2>2, Parts, HeldStays DEF Sees, Engine
  <2>4. faults' < MaxFaults
    BY <1>2, <1>3, Parts DEF Wears
  <2>5. UnwindOK(t)'
    BY <1>4, <2>2, <2>4 DEF UnwindOK, Unwinding, Onward
  <2>6. Sees(t)'
    BY <1>4, <2>2, <2>3, <2>5 DEF Sees, HaltsOK, AdmitOK, FilesOK, GoneOK
  <2> QED BY <1>1, <1>3, <1>4, <2>1, <2>6, CreateGoes
<1>5. CASE /\ NoFault /\ targets' = targets \ {thread[t].pid} /\ Goto(t, "unwind_route")
  BY <1>4, <1>5
<1>6. CASE Fault("disk") /\ Answer(t, "error") /\ UNCHANGED <<routes, targets>>
  <2>1. UNCHANGED Files
    BY <1>6 DEF Files
  <2> QED BY <1>1, <1>6, <2>1, PlainAnswer DEF Answers
<1>7. CASE UnwindRoute(t)
  <2>1. /\ thread[t].pc = "unwind_route" /\ Goto(t, "unwind_stop") /\ targets' = targets
        /\ \/ faults' = faults /\ routes' = routes \ {thread[t].pid}
           \/ faults' = faults - 1
    BY <1>7 DEF UnwindRoute, At, NoFault, Fault
  <2>2. faults' = MaxFaults - 1 => faults' = faults
    BY <1>2, <2>1, Parts
  <2>3. faults' = MaxFaults - 1 => thread[t].pid \notin targets' /\ thread[t].pid \notin routes'
    <3> SUFFICES ASSUME faults' = MaxFaults - 1
                 PROVE  thread[t].pid \notin targets' /\ thread[t].pid \notin routes'
      OBVIOUS
    <3>1. faults = MaxFaults - 1 /\ routes' = routes \ {thread[t].pid}
      BY <2>1, <2>2, Parts
    <3> QED BY <1>2, <2>1, <3>1 DEF UnwindOK, Unwinding
  <2> QED BY <1>4, <2>1, <2>3
<1> QED BY <1>5, <1>6, <1>7 DEF UnwindTarget

\* The container is stopped when a create failed.
LEMMA UnwindStopStep ==
  ASSUME IInv, NEW t \in Threads, UnwindStop(t)
  PROVE  Kept
<1>1. /\ thread[t].pc = "unwind_stop" /\ thread[t].pc \in CreatePoints
      /\ thread[t].pc \in Holding /\ thread[t].pc \in LockedPoints
      /\ Halt(thread[t].id) /\ late' = late
      /\ UNCHANGED created /\ UNCHANGED Files /\ UNCHANGED Rest
  BY DEF UnwindStop, At, CreatePoints, LockedPoints, Holding
<1>2. /\ Restated(thread[t].id)
      /\ \A d \in containers' : d.id = thread[t].id => d.state # "running"
  BY <1>1, Parts, HaltRestates
<1>3. EngineOK' /\ Inherits /\ Spares /\ Shrinks
  BY <1>1, <1>2, Parts, HeldContainer, RestatedEngine, RestatedShrinks
<1>4. /\ routes' \subseteq Participants /\ targets' \subseteq Participants /\ Wears
      /\ routes' = routes /\ targets' = targets
  BY <1>1, Parts, FaultWears DEF Files, UnwindStop
<1>11. CASE Answer(t, "error")
  BY <1>1, <1>3, <1>4, <1>11, HolderAnswers DEF Answers
<1>12. CASE Goto(t, "unwind_remove")
  <2>1. UnwindOK(t) /\ faults < MaxFaults
    BY <1>1, Parts DEF Sees, UnwindOK, Unwinding
  <2>2. "unwind_remove" \in CreatePoints /\ "unwind_remove" \in Points
    BY DEF CreatePoints, Points, LockedPoints
  <2>3. thread'[t].pc = "unwind_remove" /\ Onward(t) /\ thread'[t].id = thread[t].id
    BY <1>12, <2>2, Parts, GotoMoves
  <2>4. HoldsOK(t)'
    BY <1>1, <1>2, <1>4, <2>3, Parts, HeldKept DEF Sees, Restated
  <2>5. UnwindOK(t)'
    <3>1. faults' < MaxFaults
      BY <1>4, <2>1, Parts DEF Wears
    <3>2. faults' = MaxFaults - 1 => faults = MaxFaults - 1
      BY <1>4, <2>1, Parts DEF Wears
    <3>3. faults' = MaxFaults - 1 => thread[t].pid \notin routes' /\ thread[t].pid \notin targets'
      BY <1>1, <1>4, <2>1, <3>2 DEF UnwindOK, Unwinding
    <3> QED BY <1>2, <2>3, <3>1, <3>3 DEF UnwindOK, Onward
  <2>6. Sees(t)'
    BY <2>3, <2>4, <2>5 DEF Sees, HaltsOK, AdmitOK, FilesOK, GoneOK
  <2> QED BY <1>1, <1>3, <1>4, <1>12, <2>2, <2>6, CreateMoves
<1> QED BY <1>11, <1>12 DEF UnwindStop

\* The container is deleted when a create failed, unless it still runs.
LEMMA UnwindRemoveStep ==
  ASSUME IInv, NEW t \in Threads, UnwindRemove(t)
  PROVE  Kept
<1>1. /\ thread[t].pc = "unwind_remove" /\ thread[t].pc \in LockedPoints
      /\ thread[t].pc \in Holding
      /\ containers' = containers \/ Delete(thread[t].id)
      /\ late' = late
      /\ UNCHANGED created /\ UNCHANGED Files /\ UNCHANGED Rest
  BY DEF UnwindRemove, At, LockedPoints, CreatePoints, Holding
<1>2. EngineOK' /\ Inherits /\ Spares /\ Shrinks
  <2>1. CASE containers' = containers
    BY <1>1, <2>1, Parts, EngineStays, StaysShrinks DEF Engine
  <2>2. CASE Delete(thread[t].id)
    BY <1>1, <2>2, Parts, HeldContainer, DeletedEngine, DeleteShrinks
  <2> QED BY <1>1, <2>1, <2>2
<1>3. routes' \subseteq Participants /\ targets' \subseteq Participants /\ Wears
  BY <1>1, Parts, FaultWears DEF Files, UnwindRemove
<1>4. PICK a \in Answers : Answer(t, a)
  <2>1. thread[t].answer \in Answers /\ "error" \in Answers
    BY Parts DEF Thread, Answers
  <2> QED BY <2>1 DEF UnwindRemove
<1> QED BY <1>1, <1>2, <1>3, <1>4, HolderAnswers

\* Every step of a create.
LEMMA CreateStep ==
  ASSUME IInv, NEW t \in Threads, Create(t)
  PROVE  Kept
BY InspectNameStep, AdmitStep, CreateContainerStep, StartContainerStep, PublishStep,
   ReportStep, UnwindFilesStep, UnwindStopStep, UnwindRemoveStep DEF Create

-----------------------------------------------------------------------------
(* _remove_runtime *)

\* A removal goes on to its next point.
LEMMA RemoveMoves ==
  ASSUME IInv, NEW t \in Threads, thread[t].pc \in RemovePoints,
         Only(t), Onward(t), thread'[t].pc \in RemovePoints, Sees(t)',
         EngineOK', Inherits, Spares, Shrinks, UNCHANGED Rest, Wears,
         routes' \subseteq Participants, targets' \subseteq Participants
  PROVE  Kept
<1>1. ThreadOK(t)' /\ thread[t].pc \in LockedPoints
  BY RemoveRequest, ThreadKept DEF Rest
<1>2. thread'[t].pc # "create"
  BY DEF RemovePoints
<1> QED BY <1>1, <1>2, HolderStep

\* The container is looked up by its name.
LEMMA FindRuntimeStep ==
  ASSUME IInv, NEW t \in Threads, FindRuntime(t)
  PROVE  Kept
<1>1. /\ thread[t].pc = "find" /\ thread[t].pc \in RemovePoints
      /\ UNCHANGED Engine /\ UNCHANGED Files /\ UNCHANGED Rest
      /\ NoFault
  BY DEF FindRuntime, At, RemovePoints
<1>2. EngineOK' /\ Inherits /\ Spares /\ Shrinks /\ Wears
  BY <1>1, Parts, EngineStays, StaysShrinks, FaultWears
<1>3. routes' \subseteq Participants /\ targets' \subseteq Participants
  BY <1>1, Parts DEF Files
<1>4. thread[t].op = "remove"
  BY <1>1, RemoveRequest
<1>5. CASE /\ Named(thread[t].pid) = {}
           /\ thread' = [thread EXCEPT ![t].pc = "unroute", ![t].answer = "missing"]
  <2>1. /\ Only(t) /\ Onward(t)
        /\ thread'[t].pc = "unroute" /\ thread'[t].answer = "missing"
    <3>1. "unroute" \in Points /\ "missing" \in Answers /\ 0 \in Nat
      BY DEF Points, LockedPoints, RemovePoints, Answers
    <3> QED BY <1>5, <3>1, Parts, DecideMoves
  <2>2. \A c \in containers' : c.pid # thread'[t].pid
    BY <1>1, <1>5, <2>1 DEF Named, Engine, Onward
  <2>3. Sees(t)'
    BY <2>1, <2>2 DEF Sees, HoldsOK, HaltsOK, AdmitOK, FilesOK, GoneOK, UnwindOK,
         Holding, Unwinding, Timely, Managed
  <2>4. thread'[t].pc \in RemovePoints
    BY <2>1 DEF RemovePoints
  <2> QED BY <1>1, <1>2, <1>3, <2>1, <2>3, <2>4, RemoveMoves
<1>6. CASE Answer(t, "forbidden")
  BY <1>1, <1>6, PlainAnswer DEF Answers
<1>7. ASSUME NEW c \in Named(thread[t].pid), c.label # NoRequest,
             thread' = [thread EXCEPT
               ![t].pc = IF c.state = "running" THEN "stop" ELSE "remove",
               ![t].id = c.id, ![t].answer = "ok"]
      PROVE  Kept
  <2>1. c \in containers /\ c.id \in Nat /\ c.pid = thread[t].pid
    BY Parts DEF Named, EngineOK, Container
  <2>2. /\ Only(t) /\ Onward(t)
        /\ thread'[t].pc \in {"stop", "remove"} /\ thread'[t].answer = "ok"
        /\ thread'[t].id = c.id
        /\ thread'[t].pc = "remove" => c.state # "running"
    <3> DEFINE pc == IF c.state = "running" THEN "stop" ELSE "remove"
    <3>1. /\ pc \in Points /\ pc \in {"stop", "remove"} /\ "ok" \in Answers
          /\ pc = "remove" => c.state # "running"
      BY DEF Points, LockedPoints, RemovePoints, Answers
    <3>2. thread' = [thread EXCEPT ![t].pc = pc, ![t].id = c.id, ![t].answer = "ok"]
      BY <1>7
    <3> HIDE DEF pc
    <3>3. thread'[t].id = c.id
      BY <3>2, Parts DEF Thread
    <3>4. thread \in [Threads -> Thread] /\ c.id \in Nat
      BY <2>1, Parts
    <3>5. Only(t) /\ Onward(t) /\ thread'[t].pc = pc /\ thread'[t].answer = "ok"
      BY <3>1, <3>2, <3>4, DecideMoves
    <3> QED BY <3>1, <3>3, <3>5
  <2>6. \A d \in containers : d.id = c.id \/ d.pid = c.pid => d = c
    BY <2>1, Parts DEF EngineOK
  <2>7. c.id <= created
    BY <2>1, Parts DEF EngineOK, IdsOK
  <2>3. HoldsOK(t)'
    BY <1>1, <1>4, <1>7, <2>1, <2>2, <2>6, <2>7 DEF HoldsOK, Engine, Onward
  <2>8. GoneOK(t)'
    BY <1>1, <2>1, <2>2, <2>6 DEF GoneOK, Engine, Onward, Timely, Managed
  <2>4. Sees(t)'
    BY <2>2, <2>3, <2>8 DEF Sees, HaltsOK, AdmitOK, FilesOK, UnwindOK, Unwinding
  <2>5. thread'[t].pc \in RemovePoints
    BY <2>2 DEF RemovePoints
  <2> QED BY <1>1, <1>2, <1>3, <2>2, <2>4, <2>5, RemoveMoves
<1> QED BY <1>5, <1>6, <1>7 DEF FindRuntime

\* The container is stopped before it is removed.
LEMMA StopContainerStep ==
  ASSUME IInv, NEW t \in Threads, StopContainer(t)
  PROVE  Kept
<1>1. /\ thread[t].pc = "stop" /\ thread[t].pc \in RemovePoints /\ thread[t].pc \in Holding
      /\ thread[t].pc \in LockedPoints
      /\ Halt(thread[t].id) /\ UNCHANGED created /\ late' = late
      /\ UNCHANGED Files /\ UNCHANGED Rest
  BY DEF StopContainer, At, RemovePoints, LockedPoints, Holding
<1>2. /\ Restated(thread[t].id)
      /\ \A d \in containers' : d.id = thread[t].id => d.state # "running"
  BY <1>1, Parts, HaltRestates
<1>3. EngineOK' /\ Inherits /\ Spares /\ Shrinks
  BY <1>1, <1>2, Parts, HeldContainer, RestatedEngine, RestatedShrinks
<1>4. routes' \subseteq Participants /\ targets' \subseteq Participants /\ Wears
  BY <1>1, Parts, FaultWears DEF Files, StopContainer
<1>5. CASE Answer(t, "error") \/ Answer(t, "missing")
  BY <1>1, <1>3, <1>4, <1>5, HolderAnswers DEF Answers
<1>6. CASE Goto(t, "remove")
  <2>1. "remove" \in RemovePoints /\ "remove" \in Points
    BY DEF RemovePoints, Points, LockedPoints
  <2>2. /\ Only(t) /\ Onward(t) /\ thread'[t].pc = "remove"
        /\ thread'[t].id = thread[t].id /\ thread'[t].answer = thread[t].answer
    BY <1>6, <2>1, Parts, GotoMoves
  <2>3. HoldsOK(t)'
    BY <1>1, <1>2, <1>4, <2>2, Parts, HeldKept DEF Sees, Restated
  <2>4. GoneOK(t)'
    <3>1. \A d \in Timely' : \E c \in Timely : c.id = d.id /\ c.pid = d.pid
      BY <1>2 DEF Timely, Managed, Restated, Kin
    <3> QED BY <1>1, <1>2, <2>2, <3>1, Parts DEF Sees, GoneOK, Onward
  <2>5. Sees(t)'
    BY <2>2, <2>3, <2>4 DEF Sees, HaltsOK, AdmitOK, FilesOK, UnwindOK, Unwinding
  <2> QED BY <1>1, <1>3, <1>4, <2>1, <2>2, <2>5, RemoveMoves
<1> QED BY <1>5, <1>6 DEF StopContainer

\* The container is deleted; then its participant has none in time.
LEMMA RemoveContainerStep ==
  ASSUME IInv, NEW t \in Threads, RemoveContainer(t)
  PROVE  Kept
<1>1. /\ thread[t].pc = "remove" /\ thread[t].pc \in RemovePoints
      /\ thread[t].pc \in Holding /\ thread[t].pc \in LockedPoints
      /\ containers' = containers \/ Delete(thread[t].id)
      /\ UNCHANGED created /\ late' = late
      /\ UNCHANGED Files /\ UNCHANGED Rest
  BY DEF RemoveContainer, At, RemovePoints, LockedPoints, Holding
<1>2. EngineOK' /\ Inherits /\ Spares /\ Shrinks
  <2>1. CASE containers' = containers
    BY <1>1, <2>1, Parts, EngineStays, StaysShrinks DEF Engine
  <2>2. CASE Delete(thread[t].id)
    BY <1>1, <2>2, Parts, HeldContainer, DeletedEngine, DeleteShrinks
  <2> QED BY <1>1, <2>1, <2>2
<1>3. routes' \subseteq Participants /\ targets' \subseteq Participants /\ Wears
  BY <1>1, Parts, FaultWears DEF Files, RemoveContainer
<1>4. CASE Answer(t, "error") \/ Answer(t, "missing") \/ Answer(t, "conflict")
  BY <1>1, <1>2, <1>3, <1>4, HolderAnswers DEF Answers
<1>5. CASE Goto(t, "unroute") /\ ~Running(thread[t].id)
  <2>1. "unroute" \in RemovePoints /\ "unroute" \in Points
    BY DEF RemovePoints, Points, LockedPoints
  <2>2. /\ Only(t) /\ Onward(t) /\ thread'[t].pc = "unroute"
        /\ thread'[t].answer = thread[t].answer
    BY <1>5, <2>1, Parts, GotoMoves
  <2>3. \A c \in Timely' : c.pid # thread[t].pid
    <3>1. Delete(thread[t].id)
      BY <1>5 DEF RemoveContainer
    <3>2. \A c \in Timely : c.pid = thread[t].pid => c.id = thread[t].id
      BY <1>1, Parts DEF Sees, GoneOK
    <3> QED BY <3>1, <3>2 DEF Delete, ById, Timely, Managed
  <2>4. GoneOK(t)'
    BY <1>1, <2>2, <2>3, Parts DEF Sees, GoneOK, Onward
  <2>5. Sees(t)'
    BY <2>2, <2>4 DEF Sees, HoldsOK, HaltsOK, AdmitOK, FilesOK, UnwindOK, Holding, Unwinding
  <2> QED BY <1>1, <1>2, <1>3, <2>1, <2>2, <2>5, RemoveMoves
<1> QED BY <1>4, <1>5 DEF RemoveContainer

\* The files of a removed runtime are deleted.
LEMMA RemoveFilesStep ==
  ASSUME IInv, NEW t \in Threads, RemoveRoute(t) \/ RemoveTarget(t)
  PROVE  Kept
<1>1. /\ thread[t].pc \in {"unroute", "untarget"} /\ thread[t].pc \in RemovePoints
      /\ thread[t].pc \in LockedPoints
      /\ UNCHANGED Engine /\ UNCHANGED Rest
  BY DEF RemoveRoute, RemoveTarget, At, RemovePoints, LockedPoints
<1>2. EngineOK' /\ Inherits /\ Spares /\ Shrinks
  BY <1>1, Parts, EngineStays, StaysShrinks
<1>3. routes' \subseteq Participants /\ targets' \subseteq Participants /\ Wears
  BY <1>1, Parts, FaultWears DEF RemoveRoute, RemoveTarget
<1>4. ASSUME NEW a \in Answers, Answer(t, a)
      PROVE  Kept
  BY <1>1, <1>2, <1>3, <1>4, HolderAnswers
<1>5. CASE /\ thread[t].pc = "unroute" /\ routes' = routes \ {thread[t].pid}
           /\ Goto(t, "untarget")
  <2>1. "untarget" \in RemovePoints /\ "untarget" \in Points
    BY DEF RemovePoints, Points, LockedPoints
  <2>2. /\ Only(t) /\ Onward(t) /\ thread'[t].pc = "untarget"
        /\ thread'[t].answer = thread[t].answer
    BY <1>5, <2>1, Parts, GotoMoves
  <2>3. GoneOK(t)'
    BY <1>1, <1>5, <2>2, Parts DEF Sees, GoneOK, Timely, Managed, Onward, Engine
  <2>4. Sees(t)'
    BY <2>2, <2>3 DEF Sees, HoldsOK, HaltsOK, AdmitOK, FilesOK, UnwindOK, Holding, Unwinding
  <2> QED BY <1>1, <1>2, <1>3, <2>1, <2>2, <2>4, RemoveMoves
<1>6. thread[t].answer \in Answers /\ "error" \in Answers
  BY Parts DEF Thread, Answers
<1> QED BY <1>4, <1>5, <1>6 DEF RemoveRoute, RemoveTarget, At

\* Every step of a removal.
LEMMA RemoveStep ==
  ASSUME IInv, NEW t \in Threads, Remove(t)
  PROVE  Kept
BY FindRuntimeStep, StopContainerStep, RemoveContainerStep, RemoveFilesStep DEF Remove

-----------------------------------------------------------------------------
(* stop, list, engine failures, and the surroundings *)

\* A container found by its name keeps its identifier for the stop that follows.
LEMMA FindToStopStep ==
  ASSUME IInv, NEW t \in Threads, FindToStop(t)
  PROVE  Kept
<1>1. /\ thread[t].pc = "halt" /\ NoFault
      /\ UNCHANGED Engine /\ UNCHANGED Files /\ UNCHANGED Rest
      /\ thread[t].pc # "idle" /\ UNCHANGED <<Engine, Files, Rest>>
  BY DEF FindToStop, At
<1>2. CASE Answer(t, "missing") \/ Answer(t, "forbidden")
  BY <1>1, <1>2, PlainAnswer DEF Answers
<1>3. ASSUME NEW c \in Named(thread[t].pid), c.label # NoRequest,
             thread' = [thread EXCEPT ![t].pc = "halting", ![t].id = c.id]
      PROVE  Kept
  <2>1. c \in containers /\ c.id \in Nat /\ c.id <= created
    BY Parts DEF Named, EngineOK, Container, IdsOK
  <2>2. "halting" \in Points /\ thread \in [Threads -> Thread]
    BY Parts DEF Points, FreePoints
  <2>3. Only(t) /\ Onward(t) /\ thread'[t].pc = "halting" /\ thread'[t].id = c.id
    BY <1>3, <2>1, <2>2, TakeMoves
  <2>4. Mutex'
    BY <2>3, Parts, MutexKept DEF LockedPoints, CreatePoints, RemovePoints
  <2>5. ThreadOK(t)'
    <3>1. thread[t].op = "stop" /\ up /\ UNCHANGED up /\ ThreadOK(t)
      BY <1>1, Parts DEF ThreadOK, Rest
    <3> QED BY <2>3, <3>1, ThreadKept
  <2>6. HaltsOK(t)'
    BY <1>1, <1>3, <2>1, <2>3, Parts DEF HaltsOK, Engine, EngineOK
  <2>7. Sees(t)'
    BY <2>3, <2>6 DEF Sees, HoldsOK, AdmitOK, FilesOK, GoneOK, UnwindOK, Holding, Unwinding
  <2>8. UNCHANGED <<Files, up>> /\ calls' \in Nat /\ thread'[t].pc # "create"
    BY <1>1, <2>3, Parts DEF Rest
  <2> QED BY <1>1, <2>3, <2>4, <2>5, <2>7, <2>8, Parts, EngineStays, StaysShrinks,
          FaultWears, CalmStep
<1> QED BY <1>2, <1>3 DEF FindToStop

\* The stop itself, which reaches only containers of the agent.
LEMMA StopRuntimeStep ==
  ASSUME IInv, NEW t \in Threads, StopRuntime(t)
  PROVE  Kept
<1>1. /\ thread[t].pc = "halting" /\ thread[t].pc # "idle"
      /\ Halt(thread[t].id) /\ UNCHANGED created /\ UNCHANGED <<Files, Rest>>
      /\ late' = late
  BY DEF StopRuntime, At
<1>2. Restated(thread[t].id) /\ Calm
  BY <1>1, Parts, HaltRestates
<1>3. \A c \in containers : c.id = thread[t].id => c.label # NoRequest
  BY <1>1, Parts DEF Sees, HaltsOK
<1>4. EngineOK' /\ Spares /\ Shrinks /\ Wears
  BY <1>1, <1>2, <1>3, Parts, RestatedEngine, RestatedShrinks, FaultWears DEF StopRuntime
<1>5. "missing" \in Answers /\ "ok" \in Answers /\ "error" \in Answers
  BY DEF Answers
<1>6. PICK a \in Answers : Answer(t, a)
  BY <1>5 DEF StopRuntime
<1> QED BY <1>1, <1>2, <1>4, <1>6, AnswerStep

\* The listing goes through the identifiers it got.
LEMMA ListRuntimeStep ==
  ASSUME IInv, NEW t \in Threads, ListRuntime(t)
  PROVE  Kept
<1>1. /\ thread[t].pc = "listing" /\ NoFault
      /\ UNCHANGED Engine /\ UNCHANGED Files /\ UNCHANGED Rest
      /\ thread[t].pc # "idle" /\ UNCHANGED <<Engine, Files, Rest>>
  BY DEF ListRuntime, At
<1>2. CASE Answer(t, "missing") \/ Answer(t, "ok")
  BY <1>1, <1>2, PlainAnswer DEF Answers
<1>3. ASSUME NEW id, thread' = [thread EXCEPT ![t].todo = @ \ {id}]
      PROVE  Kept
  <2>1. Only(t) /\ Onward(t) /\ thread'[t].pc = "listing"
    BY <1>1, <1>3, Parts DEF Only, Onward, Thread
  <2>2. Mutex'
    BY <2>1, Parts, MutexKept DEF LockedPoints, CreatePoints, RemovePoints
  <2>3. ThreadOK(t)'
    <3>1. thread[t].op = "list" /\ up /\ UNCHANGED up /\ ThreadOK(t)
      BY <1>1, Parts DEF ThreadOK, Rest
    <3> QED BY <2>1, <3>1, ThreadKept
  <2>4. Sees(t)'
    BY <2>1, RestedSees DEF FreePoints
  <2>5. UNCHANGED <<Files, up>> /\ calls' \in Nat /\ thread'[t].pc # "create"
    BY <1>1, <2>1, Parts DEF Rest
  <2> QED BY <1>1, <2>1, <2>2, <2>3, <2>4, <2>5, Parts, EngineStays, StaysShrinks,
          FaultWears, CalmStep
<1> QED BY <1>2, <1>3 DEF ListRuntime

\* A call of a thread on a container that it found or created, kept for later.
LEMMA GivenUpEngine ==
  ASSUME IInv, NEW t \in Threads, thread[t].pc \in DOMAIN Command, Fault("late"),
         late' = late \cup {[command |-> Command[thread[t].pc], pid |-> thread[t].pid,
                            label |-> thread[t].req, id |-> thread[t].id]},
         UNCHANGED <<containers, created>>
  PROVE  EngineOK' /\ Calm /\ Inherits /\ Spares /\ Shrinks /\ Wears
<1> DEFINE e == [command |-> Command[thread[t].pc], pid |-> thread[t].pid,
                 label |-> thread[t].req, id |-> thread[t].id]
<1>1. /\ thread[t].pc \in {"create", "start", "stop", "halting", "remove", "unwind_stop",
                           "unwind_remove"}
      /\ Command[thread[t].pc] \in {"create", "start", "stop", "delete"}
      /\ Command[thread[t].pc] = "create" <=> thread[t].pc = "create"
      /\ Command[thread[t].pc] = "start" <=> thread[t].pc = "start"
  BY DEF Command
<1>2. ThreadOK(t) /\ thread[t] \in Thread
  BY Parts
<1>3. thread[t].pid \in Participants
  BY <1>1, <1>2, CreateRequest, RemoveRequest DEF ThreadOK, CreatePoints, RemovePoints
<1>4. /\ e \in LateCall
      /\ e.id = thread[t].id /\ e.command = Command[thread[t].pc]
  BY <1>1, <1>2, <1>3 DEF LateCall, Thread
<1>5. e.command # "create" =>
        /\ e.id <= created
        /\ \A c \in containers : c.id = e.id =>
             c.label # NoRequest /\ (e.command = "start" => c.late # "create")
  <2>1. CASE thread[t].pc = "halting"
    BY <1>1, <1>4, <2>1, Parts DEF Sees, HaltsOK
  <2>2. CASE thread[t].pc \in Holding
    <3>1. thread[t].pc = "start" => thread[t].op = "create"
      BY <1>2 DEF ThreadOK, CreatePoints
    <3> QED BY <1>1, <1>4, <2>2, <3>1, HeldContainer
  <2> QED BY <1>1, <1>4, <2>1, <2>2 DEF Holding
<1> HIDE DEF e
<1>6. late' = late \cup {e}
  BY DEF e
<1>7. LateOK'
  BY <1>5, <1>6, Parts DEF LateOK, EngineOK
<1>8. EngineOK'
  BY <1>4, <1>6, <1>7, Parts DEF EngineOK, IdsOK, OneWriterPerSave, Timely, Managed
<1>9. Calm /\ Inherits /\ Spares
  BY Parts DEF Calm, Inherits, Spares, Kin, EngineOK
<1>10. Shrinks
  BY ManagedFinite DEF Shrinks, Timely, Managed
<1> QED BY <1>8, <1>9, <1>10, Parts, FaultLossy

\* A call that raised without effect: an answer, or the beginning or the next
\* step of the unwinding.
LEMMA EngineFailsStep ==
  ASSUME IInv, NEW t \in Threads, EngineFails(t)
  PROVE  Kept
<1>1. /\ UNCHANGED <<containers, created, Files, Rest>>
      /\ routes' \subseteq Participants /\ targets' \subseteq Participants
      /\ routes' = routes /\ targets' = targets
      /\ Fault("engine") \/ Fault("late")
      /\ EngineOK' /\ Calm /\ Inherits /\ Spares /\ Shrinks /\ Wears
  <2>1. PICK pc : EngineDown(t, pc, TRUE)
    BY DEF EngineFails, EngineDown
  <2>2. UNCHANGED <<containers, created, Files, Rest>> /\ thread[t].pc = pc
    BY <2>1 DEF EngineDown, At
  <2>3. CASE Fault("engine") /\ UNCHANGED late
    <3>1. UNCHANGED Engine
      BY <2>2, <2>3 DEF Engine
    <3> QED BY <2>2, <2>3, <3>1, Parts, EngineStays, StaysShrinks, FaultWears DEF Files
  <2>4. CASE /\ Fault("late") /\ pc \in DOMAIN Command
             /\ late' = late \cup {[command |-> Command[pc], pid |-> thread[t].pid,
                                   label |-> thread[t].req, id |-> thread[t].id]}
    BY <2>2, <2>4, Parts, GivenUpEngine DEF Files
  <2> QED BY <2>1, <2>3, <2>4 DEF EngineDown
<1>2. ASSUME NEW a \in Answers, Answer(t, a), thread[t].pc # "idle"
      PROVE  Kept
  BY <1>1, <1>2, AnswerStep
<1>3. faults' < MaxFaults
  BY <1>1, Parts DEF Fault
<1>4. CASE thread[t].pc = "start" /\ Unwind(t, "error")
  <2>1. thread[t].pc \in CreatePoints /\ thread[t].pc \in Holding /\ "error" \in Answers
    BY <1>4 DEF CreatePoints, Holding, Answers
  <2>2. \A c \in containers : c \in containers' /\ Kin(c, c)
    BY <1>1 DEF Kin
  <2> QED BY <1>1, <1>3, <1>4, <2>1, <2>2, UnwindStep
<1>5. CASE thread[t].pc = "unwind_stop" /\ Goto(t, "unwind_remove")
  <2>1. /\ "unwind_remove" \in CreatePoints /\ "unwind_remove" \in Points
        /\ thread[t].pc \in CreatePoints /\ thread[t].pc \in Holding
    BY <1>5 DEF CreatePoints, Points, LockedPoints, Holding
  <2>2. thread'[t].pc = "unwind_remove" /\ Onward(t) /\ thread'[t].id = thread[t].id
    BY <1>5, <2>1, Parts, GotoMoves
  <2>3. HoldsOK(t)'
    BY <1>1, <2>1, <2>2, Parts, HeldStays DEF Sees
  <2>4. faults' # MaxFaults - 1
    BY <1>1, <1>5, Parts DEF Fault, Sees, UnwindOK, Unwinding
  <2>5. Sees(t)'
    BY <1>3, <2>2, <2>3, <2>4 DEF Sees, HaltsOK, AdmitOK, FilesOK, GoneOK, UnwindOK, Unwinding
  <2> QED BY <1>1, <1>5, <2>1, <2>5, CreateMoves
<1>6. thread[t].answer \in Answers /\ "error" \in Answers
  BY Parts DEF Thread, Answers
<1> QED BY <1>2, <1>4, <1>5, <1>6 DEF EngineFails, EngineDown, At

\* A crash: every connection and the lock are gone, containers and files stay.
LEMMA CrashStep ==
  ASSUME IInv, Crash
  PROVE  Kept
<1>1. /\ UNCHANGED Engine /\ UNCHANGED Files /\ UNCHANGED calls /\ up' = FALSE
      /\ thread' = [t \in Threads |-> Quiet] /\ Fault("crash")
  BY DEF Crash
<1>2. EngineOK' /\ Spares /\ Shrinks /\ Wears
  BY <1>1, Parts, EngineStays, StaysShrinks, FaultWears
<1>3. Quiet \in Thread
  BY DEF Quiet, Thread, FreePoints, LockedPoints, Answers
<1>4. \A u \in Threads : thread'[u] = Quiet
  BY <1>1
<1>5. \A u \in Threads : ThreadOK(u)' /\ Sees(u)'
  <2> TAKE u \in Threads
  <2>1. Sees(u)'
    BY <1>4, RestedSees DEF Quiet, FreePoints
  <2>2. ThreadOK(u)'
    BY <1>4 DEF ThreadOK, Quiet, CreatePoints, RemovePoints
  <2> QED BY <2>1, <2>2
<1>6. Mutex'
  BY <1>4 DEF Mutex, Quiet, LockedPoints, CreatePoints, RemovePoints
<1>7. TypeOK' /\ IdsOK' /\ LateOK' /\ OneWriterPerSave' /\ faults' <= MaxFaults
  <2>1. thread' \in [Threads -> Thread]
    BY <1>1, <1>3
  <2>2. faults' \in Nat /\ faults' <= MaxFaults
    BY <1>2, Parts DEF Wears
  <2>3. up' \in BOOLEAN /\ calls' \in Nat
    BY <1>1, Parts
  <2> QED BY <1>1, <1>2, <2>1, <2>2, <2>3, Parts DEF EngineOK, TypeOK, Files
<1>8. CapacityOK => CapacityOK'
  BY <1>2, <1>4, Parts, CapacityKept DEF Quiet
<1>9. late' # {} => Lossy'
  BY <1>2, Parts, LossyStays DEF IInv, Wears
<1> QED BY <1>2, <1>5, <1>6, <1>7, <1>8, <1>9 DEF Kept, IInv

\* A restart: files of missing containers are deleted before anybody is served.
LEMMA RestartStep ==
  ASSUME IInv, Restart
  PROVE  Kept
<1>1. /\ UNCHANGED Engine /\ UNCHANGED thread /\ UNCHANGED calls /\ ~up /\ up' \in BOOLEAN
      /\ NoFault \/ Fault("disk")
      /\ routes' \subseteq routes /\ targets' \subseteq targets
  BY Parts DEF Restart
<1>2. EngineOK' /\ Spares /\ Shrinks /\ Wears
  BY <1>1, Parts, EngineStays, StaysShrinks, FaultWears
<1>3. \A u \in Threads : thread[u].pc = "idle" /\ thread[u].op = "none"
  BY <1>1, Parts DEF ThreadOK
<1>4. \A u \in Threads : Sees(u)'
  BY <1>1, <1>3, RestedSees DEF FreePoints
<1>5. \A u \in Threads : ThreadOK(u)'
  BY <1>1, <1>3 DEF ThreadOK, CreatePoints, RemovePoints
<1>6. Mutex'
  BY <1>1, Parts DEF Mutex
<1>7. TypeOK' /\ IdsOK' /\ LateOK' /\ OneWriterPerSave' /\ faults' <= MaxFaults
  BY <1>1, <1>2, Parts DEF EngineOK, TypeOK, Wears
<1>8. CapacityOK => CapacityOK'
  BY <1>1, <1>2, Parts, CapacityKept
<1>9. late' # {} => Lossy'
  BY <1>2, Parts, LossyStays DEF IInv, Wears
<1> QED BY <1>2, <1>4, <1>5, <1>6, <1>7, <1>8, <1>9 DEF Kept, IInv

\* Containers that end by themselves, or are created or removed by others.
LEMMA OutsideStep ==
  ASSUME IInv, \/ \E c \in containers : ContainerExits(c) \/ OutsideRemoves(c)
               \/ \E pid \in Participants : OutsideCreates(pid)
  PROVE  Kept
<1>1. ASSUME NEW c \in containers, ContainerExits(c)
      PROVE  Kept
  <2>1. /\ c.label # NoRequest /\ SetState(c.id, "exited") /\ UNCHANGED created
        /\ UNCHANGED <<Files, thread, Rest>> /\ Wears /\ late' \subseteq late
    BY <1>1, Parts DEF ContainerExits, Managed, Wears
  <2>2. Restated(c.id) /\ Calm
    BY <2>1, Parts, SetStateRestates
  <2>3. \A d \in containers : d.id = c.id => d.label # NoRequest
    BY <2>1, Parts DEF EngineOK
  <2>4. EngineOK' /\ Spares /\ Shrinks
    BY <2>2, <2>3, Parts, RestatedEngine, RestatedShrinks
  <2> QED BY <2>1, <2>2, <2>4, WorldStep
<1>2. ASSUME NEW pid \in Participants, OutsideCreates(pid)
      PROVE  Kept
  <2> DEFINE n == [id |-> created + 1, pid |-> pid, label |-> NoRequest, state |-> "running",
                   late |-> "no"]
  <2>1. /\ n.id = created + 1 /\ n.pid = pid /\ n.label = NoRequest /\ n \in Container
        /\ created \in Nat
    BY Parts DEF Container, EngineOK
  <2>2. /\ Named(pid) = {} /\ created' = created + 1 /\ containers' = containers \cup {n}
        /\ UNCHANGED <<Files, thread, Rest>> /\ Fault("outside") /\ UNCHANGED late
    BY <1>2 DEF OutsideCreates, Added
  <2> HIDE DEF n
  <2>3. EngineOK' /\ Spares
    BY <2>1, <2>2, Parts, AddedEngine
  <2>4. Calm
    BY <2>1, <2>2 DEF Calm, Kin
  <2>5. Shrinks /\ Wears
    BY <2>1, <2>2, Parts, ForeignShrinks, FaultWears
  <2> QED BY <2>2, <2>3, <2>4, <2>5, WorldStep
<1>3. ASSUME NEW c \in containers, OutsideRemoves(c)
      PROVE  Kept
  <2>1. /\ c.label # NoRequest /\ Delete(c.id) /\ UNCHANGED created /\ late' = late
        /\ UNCHANGED <<Files, thread, Rest>> /\ Fault("vanish")
    BY <1>3 DEF OutsideRemoves, Managed
  <2>2. \A d \in containers : d.id = c.id => d.label # NoRequest
    BY <2>1, Parts DEF EngineOK
  <2>3. Lossy' /\ Wears
    BY <2>1, Parts, FaultLossy
  <2>4. EngineOK' /\ Spares /\ Calm /\ Shrinks
    BY <2>1, <2>2, <2>3, Parts, DeletedEngine, DeletedCalm, DeleteShrinks
  <2> QED BY <2>1, <2>3, <2>4, WorldStep
<1> QED BY <1>1, <1>2, <1>3

\* A call that was given up takes effect.
LEMMA LateStep ==
  ASSUME IInv, NEW e \in late, TakesEffect(e)
  PROVE  Kept
<1>1. /\ late' \subseteq late /\ UNCHANGED <<Files, thread, Rest>> /\ UNCHANGED faults
      /\ e \in LateCall
  BY Parts DEF TakesEffect, EngineOK
<1>2. Lossy' /\ Wears
  BY <1>1, Parts DEF IInv, Lossy, Wears
<1>3. e.command # "create" =>
        \A c \in containers : c.id = e.id =>
          c.label # NoRequest /\ (e.command = "start" => c.late # "create")
  BY Parts DEF EngineOK, LateOK
<1>4. CASE /\ e.command = "create" /\ Named(e.pid) = {}
           /\ Added(e.pid, e.label, "created", "create")
  <2> DEFINE n == [id |-> created + 1, pid |-> e.pid, label |-> e.label, state |-> "created",
                   late |-> "create"]
  <2>1. /\ n.id = created + 1 /\ n.pid = e.pid /\ n.late = "create" /\ n \in Container
        /\ created \in Nat
    BY <1>1, Parts DEF Container, EngineOK, LateCall
  <2>2. created' = created + 1 /\ containers' = containers \cup {n}
    BY <1>4 DEF Added
  <2> HIDE DEF n
  <2>3. EngineOK' /\ Spares
    BY <1>1, <1>4, <2>1, <2>2, Parts, AddedEngine
  <2>4. Calm /\ Shrinks
    BY <2>1, <2>2, ForeignShrinks DEF Calm, Kin
  <2> QED BY <1>1, <1>2, <2>3, <2>4, WorldStep
<1>5. ASSUME Restated(e.id), Calm, e.command # "create"
      PROVE  Kept
  <2>1. EngineOK' /\ Spares /\ Shrinks
    BY <1>3, <1>5, Parts, RestatedEngine, RestatedShrinks
  <2> QED BY <1>1, <1>2, <1>5, <2>1, WorldStep
<1>6. CASE e.command = "start"
  <2>1. Restated(e.id) /\ Calm
    BY <1>1, <1>3, <1>6, Parts, LateStartRestates DEF TakesEffect
  <2> QED BY <1>5, <1>6, <2>1
<1>7. CASE e.command = "stop"
  <2>1. Restated(e.id) /\ Calm
    BY <1>1, <1>7, Parts, HaltRestates DEF TakesEffect
  <2> QED BY <1>5, <1>7, <2>1
<1>8. CASE e.command = "delete" /\ Delete(e.id) /\ UNCHANGED created
  <2>1. EngineOK' /\ Spares /\ Calm /\ Shrinks
    BY <1>1, <1>2, <1>3, <1>8, Parts, DeletedEngine, DeletedCalm, DeleteShrinks
  <2> QED BY <1>1, <1>2, <2>1, WorldStep
<1> QED BY <1>4, <1>6, <1>7, <1>8 DEF TakesEffect

-----------------------------------------------------------------------------
(* The invariant holds *)

\* The steps of a thread between its arrival and its answer.
LEMMA ThreadSteps ==
  ASSUME IInv, NEW t \in Threads, Acquire(t) \/ Create(t) \/ Remove(t) \/ Unlocked(t)
  PROVE  Kept
BY AcquireStep, CreateStep, RemoveStep, FindToStopStep, StopRuntimeStep, ListRuntimeStep
   DEF Unlocked

\* The process and its surroundings.
LEMMA SurroundingsStep ==
  ASSUME IInv, Surroundings
  PROVE  Kept
BY CrashStep, RestartStep, OutsideStep, LateStep DEF Surroundings

\* A request that arrives.
LEMMA RequestStep ==
  ASSUME IInv, NEW t \in Threads, Request(t)
  PROVE  Kept
<1>1. ASSUME NEW op, NEW pid, NEW req, Arrive(t, op, pid, req)
      PROVE  Accept(t, op, pid, req) /\ calls' \in Nat
  BY <1>1, Parts DEF Arrive
<1>2. CASE \E req \in Requests : Arrive(t, "create", req.pid, req)
  BY <1>1, <1>2, AcceptStep
<1>3. CASE \E pid \in Participants, op \in {"remove", "stop"} : Arrive(t, op, pid, NoRequest)
  BY <1>1, <1>3, AcceptStep
<1>4. CASE Arrive(t, "list", NoRequest, NoRequest)
  BY <1>1, <1>4, AcceptStep
<1> QED BY <1>2, <1>3, <1>4 DEF Request

\* The initial state.
LEMMA AgentInit == Init => IInv /\ CapacityOK
<1> SUFFICES ASSUME Init PROVE IInv /\ CapacityOK
  OBVIOUS
<1>1. Quiet \in Thread
  BY DEF Quiet, Thread, FreePoints, LockedPoints, Answers
<1>2. \A u \in Threads : thread[u] = Quiet
  BY DEF Init
<1>3. \A u \in Threads : ThreadOK(u) /\ Sees(u)
  BY <1>2 DEF Init, ThreadOK, Sees, HoldsOK, HaltsOK, AdmitOK, FilesOK, GoneOK, UnwindOK,
       Holding, Unwinding, Quiet, CreatePoints, RemovePoints
<1>4. Mutex
  BY <1>2 DEF Mutex, Quiet, LockedPoints, CreatePoints, RemovePoints
<1>5. TypeOK /\ IdsOK /\ LateOK /\ late = {} /\ OneWriterPerSave /\ faults <= MaxFaults
  BY <1>1, AgentAssumption DEF Init, TypeOK, IdsOK, LateOK, OneWriterPerSave, Timely, Managed
<1>6. CapacityOK
  <2>1. containers = {} /\ Timely = {}
    BY DEF Init, Timely, Managed
  <2>2. IsFiniteSet(containers) /\ Cardinality(Timely) = 0
    BY <2>1, FS_EmptySet
  <2> QED BY <1>2, <2>2, AgentAssumption DEF CapacityOK, WithinMaxRuntimes, Quiet
<1> QED BY <1>3, <1>4, <1>5, <1>6 DEF IInv

\* Every step keeps the invariant, the capacity and the containers of others.
LEMMA AgentStep ==
  ASSUME IInv, [Next]_vars
  PROVE  Kept
<1>1. ASSUME NEW t \in Threads, Reply(t)
      PROVE  Kept
  BY <1>1, ResetStep DEF Reply
<1>2. CASE UNCHANGED vars
  <2>1. UNCHANGED <<Engine, Files, thread, Rest>> /\ NoFault
    BY <1>2 DEF vars, Engine, Files, Rest, NoFault
  <2> QED BY <2>1, FaultOnly
<1> QED BY <1>1, <1>2, RequestStep, ThreadSteps, EngineFailsStep, SurroundingsStep
     DEF Next, Step

\* The invariant, for every number of threads, participants, requests and faults.
LEMMA Invariant == Spec => [](IInv /\ CapacityOK)
<1>1. IInv /\ CapacityOK /\ [Next]_vars => (IInv /\ CapacityOK)'
  BY AgentStep DEF Kept
<1> QED BY <1>1, AgentInit, PTL DEF Spec

\* Type correctness; in particular a name or an identifier belongs to one
\* container.
THEOREM TypeCorrect == Spec => []TypeOK
<1>1. IInv => TypeOK
  BY DEF IInv
<1> QED BY <1>1, Invariant, PTL

\* No two containers mount the same persistent save, late creates apart.
THEOREM SaveExclusive == Spec => []OneWriterPerSave
<1>1. IInv => OneWriterPerSave
  BY DEF IInv
<1> QED BY <1>1, Invariant, PTL

\* The agent never has more than max_runtimes containers, late creates apart.
THEOREM CapacityRespected == Spec => []WithinMaxRuntimes
<1>1. CapacityOK => WithinMaxRuntimes
  BY DEF CapacityOK
<1> QED BY <1>1, Invariant, PTL

\* Containers of others are never stopped, removed or replaced.
THEOREM ForeignSafe == Spec => ForeignUntouched
<1>1. IInv /\ [Next]_vars =>
        [\A c \in containers : c.label = NoRequest => c \in containers']_vars
  BY AgentStep DEF Kept, Spares
<1> QED BY <1>1, Invariant, PTL DEF Spec, ForeignUntouched

-----------------------------------------------------------------------------
(* What answers mean *)

\* The work of a thread on its request.
Works(t) == Acquire(t) \/ Create(t) \/ Remove(t) \/ Unlocked(t) \/ EngineFails(t)

\* A thread's step leaves the other threads alone.
LEMMA OthersStay ==
  ASSUME thread \in [Threads -> Thread], NEW t \in Threads, NEW u \in Threads, u # t,
         Works(t) \/ Request(t) \/ Reply(t)
  PROVE  thread'[u] = thread[u]
<1>1. ASSUME NEW pc, Goto(t, pc) PROVE thread'[u] = thread[u]
  BY <1>1 DEF Goto
<1>2. ASSUME NEW a, Answer(t, a) PROVE thread'[u] = thread[u]
  BY <1>2 DEF Answer
<1>10. ASSUME NEW a, Unwind(t, a) PROVE thread'[u] = thread[u]
  BY <1>10 DEF Unwind
<1>3. CASE Create(t)
  BY <1>1, <1>2, <1>3, <1>10 DEF Create, InspectName, AdmitRuntime, CreateContainer, StartContainer,
       PublishRoute, PublishTarget, ReportRuntime, UnwindTarget, UnwindRoute, UnwindStop,
       UnwindRemove, PreparationFails
<1>4. CASE Remove(t)
  BY <1>1, <1>2, <1>4 DEF Remove, FindRuntime, StopContainer, RemoveContainer, RemoveRoute,
       RemoveTarget
<1>5. CASE Unlocked(t)
  BY <1>2, <1>5 DEF Unlocked, FindToStop, StopRuntime, ListRuntime
<1>6. CASE EngineFails(t)
  BY <1>1, <1>2, <1>6, <1>10 DEF EngineFails, EngineDown
<1>7. CASE Acquire(t)
  BY <1>1, <1>7 DEF Acquire
<1>8. CASE Reply(t)
  BY <1>8 DEF Reply
<1>9. CASE Request(t)
  BY <1>9 DEF Request, Arrive, Accept
<1> QED BY <1>3, <1>4, <1>5, <1>6, <1>7, <1>8, <1>9 DEF Works

\* A request that just arrived, or a connection that just ended, has no answer.
LEMMA FreshHasNoAnswer ==
  ASSUME thread \in [Threads -> Thread], NEW t \in Threads, Request(t) \/ Reply(t)
  PROVE  thread'[t].pc # "answered"
<1>1. CASE Reply(t)
  BY <1>1 DEF Reply, Quiet
<1>2. ASSUME NEW op, NEW pid, NEW req, Accept(t, op, pid, req),
             op \in {"create", "remove", "stop", "list"}
      PROVE  thread'[t].pc # "answered"
  BY <1>2 DEF Accept, Quiet
<1> QED BY <1>1, <1>2 DEF Request, Arrive

\* Only its own work makes a thread answer.
LEMMA AnswersOwn ==
  ASSUME thread \in [Threads -> Thread], Next, NEW t \in Threads,
         thread[t].pc # "answered", thread'[t].pc = "answered"
  PROVE  Works(t)
<1>1. ~Surroundings
  BY DEF Surroundings, Crash, Restart, ContainerExits, OutsideCreates, OutsideRemoves,
       TakesEffect, Quiet
<1>2. PICK u \in Threads : Request(u) \/ Step(u) \/ EngineFails(u)
  BY <1>1 DEF Next
<1>3. Works(u) \/ Request(u) \/ Reply(u)
  BY <1>2 DEF Step, Works
<1>4. u = t
  BY <1>3, OthersStay
<1> QED BY <1>3, <1>4, FreshHasNoAnswer

\* A removal answers ok or missing at its end, with everything gone, or passes on
\* the not found of the engine, when the container it knew is gone.
LEMMA RemovalAnswer ==
  ASSUME IInv, NEW t \in Threads, Works(t), Answering(t, "remove", {"ok", "missing"})
  PROVE  /\ \A c \in containers' : c.pid = thread[t].pid =>
              c.label = NoRequest \/ c.late = "create"
         /\ \/ thread[t].pid \notin routes' \cup targets'
            \/ thread'[t].answer = "missing" /\ thread[t].pc \in {"stop", "remove"}
<1>1. /\ thread[t].op = "remove" /\ thread'[t].pc = "answered" /\ thread[t].pc # "answered"
      /\ thread'[t].answer \in {"ok", "missing"} /\ thread \in [Threads -> Thread]
  BY Parts DEF Answering
<1>2. ThreadOK(t) /\ Sees(t)
  BY Parts
<1>3. ASSUME NEW a \in {"error", "forbidden", "conflict"}, Answer(t, a) PROVE FALSE
  <2>1. a \in Answers
    BY DEF Answers
  <2> QED BY <1>1, <1>3, <2>1, AnswerMoves
<1>4. ASSUME NEW pc \in Points \ {"answered"}, Goto(t, pc) PROVE FALSE
  BY <1>1, <1>4, GotoMoves
<1>5. thread[t].pc \notin CreatePoints \cup {"halt", "halting", "listing"}
  BY <1>1, <1>2 DEF ThreadOK
<1>6. ~Create(t)
  BY <1>5 DEF Create, InspectName, AdmitRuntime, CreateContainer, StartContainer,
       PublishRoute, PublishTarget, ReportRuntime, UnwindTarget, UnwindRoute, UnwindStop,
       UnwindRemove, At, CreatePoints
<1>7. ~Unlocked(t)
  BY <1>5 DEF Unlocked, FindToStop, StopRuntime, ListRuntime, At
<1>8. ~EngineFails(t)
  BY <1>3, <1>5 DEF EngineFails, EngineDown, At, CreatePoints
<1>9. ~Acquire(t)
  BY <1>4 DEF Acquire, Points, LockedPoints, CreatePoints, RemovePoints
<1>10. ~FindRuntime(t)
  <2> SUFFICES ASSUME FindRuntime(t) PROVE FALSE
    OBVIOUS
  <2>1. CASE thread' = [thread EXCEPT ![t].pc = "unroute", ![t].answer = "missing"]
    BY <1>1, <2>1 DEF Thread
  <2>2. CASE Answer(t, "forbidden")
    BY <1>3, <2>2
  <2>3. ASSUME NEW c, thread' = [thread EXCEPT
                 ![t].pc = IF c.state = "running" THEN "stop" ELSE "remove",
                 ![t].id = c.id, ![t].answer = "ok"]
        PROVE  FALSE
    BY <1>1, <2>3 DEF Thread
  <2> QED BY <2>1, <2>2, <2>3 DEF FindRuntime
<1>11. ~RemoveRoute(t)
  BY <1>3, <1>4 DEF RemoveRoute, Points, LockedPoints, RemovePoints
<1>12. CASE StopContainer(t) \/ RemoveContainer(t)
  <2>1. /\ thread[t].pc \in {"stop", "remove"} /\ Missing(thread[t].id)
        /\ Answer(t, "missing")
    BY <1>3, <1>4, <1>12 DEF StopContainer, RemoveContainer, At, Points, LockedPoints,
         RemovePoints
  <2>2. thread'[t].answer = "missing"
    BY <1>1, <2>1, AnswerMoves DEF Answers
  <2>3. \A c \in Timely : c.pid # thread[t].pid
    BY <1>2, <2>1 DEF Sees, GoneOK, Missing, ById, Timely, Managed
  <2>4. \A d \in containers' : \E c \in containers :
           c.pid = d.pid /\ c.label = d.label /\ (c.late = "create" => d.late = "create")
    <3>1. CASE StopContainer(t)
      <4>1. Restated(thread[t].id)
        BY <3>1, Parts, HaltRestates DEF StopContainer
      <4> QED BY <4>1 DEF Restated, Kin
    <3>2. CASE RemoveContainer(t)
      BY <3>2 DEF RemoveContainer, Delete
    <3> QED BY <1>12, <3>1, <3>2
  <2> QED BY <2>1, <2>2, <2>3, <2>4 DEF Timely, Managed
<1>13. CASE RemoveTarget(t)
  <2>1. targets' = targets \ {thread[t].pid}
    BY <1>3, <1>13 DEF RemoveTarget
  <2>2. /\ thread[t].pid \notin routes /\ routes' = routes /\ containers' = containers
        /\ \A c \in Timely : c.pid # thread[t].pid
    BY <1>2, <1>13 DEF RemoveTarget, At, Sees, GoneOK, Engine
  <2> QED BY <2>1, <2>2 DEF Timely, Managed
<1> QED BY <1>6, <1>7, <1>8, <1>9, <1>10, <1>11, <1>12, <1>13 DEF Works, Remove

\* A create that answers at its last point has published everything.
LEMMA CreationAnswer ==
  ASSUME IInv, NEW t \in Threads, Works(t), Answering(t, "create", {"ok"}), At(t, "report")
  PROVE  /\ thread[t].pid \in routes' \cap targets'
         /\ \E c \in containers' : c.id = thread[t].id /\ c.label = thread[t].req
<1>1. /\ thread[t].op = "create" /\ thread'[t].answer = "ok" /\ thread[t].pc = "report"
      /\ thread \in [Threads -> Thread]
  BY Parts DEF Answering, At
<1>2. ReportRuntime(t) \/ EngineFails(t)
  BY <1>1 DEF Works, Acquire, Create, Remove, Unlocked, At,
       InspectName, AdmitRuntime, CreateContainer, StartContainer, PublishRoute,
       PublishTarget, UnwindTarget, UnwindRoute, UnwindStop, UnwindRemove,
       FindRuntime, StopContainer, RemoveContainer, RemoveRoute, RemoveTarget, FindToStop,
       StopRuntime, ListRuntime
<1>5. ~EngineFails(t)
  <2> SUFFICES ASSUME EngineFails(t) PROVE FALSE
    OBVIOUS
  <2>1. Answer(t, "error") /\ "error" \in Answers
    BY <1>1 DEF EngineFails, EngineDown, At, Answers
  <2> QED BY <1>1, <2>1, AnswerMoves
<1>6. /\ UNCHANGED Engine /\ UNCHANGED Files
      /\ Answer(t, IF Missing(thread[t].id) THEN "missing" ELSE "ok")
  BY <1>2, <1>5 DEF ReportRuntime
<1>7. ~Missing(thread[t].id)
  BY <1>1, <1>6, AnswerMoves DEF Answers
<1>3. thread[t].pid \in routes /\ thread[t].pid \in targets
  BY <1>1, Parts DEF Sees, FilesOK
<1>4. \E c \in containers : c.id = thread[t].id /\ c.label = thread[t].req
  BY <1>1, <1>7, HeldContainer DEF Holding, Missing, ById
<1> QED BY <1>3, <1>4, <1>6 DEF Engine, Files

\* A create that failed once and then unwound without another failure has taken
\* everything back.
LEMMA UnwoundAnswer ==
  ASSUME IInv, NEW t \in Threads, Works(t), At(t, "unwind_remove"),
         faults' = MaxFaults - 1
  PROVE  /\ thread[t].pid \notin routes' \cup targets'
         /\ \A c \in containers' : c.id = thread[t].id => c.late = "start"
<1>1. thread[t].pc = "unwind_remove" /\ UnwindOK(t) /\ faults < MaxFaults
  BY Parts DEF At, Sees, UnwindOK, Unwinding
<1>2. UnwindRemove(t) \/ EngineFails(t)
  BY <1>1 DEF Works, Acquire, Create, Remove, Unlocked, At,
       InspectName, AdmitRuntime, CreateContainer, StartContainer, PublishRoute,
       PublishTarget, ReportRuntime, UnwindTarget, UnwindRoute, UnwindStop,
       FindRuntime, StopContainer, RemoveContainer, RemoveRoute, RemoveTarget, FindToStop,
       StopRuntime, ListRuntime
<1>3. /\ NoFault \/ \E kind : Fault(kind)
      /\ EngineFails(t) => \E kind : Fault(kind)
  BY <1>2 DEF UnwindRemove, EngineFails, EngineDown
<1>4. faults' = faults
  BY <1>1, <1>3, Parts DEF NoFault, Fault
<1>5. UnwindRemove(t)
  BY <1>2, <1>3, <1>4, Parts DEF Fault
<1>6. \A c \in containers : c.id = thread[t].id => c.state # "running" \/ c.late = "start"
  BY <1>1, <1>4 DEF UnwindOK
<1>7. \A c \in containers' : c.id = thread[t].id => c.late = "start"
  <2>1. CASE Running(thread[t].id) /\ UNCHANGED containers
    <3>1. PICK c \in containers : c.id = thread[t].id /\ c.state = "running"
      BY <2>1 DEF Running, ById
    <3>2. \A d \in containers : d.id = thread[t].id => d = c
      BY <3>1, Parts DEF EngineOK
    <3> QED BY <1>6, <2>1, <3>1, <3>2
  <2>2. CASE Delete(thread[t].id)
    BY <2>2 DEF Delete, ById
  <2> QED BY <1>5, <2>1, <2>2 DEF UnwindRemove
<1>8. thread[t].pid \notin routes \cup targets /\ UNCHANGED Files
  BY <1>1, <1>4, <1>5 DEF UnwindOK, Unwinding, UnwindRemove
<1> QED BY <1>7, <1>8 DEF Files

\* Removed and not found mean that no container of the runtime is left, and, but
\* for a not found of the engine, no file.
THEOREM RemovalIsFinal == Spec => RemovedIsGone
<1>1. IInv /\ [Next]_vars =>
       [\A t \in Threads : Answering(t, "remove", {"ok", "missing"}) =>
         /\ \A c \in containers' : c.pid = thread[t].pid =>
              c.label = NoRequest \/ c.late = "create"
         /\ \/ thread[t].pid \notin routes' \cup targets'
            \/ thread'[t].answer = "missing" /\ thread[t].pc \in {"stop", "remove"}]_vars
  BY Parts, AnswersOwn, RemovalAnswer DEF Answering
<1> QED BY <1>1, Invariant, PTL DEF Spec, RemovedIsGone

\* A reported runtime has its container, its route and its target.
THEOREM CreationIsServed == Spec => CreatedIsServed
<1>1. IInv /\ [Next]_vars =>
       [\A t \in Threads : Answering(t, "create", {"ok"}) /\ At(t, "report") =>
         /\ thread[t].pid \in routes' \cap targets'
         /\ \E c \in containers' : c.id = thread[t].id /\ c.label = thread[t].req]_vars
  BY Parts, AnswersOwn, CreationAnswer DEF Answering
<1> QED BY <1>1, Invariant, PTL DEF Spec, CreatedIsServed

\* A create whose failure is the only one takes everything back.
THEOREM CreationUnwinds == Spec => FailedCreateUnwinds
<1>1. IInv /\ [Next]_vars =>
       [\A t \in Threads :
         (/\ Answering(t, "create", {"error", "missing"})
          /\ At(t, "unwind_remove")
          /\ faults' = MaxFaults - 1) =>
         /\ thread[t].pid \notin routes' \cup targets'
         /\ \A c \in containers' : c.id = thread[t].id => c.late = "start"]_vars
  BY Parts, AnswersOwn, UnwoundAnswer DEF Answering
<1> QED BY <1>1, Invariant, PTL DEF Spec, FailedCreateUnwinds

-----------------------------------------------------------------------------
(* Files without a container *)

\* As long as engine and disk work and nobody removes containers, a file without
\* a container is about to be deleted, by the removal that deleted the container
\* or by the next startup.
Backed ==
  /\ \A t \in Threads : thread[t].pc \notin Unwinding
  /\ \A p \in routes \cup targets :
       \/ ~up
       \/ \E c \in Managed : c.pid = p
       \/ \E t \in Threads : thread[t].pc \in {"unroute", "untarget"} /\ thread[t].pid = p

Reliable == FaultKinds \cap {"engine", "late", "disk", "vanish"} = {}

\* Every runtime keeps its container.
Survive == \A c \in Managed : \E d \in containers' : d.label # NoRequest /\ d.pid = c.pid

\* Containers that keep names and labels keep their files backed.
LEMMA BackedKept ==
  ASSUME Backed, UNCHANGED up, Survive, routes' \cup targets' \subseteq routes \cup targets,
         NEW t \in Threads, thread[t].pc \notin {"unroute", "untarget"},
         \A u \in Threads : u # t => thread'[u] = thread[u],
         thread'[t].pc \notin Unwinding
  PROVE  Backed'
<1>1. \A u \in Threads : thread'[u].pc \notin Unwinding
  BY DEF Backed
<1>2. ASSUME NEW p \in routes' \cup targets', up
      PROVE  \/ \E c \in Managed' : c.pid = p
             \/ \E u \in Threads : thread'[u].pc \in {"unroute", "untarget"}
                                   /\ thread'[u].pid = p
  <2>1. CASE \E c \in Managed : c.pid = p
    BY <2>1 DEF Survive, Managed
  <2>2. CASE \E u \in Threads : thread[u].pc \in {"unroute", "untarget"} /\ thread[u].pid = p
    BY <2>2
  <2> QED BY <1>2, <2>1, <2>2 DEF Backed
<1> QED BY <1>1, <1>2 DEF Backed

\* An engine whose containers keep their names.
LEMMA KinSurvive ==
  ASSUME \A c \in containers : \E d \in containers' : Kin(c, d)
  PROVE  Survive
BY DEF Survive, Managed, Kin

\* Where nobody removes them, containers do not get lost.
LEMMA NothingLost ==
  ASSUME Reliable, IInv
  PROVE  /\ ~Lossy /\ ~Lossy' /\ late = {}
         /\ \A t \in Threads : thread[t].pc \in Holding =>
              \E c \in containers : c.id = thread[t].id /\ c.pid = thread[t].pid
                                   /\ c.label # NoRequest
<1>1. ~Lossy /\ ~Lossy'
  BY DEF Reliable, Lossy
<1> QED BY <1>1, HeldContainer DEF IInv

\* Only the two removals of a container take one away.
LEMMA WorksSurvive ==
  ASSUME Reliable, IInv, NEW t \in Threads, Works(t), thread[t].pc \notin {"unwind_remove", "remove"}
  PROVE  Survive
<1>1. CASE UNCHANGED containers
  BY <1>1 DEF Survive, Managed
<1>2. ASSUME NEW id, Halt(id), UNCHANGED <<created, late>> PROVE Survive
  <2>1. Restated(id)
    BY <1>2, Parts, HaltRestates
  <2> QED BY <2>1, KinSurvive DEF Restated
<1>3. CASE StartContainer(t)
  <2>1. Restated(thread[t].id)
    BY <1>3, Parts, SetStateRestates DEF StartContainer
  <2> QED BY <2>1, KinSurvive DEF Restated
<1>4. CASE CreateContainer(t)
  BY <1>1, <1>4 DEF CreateContainer, Added, Engine, Survive, Managed
<1>5. CASE Create(t)
  BY <1>1, <1>2, <1>3, <1>4, <1>5 DEF Create, InspectName, AdmitRuntime, PublishRoute,
       PublishTarget, ReportRuntime, UnwindTarget, UnwindRoute, UnwindStop, UnwindRemove,
       At, Engine
<1>6. CASE Remove(t)
  BY <1>1, <1>2, <1>6 DEF Remove, FindRuntime, StopContainer, RemoveContainer, RemoveRoute,
       RemoveTarget, At, Engine
<1>7. CASE Unlocked(t)
  BY <1>1, <1>2, <1>7 DEF Unlocked, FindToStop, StopRuntime, ListRuntime, Engine
<1>8. CASE Acquire(t) \/ EngineFails(t)
  BY <1>1, <1>8 DEF Acquire, EngineFails, EngineDown, Engine
<1> QED BY <1>5, <1>6, <1>7, <1>8 DEF Works

\* Without failures of engine and disk and without others nothing is ever unwound.
LEMMA NeverUnwinds ==
  ASSUME Reliable, IInv, NEW t \in Threads, Works(t), thread[t].pc \notin Unwinding
  PROVE  thread'[t].pc \notin Unwinding
<1>1. /\ ~Fault("engine") /\ ~Fault("disk") /\ ~Fault("late")
      /\ thread \in [Threads -> Thread]
  BY Parts DEF Reliable, Fault
<1>11. thread[t].pc = "start" => ~Missing(thread[t].id)
  BY NothingLost DEF Holding, Missing, ById
<1>2. ASSUME NEW a, Answer(t, a) PROVE thread'[t].pc \notin Unwinding
  BY <1>1, <1>2 DEF Answer, Unwinding, Thread
<1>3. ASSUME NEW pc, Goto(t, pc), pc \notin Unwinding PROVE thread'[t].pc \notin Unwinding
  BY <1>1, <1>3 DEF Goto, Thread
<1>4. ~EngineFails(t)
  BY <1>1 DEF EngineFails, EngineDown
<1>5. CASE CreateContainer(t)
  <2>1. CASE thread' = [thread EXCEPT ![t].pc = "start", ![t].id = created + 1]
    BY <1>1, <2>1 DEF Unwinding, Thread
  <2>2. CASE Goto(t, "reinspect")
    BY <1>3, <2>2 DEF Unwinding
  <2> QED BY <1>1, <1>2, <1>5, <2>1, <2>2 DEF CreateContainer
<1>6. CASE Create(t)
  BY <1>1, <1>2, <1>3, <1>5, <1>6, <1>11 DEF Create, InspectName, AdmitRuntime, StartContainer,
       PreparationFails, PublishRoute, PublishTarget, ReportRuntime, UnwindTarget,
       UnwindRoute, UnwindStop, UnwindRemove, At, Unwinding
<1>7. CASE FindRuntime(t)
  <2>1. CASE thread' = [thread EXCEPT ![t].pc = "unroute", ![t].answer = "missing"]
    BY <1>1, <2>1 DEF Unwinding, Thread
  <2>2. ASSUME NEW c, thread' = [thread EXCEPT
                 ![t].pc = IF c.state = "running" THEN "stop" ELSE "remove",
                 ![t].id = c.id, ![t].answer = "ok"]
        PROVE  thread'[t].pc \notin Unwinding
    BY <1>1, <2>2 DEF Unwinding, Thread
  <2> QED BY <1>2, <1>7, <2>1, <2>2 DEF FindRuntime
<1>8. CASE Remove(t)
  BY <1>1, <1>2, <1>3, <1>7, <1>8 DEF Remove, StopContainer, RemoveContainer, RemoveRoute,
       RemoveTarget, Unwinding
<1>9. CASE Unlocked(t)
  <2>1. ASSUME NEW c, thread' = [thread EXCEPT ![t].pc = "halting", ![t].id = c.id]
        PROVE  thread'[t].pc \notin Unwinding
    BY <1>1, <2>1 DEF Unwinding, Thread
  <2>2. ASSUME NEW id, thread' = [thread EXCEPT ![t].todo = @ \ {id}]
        PROVE  thread'[t].pc \notin Unwinding
    BY <1>1, <2>2 DEF Thread
  <2> QED BY <1>2, <1>9, <2>1, <2>2 DEF Unlocked, FindToStop, StopRuntime, ListRuntime
<1>10. CASE Acquire(t)
  BY <1>3, <1>10 DEF Acquire, Unwinding
<1> QED BY <1>4, <1>6, <1>8, <1>9, <1>10 DEF Works

\* The points at which a thread writes or deletes a file.
FilePoints == {"route", "target", "unwind_target", "unwind_route", "unroute", "untarget"}

\* No file changes anywhere else.
LEMMA FilesStay ==
  ASSUME NEW t \in Threads, Works(t), thread[t].pc \notin FilePoints
  PROVE  UNCHANGED <<routes, targets>>
<1>1. CASE Create(t)
  BY <1>1 DEF Create, InspectName, AdmitRuntime, CreateContainer, StartContainer,
       PublishRoute, PublishTarget, ReportRuntime, UnwindTarget, UnwindRoute, UnwindStop,
       UnwindRemove, At, FilePoints, Files
<1>2. CASE Remove(t)
  BY <1>2 DEF Remove, FindRuntime, StopContainer, RemoveContainer, RemoveRoute,
       RemoveTarget, At, FilePoints, Files
<1>3. CASE Unlocked(t) \/ Acquire(t) \/ EngineFails(t)
  BY <1>3 DEF Unlocked, FindToStop, StopRuntime, ListRuntime, Acquire, EngineFails,
       EngineDown, Files
<1> QED BY <1>1, <1>2, <1>3 DEF Works

\* What a thread does at the points where it may undo the backing of a file.
LEMMA FileWork ==
  ASSUME Reliable, NEW t \in Threads, Works(t),
         thread[t].pc \in {"route", "target", "remove", "unroute", "untarget"}
  PROVE  /\ thread[t].pc = "route" => PublishRoute(t)
         /\ thread[t].pc = "target" => PublishTarget(t)
         /\ thread[t].pc = "remove" => RemoveContainer(t)
         /\ thread[t].pc = "unroute" => RemoveRoute(t)
         /\ thread[t].pc = "untarget" => RemoveTarget(t)
<1>1. ~EngineFails(t)
  BY DEF Reliable, EngineFails, EngineDown, Fault
<1>2. ~Unlocked(t) /\ ~Acquire(t)
  BY DEF Unlocked, FindToStop, StopRuntime, ListRuntime, Acquire, At
<1>3. Create(t) => thread[t].pc \in {"route", "target"}
                   /\ (PublishRoute(t) \/ PublishTarget(t))
  BY DEF Create, InspectName, AdmitRuntime, CreateContainer, StartContainer, PublishRoute,
       PublishTarget, ReportRuntime, UnwindTarget, UnwindRoute, UnwindStop, UnwindRemove, At
<1>4. Remove(t) => RemoveContainer(t) \/ RemoveRoute(t) \/ RemoveTarget(t)
  BY DEF Remove, FindRuntime, StopContainer, At
<1> QED BY <1>1, <1>2, <1>3, <1>4 DEF Works, PublishRoute, PublishTarget, RemoveContainer,
          RemoveRoute, RemoveTarget, At

\* The work of a thread keeps files backed.
LEMMA BackedWorks ==
  ASSUME Reliable, IInv, Backed, NEW t \in Threads, Works(t)
  PROVE  Backed'
<1>1. thread[t].pc \notin Unwinding /\ thread'[t].pc \notin Unwinding
  BY NeverUnwinds DEF Backed
<1>2. \A u \in Threads : u # t => thread'[u] = thread[u]
  BY Parts, OthersStay
<1>3. UNCHANGED up
  BY DEF Works, Acquire, Create, Remove, Unlocked, EngineFails, EngineDown,
       InspectName, AdmitRuntime, CreateContainer, StartContainer, PublishRoute,
       PublishTarget, ReportRuntime, UnwindTarget, UnwindRoute, UnwindStop, UnwindRemove,
       FindRuntime, StopContainer, RemoveContainer, RemoveRoute, RemoveTarget, FindToStop,
       StopRuntime, ListRuntime, Rest
<1>4. ~Fault("engine") /\ ~Fault("disk") /\ ~Fault("late")
  BY DEF Reliable, Fault
<1>5. \A u \in Threads : thread'[u].pc \notin Unwinding
  BY <1>1, <1>2 DEF Backed
<1>6. thread \in [Threads -> Thread]
  BY Parts
<1>7. CASE thread[t].pc \notin FilePoints \cup {"remove"}
  <2>1. Survive
    BY <1>1, <1>7, WorksSurvive DEF Unwinding
  <2>2. UNCHANGED <<routes, targets>>
    BY <1>7, FilesStay
  <2> QED BY <1>1, <1>2, <1>3, <1>7, <2>1, <2>2, BackedKept DEF FilePoints
<1>8. CASE thread[t].pc \in {"route", "target"}
  <2>1. PICK c \in containers : c.pid = thread[t].pid /\ c.label # NoRequest
    BY <1>8, NothingLost DEF Holding
  <2>2. /\ containers' = containers
        /\ routes' \cup targets' \subseteq routes \cup targets \cup {thread[t].pid}
    BY <1>8, FileWork DEF PublishRoute, PublishTarget, Engine
  <2>3. \A p \in routes' \cup targets' :
          \/ ~up'
          \/ \E d \in Managed' : d.pid = p
          \/ \E u \in Threads : thread'[u].pc \in {"unroute", "untarget"} /\ thread'[u].pid = p
    <3> TAKE p \in routes' \cup targets'
    <3>1. CASE p = thread[t].pid
      BY <2>1, <2>2, <3>1 DEF Managed
    <3>2. CASE p \in routes \cup targets
      BY <1>2, <1>3, <1>8, <2>2, <3>2 DEF Backed, Managed
    <3> QED BY <2>2, <3>1, <3>2
  <2> QED BY <1>5, <2>3 DEF Backed
<1>11. CASE thread[t].pc = "remove" /\ Running(thread[t].id)
  <2>1. RemoveContainer(t) /\ UNCHANGED containers /\ routes' = routes /\ targets' = targets
    BY <1>11, FileWork DEF RemoveContainer, Files
  <2>2. Survive
    BY <2>1 DEF Survive, Managed
  <2> QED BY <1>1, <1>2, <1>3, <1>11, <2>1, <2>2, BackedKept
<1>9. CASE thread[t].pc = "remove" /\ ~Running(thread[t].id)
  <2>3. PICK c \in containers : c.id = thread[t].id /\ c.pid = thread[t].pid
    BY <1>9, NothingLost DEF Holding
  <2>1. RemoveContainer(t) /\ Goto(t, "unroute") /\ Delete(thread[t].id)
    BY <1>4, <1>9, <2>3, FileWork DEF RemoveContainer, Missing, ById
  <2>2. thread'[t].pc = "unroute" /\ thread'[t].pid = thread[t].pid
    BY <1>6, <2>1, GotoMoves DEF Onward, Points, LockedPoints, RemovePoints
  <2>4. \A d \in containers : d.id = thread[t].id => d.pid = thread[t].pid
    BY <2>3, Parts DEF EngineOK
  <2>5. routes' = routes /\ targets' = targets
    BY <2>1 DEF RemoveContainer, Files
  <2>6. \A p \in routes' \cup targets' :
          \/ ~up'
          \/ \E d \in Managed' : d.pid = p
          \/ \E u \in Threads : thread'[u].pc \in {"unroute", "untarget"} /\ thread'[u].pid = p
    <3> SUFFICES ASSUME NEW p \in routes \cup targets, up, p # thread[t].pid
                 PROVE  \/ \E d \in Managed' : d.pid = p
                        \/ \E u \in Threads : thread'[u].pc \in {"unroute", "untarget"}
                                              /\ thread'[u].pid = p
      BY <1>3, <2>2, <2>5
    <3>1. CASE \E d \in Managed : d.pid = p
      BY <2>1, <2>4, <3>1 DEF Delete, ById, Managed
    <3>2. CASE \E u \in Threads : thread[u].pc \in {"unroute", "untarget"} /\ thread[u].pid = p
      BY <1>2, <1>9, <3>2
    <3> QED BY <3>1, <3>2 DEF Backed
  <2> QED BY <1>5, <2>6 DEF Backed
<1>10. CASE thread[t].pc \in {"unroute", "untarget"}
  <2>1. /\ containers' = containers
        /\ routes' \cup targets' \subseteq routes \cup targets
        /\ thread[t].pc = "unroute" =>
             thread'[t].pc = "untarget" /\ thread'[t].pid = thread[t].pid
        /\ thread[t].pc = "untarget" => routes' = routes /\ targets' = targets \ {thread[t].pid}
    <3>1. CASE thread[t].pc = "unroute"
      <4>1. RemoveRoute(t) /\ Goto(t, "untarget") /\ routes' = routes \ {thread[t].pid}
        BY <1>4, <3>1, FileWork DEF RemoveRoute
      <4>2. thread'[t].pc = "untarget" /\ thread'[t].pid = thread[t].pid
        BY <1>6, <4>1, GotoMoves DEF Onward, Points, LockedPoints, RemovePoints
      <4> QED BY <3>1, <4>1, <4>2 DEF RemoveRoute, Engine
    <3>2. CASE thread[t].pc = "untarget"
      BY <1>4, <3>2, FileWork DEF RemoveTarget, Engine
    <3> QED BY <1>10, <3>1, <3>2
  <2>2. thread[t].pc = "untarget" => thread[t].pid \notin routes
    BY Parts DEF Sees, GoneOK
  <2>3. \A p \in routes' \cup targets' :
          \/ ~up'
          \/ \E d \in Managed' : d.pid = p
          \/ \E u \in Threads : thread'[u].pc \in {"unroute", "untarget"} /\ thread'[u].pid = p
    <3> SUFFICES ASSUME NEW p \in routes' \cup targets', up
                 PROVE  \/ \E d \in Managed' : d.pid = p
                        \/ \E u \in Threads : thread'[u].pc \in {"unroute", "untarget"}
                                              /\ thread'[u].pid = p
      BY <1>3
    <3>1. CASE \E d \in Managed : d.pid = p
      BY <2>1, <3>1 DEF Managed
    <3>2. ASSUME NEW u \in Threads, thread[u].pc \in {"unroute", "untarget"}, thread[u].pid = p
          PROVE  \E v \in Threads : thread'[v].pc \in {"unroute", "untarget"}
                                    /\ thread'[v].pid = p
      <4>1. CASE u # t
        BY <1>2, <3>2, <4>1
      <4>2. CASE u = t /\ thread[t].pc = "unroute"
        BY <2>1, <3>2, <4>2
      <4>3. CASE u = t /\ thread[t].pc = "untarget"
        BY <2>1, <2>2, <3>2, <4>3
      <4> QED BY <1>10, <4>1, <4>2, <4>3
    <3> QED BY <2>1, <3>1, <3>2 DEF Backed
  <2> QED BY <1>5, <2>3 DEF Backed
<1> QED BY <1>1, <1>7, <1>8, <1>9, <1>10, <1>11 DEF FilePoints, Unwinding

\* The surroundings keep them too: a crash leaves them to the startup.
LEMMA BackedSurroundings ==
  ASSUME Reliable, IInv, Backed, Surroundings
  PROVE  Backed'
<1>1. CASE Crash
  BY <1>1 DEF Crash, Backed, Quiet, Unwinding
<1>2. CASE Restart
  <2>1. ~Fault("disk")
    BY DEF Reliable, Fault
  <2>2. /\ routes' = routes \cap {c.pid : c \in Managed}
        /\ targets' = targets \cap {c.pid : c \in Managed}
        /\ UNCHANGED <<containers, thread>>
    BY <1>2, <2>1 DEF Restart, Engine
  <2> QED BY <2>2 DEF Backed, Managed
<1>3. ASSUME Survive, UNCHANGED <<Files, thread, up>> PROVE Backed'
  BY <1>3 DEF Backed, Survive, Managed, Files
<1>4. ASSUME NEW c \in containers, ContainerExits(c) PROVE Backed'
  <2>1. Restated(c.id)
    BY <1>4, Parts, SetStateRestates DEF ContainerExits
  <2>2. Survive
    BY <2>1, KinSurvive DEF Restated
  <2> QED BY <1>3, <1>4, <2>2 DEF ContainerExits, Rest
<1>5. ASSUME NEW pid \in Participants, OutsideCreates(pid) PROVE Backed'
  BY <1>3, <1>5 DEF OutsideCreates, Added, Survive, Managed, Rest
<1>6. \A c \in containers : ~OutsideRemoves(c)
  BY DEF Reliable, OutsideRemoves, Fault
<1>7. late = {}
  BY NothingLost
<1> QED BY <1>1, <1>2, <1>4, <1>5, <1>6, <1>7 DEF Surroundings

\* Arrivals and replies do not touch them.
LEMMA BackedIdle ==
  ASSUME Backed, NEW t \in Threads, thread[t].pc \in {"idle", "answered"},
         \A u \in Threads : u # t => thread'[u] = thread[u],
         thread'[t].pc \in FreePoints,
         UNCHANGED <<Engine, Files, up>>
  PROVE  Backed'
<1>1. Survive /\ routes' \cup targets' \subseteq routes \cup targets /\ UNCHANGED up
  BY DEF Survive, Managed, Engine, Files
<1> QED BY <1>1, BackedKept DEF FreePoints, Unwinding

\* With no file, as at the beginning, there is nothing to back.
LEMMA BackedInit == Init => Backed
BY DEF Init, Backed, Quiet, Unwinding

\* Between requests, backed files have their containers.
LEMMA BackedSuffices == Backed => RoutesBacked
BY DEF Backed, RoutesBacked, LockFree, LockedPoints, RemovePoints

\* An accepted request waits, and the others are not disturbed.
LEMMA AcceptMoves ==
  ASSUME thread \in [Threads -> Thread], NEW t \in Threads,
         NEW op \in {"create", "remove", "stop", "list"}, NEW pid, NEW req,
         Accept(t, op, pid, req)
  PROVE  /\ thread[t].pc = "idle" /\ up
         /\ \A u \in Threads : u # t => thread'[u] = thread[u]
         /\ thread'[t].pc \in {"halt", "listing", "waiting"}
         /\ thread'[t].op = op /\ thread'[t].pid = pid /\ thread'[t].req = req
         /\ UNCHANGED <<Engine, Files, up>> /\ UNCHANGED faults
BY DEF Accept, Quiet, At, Engine, Files

\* Routes and metrics targets lead to containers whenever nobody is at work, if
\* engine and disk do not fail and nobody else removes containers: whatever
\* crashed, and in whatever order requests came.
THEOREM RoutesLead ==
  ASSUME FaultKinds \cap {"engine", "late", "disk", "vanish"} = {}
  PROVE  Spec => []RoutesBacked
<1> Reliable
  BY DEF Reliable
<1>1. IInv /\ Backed /\ [Next]_vars => Backed'
  <2> SUFFICES ASSUME IInv, Backed, [Next]_vars PROVE Backed'
    OBVIOUS
  <2>1. ASSUME NEW t \in Threads, Request(t) PROVE Backed'
    <3>1. PICK op, pid, req :
            op \in {"create", "remove", "stop", "list"} /\ Accept(t, op, pid, req)
      BY <2>1 DEF Request, Arrive
    <3> QED BY <3>1, Parts, AcceptMoves, BackedIdle DEF FreePoints
  <2>2. ASSUME NEW t \in Threads, Reply(t) PROVE Backed'
    <3>1. thread'[t].pc = "idle" /\ \A u \in Threads : u # t => thread'[u] = thread[u]
      BY <2>2, Parts DEF Reply, Quiet
    <3>2. UNCHANGED <<Engine, Files, up>> /\ thread[t].pc = "answered"
      BY <2>2 DEF Reply, Rest, At
    <3> QED BY <3>1, <3>2, BackedIdle DEF FreePoints
  <2>3. ASSUME NEW t \in Threads, Step(t) \/ EngineFails(t) PROVE Backed'
    BY <2>2, <2>3, BackedWorks DEF Step, Works
  <2>4. CASE UNCHANGED vars
    BY <2>4 DEF vars, Backed, Managed
  <2> QED BY <2>1, <2>3, <2>4, BackedSurroundings DEF Next
<1> QED BY <1>1, Invariant, BackedInit, BackedSuffices, PTL DEF Spec
=============================================================================

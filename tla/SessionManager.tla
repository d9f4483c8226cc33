--------------------------- MODULE SessionManager ---------------------------
(***************************************************************************)
(* The Session Manager service: its lobby repository, the participant      *)
(* runtimes and stream tokens it drives through its providers, and the one *)
(* service lock every handler holds from its first read to its last write. *)
(*                                                                         *)
(* A handler that makes one burst of provider calls is one action; its     *)
(* failure outcomes (which call raised, whether the call took effect       *)
(* although its answer was lost) are disjuncts of that action.  Starting a *)
(* participant, the sweep and the startup reconciliation take a long time  *)
(* or loop, so they are steps of the lock holder `task': time passes,      *)
(* runtimes change and the process may crash between two steps.            *)
(***************************************************************************)
EXTENDS SessionDomain

CONSTANTS
  Users,             \* authenticated RomM users
  NoUser,            \* the user of a task that serves nobody
  MaxSessions,       \* bound: sessions ever created
  MaxParticipants,   \* bound: participants ever appended to one session
  MaxTime,           \* bound: the clock stops here
  LastRequest,       \* bound: no request that extends a session comes later
  MaxFaults,         \* bound: provider failures, runtime failures, crashes
  FaultKinds,        \* the kinds of fault a run looks at
  PlayerLimits,      \* max_players values a create request may ask for
  CoreMaxPlayers,    \* the core profile's own limit
  LobbyLease, SessionTtl, IdleTimeout, StartupTimeout, ConnectTimeout,
  Retention,         \* closed_retention_seconds of the Valkey repository
  SessionCapacity, RuntimeCapacity, PerUserCapacity

AllFaultKinds == {"agent", "stream", "store", "romm", "runtime", "crash"}

ASSUME BoundsAssumption ==
  /\ MaxSessions \in Nat /\ MaxParticipants \in Nat /\ MaxParticipants >= 1
  /\ MaxTime \in Nat /\ LastRequest \in Nat /\ MaxFaults \in Nat
  /\ FaultKinds \subseteq AllFaultKinds
  /\ NoUser \notin Users

\* The configuration checks of SessionService.__init__ and of the request model.
ASSUME ConfigAssumption ==
  /\ LobbyLease \in Nat \ {0} /\ SessionTtl \in Nat \ {0}
  /\ IdleTimeout \in Nat \ {0} /\ StartupTimeout \in Nat \ {0}
  /\ ConnectTimeout \in Nat \ {0} /\ Retention \in Nat \ {0}
  /\ PerUserCapacity \in 1..RuntimeCapacity
  /\ SessionCapacity \in 1..RuntimeCapacity
  /\ RuntimeCapacity \in Nat
  /\ PlayerLimits \subseteq Nat \ {0, 1} /\ CoreMaxPlayers \in Nat

VARIABLES
  now,       \* the wall clock
  sessions,  \* the last record saved for each session
  purge,     \* when each record's Valkey key expires
  runtime,   \* the container of each participant
  token,     \* participants whose runtime accepts a stream token
  task,      \* the holder of the service lock and its local variables
  faults     \* faults that may still happen

vars == <<now, sessions, purge, runtime, token, task, faults>>

-----------------------------------------------------------------------------
(* State *)

SessionIds == 1..MaxSessions
Positions  == 1..MaxParticipants
Pids       == SessionIds \X Positions
NoSession  == [state |-> "NONE"]

RuntimeState == {"absent", "starting", "healthy", "unhealthy", "exited"}

Participant ==
  [user : Users, slot : Nat, state : ParticipantState, hb : Nat]

Reasons == {"none", "expired", "owner_abandoned", "owner_runtime_failed",
            "owner_closed", "manager_restarted"}

Session ==
  [owner : Users, players : Nat, state : SessionState,
   participants : Seq(Participant), created : Nat, expires : Nat,
   reason : Reasons]

\* Program points of the lock holder.  "down": no process; "idle": lock free.
StartPoints == {"start", "launch", "wait", "provision", "activate",
                "cleanup", "failed"}
Points == {"down", "idle", "sweep", "inspect", "evict", "admit",
           "reconcile", "runtimes"} \cup StartPoints

Task ==
  [pc : Points, op : {"none", "sweep", "create", "join", "reconcile"},
   user : Users \cup {NoUser}, players : Nat,
   sid : Nat, pos : Nat, todo : SUBSET SessionIds,
   queue : SUBSET Positions, stale : SUBSET Positions, deadline : Nat]

Idle == [pc |-> "idle", op |-> "none", user |-> NoUser, players |-> 0,
         sid |-> 0, pos |-> 0, todo |-> {}, queue |-> {}, stale |-> {},
         deadline |-> 0]
Down == [Idle EXCEPT !.pc = "down"]

Init ==
  /\ now = 0
  /\ sessions = [s \in SessionIds |-> NoSession]
  /\ purge = [s \in SessionIds |-> 0]
  /\ runtime = [p \in Pids |-> "absent"]
  /\ token = {}
  /\ task = Down
  /\ faults = MaxFaults

-----------------------------------------------------------------------------
(* The repository *)

Created(s) == sessions[s] # NoSession
\* Mutant: records do not expire.
Present_NoExpiry(s) == Created(s)

Present(s) == Created(s) /\ now < purge[s]

\* Mutant: the loops look at OPEN sessions only.
NotClosed_OpenOnly == {s \in SessionIds : Present(s) /\ sessions[s].state = "OPEN"}

\* The sessions list() returns that are not CLOSED, the ones loops work on.
NotClosed == {s \in SessionIds : Present(s) /\ sessions[s].state # "CLOSED"}

\* _ttl: a closed record is kept for Retention, a live one past its lease.
PurgeTime(S) ==
  IF S.state = "CLOSED" \/ S.expires < now THEN now + Retention
                                           ELSE S.expires + Retention

NoFault == faults' = faults
Fault(kind) ==
  /\ kind \in FaultKinds
  /\ faults > 0
  /\ faults' = faults - 1

Stored(s, S) ==
  /\ sessions' = [sessions EXCEPT ![s] = S]
  /\ purge' = [purge EXCEPT ![s] = PurgeTime(S)]

NotStored == UNCHANGED <<sessions, purge>>

Save(s, S) == Present(s) /\ Stored(s, S)

\* The key expired, the store refused, or its answer was lost.
SaveFails(s, S) ==
  \/ ~Present(s) /\ NotStored /\ NoFault
  \/ Fault("store") /\ NotStored
  \/ Present(s) /\ Fault("store") /\ Stored(s, S)

-----------------------------------------------------------------------------
(* Runtimes and tokens *)

Runtimes == {p \in Pids : runtime[p] # "absent"}
Up(p)    == runtime[p] \in {"starting", "healthy", "unhealthy"}

\* _retire_runtime of each participant in gone succeeded: a removed container
\* takes its token table with it.
Retire(gone) ==
  /\ runtime' = [p \in Pids |-> IF p \in gone THEN "absent" ELSE runtime[p]]
  /\ token' = token \ gone

\* Retiring, in order, stops at some p whose remove raised.  The removal of p
\* may have happened; if not, the revocation before it may have.
RetireFails(gone) ==
  \E p \in gone :
    LET before == {q \in gone : q[2] < p[2]} IN
    /\ Fault("agent")
    /\ \/ Retire(before \cup {p})
       \/ Retire(before)
       \/ /\ runtime' = [q \in Pids |->
                           IF q \in before THEN "absent" ELSE runtime[q]]
          /\ token' = token \ (before \cup {p})

\* Mutant: a removal that raises is swallowed, as in _cleanup_failed_runtime.
RetireThenSave_Swallowed(s, gone, ok, S, done, raised) ==
  /\ (Retire(gone) /\ NoFault) \/ RetireFails(gone)
  /\ IF ok THEN Save(s, S) ELSE NotStored
  /\ task' = IF ok THEN done ELSE raised

\* Retire runtimes, then check the transition (ok), then save S: the order of
\* _close, leave, kick and _retire_participant.
RetireThenSave(s, gone, ok, S, done, raised) ==
  \/ /\ ok
     /\ Retire(gone)
     /\ Save(s, S)
     /\ NoFault
     /\ task' = done
  \/ /\ ~ok
     /\ Retire(gone)
     /\ NotStored
     /\ NoFault
     /\ task' = raised
  \/ /\ ok
     /\ Retire(gone)
     /\ SaveFails(s, S)
     /\ task' = raised
  \/ /\ RetireFails(gone)
     /\ NotStored
     /\ task' = raised

Close(s, reason, done, raised) ==
  LET S == sessions[s] IN
  RetireThenSave(s, {s} \X LivePositions(S), CanClose(S),
                 Closed(S, reason, now), done, raised)

\* One participant goes LEFT, or ERROR when its runtime failed.
RetireParticipant(s, i, failed, done, raised) ==
  LET S == sessions[s]
      p == S.participants[i]
  IN RetireThenSave(
       s, {<<s, i>>}, failed \/ CanLeave(p),
       Replaced(S, i, IF failed THEN [p EXCEPT !.state = "ERROR", !.hb = now]
                                ELSE left_participant(p, now)),
       done, raised)

-----------------------------------------------------------------------------
(* Admission *)

ActiveSessions ==
  {s \in SessionIds :
     Present(s) /\ sessions[s].state \notin {"CLOSED", "ERROR"}}

\* The seats a user holds across the active sessions.
UserSeats(u) ==
  {p \in ActiveSessions \X Positions :
     /\ p[2] \in LivePositions(sessions[p[1]])
     /\ sessions[p[1]].participants[p[2]].user = u}

\* Mutants: one seat, or one container, too many.
HasUserCapacity_OffByOne(u) == Cardinality(UserSeats(u)) <= PerUserCapacity
HasRuntimeCapacity_OffByOne == Cardinality(Runtimes) <= RuntimeCapacity

HasUserCapacity(u)  == Cardinality(UserSeats(u)) < PerUserCapacity
HasRuntimeCapacity  == Cardinality(Runtimes) < RuntimeCapacity
HasSessionCapacity  == Cardinality(ActiveSessions) < SessionCapacity

Earliest(a, b) == IF a <= b THEN a ELSE b

\* Mutant: renewals go on past the session's lifetime.
LeaseExpiry_Unbounded(S) == now + LobbyLease

LeaseExpiry(S) == Earliest(now + LobbyLease, S.created + SessionTtl)

Expired(S) == S.state # "CLOSED" /\ S.expires <= now

NewParticipant(u, slot) ==
  [user |-> u, slot |-> slot, state |-> "ALLOCATING", hb |-> now]

\* The call of _start_participant for the participant at position i of s.
Begin(op, s, i) == [Idle EXCEPT !.pc = "start", !.op = op, !.sid = s, !.pos = i]

-----------------------------------------------------------------------------
(* create: sweep first, then admission, then start the host runtime *)

StartCreate(u, players) ==
  /\ task.pc = "idle"
  /\ now <= LastRequest
  /\ task' = [Idle EXCEPT !.pc = "sweep", !.op = "create", !.user = u,
                          !.players = players, !.todo = NotClosed]
  /\ UNCHANGED <<now, sessions, purge, runtime, token, faults>>

Admissible ==
  /\ HasSessionCapacity
  /\ HasUserCapacity(task.user)
  /\ HasRuntimeCapacity
  /\ task.players <= CoreMaxPlayers

\* session_id = uuid4(): the next identifier never used.
IsNextSession(s) ==
  s \in SessionIds /\ ~Created(s) /\ \A t \in 1..(s - 1) : Created(t)

NewSession(u, players) ==
  [owner |-> u, players |-> players, state |-> "CREATING",
   participants |-> <<NewParticipant(u, 1)>>, created |-> now,
   expires |-> now + Earliest(LobbyLease, SessionTtl), reason |-> "none"]

Admit ==
  /\ task.pc = "admit"
  /\ now <= LastRequest
  /\ Admissible
  /\ \E s \in SessionIds :
       LET S == NewSession(task.user, task.players) IN
       /\ IsNextSession(s)
       /\ \/ /\ Stored(s, S)
             /\ NoFault
             /\ task' = Begin("create", s, 1)
          \/ Fault("store") /\ Stored(s, S) /\ task' = Idle
  /\ UNCHANGED <<now, runtime, token>>

\* resolve_game: RomM does not answer, does not know the game, or answers with
\* a record that does not hold up.
ResolveGameFails == Fault("romm")

\* A capacity check, the catalogue, the Runtime Agent or the store said no;
\* or a bound of this model did.  An add that breaks between SET and SADD is one
\* of the store's: its record is never listed, and nobody learns the identifier
\* to ask for it, so that to every other step it is not there.
RefuseCreate ==
  /\ task.pc = "admit"
  /\ \/ ~Admissible /\ NoFault
     \/ (now > LastRequest \/ \A s \in SessionIds : Created(s)) /\ NoFault
     \/ ResolveGameFails
     \/ \E kind \in {"agent", "store"} : Fault(kind)
  /\ task' = Idle
  /\ UNCHANGED <<now, sessions, purge, runtime, token>>

-----------------------------------------------------------------------------
(* join: everything up to the save of the ALLOCATING participant *)

Join(s, u) ==
  LET S == sessions[s] IN
  /\ task.pc = "idle"
  /\ Present(s)
  /\ ~Expired(S)
  /\ S.state = "OPEN"
  /\ \A i \in ActivePositions(S) : S.participants[i].user # u
  /\ player_count(S) < S.players
  /\ HasUserCapacity(u)
  /\ HasRuntimeCapacity
  /\ now <= LastRequest
  /\ Len(S.participants) < MaxParticipants
  /\ \E slot \in 1..S.players :
       LET joined == [S EXCEPT !.participants =
                                 Append(@, NewParticipant(u, slot))] IN
       /\ IsFreeSlot(S, slot)
       /\ \/ /\ Save(s, joined)
             /\ NoFault
             /\ task' = Begin("join", s, Len(S.participants) + 1)
          \/ SaveFails(s, joined) /\ task' = Idle
  /\ UNCHANGED <<now, runtime, token>>

-----------------------------------------------------------------------------
(* _start_participant, for the participant <<task.sid, task.pos>> *)

Starting     == <<task.sid, task.pos>>
StartSession == sessions[task.sid]
StartMember  == StartSession.participants[task.pos]
Goto(pc)     == task' = [task EXCEPT !.pc = pc]

\* Mutant: every start puts the session into STARTING, also a guest's.
SaveStarting_Always ==
  LET S == [Replaced(StartSession, task.pos,
                     [StartMember EXCEPT !.state = "STARTING"])
              EXCEPT !.state = "STARTING"]
  IN /\ task.pc = "start"
     /\ \/ Save(task.sid, S) /\ NoFault /\ Goto("launch")
        \/ SaveFails(task.sid, S) /\ task' = Idle
     /\ UNCHANGED <<now, runtime, token>>

SaveStarting ==
  LET S == [Replaced(StartSession, task.pos,
                     [StartMember EXCEPT !.state = "STARTING"])
              EXCEPT !.state = IF @ = "CREATING" THEN "STARTING" ELSE @]
  IN /\ task.pc = "start"
     /\ \/ Save(task.sid, S) /\ NoFault /\ Goto("launch")
        \/ SaveFails(task.sid, S) /\ task' = Idle
     /\ UNCHANGED <<now, runtime, token>>

\* execution.create: the container of the starting participant exists.  What
\* the request says of the game and the image is not told apart.
Launched == [runtime EXCEPT ![Starting] = "starting"]

\* execution.create, then the save that records the runtime id, which is no
\* field here but renews the key.  The wait's deadline is capped by the clock's
\* bound.
LaunchRuntime ==
  LET timeout == IF task.op = "create" THEN StartupTimeout ELSE ConnectTimeout
  IN /\ task.pc = "launch"
     /\ \/ /\ runtime' = Launched
           /\ Save(task.sid, StartSession)
           /\ NoFault
           /\ task' = [task EXCEPT !.pc = "wait",
                                   !.deadline = Earliest(now + timeout, MaxTime)]
        \/ /\ runtime' = Launched
           /\ SaveFails(task.sid, StartSession)
           /\ Goto("cleanup")
        \/ /\ Fault("agent")
           /\ runtime' = Launched \/ UNCHANGED runtime
           /\ NotStored
           /\ Goto("cleanup")
     /\ UNCHANGED <<now, token>>

\* Mutant: the wait has no deadline.
WaitReady_Forever ==
  /\ task.pc = "wait"
  /\ \/ runtime[Starting] = "healthy" /\ NoFault /\ Goto("provision")
     \/ /\ runtime[Starting] \in {"absent", "unhealthy", "exited"}
        /\ NoFault
        /\ Goto("cleanup")
     \/ Fault("agent") /\ Goto("cleanup")
     \/ runtime[Starting] = "starting" /\ NoFault /\ Goto("wait")
  /\ UNCHANGED <<now, sessions, purge, runtime, token>>

\* One poll of _wait_ready that ends the wait; any other poll changes nothing.
WaitReady ==
  /\ task.pc = "wait"
  /\ \/ runtime[Starting] = "healthy" /\ NoFault /\ Goto("provision")
     \/ /\ runtime[Starting] \in {"absent", "unhealthy", "exited"}
        /\ NoFault
        /\ Goto("cleanup")
     \/ /\ runtime[Starting] = "starting" /\ task.deadline <= now
        /\ NoFault
        /\ Goto("cleanup")
     \/ Fault("agent") /\ Goto("cleanup")
  /\ UNCHANGED <<now, sessions, purge, runtime, token>>

ProvisionStream ==
  /\ task.pc = "provision"
  /\ \/ /\ Up(Starting)
        /\ NoFault
        /\ token' = token \cup {Starting}
        /\ Goto("activate")
     \/ ~Up(Starting) /\ NoFault /\ UNCHANGED token /\ Goto("cleanup")
     \/ Fault("stream") /\ UNCHANGED token /\ Goto("cleanup")
     \/ /\ Up(Starting)
        /\ Fault("stream")
        /\ token' = token \cup {Starting}
        /\ Goto("cleanup")
  /\ UNCHANGED <<now, sessions, purge, runtime>>

SaveActive ==
  LET S == [Replaced(StartSession, task.pos,
                     [StartMember EXCEPT !.state = "ACTIVE", !.hb = now])
              EXCEPT !.state = IF @ = "STARTING" THEN "OPEN" ELSE @,
                     !.expires = LeaseExpiry(StartSession)]
  IN /\ task.pc = "activate"
     /\ \/ Save(task.sid, S) /\ NoFault
        \/ SaveFails(task.sid, S)
     /\ task' = Idle
     /\ UNCHANGED <<now, runtime, token>>

\* Mutant: the token is revoked and the container is forgotten.
CleanupFailedRuntime_RevokeOnly ==
  /\ task.pc = "cleanup"
  /\ token' = token \ {Starting}
  /\ NoFault
  /\ Goto("failed")
  /\ UNCHANGED <<now, sessions, purge, runtime>>

\* _cleanup_failed_runtime: a removal that raises is swallowed.
CleanupFailedRuntime ==
  /\ task.pc = "cleanup"
  /\ \/ Retire({Starting}) /\ NoFault
     \/ RetireFails({Starting})
  /\ Goto("failed")
  /\ UNCHANGED <<now, sessions, purge>>

SaveFailed ==
  LET S == [Replaced(StartSession, task.pos,
                     [StartMember EXCEPT !.state = "ERROR"])
              EXCEPT !.state = IF task.op = "create" THEN "ERROR" ELSE @]
  IN /\ task.pc = "failed"
     /\ \/ Save(task.sid, S) /\ NoFault
        \/ SaveFails(task.sid, S)
     /\ task' = Idle
     /\ UNCHANGED <<now, runtime, token>>

-----------------------------------------------------------------------------
(* The other requests: one action each.  Every handler that names a session  *)
(* expires it first, and then finds nothing left to do in a CLOSED session.  *)

\* get, join, launch, heartbeat, leave or kick of a session past its lease.
ExpireOnAccess(s) ==
  /\ task.pc = "idle"
  /\ Present(s)
  /\ Expired(sessions[s])
  /\ Close(s, "expired", Idle, Idle)
  /\ UNCHANGED now

Serving(s) == task.pc = "idle" /\ Present(s) /\ ~Expired(sessions[s])

UserPositions(S, u, positions) ==
  {i \in positions : S.participants[i].user = u}

Launch(s, u) ==
  /\ Serving(s)
  /\ \E i \in UserPositions(sessions[s], u, ActivePositions(sessions[s])) :
       /\ IsFirst(i, UserPositions(sessions[s], u, ActivePositions(sessions[s])))
       /\ Up(<<s, i>>)
       /\ token' = token \cup {<<s, i>>}
  /\ UNCHANGED <<now, sessions, purge, runtime, task, faults>>

Heartbeat(s, u) ==
  LET S == sessions[s] IN
  /\ Serving(s)
  /\ now <= LastRequest
  /\ \E i \in UserPositions(S, u, ActivePositions(S)) :
       LET renewed == [Replaced(S, i, [S.participants[i] EXCEPT !.hb = now])
                         EXCEPT !.expires = LeaseExpiry(S)]
       IN /\ IsFirst(i, UserPositions(S, u, ActivePositions(S)))
          /\ \/ Save(s, renewed) /\ NoFault
             \/ SaveFails(s, renewed)
  /\ UNCHANGED <<now, runtime, token, task>>

Leave(s, u) ==
  LET S == sessions[s] IN
  /\ Serving(s)
  /\ S.state # "CLOSED"
  /\ \E i \in UserPositions(S, u, LivePositions(S)) :
       /\ IsFirst(i, UserPositions(S, u, LivePositions(S)))
       /\ RetireParticipant(s, i, FALSE, Idle, Idle)
  /\ UNCHANGED now

\* Only the owner kicks, and never itself.
Kick(s, u) ==
  LET S == sessions[s] IN
  /\ Serving(s)
  /\ S.owner = u
  /\ \E i \in LivePositions(S) :
       /\ S.participants[i].user # S.owner
       /\ RetireParticipant(s, i, FALSE, Idle, Idle)
  /\ UNCHANGED now

\* close does not look at the lease.
CloseByOwner(s, u) ==
  /\ task.pc = "idle"
  /\ Present(s)
  /\ sessions[s].owner = u
  /\ sessions[s].state # "CLOSED"
  /\ Close(s, "owner_closed", Idle, Idle)
  /\ UNCHANGED now

-----------------------------------------------------------------------------
(* sweep: the cleanup loop, discover, and the first part of create.  An     *)
(* exception anywhere ends the whole sweep, and a create with it.           *)

StartSweep ==
  /\ task.pc = "idle"
  /\ task' = [Idle EXCEPT !.pc = "sweep", !.op = "sweep", !.todo = NotClosed]
  /\ UNCHANGED <<now, sessions, purge, runtime, token, faults>>

IsStale(p) == p.hb + IdleTimeout <= now

LeaseOver(S) == S.expires <= now \/ S.created + SessionTtl <= now

\* The owner's ACTIVE participant: the first one of the owner's.
OwnerPositions(S) == UserPositions(S, S.owner, ActivePositions(S))

\* Mutant: an owner who is no longer ACTIVE is not missed.
Abandoned_SilentOnly(S) == \E i \in OwnerPositions(S) : IsStale(S.participants[i])

Abandoned(S) ==
  \A i \in OwnerPositions(S) :
    IsFirst(i, OwnerPositions(S)) => IsStale(S.participants[i])

SweepSession ==
  /\ task.pc = "sweep"
  /\ \E s \in task.todo :
       LET S    == sessions[s]
           rest == [task EXCEPT !.todo = @ \ {s}]
       IN /\ IsFirst(s, task.todo)
          /\ \/ LeaseOver(S) /\ Close(s, "expired", rest, Idle)
             \/ /\ ~LeaseOver(S)
                /\ Abandoned(S)
                /\ Close(s, "owner_abandoned", rest, Idle)
             \/ /\ ~LeaseOver(S)
                /\ ~Abandoned(S)
                /\ task' = [rest EXCEPT
                              !.pc = "inspect", !.sid = s,
                              !.queue = ActivePositions(S),
                              !.stale = {i \in ActivePositions(S) :
                                           IsStale(S.participants[i])}]
                /\ UNCHANGED <<sessions, purge, runtime, token, faults>>
  /\ UNCHANGED now

SweepDone ==
  /\ task.pc = "sweep"
  /\ task.todo = {}
  /\ task' = IF task.op = "create" THEN [task EXCEPT !.pc = "admit"] ELSE Idle
  /\ UNCHANGED <<now, sessions, purge, runtime, token, faults>>

\* Mutant: the runtimes that are healthy are the ones given up on.
InspectParticipant_Inverted ==
  /\ task.pc = "inspect"
  /\ \E i \in task.queue :
       LET rest == [task EXCEPT !.queue = @ \ {i}] IN
       /\ IsFirst(i, task.queue)
       /\ \/ /\ i \in task.stale
             /\ RetireParticipant(task.sid, i, FALSE, rest, Idle)
          \/ /\ i \notin task.stale
             /\ NoFault
             /\ task' = IF runtime[<<task.sid, i>>] # "healthy" THEN rest
                        ELSE [rest EXCEPT !.pc = "evict", !.pos = i]
             /\ UNCHANGED <<sessions, purge, runtime, token>>
  /\ UNCHANGED now

\* The next ACTIVE participant of task.sid: silent for too long, healthy, or
\* failed (an inspection that raises counts as failed).
InspectParticipant ==
  /\ task.pc = "inspect"
  /\ \E i \in task.queue :
       LET rest == [task EXCEPT !.queue = @ \ {i}] IN
       /\ IsFirst(i, task.queue)
       /\ \/ /\ i \in task.stale
             /\ RetireParticipant(task.sid, i, FALSE, rest, Idle)
          \/ /\ i \notin task.stale
             /\ \/ /\ runtime[<<task.sid, i>>] = "healthy"
                   /\ NoFault
                   /\ task' = rest
                \/ /\ \/ runtime[<<task.sid, i>>] # "healthy" /\ NoFault
                      \/ Fault("agent")
                   /\ task' = [rest EXCEPT !.pc = "evict", !.pos = i]
             /\ UNCHANGED <<sessions, purge, runtime, token>>
  /\ UNCHANGED now

\* On to the next session of the sweep; the locals of this one are dead.
ResumeSweep == [task EXCEPT !.pc = "sweep", !.sid = 0, !.pos = 0,
                            !.queue = {}, !.stale = {}]

InspectDone ==
  /\ task.pc = "inspect"
  /\ task.queue = {}
  /\ task' = ResumeSweep
  /\ UNCHANGED <<now, sessions, purge, runtime, token, faults>>

\* The failed runtime of the owner ends the session, a guest's only the guest.
EvictParticipant ==
  LET S == sessions[task.sid] IN
  /\ task.pc = "evict"
  /\ IF S.participants[task.pos].user = S.owner
       THEN Close(task.sid, "owner_runtime_failed",
                  ResumeSweep, Idle)
       ELSE RetireParticipant(task.sid, task.pos, TRUE,
                              [task EXCEPT !.pc = "inspect", !.pos = 0], Idle)
  /\ UNCHANGED now

-----------------------------------------------------------------------------
(* Process start: reconcile_startup runs before the first request, and an   *)
(* exception in it ends the process.                                        *)

StartProcess ==
  /\ task.pc = "down"
  /\ task' = [Idle EXCEPT !.pc = "reconcile", !.op = "reconcile",
                          !.todo = NotClosed]
  /\ UNCHANGED <<now, sessions, purge, runtime, token, faults>>

ReconcileSession ==
  /\ task.pc = "reconcile"
  /\ \E s \in task.todo :
       /\ IsFirst(s, task.todo)
       /\ Close(s, "manager_restarted", [task EXCEPT !.todo = @ \ {s}], Down)
  /\ UNCHANGED now

ReconcileSessionsDone ==
  /\ task.pc = "reconcile"
  /\ task.todo = {}
  /\ Goto("runtimes")
  /\ UNCHANGED <<now, sessions, purge, runtime, token, faults>>

ReconcileRuntimes ==
  /\ task.pc = "runtimes"
  /\ \/ Retire(Runtimes) /\ NoFault /\ task' = Idle
     \/ /\ Fault("agent")
        /\ \E gone \in SUBSET Runtimes : Retire(gone)
        /\ task' = Down
  /\ UNCHANGED <<now, sessions, purge>>

-----------------------------------------------------------------------------
(* Time, runtimes and crashes *)

Tick ==
  /\ now < MaxTime
  /\ now' = now + 1
  /\ UNCHANGED <<sessions, purge, runtime, token, task, faults>>

\* Mutant: a client's health check does not ask for the host.
BecomeHealthy_Alone(p) ==
  /\ runtime[p] \in {"starting", "unhealthy"}
  /\ runtime' = [runtime EXCEPT ![p] = "healthy"]
  /\ UNCHANGED <<now, sessions, purge, token, task, faults>>

\* The health check of a client runtime asks for its connection to the host,
\* which is the session's first participant.
BecomeHealthy(p) ==
  /\ runtime[p] \in {"starting", "unhealthy"}
  /\ p[2] # 1 => Up(<<p[1], 1>>)
  /\ runtime' = [runtime EXCEPT ![p] = "healthy"]
  /\ UNCHANGED <<now, sessions, purge, token, task, faults>>

BecomeUnhealthy(p) ==
  /\ runtime[p] \in {"starting", "healthy"}
  /\ Fault("runtime")
  /\ runtime' = [runtime EXCEPT ![p] = "unhealthy"]
  /\ UNCHANGED <<now, sessions, purge, token, task>>

\* The container stops; the Selkies token table was in its memory.
RuntimeExits(p) ==
  /\ Up(p)
  /\ Fault("runtime")
  /\ runtime' = [runtime EXCEPT ![p] = "exited"]
  /\ token' = token \ {p}
  /\ UNCHANGED <<now, sessions, purge, task>>

Crash ==
  /\ task.pc # "down"
  /\ Fault("crash")
  /\ task' = Down
  /\ UNCHANGED <<now, sessions, purge, runtime, token>>

-----------------------------------------------------------------------------
(* Specification *)

Request ==
  \/ \E u \in Users, players \in PlayerLimits : StartCreate(u, players)
  \/ \E s \in SessionIds :
       \/ ExpireOnAccess(s)
       \/ \E u \in Users :
            \/ Join(s, u)
            \/ Launch(s, u)
            \/ Heartbeat(s, u)
            \/ Leave(s, u)
            \/ Kick(s, u)
            \/ CloseByOwner(s, u)

StartParticipant ==
  \/ Admit
  \/ RefuseCreate
  \/ SaveStarting
  \/ LaunchRuntime
  \/ WaitReady
  \/ ProvisionStream
  \/ SaveActive
  \/ CleanupFailedRuntime
  \/ SaveFailed

Sweep ==
  \/ SweepSession
  \/ SweepDone
  \/ InspectParticipant
  \/ InspectDone
  \/ EvictParticipant

Reconcile ==
  \/ StartProcess
  \/ ReconcileSession
  \/ ReconcileSessionsDone
  \/ ReconcileRuntimes

Environment ==
  \/ Tick
  \/ Crash
  \/ \E p \in Pids : BecomeHealthy(p) \/ BecomeUnhealthy(p) \/ RuntimeExits(p)

Next ==
  \/ Request
  \/ StartParticipant
  \/ StartSweep
  \/ Sweep
  \/ Reconcile
  \/ Environment

Spec == Init /\ [][Next]_vars

\* Threads of the process run; the clock advances; the cleanup thread, which
\* waits for the service lock every interval, gets it in the end.
Fairness ==
  /\ WF_vars(StartParticipant)
  /\ WF_vars(Sweep)
  /\ WF_vars(Reconcile)
  /\ WF_vars(Tick)
  /\ SF_vars(StartSweep)

FairSpec == Spec /\ Fairness

-----------------------------------------------------------------------------
(* Safety under every kind of fault *)

\* Every variable has its type.
TypeOK ==
  /\ now \in Nat
  /\ sessions \in [SessionIds -> Session \cup {NoSession}]
  /\ purge \in [SessionIds -> Nat]
  /\ runtime \in [Pids -> RuntimeState]
  /\ token \subseteq Pids
  /\ task \in Task
  /\ faults \in Nat

\* However often heartbeats and joins renew the lease, and however long a
\* participant took to start, a lease never outlives the session's lifetime
\* measured from its creation (_lease_expiry, create).
LeaseBounded ==
  \A s \in SessionIds : Created(s) =>
    /\ sessions[s].created <= sessions[s].expires
    /\ sessions[s].expires <= sessions[s].created + SessionTtl

\* Two live participants never share a player slot, every slot is within the
\* lobby's size, and the first participant is the owner on slot 1, so that
\* join always finds the host it names to a client runtime.
SeatsSound ==
  \A s \in SessionIds : Created(s) =>
    LET S == sessions[s] IN
    /\ Len(S.participants) >= 1
    /\ S.participants[1].user = S.owner
    /\ S.participants[1].slot = 1
    /\ \A i \in DOMAIN S.participants : S.participants[i].slot \in 1..S.players
    /\ \A i, j \in LivePositions(S) :
         i # j => S.participants[i].slot # S.participants[j].slot

\* A participant is recorded LEFT only once its runtime is really gone, and
\* its stream token with it: whichever call of leave, kick, close or sweep
\* failed before, and whatever crashed in between.
LeftIsGone ==
  \A s \in SessionIds : Created(s) =>
    \A i \in DOMAIN sessions[s].participants :
      sessions[s].participants[i].state = "LEFT" =>
        /\ runtime[<<s, i>>] = "absent"
        /\ <<s, i>> \notin token

\* A CLOSED session has no live participant: nobody holds a seat, counts
\* against a capacity, or can still become ACTIVE in it.
ClosedIsEmpty ==
  \A s \in SessionIds :
    Created(s) /\ sessions[s].state = "CLOSED" => LivePositions(sessions[s]) = {}

\* The records the service saves are the records the store can read back: the
\* Session validator runs on every decode, and one record it rejects makes
\* list() raise for every session.
RecordsDecode ==
  \A s \in SessionIds : Present(s) => consistent_participants(sessions[s])

\* An ACTIVE participant of the owner is always the host: an owner who left
\* and joins again cannot become ACTIVE beside a host runtime that is gone,
\* which would keep the sweep from closing the lobby.
OwnerIsHost ==
  \A s \in SessionIds : Created(s) =>
    \A i \in OwnerPositions(sessions[s]) : i = 1

\* The limits of __init__ hold at every moment of every handler, crash and
\* restart: containers (also those no record mentions), active lobbies, and
\* seats of one user.
CapacityHeld ==
  /\ Cardinality(Runtimes) <= RuntimeCapacity
  /\ Cardinality(ActiveSessions) <= SessionCapacity
  /\ \A u \in Users : Cardinality(UserSeats(u)) <= PerUserCapacity

\* One step of a participant's state: a transition of the table, or the two
\* that _left_participant makes at once.
ParticipantStep(old, new) ==
  \/ new = old
  \/ new \in PARTICIPANT_TRANSITIONS[old]
  \/ \E via \in PARTICIPANT_TRANSITIONS[old] : new \in PARTICIPANT_TRANSITIONS[via]

\* How a stored record S may be replaced by T.
Evolves(S, T) ==
  /\ S.state = "CLOSED" => T = S
  /\ T.state # S.state => T.state \in SESSION_TRANSITIONS[S.state]
  /\ T.owner = S.owner
  /\ T.players = S.players
  /\ T.created = S.created
  /\ Len(T.participants) \in {Len(S.participants), Len(S.participants) + 1}
  /\ \A i \in DOMAIN S.participants :
       /\ T.participants[i].user = S.participants[i].user
       /\ T.participants[i].slot = S.participants[i].slot
       /\ ParticipantStep(S.participants[i].state, T.participants[i].state)

\* What is saved over a stored record, also by the paths that never call the
\* require_..._transition functions: a session and its participants only move
\* along the transition tables, participants keep their place, user and slot,
\* and a CLOSED record is never written again.
RecordsEvolve ==
  [][\A s \in SessionIds :
       Created(s) => Evolves(sessions[s], sessions'[s])]_vars

-----------------------------------------------------------------------------
(* Safety while some provider behaves *)

\* When the Runtime Agent answers, every container belongs to a participant
\* that still holds a seat in a stored session: nothing runs that no later
\* sweep, close or reconciliation would retire.
RuntimesAccounted ==
  \A p \in Runtimes :
    /\ Present(p[1])
    /\ p[2] \in LivePositions(sessions[p[1]])

\* The cleanup never takes a lobby or a seat from people who are there.  It gives
\* up on a runtime only when an inspection finds it not healthy or gets no answer:
\* an unknown state fails closed, so the agent's failure counts as the runtime's.
\* It closes a session before its lease ends only if the owner is not ACTIVE, has
\* been silent for the idle timeout, or has the runtime just given up on; and takes
\* a guest's seat only for the guest's own silence or runtime.
CleanupForCause ==
  [][/\ task.pc # "evict" /\ task'.pc = "evict" =>
          runtime[<<task'.sid, task'.pos>>] # "healthy" \/ faults' < faults
     /\ \A s \in NotClosed :
          LET S == sessions[s]
              T == sessions'[s]
              Lost(i) == \/ IsStale(S.participants[i])
                         \/ <<"evict", s, i>> = <<task.pc, task.sid, task.pos>>
          IN task.pc \in {"sweep", "inspect", "evict"} =>
               /\ T.state = "CLOSED" => \/ LeaseOver(S)
                                        \/ \A i \in OwnerPositions(S) : Lost(i)
               /\ T.state = S.state =>
                    \A i \in ActivePositions(S) :
                      T.participants[i].state # "ACTIVE" =>
                        Lost(i) /\ S.participants[i].user # S.owner
    ]_vars

-----------------------------------------------------------------------------
(* Liveness *)

Overdue(s) ==
  Created(s) /\ sessions[s].state # "CLOSED" /\ LeaseOver(sessions[s])

\* Every session whose lease or lifetime is over is closed in the end, although
\* providers fail and one failing call ends a whole sweep; only a start that
\* was under way when the lease ended may still renew it.
ExpiredCloses == \A s \in SessionIds : Overdue(s) ~> ~Overdue(s)

\* A lobby whose owner has left or failed does not stay open, even if its
\* guests keep their heartbeats going.
OwnerlessCloses ==
  \A s \in SessionIds :
    (/\ Created(s)
     /\ sessions[s].state \in {"OPEN", "ERROR"}
     /\ OwnerPositions(sessions[s]) = {})
      ~> (sessions[s].state = "CLOSED")

OnTheWayIn(p) ==
  /\ Created(p[1])
  /\ p[2] \in DOMAIN sessions[p[1]].participants
  /\ sessions[p[1]].participants[p[2]].state \in {"ALLOCATING", "STARTING"}

\* Nobody stays on the way in: a participant that was allocated becomes ACTIVE
\* or fails, within the readiness timeouts and whatever its runtime does.
StartsEnd ==
  \A p \in Pids : OnTheWayIn(p) ~> ~OnTheWayIn(p)

\* After any crash the manager serves requests again, also when it left a
\* record its own reconciliation refuses: the record's key expires (here:
\* before the modelled clock ends).
RestartCompletes ==
  (task.pc = "down" /\ \A s \in NotClosed : purge[s] <= MaxTime)
    ~> (task.pc = "idle")

-----------------------------------------------------------------------------
(* Statements of the documentation that the code does not keep; each is the *)
(* subject of a run that TLC refutes (as is ExpiredCloses when the store    *)
(* may fail).                                                               *)

\* docs/milestone-10: cleanup retries when a provider is temporarily
\* unavailable.  So the runtime of a participant that has failed or left is
\* removed in the end.
TerminalReclaimed ==
  \A p \in Pids :
    (/\ Created(p[1])
     /\ p[2] \in DOMAIN sessions[p[1]].participants
     /\ ~Live(sessions[p[1]].participants[p[2]])) ~> (runtime[p] = "absent")
=============================================================================

# A TLA+ verification of the retro-browser-multiplayer control plane

The platform runs one emulator container per player and shows it to the player's
browser. Two Python services carry its own logic:

* the **Session Manager** (`services/session-manager`) keeps lobbies: who sits
  where, which container belongs to whom, how long a lobby may live;
* the **Runtime Agent** (`services/runtime-agent`) is the only process with the
  Docker socket: it creates, stops, lists and removes containers, and publishes
  a Traefik route file and a Prometheus target file for each.

Lobbies are stored in Valkey. Everything else (RomM, authentik, Traefik, Selkies,
RetroArch, coturn) is used through narrow calls.

This directory holds TLA+ modules of the two services, of the repository between
the Session Manager and Valkey, and of the container a player gets, TLC
configurations for small instances, and TLAPS proofs for all instances. `PROJECT.json` lists every run, theorem and
hazard, and the source lines each definition stands for.

## 1. Inventory

| Component | State | Operations | Talks to |
|---|---|---|---|
| Session service, `session_service.py`, `models/` | none of its own but one reentrant lock; session records with participants | create, join, launch, heartbeat, leave, kick, close, get, discover, sweep, `reconcile_startup` | repository, Runtime Agent, Selkies, RomM |
| Session repository, `repositories/` | one Valkey key per session with an expiry; an index set | add, get, list, save (compare-and-set on the revision) | Valkey |
| Session Manager API, `api/app.py` | the cleanup task of the lifespan | reconcile, then sweep every interval; HTTP routes | session service |
| Providers, `providers/` | Selkies token table inside the runtime | create, status, list, remove a runtime; provision, revoke a token; authorise a ROM | Runtime Agent socket, runtime, RomM |
| Runtime service, `retro_runtime/service.py` | one lifecycle lock; containers of the engine | create, remove (locked); stop, list, inspect (unlocked); `reconcile_routes` | Docker Engine, route and target files |
| Runtime Agent API, `api/server.py` | one thread per connection | dispatch, error mapping | runtime service |
| Session entrypoint, `images/retro-session` | the services s6 runs in the container, a command FIFO between two of them | wait for Selkies, validate and launch RetroArch; flush saves; end the container; metrics proxy | RetroArch, Selkies, Docker's health check |
| Observability, clients, infra, tools | counters, logs, configuration | | |

**How they interact.** A handler of the Session Manager takes the service lock,
reads a record, calls providers (HTTP over a UNIX socket with a timeout), and
saves the record, which Valkey refuses if the revision moved or the key expired.
Starting a participant holds the lock while the runtime becomes ready, up to the
startup timeout. A background thread sweeps: it closes overdue and ownerless
lobbies and evicts silent or failed guests. On startup, before it serves, the
process closes every open lobby and removes every container.

**What is hard.** Calls fail half-way or take effect although their answer is
lost; the process dies between a save and a container's creation; the sweep is
one loop that any exception ends; the clock runs on during a start; a key expires
between two commands; threads of the agent interleave with each other and with
containers that exit; the agent dies between the engine call and the route file;
a call that the manager gave up on goes on at the agent, and one that the agent gave up
on at the engine; a container disappears between two engine calls about it; heartbeats wait behind
somebody else's start; two services of a container wait for each other at a FIFO.
Each of these is a hazard of `PROJECT.json`, with the properties that watch it.

**What makes the components correct.**

* Session service: a record says LEFT only when container and token are gone;
  a closed lobby holds nothing; seats, slots and limits are respected; a lease
  never outlives the lobby's lifetime; records only move along the transition
  tables; no container is forgotten; the cleanup takes nothing from people who
  are there, unless their runtime is found not healthy or cannot be asked; overdue and ownerless lobbies close; starts end; restarts complete.
* Repository: it behaves like the atomic in-memory repository; no saved session
  drops out of the index or of a listing; an expired record stays gone.
* Runtime Agent: never more runtimes than allowed; one writer per save; its
  answers mean what the Session Manager takes them for; foreign containers are
  not touched; a failed create is undone; files without a container do not
  survive a restart.
* Both together: what the manager believes to be gone is gone and stays gone, also
  when calls time out and are executed late; a restart completes and leaves nothing.
* Container: RetroArch runs only with what spec and manifest name; what was approved is not
  rejected; it starts or ends, is seen to fail, and ends as a whole; only the host's
  progress is kept and at most an interval of it is lost.

## 2. Modules

| Module | Models |
|---|---|
| `SessionDomain` | the states and transition tables of `models/state.py`, and the pure functions on records: free slots, the validator of `Session`, `_left_participant`, what `_close` writes |
| `SessionManager` | the session service with its providers and the lifespan of the API |
| `SessionManagerProofs` | its theorems on leases, seats, leaving, closing and the transition tables |
| `SessionSafetyProofs` | its theorems on hosts, capacities, readable records, accounted containers and causes of a cleanup |
| `SessionRepository` | the abstract repository: what `InMemorySessionRepository` does, atomically |
| `ValkeyRepository` | `ValkeySessionRepository`, one step per Valkey command |
| `ValkeyRepositoryProofs` | its theorems, the refinement of `SessionRepository` included |
| `RuntimeAgent` | the Runtime Agent, one step per engine call and file operation |
| `RuntimeAgentProofs` | its theorems |
| `Orchestration` | the Session Manager's calls and startup on top of `RuntimeAgent` (which it extends), with the connection between them |
| `OrchestrationProofs` | its theorems, on top of those of `RuntimeAgentProofs` |
| `ServiceLock` | heartbeats, starts and sweeps that wait for the service lock, in real time |
| `ServiceLockProofs` | its theorems |
| `RetroSession` | a participant container: what the agent hands over, the launcher, the two services, the health check |
| `RetroSessionProofs` | its theorems |
| `MC...` | instances for TLC |

Definitions named `X_Something`, marked "Mutant", are broken variants of `X`. No
specification uses them; they show that a property would notice the bug.

### 2.1 SessionManager

State: `now`; `sessions` (the last record saved for each identifier) and `purge`
(when its Valkey key expires: a record whose `purge` has passed is not `Present`);
`runtime` (the container of each participant, including ones that no record
mentions); `token` (the participants whose runtime accepts a stream token); `task`
(the holder of the service lock: its program point and its local variables);
`faults` (a budget).

Every handler runs under the service lock, so a handler that makes one burst of
calls is one action (`Join`, `Heartbeat`, `Leave`, `Kick`, `CloseByOwner`,
`Launch`, `ExpireOnAccess`), whose disjuncts are the outcomes of the calls it
makes. Three things take long or loop and are steps of `task`:

* `_start_participant`: `SaveStarting`, `LaunchRuntime`, `WaitReady`,
  `ProvisionStream`, `SaveActive`, and on a failure `CleanupFailedRuntime`,
  `SaveFailed`. `create` reaches it through its own sweep and `Admit`.
* `sweep`: `SweepSession` picks a session and closes it or computes its stale
  participants, `InspectParticipant` asks for a runtime's status,
  `EvictParticipant` retires a guest; an exception ends the loop.
* startup: `StartProcess`, `ReconcileSession` for each open lobby, then
  `ReconcileRuntimes`; an exception ends the process.

Between two steps the clock ticks, runtimes become healthy or unhealthy or exit,
and the process may crash. A client's health check depends on the host's runtime
(`BecomeHealthy`), as the container payload of the agent says.

A provider call has three outcomes: success, failure without effect, failure with
its effect (a lost answer). A save also fails when the key has expired. Reads by
`get` and `list` do not fail, except that the status of a runtime does. An `add` that
breaks between SET and SADD (`valkey.py:79-82`) leaves a record outside the index: `list` never
has it, the create has raised before any runtime was started, and nobody learned its random
identifier, so no later call can meet it. `RefuseCreate` stands for it: the record is there
for nobody until it expires.

Data that is left out: names, URLs, ROM and core identifiers, the revision number
of a record (the lock makes the service the only writer; `ValkeyRepository` has
the revisions), wording of errors, metrics.

### 2.2 ValkeyRepository and SessionRepository

A key's value is the revision of its record, 0 for none. Clients are callers of
the repository; the service lock is not assumed, so the module also covers two
processes on one Valkey. `add` is SET NX and SADD; `save` is WATCH, GET, compare,
MULTI SET SADD EXEC; `list` is SMEMBERS and a GET for each member, with SREM for
members that are gone. A key expires at any moment; a connection breaks between
any two commands. `highest` (the last revision ever written) and `steady` (saved
keys present since `list` began) are history, read by the properties and by the
freshness of identifiers only.

`KeepsContract` is refinement: `Abstract == INSTANCE SessionRepository WITH call <-
Calls`, where `Abstracted(c)` maps the program point of a call to its abstract stage.
`SetKey` is the moment of an `add`, `Execute` (or a refusing `GetKey`) the moment of
a `save`; everything else stutters or asks or answers.

### 2.3 RuntimeAgent

State: `containers` of the engine (identifier, name, labels, state), `late` (engine calls the
agent has given up), `routes` and `targets` (participants that have a file), `thread` (what each
connection does), `up`. `create_runtime` and `remove_runtime` hold the lifecycle lock, so a thread
at one of `LockedPoints` is the holder; `stop` and `list` do not take it. `Restart` is
`reconcile_routes`. A file is written by `os.replace`, so publishing is atomic. `AdmitRuntime`,
the two listings of an admission with the preparation of the files, is one step: nobody else creates under the lock, and
what happens to a listed container in between (it exits, or is removed) only makes more room or
fails the listing, which is `EngineFails`.

The faults, each of which a run may have or leave out (`FaultKinds`):

* `engine`: a call raises, with its effect or without any; an engine that does not answer in
  HTTP raises an error that `except RuntimeAgentError` does not catch and ends an unwinding;
* `late`: a call raises after its timeout of 30 s (`client.py:31`), and the engine may carry it
  out at any later time, in any order, or never (`TakesEffect`);
* `vanish`: somebody else removes a managed container, also between two calls of a handler
  (`OutsideRemoves`). Stop and delete then get the engine's own 404, which the agent passes on;
* `outside`: somebody else's container under a participant's name;
* `disk`: a file operation raises; `crash`: the process dies, between two steps (a call
  whose answer a dying process no longer reads is the step, or a `late` call, followed by the crash).

Two consequences show in the properties. `_remove_runtime` that meets a vanished container
(`service.py:504-505` with `client.py:74-75`) answers not found before it has removed route and
target; `RemovedIsGone` names this answer as the one that says nothing of the files. And a create
that the engine carries out late is a container that no admission has counted; `Timely` are the
others.

### 2.4 Orchestration

`SessionManager` lets a lost answer take effect at once. Here the agent is the one of
2.3, step by step, and its caller is the manager: `seat` is what the records say of
each participant, `mgr` the one call the manager makes at a time (it holds the service
lock) and why it makes it. `Send` hands the request to a thread of the agent
(`Accept`, shared with `RuntimeAgent`'s own `Arrive`); `Receive` takes its answer.
`GiveUp` is the client's timeout of 30 s, `ConnectionLost` and `Refused` the death of
the agent, `ManagerCrash` the manager's own: in each case the agent's thread, if there
is one, goes on, waits for the lifecycle lock and does its work, and nobody reads its
answer (`Discard`). `AfterSuccess` and `AfterFailure` are what the caller does next for
each kind of call. A restarted manager closes the records (`CloseRecord`), lists the
runtimes and removes them (`ListRuntimes`, `Purge`); any exception ends the process, so
that a record in STARTING keeps it from starting until its key expires
(`RecordExpires`), as in the run `restart`.

The records are abstracted to one state per participant; lobbies, leases and slots are
left to `SessionManager`. `mgr.racing` is history: the creates the agent had not finished
when the list was asked for. `ReconciledClean` says that only their containers can
survive a startup, which is exact: such a create really may finish after the list.

### 2.5 ServiceLock

One lobby with its players, and everything that waits for the service lock: a
heartbeat of each player, the sweep, a create and a join of other users. The lock is a
`threading.RLock`, which does not queue: any waiting thread may get it. A start holds it
until its runtime is ready or the timeout is over (`EndStart` at any time up to
`deadline`); everything else takes no time. The clock does not pass a moment at which
somebody has to act (`Urgent`). `budget` bounds by `MaxHold` how long starts hold the lock,
one or several in succession, before every waiting thread has had its turn; it is
whole again when the lock is free and nobody waits.

### 2.6 RetroSession

Session Manager, Runtime Agent and launcher each check the same data. `WriteRuntimeSpec`
and `Built` are what the agent writes and mounts for a request (the nickname of the manager
included), `LauncherAccepts` the checks of `launcher.py` and of its pydantic models on
what the container finds. When it looks (`Launch`), any parts of `Built`, up to `MaxChanges`, may
have been replaced, in any combination and by anything of the right shape (`Replaced`): another
spec (of `Specs`, well-formed or not, with another role, save mode, ROM, hash or name), a spec file
that is malformed or absent, another ROM, core or frontend, a manifest with other hashes or
profiles, another mount or another directory under it, another environment, a full disk. It is
`Replaced` that says what the world may do, and `LauncherAccepts` what the program checks of it;
what it takes on trust is `Trusted`: the spec and the manifest. Hashes are reduced to the content
they belong to, a name to its number of characters and bytes. Not modelled, since
nothing checks them: the base configuration and the core options that `_prepare_session` reads,
the directory behind the save mount (any of them passes as long as it is mounted read-write), and
what changes after the launcher has read the hashes and before `os.execv`.

`entrypoint/run` and `entrypoint/save-flusher-run` are two services. Opening a FIFO for
reading waits for a writer and the other way round: `OpenRead`, `OpenWrite`. `age` is
the age of RetroArch's oldest unsaved progress and `lost` the oldest that was ever lost;
a tick is 5 s, the interval of the health check, and the flusher's sleep of 10 s is two.
RetroArch reads a pending command and saves (`SaveFiles`, external); it saves on SIGTERM but
not when it is killed. `Finish` is the hook of RetroArch and Selkies; s6 may restart a
service before the signal arrives (`Relaunch`). `HealthCheck` is Docker's rule for start
period and retries applied to the agent's probe.

## 3. Runs

Passing runs:

| Run | Instance | Shows |
|---|---|---|
| `lobby` | 1 lobby of 2 seats, 3 users, up to 3 participants, 2 faults of any kind | `LeaseBounded`, `SeatsSound`, `LeftIsGone`, `ClosedIsEmpty`, `RecordsDecode`, `OwnerIsHost`, `RecordsEvolve`, `CleanupForCause` |
| `two_lobbies` | 2 lobbies, 3 users, 2 runtimes, 1 fault other than the agent's | `CapacityHeld`, `RuntimesAccounted` |
| `liveness` | 1 lobby, 2 users, 3 participants, 1 fault of agent, stream or runtime, fairness | `ExpiredCloses`, `OwnerlessCloses`, `StartsEnd` |
| `restart` | 1 lobby, 2 faults of store or crash, fairness | `RestartCompletes` |
| `agent_faults` | 2 threads, 2 hosts on one save, capacity 2, 4 requests, 2 faults of any kind | `OneWriterPerSave`, `RemovedIsGone`, `CreatedIsServed`, `FailedCreateUnwinds`, `ForeignUntouched` |
| `repository` | 3 clients, 2 keys, revisions to 2 | `SavedIsIndexed`, `ListComplete`, `NoResurrection`, `KeepsContract` |
| `orchestration` | 2 threads, a host and a client, capacity 1, 2 timeouts or crashes of either process, fairness | `LeftIsFinal`, `NoOrphanWithoutFault`, `WithinMaxRuntimes`, `RoutesBacked`, `ReconciledClean`, `StartupCompletes`, `DeadIsRetired` |
| `lock` | an owner and a guest, holds of up to 2 between heartbeats every 1, idle timeout and lease 4, fairness | `PresentIsKept`, `SilentIsRetired` |
| `container` | host and client, ASCII and wide names, a plain ROM and a link, any two parts replaced at the start, one killed flusher, fairness | `RunsApproved`, `SoundIsAccepted`, `OnlyHostPersists`, `LossBounded`, `LaunchSettles`, `LossIsNoticed`, `FailsClosed` |

`orchestration` also checks the type invariant of `RuntimeAgent` and `Orchestration`. Those of the
other modules are theorems, and no run repeats them.

Runs that TLC refutes, each a disagreement between code and documentation:

| Run | Statement | What the code does |
|---|---|---|
| `sweep_refused` | `ExpiredCloses`, when the store may fail | A save that fails while a participant starts (or a crash there) leaves it in STARTING. `_left_participant` has no transition for it, so every sweep raises on that lobby, and so does the startup reconciliation, until its key expires. |
| `orphan` | `TerminalReclaimed` | A start fails and its cleanup fails: the participant becomes ERROR, and nothing looks at its container again before the next restart. It still counts against the runtime capacity. |
| `lock_starved` | `PresentIsKept`, with the configured timeouts | A join may hold the service lock for 45 s, which is the idle timeout (a create for 180 s, longer than the lease of 120 s). Heartbeats wait; when the sweep gets the lock before them, it retires players whose browsers never stopped sending. |

More were met while reading and have no run:

* A stream token has no expiry of its own: it lives until the runtime is removed, which
  is after the lease, where `docs/api/session-manager-v1.md` says it "is valid no later
  than the session lease expiry".
* The agent dies after the engine created the container; a repeated create then answers
  success for a runtime that was never started and has no route (`docs/api/README.md`:
  "Create or return an idempotent managed runtime"). The manager never repeats a create
  for the same participant.
* `_write_runtime_spec` names the ROM after the suffix of the requested path, `_payload`
  mounts it under the suffix of the file it resolves to. A ROM that is a link to a file
  with another suffix is rejected by the launcher; `SoundIsAccepted` excludes it.
* A container that is removed by somebody else (or by a delete that the engine carries out late)
  after `_remove_runtime` has inspected it makes the agent answer 404 with route and target still
  there, and the manager takes the 404 for a removal (`providers/execution/runtime_agent.py:150-153`);
  `docs/milestone-10-session-lifecycle.md:55-57` says that removing "a participant whose container has
  already disappeared also removes its route before returning not-found", which the code does only
  when the container is gone at the inspection. The files stay until
  the agent restarts, or the participant is removed once more.
* A create that the engine carries out after its timeout may exceed `max_runtimes`, or mount a
  save that another container has been given since: the agent releases its lock without knowing
  what became of the call.
* The inspection of a runtime that fails counts as a dead runtime (`session_service.py:566-575`, "fails
  closed"): an agent that does not answer once during a sweep closes a healthy lobby.
* `discover` lists full lobbies, where `docs/milestone-7-session-manager.md` says they are
  excluded and `docs/milestone-12` describes the code.
* `join` takes only an ACTIVE participant of the same user for a repeated
  join (`session_service.py:263`). With `per_user_runtime_capacity` above one (the default of the
  class; `__main__` and `compose.yml` say 1), a guest whose start was cut off by a failed
  save may join again beside the STARTING participant. The record then fails its own
  validator, and `list` raises for every lobby. With a capacity of two and store faults TLC
  finds this for `RecordsDecode`; the theorem `RecordsReadBack` has exactly the
  hypothesis that excludes it.

### Bounds

Every bound is a constant. `MaxSessions`, `MaxParticipants` and `Users` bound the
records: one more participant than seats lets somebody leave and join again, and the
three users of `lobby` are an owner, a guest and one who wants the guest's seat.
`MaxTime` stops the clock and `LastRequest` ends the requests that extend a lobby.
The timeouts are 1 or 2 ticks, so that a start can outlast the lease, and a lease can
end before, at and after the idle timeout. In `liveness` a lobby whose lease was
renewed at `LastRequest` does not expire before `MaxTime`, so that `OwnerlessCloses`
is not shown by expiry alone. `MaxFaults` is two where a fault matters during the
handling of another one. `FaultKinds` leaves out a provider where the property needs it to
behave: `RuntimesAccounted` needs the agent's answers (`orphan` is what happens
otherwise), liveness needs the store (`sweep_refused` is what happens otherwise).
`Retention` is 9, beyond the clock, where an expired record would hide the case.
For the agent, `MaxCalls` is four: a create, a half-failed removal, its retry, and one
that interferes; two faults are enough for a call that takes effect late and another one that
fails, or for a container that vanishes under a removal that is a retry. In `two_lobbies`,
`SessionCapacity` is no less than `MaxSessions`, so of `CapacityHeld` the runtimes and the users'
seats are in question there and the number of sessions is not; a third session takes the run beyond
its time. `CapacitiesHold` proves all three for every capacity. The run leaves out the agent's
faults, which `RuntimesAccounted` needs; `lobby` has them. `MaxRevision` two is one add and competing saves of one revision;
the theorems cover every bound.

In `orchestration` two faults are a call that is given up and a second one that is, or a
crash, while the first still runs; a capacity of one makes the late create compete
with the next one; failures of engine and disk, engine calls that come
late and vanished containers are left to `agent_faults`. `lock` has
`BeatInterval + MaxHold` one below the idle timeout and the lease, the sharpest
values at which `PresentIsKept` holds, and a lifetime that ends after the
clock does, so that who is silent is retired for the silence and not by the end of the session;
`lock_starved` counts in units of 15 s, with the values of `__main__.py` (the cleanup
interval of 10 s rounded up). The page that sends the heartbeats belongs to RomM and is
not in the repository; its interval is taken as one unit, and the counterexample, one join
that holds the lock for 45 s, does not depend on it. `container` scales the start period down
to one tick and the retries to two; two replaced parts are a change and one that could hide it (ROM
and spec, core and manifest), or two independent ones, and `OnlyApprovedRuns` is proved for any
number and any specs; a crash of the flusher at every point of an interval is included, and
`LossBounded` is proved for all values.

Users and threads are symmetric in safety runs. The runs of agent, orchestration, lock
and container do not check for deadlock: a modelled agent runs out of requests, every
participant may have left, the clock stops at `MaxTime`, and a container ends.

### Fairness

`SessionManager!Fairness`: the thread that holds the lock goes on (weak fairness of
`StartParticipant`, `Sweep`, `Reconcile`: every provider call has a timeout), time
passes, and the cleanup thread, which comes for the lock in every interval, gets it
at some time (strong fairness of `StartSweep`: the lock is free again and again, and
requests are finite and fast compared with the interval). Nothing is assumed of
users, runtimes or faults. A crashed process is started again (part of `Reconcile`), as
`restart: unless-stopped` in `compose.yml` says.

`Orchestration!OrchestrationFair`: the agent's threads go on (engine calls have timeouts;
`Acquire` is enabled while the lock is free, and finitely many threads compete), both
processes are restarted, the manager goes on with the call or the startup it has begun,
its cleanup loop runs (strong fairness of `Sweep`: the lock is free again and again), and a
key in Valkey expires. Timeouts, crashes and users owe nothing.

`ServiceLock!FairSpec`: timers fire, a start ends at its deadline, each waiting thread
gets the lock at some time (strong fairness, since the lock is taken and given back), and
the clock goes on (strong fairness of `Tick`: starts that follow each other within an
instant cannot stop it).

`RetroSession!FairSpec`: scripts run, s6 and Docker do what they are told and time
goes on. Neither Selkies nor Netplay has to come up, and nobody has to end.

## 4. Theorems

Proved with TLAPS for all values of the constants that satisfy the assumptions
(`BoundsAssumption`, `ConfigAssumption`, `RepositoryAssumption`, `AgentAssumption`,
`OrchestrationAssumption`, `LockAssumption`, `RetroSessionAssumption`), which state what
`SessionService.__init__` and the request models check, that timeouts and bounds are
numbers, and that the value for "no request" is not a request or a participant. A theorem
with a hypothesis of its own is named with it below.

**SessionManagerProofs.** The invariants are not inductive as they stand. `IInv` adds:

* `StoreOK`: each record satisfies `RecordOK` (first participant is the owner on slot 1,
  slots within the lobby and distinct among the living, CLOSED means nobody alive,
  lease within the lifetime);
* `GoneOK`: a LEFT participant has no container, and a token only exists with one.
  The second part is what carries `LeftIsGone` over the paths that remove a container
  and never hear of its token;
* `TaskOK`: what the lock holder's variables say about the record it works on: while
  a start runs, its session exists, its participant has the state that its program point
  expects, and nobody else can have changed it. Without this, `SaveActive` could bring a
  participant of a closed lobby back.

From `Spec => []IInv` follow `TypeCorrect`, `LeaseIsBounded`, `SeatsAreSound`,
`LeftMeansGone`, `ClosedMeansEmpty`, and, with the step lemma `StoreStep`, the action
property `RecordsOnlyEvolve`. There is one lemma per action; `RetireThenSaveOK`
covers the order "retire, check, save" that close, leave, kick and eviction share, with
all its failures.

**SessionSafetyProofs.** Nearly every step is *calm*: it takes seats and containers away,
or keeps them. `Lessens` says what that is for a record (no seat is taken, only the end of
a start makes somebody ACTIVE, whoever fails has no container), `CalmRuntimes` for
containers. One lemma per action shows which steps are calm, and `Kinds` collects them;
only `Join`, `Admit`, `LaunchRuntime` and `BecomeHealthy` add something. Each invariant
below is then proved for calm steps once and for those four one by one.

* `OwnerHosts` (`OwnerIsHost`): `HostOK` says that the host of an OPEN lobby is ACTIVE or
  has left. An owner who left may join again as a guest; its runtime is a client's, finds
  no host, and never becomes healthy, so it never becomes ACTIVE. `RoleOK` carries this
  through the steps of a start.
* `CapacitiesHold` (`CapacityHeld`): the admission counts, the launch comes two steps
  later; `RoomOK` says that there is room for one more in between, since nobody else can
  start. `OneMore` and `NoMore` are the facts on cardinalities it needs.
* `NothingForgotten` (`RuntimesAccounted`) assumes that `"agent"` is no fault (`orphan`
  shows what happens otherwise) and `MaxTime < Retention`: it speaks of the time until the
  first key expires. `AccountedOK` adds that a start that is about to be recorded as
  failed has no container.
* `RecordsReadBack` (`RecordsDecode`) assumes `PerUserCapacity = 1`, or that the store does
  not fail. `DecodeOK` is that no user has two living participants in a record; in the
  second case it rests on `SettledOK`, by which nobody is in between unless a thread works
  on it. That the players fit into the lobby follows from an injection into its slots.
* `CleanupHasCause` (`CleanupForCause`): causes are that the owner is not ACTIVE, silence for the idle
  timeout, and an inspection that found the runtime not healthy or got no answer; a sweep reaches
  an eviction for the last cause only from such an inspection. The sweep computes the silent participants of a
  lobby before it inspects and evicts one after the other. `StaleOK` says that its list stays true
  to the end of the loop and, by `OwnerIsHost`, never has the owner on it.

**ValkeyRepositoryProofs.** `IInv` is `TypeOK`, `StoreOK` (a stored revision is the
highest one written; saved records are indexed), `CallOK` (a client past GET that is not
dirty has the current revision, a dirty one has lost it) and `ListOK` (a key that is about
to be dropped from the index has been written and is gone; what a listing has found and
has still to visit covers the steady keys). The key fact is that a record that is gone never comes back, which makes
the late SREM harmless. Theorems: `TypeCorrect`, `SavedStaysIndexed`, `ListIsComplete`,
`NeverResurrected`, and `ContractIsKept`, the refinement of `SessionRepository`: initial
states map to initial states, and each step to an abstract step or a stutter.

**RuntimeAgentProofs.** The lock is not a variable: to hold it is to be at one of
`LockedPoints`, and `Mutex` is that two threads never are. `Sees(t)` is what a thread knows
at its program point, although `stop`, `list`, exiting containers and foreign ones interleave
with it: the container it works on is the agent's (`HoldsOK`, `HaltsOK`), the
save it was admitted for is still available (`AdmitOK`), what it is about to report is
published (`FilesOK`), what it is about to delete belongs to nothing (`GoneOK`), what it takes
back is half gone (`UnwindOK`). Steps from outside change the state of containers, remove them, add
foreign ones or carry out late calls, and what a thread knows is stated so that it survives that:
the container of an identifier is the thread's, and is there unless containers may get lost
(`Lossy`: one was removed by others, or a call came late). `LateOK` says whose containers the late
calls concern. From `IInv`: `TypeCorrect`, `SaveExclusive` (`OneWriterPerSave`), `ForeignSafe`, and the
action properties `RemovalIsFinal`, `CreationIsServed`, `CreationUnwinds`. `CapacityRespected`
(`WithinMaxRuntimes`) adds the cardinality of the engine's containers, with room for one at
the point of creation. `SaveExclusive` and `CapacityRespected` are about `Timely` containers, those that
no late create has made. `RoutesLead` (`RoutesBacked`) assumes that engine and disk do not fail and
nobody else removes containers (crashes and foreign containers may happen): with `Backed`, a file has a container or the
thread that is deleting the file, or the agent is down and its startup will delete it.

**OrchestrationProofs.** The agent keeps its invariant under the manager's calls; this uses
the lemmas on the agent's steps as they are, and new ones for `Accept`, `Discard` and the crash.
`OInv` adds `MgrOK` and `RecordOK` (what the manager waits for and what the record says in the
meantime), `FlightOK` (a create without a caller belongs to a record that was given up),
`ListOK` (after the listing of a startup, a container is on the list or its create was
racing with it), `CleanOK` (before the first fault the agent does what the manager waits for,
and nothing else) and `GoneStays`. The last is the core: a removal that reports success
after the record was ACTIVE, or before the first fault (`Certain`), is still true when its
answer is read, because no create of that participant is under way. Theorems:
`OrchestrationTypes`, `LeftStaysLeft` (`LeftIsFinal`), `NothingOrphaned`
(`NoOrphanWithoutFault`), `StartupCleans` (`ReconciledClean`), and, for the agent with these callers,
`CapacityUnderCalls` and `RoutesUnderCalls` (with the hypothesis of `RoutesLead`). The proof
found that two guards of the CASE in `AfterSuccess` could hold at once, of which TLC takes
the first and the prover may take either; they exclude each other now, and
`OrchestrationAssumption` was made explicit.

**ServiceLockProofs.** `ShortHoldsKeepPresent`: if `BeatInterval + MaxHold` is less than
both `IdleTimeout` and `LobbyLease`, then `PresentIsKept`, whatever the other timeouts and
in whatever order threads get the lock. It tells an operator which startup timeouts are
safe, and the default values are not among them. The invariant that carries it is `Recorded`: an open
browser's last recorded heartbeat is at most `BeatInterval` plus the spent part of the
budget ago, and the last one it sent is recorded or waits for the lock; `Leased` says that
the lease runs from any recorded heartbeat, and `OwnerStays` that a lobby with anybody in
it has its owner.

**RetroSessionProofs.** `OnlyApprovedRuns`, `SoundAccepted` and `HostPersists` follow from
the invariant `Gate`, which adds only that the command path is a FIFO by then (`PathKept`), and from two
lemmas: what runs has passed every check of the launcher, and a refusal of the unchanged
container is one of a linked ROM. With `RequestType` and `Replaced` they cover every request,
every name, any set of core profiles, any other specs and any combination of replaced parts.
`LossWithinInterval` needs `Owed`: while the flusher sleeps, what is unsaved and the rest of
its sleep add up to at most one interval, or its command is in the FIFO; a flusher that was
killed owes one more interval for each time.

**Only model-checked.** The liveness properties: `ExpiredCloses`, `OwnerlessCloses`,
`StartsEnd`, `RestartCompletes`, `StartupCompletes`, `DeadIsRetired`,
`SilentIsRetired`, `LaunchSettles`, `LossIsNoticed`, `FailsClosed`. They rest on
fairness, and the prover has neither its rules nor ENABLED. Every invariant and every action
property of the passing runs is stated by a theorem.

## 5. What is not modelled

* Time in `Orchestration`, which has no leases; failures of the store between its steps
  (`SessionManager` has them) and of the engine (`RuntimeAgent` has them); what nothing in a
  container checks (2.6); a thread pool that runs out of threads while starts
  wait for the lock.
* The metrics proxy of the runtime image, a stateless relay of Selkies' metrics.
* Authentication, validation, routing and error mapping of the HTTP APIs; the
  derivation of tokens; metrics and logs; the command-line clients; infrastructure.
  They keep no state that the modelled components read.

## 6. Plan

Done: the session service, its repository with the refinement, the Runtime Agent, both
services together, the service lock, the participant container; theorems for every safety
property of the runs.

Next:

1. An abstract lobby (seats, host, open or closed) that `SessionManager` implements, as a
   refinement checked by TLC and then proved. `OwnerHosts`, `SeatsAreSound` and
   `LeftMeansGone` are the facts it needs.
2. `RuntimesAccounted` beyond the first expiry of a key: a container may then only be one of
   a record that is no longer present.
3. `RoutesBacked` with engine and disk faults and vanished containers, restricted to participants whose last call
   succeeded.

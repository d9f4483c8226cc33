------------------------- MODULE RetroSessionProofs -------------------------
(***************************************************************************)
(* Proofs about the participant container, for every request, interval and *)
(* number of flusher crashes.  The argument about lost progress rests on   *)
(* what the flusher still owes: while it sleeps, the age of the unsaved    *)
(* progress and what is left of the sleep together fit the allowance.      *)
(***************************************************************************)
EXTENDS RetroSession, TLAPS

USE RetroSessionAssumption

-----------------------------------------------------------------------------
(* The launcher *)

\* The container that was built is what Built says, field by field.
LEMMA BuiltFields ==
  ASSUME NEW r \in Requests, NEW root \in BOOLEAN
  PROVE  LET b == Built(r, root) IN
         /\ b.specFile = "regular" /\ b.disk = "free"
         /\ b.rom.name = r.target /\ b.rom.content = "approved" /\ b.rom.mount = "ro"
         /\ b.core = "approved" /\ b.frontend = "approved" /\ b.spec.sha = "approved"
         /\ b.manifest = [profiles |-> Profiles, core |-> "approved", frontend |-> "approved"]
         /\ b.subfolder = "own" /\ b.spec.subfolder = "own"
         /\ b.spec.core_profile = r.profile /\ b.spec.rom = r.suffix
         /\ b.spec.role = r.role /\ (b.spec.host <=> r.role = "client")
         /\ b.spec.player_name = NetplayPlayerName(r.name)
         /\ b.spec.save_mode = IF root /\ r.role = "host" THEN "host-authoritative"
                               ELSE "ephemeral"
         /\ b.saveMount = IF root /\ r.role = "host" THEN "rw" ELSE "none"
BY DEF Built, WriteRuntimeSpec

\* Counting bytes keeps a name within both limits: 31 characters and 31 bytes.
LEMMA NamesFit ==
  ASSUME NEW r \in Requests
  PROVE  /\ NetplayPlayerName(r.name).chars \in 1..31
         /\ NetplayPlayerName(r.name).bytes <= 31
BY DEF NetplayPlayerName, RequestType

\* A container in which nothing was replaced is accepted.
LEMMA AcceptsBuilt ==
  ASSUME request \in Requests, saveRoot \in BOOLEAN, request.suffix = request.target,
         NEW w \in Replaced(Built(request, saveRoot), {})
  PROVE  LauncherAccepts(w)
<1> DEFINE b == Built(request, saveRoot)
<1>1. request.role \in {"host", "client"} /\ request.profile \in Profiles
  BY DEF RequestType
<1>2. /\ w.spec = b.spec /\ w.specFile = b.specFile /\ w.rom = b.rom /\ w.core = b.core
      /\ w.frontend = b.frontend /\ w.manifest = b.manifest /\ w.saveMount = b.saveMount
      /\ w.subfolder = b.subfolder /\ w.disk = b.disk
  BY DEF Replaced
<1>3. LoadRuntimeSpec(w)
  BY <1>1, <1>2, BuiltFields, NamesFit DEF LoadRuntimeSpec, WellFormed
<1>4. ResolveRuntime(w)
  BY <1>1, <1>2, BuiltFields DEF ResolveRuntime
<1>5. ValidatePersistentSaveMount(w)
  <2>1. CASE saveRoot /\ request.role = "host"
    <3>1. b.saveMount = "rw"
      BY <2>1 DEF Built
    <3> QED BY <3>1, <1>2 DEF ValidatePersistentSaveMount
  <2>2. CASE ~(saveRoot /\ request.role = "host")
    <3>1. b.spec.save_mode = "ephemeral"
      BY <2>2 DEF Built, WriteRuntimeSpec
    <3> QED BY <3>1, <1>2 DEF ValidatePersistentSaveMount
  <2> QED BY <2>1, <2>2
<1> QED
  BY <1>2, <1>3, <1>4, <1>5, BuiltFields DEF LauncherAccepts, ValidateStreamEnvironment,
     ValidateReadOnlyMount, PrepareSession

\* Whatever was replaced, alone or together: with the spec and the manifest that
\* were given, an accepted container holds what they name.
LEMMA AcceptedIsApproved ==
  ASSUME request \in Requests, saveRoot \in BOOLEAN,
         NEW parts \in SUBSET Parts, NEW w \in Replaced(Built(request, saveRoot), parts),
         LauncherAccepts(w),
         w.spec = Built(request, saveRoot).spec,
         w.manifest = Built(request, saveRoot).manifest
  PROVE  /\ w.specFile = "regular"
         /\ w.rom = [name |-> request.suffix, content |-> "approved", mount |-> "ro"]
         /\ w.core = "approved" /\ w.frontend = "approved"
         /\ w.subfolder = "own" /\ w.disk = "free"
         /\ saveRoot /\ request.role = "host" => w.saveMount \in {"rw", "other directory"}
         /\ w.spec.player_name.bytes <= 31
<1> DEFINE b == Built(request, saveRoot)
<1>1. w.rom \in [name : {b.rom.name}, content : Contents, mount : {"ro", "rw"}]
  <2>1. w.rom \in IF "rom" \in parts
                  THEN [name : {b.rom.name}, content : Contents, mount : {"ro", "rw"}] \ {b["rom"]}
                  ELSE {b["rom"]}
    BY DEF Replaced
  <2>2. b["rom"] \in [name : {b.rom.name}, content : Contents, mount : {"ro", "rw"}]
    BY DEF Built, Contents
  <2> QED BY <2>1, <2>2
<1>2. w.rom = [name |-> request.suffix, content |-> "approved", mount |-> "ro"]
  BY <1>1, BuiltFields DEF LauncherAccepts, ResolveRuntime, ValidateReadOnlyMount
<1>3. w.specFile = "regular" /\ w.subfolder = "own" /\ w.disk = "free"
  BY BuiltFields DEF LauncherAccepts, LoadRuntimeSpec, ValidateStreamEnvironment, PrepareSession
<1>4. w.core = "approved" /\ w.frontend = "approved"
  BY BuiltFields DEF LauncherAccepts, ResolveRuntime
<1>5. saveRoot /\ request.role = "host" => w.saveMount \in {"rw", "other directory"}
  <2>1. saveRoot /\ request.role = "host" => b.spec.save_mode = "host-authoritative"
    BY DEF Built, WriteRuntimeSpec
  <2> QED BY <2>1 DEF LauncherAccepts, ValidatePersistentSaveMount
<1>6. w.spec.player_name.bytes <= 31
  BY BuiltFields, NamesFit
<1> QED BY <1>2, <1>3, <1>4, <1>5, <1>6

-----------------------------------------------------------------------------
(* Types *)

\* The initial values.
LEMMA TypeInit == Init => TypeOK
<1> SUFFICES ASSUME Init PROVE TypeOK
  OBVIOUS
<1>1. saveRoot \in BOOLEAN /\ pending \in BOOLEAN /\ linked \in BOOLEAN /\ refused \in BOOLEAN
  BY Zenon DEF Init
<1>2. world \in Replaced(Built(request, saveRoot), {})
  BY DEF Init, Replaced, Built
<1> QED BY <1>1, <1>2 DEF Init, TypeOK

\* The end of RetroArch keeps the types of what it touches.
LEMMA EndsTypes ==
  ASSUME TypeOK, NEW saved \in BOOLEAN, Ends(saved)
  PROVE  age' \in Nat /\ lost' \in Nat /\ written' \in {"none", "session", "persistent"}
BY DEF TypeOK, Ends, MaxOf, SaveDirectory

\* The end of the container, too.
LEMMA DownTypes ==
  ASSUME TypeOK, NEW saved \in BOOLEAN, Down(saved)
  PROVE  TypeOK'
<1>1. pending' \in BOOLEAN /\ linked' \in BOOLEAN
  BY Zenon DEF Down
<1>2. age' \in Nat /\ lost' \in Nat /\ written' \in {"none", "session", "persistent"}
  BY EndsTypes DEF Down
<1> QED BY <1>1, <1>2 DEF Down, TypeOK, setup, docker

\* A tick takes time from the flusher's sleep only while there is some left.
LEMMA TickTypes ==
  ASSUME TypeOK, Tick
  PROVE  /\ timer' \in 0..FlushInterval /\ age' \in Nat
         /\ uptime' \in 0..StartPeriod /\ failures' \in 0..Retries
         /\ health' \in {"starting", "healthy", "unhealthy"}
<1>1. timer' \in 0..FlushInterval
  BY DEF TypeOK, Tick, Urgent
<1>2. age' \in Nat
  BY DEF TypeOK, Tick
<1>3. uptime' \in 0..StartPeriod
  BY DEF TypeOK, Tick, HealthCheck
<1>4. failures' \in 0..Retries
  <2>1. CASE Probe
    BY <2>1 DEF TypeOK, Tick, HealthCheck
  <2>2. CASE ~Probe
    BY <2>2 DEF TypeOK, Tick, HealthCheck
  <2> QED BY <2>1, <2>2
<1>5. health' \in {"starting", "healthy", "unhealthy"}
  BY DEF TypeOK, Tick, HealthCheck
<1> QED BY <1>1, <1>2, <1>3, <1>4, <1>5

\* Every variable keeps its type.
LEMMA TypeStep == TypeOK /\ [Next]_vars => TypeOK'
<1> SUFFICES ASSUME TypeOK, [Next]_vars PROVE TypeOK'
  OBVIOUS
<1> USE DEF TypeOK, setup, saves, docker
<1>1. CASE SelkiesReady
  BY <1>1 DEF SelkiesReady
<1>2. CASE PreparePipe
  BY <1>2 DEF PreparePipe
<1>3. CASE RunFails
  BY <1>3 DEF RunFails
<1>4. CASE OpenRead
  BY <1>4 DEF OpenRead
<1>5. CASE Launch
  <2>1. refused' \in BOOLEAN
    BY <1>5, Zenon DEF Launch
  <2>2. \E parts \in SUBSET Parts : world' \in Replaced(Built(request, saveRoot), parts)
    BY <1>5 DEF Launch
  <2>3. game' \in {"running", "gone"} /\ written' \in {"none", "session", "persistent"}
    BY <1>5 DEF Launch
  <2> QED BY <1>5, <2>1, <2>2, <2>3 DEF Launch
<1>6. CASE FindPipe
  BY <1>6 DEF FindPipe
<1>7. CASE OpenWrite
  BY <1>7 DEF OpenWrite
<1>8. CASE Flush
  BY <1>8 DEF Flush
<1>9. CASE FlusherCrash
  BY <1>9 DEF FlusherCrash
<1>10. CASE SaveFiles
  <2>1. pending' \in BOOLEAN
    BY <1>10, Zenon DEF SaveFiles
  <2> QED BY <1>10, <2>1 DEF SaveFiles, SaveDirectory
<1>11. CASE Netplay
  BY <1>11 DEF Netplay
<1>12. CASE SelkiesExits
  BY <1>12 DEF SelkiesExits
<1>13. ASSUME NEW saved \in BOOLEAN, GameExits(saved) PROVE TypeOK'
  <2>1. linked' \in BOOLEAN
    BY <1>13, Zenon DEF GameExits
  <2>2. age' \in Nat /\ lost' \in Nat /\ written' \in {"none", "session", "persistent"}
    BY <1>13, EndsTypes DEF GameExits
  <2> QED BY <1>13, <2>1, <2>2 DEF GameExits
<1>14. CASE Finish
  BY <1>14 DEF Finish
<1>15. CASE Relaunch
  BY <1>15 DEF Relaunch
<1>16. CASE DockerStop
  BY <1>16 DEF DockerStop
<1>17. CASE Terminate
  BY <1>17, DownTypes DEF Terminate
<1>18. CASE Kill
  BY <1>18, DownTypes DEF Kill
<1>19. CASE Tick
  BY <1>19, TickTypes DEF Tick
<1>20. CASE UNCHANGED vars
  BY <1>20 DEF vars
<1> QED BY <1>1, <1>2, <1>3, <1>4, <1>5, <1>6, <1>7, <1>8, <1>9, <1>10, <1>11, <1>12, <1>13, <1>14, <1>15, <1>16, <1>17, <1>18, <1>19, <1>20 DEF Next

\* The type invariant holds always.
THEOREM TypeCorrect == Spec => []TypeOK
BY TypeInit, TypeStep, PTL DEF Spec

-----------------------------------------------------------------------------
(* What the launcher lets through *)

\* The read end is of a FIFO.
PathKept == game \in {"opening", "validating", "running"} => pipe = "fifo"

Gate == TypeOK /\ PathKept /\ RunsApproved /\ SoundIsAccepted /\ OnlyHostPersists

\* Initially nothing runs and nothing was written.
LEMMA GateInit == Init => Gate
<1> SUFFICES ASSUME Init PROVE Gate
  OBVIOUS
<1>1. PathKept
  BY DEF Init, PathKept
<1>2. RunsApproved /\ SoundIsAccepted /\ OnlyHostPersists
  BY DEF Init, RunsApproved, SoundIsAccepted, OnlyHostPersists
<1> QED BY <1>1, <1>2, TypeInit DEF Gate

\* With the spec that was given, the save directory is the one of the role.
LEMMA SoundSaves ==
  ASSUME world.spec = WriteRuntimeSpec(request, saveRoot)
  PROVE  SaveDirectory = "persistent" <=> saveRoot /\ request.role = "host"
BY DEF WriteRuntimeSpec, SaveDirectory

\* A last save goes where the others went.
LEMMA EndsPersist ==
  ASSUME OnlyHostPersists, NEW saved \in BOOLEAN, Ends(saved), UNCHANGED setup
  PROVE  OnlyHostPersists'
<1> USE DEF setup
<1>1. CASE game = "running" /\ saved
  BY <1>1, SoundSaves DEF Ends, OnlyHostPersists
<1>2. CASE ~(game = "running" /\ saved)
  BY <1>2 DEF Ends, OnlyHostPersists
<1> QED BY <1>1, <1>2

\* What the container was given does not change while RetroArch runs.
LEMMA ApprovedKept ==
  ASSUME RunsApproved, UNCHANGED <<setup, pipe>>, game' = "running" => game = "running"
  PROVE  RunsApproved'
BY DEF RunsApproved, Trusted, setup

\* Only Launch makes RetroArch run, and only it refuses a container.
LEMMA GateStep == Gate /\ [Next]_vars => Gate'
<1> SUFFICES ASSUME Gate, [Next]_vars PROVE Gate'
  OBVIOUS
<1>t. TypeOK /\ TypeOK'
  BY TypeStep DEF Gate
<1>g. PathKept /\ RunsApproved /\ SoundIsAccepted /\ OnlyHostPersists
  BY DEF Gate
<1>s. UNCHANGED setup => SoundIsAccepted' /\ (UNCHANGED written => OnlyHostPersists')
  BY <1>g DEF SoundIsAccepted, OnlyHostPersists, setup
<1>1. CASE PreparePipe
  <2>1. RunsApproved'
    BY <1>1 DEF PreparePipe, RunsApproved
  <2> QED BY <2>1, <1>1, <1>t, <1>s DEF PreparePipe, Gate, PathKept, saves
<1>2. CASE Launch
  <2> PICK parts \in SUBSET Parts : \E w \in Replaced(Built(request, saveRoot), parts) :
        IF LauncherAccepts(w)
          THEN world' = w /\ game' = "running" /\ written' = "none" /\ refused' = refused
          ELSE /\ world' = world /\ game' = "gone" /\ written' = written
               /\ refused' = (refused \/ parts = {})
    BY <1>2 DEF Launch
  <2> PICK w \in Replaced(Built(request, saveRoot), parts) :
        IF LauncherAccepts(w)
          THEN world' = w /\ game' = "running" /\ written' = "none" /\ refused' = refused
          ELSE /\ world' = world /\ game' = "gone" /\ written' = written
               /\ refused' = (refused \/ parts = {})
    OBVIOUS
  <2>0. /\ game = "validating" /\ UNCHANGED <<request, saveRoot, pipe>> /\ pipe = "fifo"
        /\ request \in Requests /\ saveRoot \in BOOLEAN
    BY <1>2, <1>g, <1>t DEF Launch, PathKept, TypeOK
  <2>1. CASE LauncherAccepts(w)
    <3>1. world' = w /\ game' = "running" /\ written' = "none" /\ refused' = refused
      BY <2>1
    <3>2. RunsApproved'
      <4> SUFFICES ASSUME Trusted' PROVE RunsApproved'
        BY DEF RunsApproved
      <4>1. w.spec = Built(request, saveRoot).spec /\ w.manifest = Built(request, saveRoot).manifest
        BY <3>1, <2>0 DEF Trusted
      <4> QED BY <4>1, <3>1, <2>0, <2>1, AcceptedIsApproved DEF RunsApproved
    <3> QED BY <3>1, <3>2, <2>0, <1>t, <1>g DEF Gate, PathKept, SoundIsAccepted, OnlyHostPersists
  <2>2. CASE ~LauncherAccepts(w)
    <3>1. /\ world' = world /\ game' = "gone" /\ written' = written
          /\ refused' = (refused \/ parts = {})
      BY <2>2
    <3>2. SoundIsAccepted'
      BY <3>1, <2>0, <2>2, <1>g, AcceptsBuilt DEF SoundIsAccepted
    <3> QED BY <3>1, <3>2, <2>0, <1>t, <1>g DEF Gate, PathKept, RunsApproved, OnlyHostPersists
  <2> QED BY <2>1, <2>2
<1>3. CASE SaveFiles
  <2>1. OnlyHostPersists'
    BY <1>3, <1>t, SoundSaves DEF SaveFiles, OnlyHostPersists, setup
  <2>2. RunsApproved'
    BY <1>3, <1>g, ApprovedKept DEF SaveFiles
  <2> QED BY <2>1, <2>2, <1>3, <1>t, <1>g, <1>s DEF SaveFiles, Gate, PathKept
<1>4. ASSUME NEW saved \in BOOLEAN, GameExits(saved) PROVE Gate'
  <2>1. OnlyHostPersists'
    BY <1>4, <1>g, EndsPersist DEF GameExits
  <2> QED BY <2>1, <1>4, <1>t, <1>s DEF GameExits, Gate, PathKept, RunsApproved
<1>5. ASSUME NEW saved \in BOOLEAN, Down(saved) PROVE Gate'
  <2>1. OnlyHostPersists'
    BY <1>5, <1>g, EndsPersist DEF Down
  <2> QED BY <2>1, <1>5, <1>t, <1>s DEF Down, Gate, PathKept, RunsApproved
<1>6. CASE RunFails \/ OpenRead \/ Relaunch
  <2>1. RunsApproved'
    BY <1>6 DEF RunFails, OpenRead, Relaunch, RunsApproved
  <2> QED BY <2>1, <1>6, <1>t, <1>g, <1>s DEF RunFails, OpenRead, Relaunch, Gate, PathKept, saves
<1>7. ASSUME UNCHANGED <<setup, saves, game, pipe>> PROVE Gate'
  <2>1. RunsApproved'
    BY <1>7, <1>g, ApprovedKept
  <2> QED BY <2>1, <1>7, <1>t, <1>g, <1>s DEF Gate, PathKept, saves
<1>8. CASE SelkiesReady \/ SelkiesExits \/ FindPipe \/ OpenWrite \/ Flush \/ FlusherCrash
           \/ Netplay \/ Finish \/ DockerStop
  BY <1>7, <1>8 DEF SelkiesReady, SelkiesExits, FindPipe, OpenWrite, Flush, FlusherCrash,
     Netplay, Finish, DockerStop
<1>9. CASE Tick
  <2>1. OnlyHostPersists'
    BY <1>9, <1>s DEF Tick
  <2>2. RunsApproved'
    BY <1>9, <1>g, ApprovedKept DEF Tick
  <2> QED BY <2>1, <2>2, <1>9, <1>t, <1>g, <1>s DEF Tick, Gate, PathKept
<1>10. CASE UNCHANGED vars
  BY <1>7, <1>10 DEF vars
<1> QED BY <1>1, <1>2, <1>3, <1>4, <1>5, <1>6, <1>8, <1>9, <1>10
       DEF Next, Terminate, Kill

\* The launcher executes only what the agent's spec and the image's manifest
\* name, under a nickname that fits RetroArch's 32-byte field, whichever other
\* parts of the container were replaced, in whatever combination.
THEOREM OnlyApprovedRuns == Spec => []RunsApproved
<1>1. Gate => RunsApproved
  BY DEF Gate
<1> QED BY <1>1, GateInit, GateStep, PTL DEF Spec

\* What Session Manager and Runtime Agent accept and build, the launcher's own
\* validators do not reject, for every request.
THEOREM SoundAccepted == Spec => []SoundIsAccepted
<1>1. Gate => SoundIsAccepted
  BY DEF Gate
<1> QED BY <1>1, GateInit, GateStep, PTL DEF Spec

\* Progress reaches the lobby's save directory only from the host's container;
\* a client's saves stay in its own, whatever was replaced except the spec.
THEOREM HostPersists == Spec => []OnlyHostPersists
<1>1. Gate => OnlyHostPersists
  BY DEF Gate
<1> QED BY <1>1, GateInit, GateStep, PTL DEF Spec

-----------------------------------------------------------------------------
(* Lost progress *)

\* What the crashes of the flusher have cost, at most.
Cost == crashes * FlushInterval

\* Unsaved progress by what the flusher is doing: a sleeping one has its sleep
\* left, or its command is in the FIFO; a restarted one owes a whole sleep.
Owed ==
  /\ game # "running" => age = 0
  /\ flusher = "gone" => container = "down"
  /\ container = "down" => game = "gone"
  /\ game = "running" =>
       /\ flusher = "sleeping" /\ ~pending => age + timer <= Cost + FlushInterval
       /\ flusher = "sleeping" => age <= Cost + FlushInterval
       /\ flusher \in {"looking", "opening"} => age <= Cost

Bounded == Gate /\ Owed /\ lost <= Cost + FlushInterval

\* The allowance grows by an interval with every crash.
LEMMA CostGrows ==
  ASSUME NEW c \in Nat
  PROVE  /\ c * FlushInterval \in Nat
         /\ (c + 1) * FlushInterval = c * FlushInterval + FlushInterval
OBVIOUS

\* Initially there is nothing to lose.
LEMMA BoundedInit == Init => Bounded
<1> SUFFICES ASSUME Init PROVE Bounded
  OBVIOUS
<1>1. Gate /\ Cost \in Nat
  BY GateInit, CostGrows DEF Init, Cost
<1>2. Owed
  BY <1>1 DEF Init, Owed
<1>3. lost <= Cost + FlushInterval
  BY <1>1 DEF Init
<1> QED BY <1>1, <1>2, <1>3 DEF Bounded

\* Whatever ends RetroArch loses no more than the age of its progress.
LEMMA EndsBounded ==
  ASSUME Bounded, NEW saved \in BOOLEAN, Ends(saved), UNCHANGED crashes
  PROVE  age' = 0 /\ lost' <= Cost' + FlushInterval
<1>1. Cost \in Nat /\ Cost' = Cost /\ lost \in Nat /\ age \in Nat
  BY CostGrows DEF Bounded, Gate, TypeOK, Cost
<1>2. age <= Cost + FlushInterval
  BY <1>1 DEF Bounded, Gate, TypeOK, PathKept, Owed
<1> QED BY <1>1, <1>2 DEF Ends, MaxOf, Bounded

\* Each step keeps what is owed within the allowance.
LEMMA BoundedStep == Bounded /\ [Next]_vars => Bounded'
<1> SUFFICES ASSUME Bounded, [Next]_vars PROVE Bounded'
  OBVIOUS
<1>t. /\ Gate' /\ TypeOK /\ TypeOK' /\ PathKept
      /\ Owed /\ lost <= Cost + FlushInterval
  BY GateStep DEF Bounded, Gate
<1>c. Cost \in Nat /\ (UNCHANGED crashes => Cost' = Cost)
  <2>1. crashes \in Nat
    BY <1>t DEF TypeOK
  <2>2. Cost \in Nat
    BY <2>1, CostGrows DEF Cost
  <2>3. UNCHANGED crashes => Cost' = Cost
    BY DEF Cost
  <2> QED BY <2>2, <2>3
<1>n. age \in Nat /\ lost \in Nat /\ timer \in 0..FlushInterval /\ pending \in BOOLEAN
  BY <1>t DEF TypeOK
<1>1. CASE OpenRead
  BY <1>1, <1>t, <1>c, <1>n DEF OpenRead, Bounded, Owed, saves
<1>2. CASE Launch
  BY <1>2, <1>t, <1>c, <1>n DEF Launch, Bounded, Owed, saves
<1>3. CASE OpenWrite
  BY <1>3, <1>t, <1>c, <1>n DEF OpenWrite, Bounded, Owed, saves
<1>4. CASE Flush
  <2>1. game = "running" => pending'
    BY <1>4, Zenon DEF Flush, Readers
  <2> QED BY <1>4, <2>1, <1>t, <1>c, <1>n DEF Flush, Readers, Bounded, Owed, saves
<1>5. CASE FlusherCrash
  <2>1. Cost' = Cost + FlushInterval
    BY <1>5, <1>t, CostGrows DEF FlusherCrash, Cost, TypeOK
  <2> QED BY <1>5, <2>1, <1>t, <1>c, <1>n DEF FlusherCrash, Bounded, Owed, saves
<1>6. CASE SaveFiles
  <2>1. age' = 0 /\ UNCHANGED <<container, game, flusher, timer, lost, crashes>>
    BY <1>6 DEF SaveFiles
  <2> QED BY <2>1, <1>t, <1>c, <1>n DEF Bounded, Owed
<1>7. ASSUME NEW saved \in BOOLEAN, GameExits(saved) PROVE Bounded'
  <2>1. age' = 0 /\ lost' <= Cost' + FlushInterval
    BY <1>7, EndsBounded DEF GameExits
  <2>2. game' = "gone" /\ UNCHANGED <<container, flusher>>
    BY <1>7 DEF GameExits
  <2> QED BY <2>1, <2>2, <1>t DEF Bounded, Owed
<1>8. ASSUME NEW saved \in BOOLEAN, Down(saved) PROVE Bounded'
  <2>1. age' = 0 /\ lost' <= Cost' + FlushInterval
    BY <1>8, EndsBounded DEF Down
  <2>2. game' = "gone" /\ container' = "down"
    BY <1>8 DEF Down
  <2> QED BY <2>1, <2>2, <1>t DEF Bounded, Owed
<1>9. CASE Tick
  <2>1. game = "running" => flusher = "sleeping" /\ timer > 0 /\ ~pending
    BY <1>9, <1>t, <1>n DEF Tick, Urgent, PathKept, Readers, Owed, TypeOK
  <2> QED BY <1>9, <2>1, <1>t, <1>c, <1>n DEF Tick, Bounded, Owed
<1>10. CASE SelkiesReady \/ SelkiesExits \/ PreparePipe \/ RunFails \/ FindPipe
  BY <1>10, <1>t, <1>c, <1>n DEF SelkiesReady, SelkiesExits, PreparePipe, RunFails,
     FindPipe, Bounded, Owed, saves
<1>11. CASE Netplay \/ Finish \/ DockerStop \/ Relaunch
  BY <1>11, <1>t, <1>c, <1>n DEF Netplay, Finish, DockerStop, Relaunch, Bounded, Owed, saves
<1>12. CASE UNCHANGED vars
  BY <1>12, <1>t, <1>c, <1>n DEF vars, saves, Bounded, Owed
<1> QED BY <1>1, <1>2, <1>3, <1>4, <1>5, <1>6, <1>7, <1>8, <1>9, <1>10, <1>11, <1>12
       DEF Next, Terminate, Kill

\* A failure of RetroArch, of the container or of the machine loses at most one
\* flush interval, and one more for each time the flusher was killed.
THEOREM LossWithinInterval == Spec => []LossBounded
<1>1. Bounded => LossBounded
  <2> SUFFICES ASSUME Bounded PROVE lost <= (crashes + 1) * FlushInterval
    BY DEF LossBounded
  <2>1. (crashes + 1) * FlushInterval = Cost + FlushInterval
    BY CostGrows DEF Bounded, Gate, TypeOK, Cost
  <2> QED BY <2>1 DEF Bounded
<1> QED BY <1>1, BoundedInit, BoundedStep, PTL DEF Spec
=============================================================================

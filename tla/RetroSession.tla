---------------------------- MODULE RetroSession ----------------------------
(***************************************************************************)
(* One participant container of the retro-session image: the RuntimeSpec   *)
(* and the mounts the Runtime Agent gives it, the launcher that accepts or *)
(* rejects them, and the services s6 runs in it.  The retroarch service    *)
(* waits for Selkies, makes the command FIFO, opens it for reading, has    *)
(* session_entrypoint validate everything and becomes RetroArch.  The      *)
(* save-flusher service opens the FIFO for writing and asks for a flush of *)
(* the save memory every interval.  Opening a FIFO blocks until both ends  *)
(* are there.  The finish hooks end the container, and Docker's health     *)
(* check watches it.                                                       *)
(*                                                                         *)
(* One tick of the clock is the interval of the health check (5 s).        *)
(***************************************************************************)
EXTENDS Integers, FiniteSets

CONSTANTS
  Requests,        \* what the Session Manager asks for: records as in RequestType
  Profiles,        \* core profiles of the image's manifest
  Specs,           \* other RuntimeSpecs the container may find: as in SpecType
  MaxChanges,      \* bound: how many parts are not as the agent left them
  FlushInterval,   \* sleep of the flusher, in ticks
  StartPeriod,     \* of the health check, in ticks
  Retries,         \* of the health check
  MaxCrashes       \* bound: how often the flusher is killed

\* A request of the Session Manager: a name is its length in characters and in
\* UTF-8 bytes; the registry's core profiles are in the image's manifest.
RequestType(r) ==
  /\ r.role \in {"host", "client"}
  /\ r.name \in [chars : 1..64, bytes : 1..256] /\ r.name.chars <= r.name.bytes
  /\ r.profile \in Profiles
  /\ r.suffix \in STRING /\ r.target \in STRING   \* of rom_path, and of the file it resolves to

\* A RuntimeSpec, reduced to what the launcher compares or acts on.
SpecType(s) ==
  s \in [player_name : [chars : 1..64, bytes : 1..256], core_profile : STRING,
         role : {"standalone", "host", "client"}, host : BOOLEAN, rom : STRING,
         sha : {"approved", "changed"}, subfolder : {"own", "other"},
         save_mode : {"ephemeral", "host-authoritative"}]

ASSUME RetroSessionAssumption ==
  /\ FlushInterval \in Nat \ {0} /\ StartPeriod \in Nat /\ Retries \in Nat \ {0}
  /\ MaxCrashes \in Nat /\ MaxChanges \in Nat
  /\ \A r \in Requests : RequestType(r)
  /\ \A s \in Specs : SpecType(s)

VARIABLES
  request, saveRoot,  \* the request, and whether the agent has a save root
  world,              \* the container: as built, or as the launcher accepted it
  refused,            \* the launcher has refused the container as it was built
  container,          \* "up", "stopping" (s6 or Docker ends it) or "down"
  selkies,            \* "booting", "up" or "gone"
  game,               \* the retroarch service
  pipe,               \* /tmp/retroarch-command: "absent", "fifo" or "file"
  flusher, timer,     \* the save-flusher service and what is left of its sleep
  pending,            \* a SAVE_FILES command is in the FIFO
  age,                \* age of the oldest progress that is not saved
  lost,               \* age of the oldest progress that was ever lost
  written,            \* where this RetroArch wrote save files last
  linked,             \* the Netplay socket is in the state the role needs
  uptime, failures, health,  \* Docker's view; uptime counts in the start period
  crashes             \* how often the flusher was killed

setup == <<request, saveRoot, world, refused>>
saves == <<age, lost, written>>
docker == <<uptime, failures, health>>
vars == <<setup, container, selkies, game, pipe, flusher, timer, pending, saves,
          linked, docker, crashes>>

-----------------------------------------------------------------------------
(* What the Session Manager and the Runtime Agent hand over *)

\* A name too long for the wire becomes "Player n".
NetplayPlayerName(name) ==
  IF name.bytes <= 31 THEN name ELSE [chars |-> 8, bytes |-> 8]

\* Mutant: every host is told to keep its save, also when no root is configured.
WriteRuntimeSpec_HostAlwaysSaves(r, root) ==
  [player_name |-> NetplayPlayerName(r.name), core_profile |-> r.profile,
   role |-> r.role, host |-> r.role = "client", rom |-> r.suffix, sha |-> "approved",
   subfolder |-> "own",
   save_mode |-> IF r.role = "host" THEN "host-authoritative" ELSE "ephemeral"]

\* _write_runtime_spec: the ROM is named after the suffix of the requested path.
WriteRuntimeSpec(r, root) ==
  [player_name |-> NetplayPlayerName(r.name), core_profile |-> r.profile,
   role |-> r.role, host |-> r.role = "client", rom |-> r.suffix, sha |-> "approved",
   subfolder |-> "own",
   save_mode |-> IF root /\ r.role = "host" THEN "host-authoritative" ELSE "ephemeral"]

\* The container as it is meant to be: the spec, the mounts and the environment
\* of _payload (the ROM mounted under the suffix of the resolved file), and the
\* image's own artifacts with the manifest that lists their hashes.
Built(r, root) ==
  [spec |-> WriteRuntimeSpec(r, root), specFile |-> "regular",
   rom |-> [name |-> r.target, content |-> "approved", mount |-> "ro"],
   core |-> "approved", frontend |-> "approved",
   manifest |-> [profiles |-> Profiles, core |-> "approved", frontend |-> "approved"],
   saveMount |-> IF root /\ r.role = "host" THEN "rw" ELSE "none",
   subfolder |-> "own", disk |-> "free"]

Contents == {"approved", "changed"}

Parts == {"spec", "specFile", "rom", "core", "frontend", "manifest", "saveMount",
          "subfolder", "disk"}

\* What container b is when just these parts are replaced, also by what looks the
\* same: another spec, another directory under the save mount, a manifest with
\* other hashes.  RetroArch's base configuration and core options are read
\* unchecked and have no part here.
Replaced(b, parts) ==
  LET Other(part, values) == IF part \in parts THEN values \ {b[part]} ELSE {b[part]} IN
  [spec : Other("spec", Specs), specFile : Other("specFile", {"malformed", "absent"}),
   rom : Other("rom", [name : {b.rom.name}, content : Contents, mount : {"ro", "rw"}]),
   core : Other("core", Contents), frontend : Other("frontend", Contents),
   manifest : Other("manifest",
                [profiles : {Profiles, {}}, core : Contents, frontend : Contents]),
   saveMount : Other("saveMount", {"none", "rw", "other directory"}),
   subfolder : Other("subfolder", {"other"}), disk : Other("disk", {"full"})]

-----------------------------------------------------------------------------
(* The launcher *)

\* RuntimeSpec and NetplaySpec validators.
WellFormed(spec) ==
  /\ spec.player_name.chars \in 1..31
  /\ spec.host <=> spec.role = "client"
  /\ spec.save_mode = "host-authoritative" => spec.role = "host"

LoadRuntimeSpec(w) == w.specFile = "regular" /\ WellFormed(w.spec)

ValidateStreamEnvironment(w) == w.subfolder = w.spec.subfolder

\* Mutant: the ROM's hash is not compared.
ResolveRuntime_NoRomHash(w) ==
  /\ w.spec.core_profile \in w.manifest.profiles
  /\ w.rom.name = w.spec.rom
  /\ w.core = w.manifest.core
  /\ w.frontend = w.manifest.frontend

\* A hash is reduced to the content it belongs to: the ROM is compared with the
\* spec, core and frontend with the manifest.
ResolveRuntime(w) ==
  /\ w.spec.core_profile \in w.manifest.profiles
  /\ w.rom.name = w.spec.rom /\ w.rom.content = w.spec.sha
  /\ w.core = w.manifest.core
  /\ w.frontend = w.manifest.frontend

ValidateReadOnlyMount(w) == w.rom.mount = "ro"

ValidatePersistentSaveMount(w) ==
  w.spec.save_mode = "host-authoritative"
    => w.saveMount \in {"rw", "other directory"}

PrepareSession(w) == w.disk = "free"

\* run(): RetroArch is executed when all of it holds; else the exit code is 64.
LauncherAccepts(w) ==
  /\ LoadRuntimeSpec(w)
  /\ ValidateStreamEnvironment(w)
  /\ ResolveRuntime(w)
  /\ ValidateReadOnlyMount(w)
  /\ ValidatePersistentSaveMount(w)
  /\ PrepareSession(w)

\* Mutant: always the session's own directory.
SaveDirectory_Session == "session"

\* savefile_directory of the rendered configuration.
SaveDirectory ==
  IF world.spec.save_mode = "host-authoritative" THEN "persistent" ELSE "session"

-----------------------------------------------------------------------------
(* Start *)

Init ==
  /\ request \in Requests
  /\ saveRoot \in BOOLEAN
  /\ world = Built(request, saveRoot)
  /\ refused = FALSE
  /\ container = "up"
  /\ selkies = "booting"
  /\ game = "waiting"
  /\ pipe \in {"absent", "file"}
  /\ flusher = "looking" /\ timer = 0
  /\ pending = FALSE
  /\ age = 0 /\ lost = 0 /\ written = "none"
  /\ linked = FALSE
  /\ uptime = 0 /\ failures = 0 /\ health = "starting"
  /\ crashes = 0

SelkiesReady ==
  /\ container # "down" /\ selkies = "booting"
  /\ selkies' = "up"
  /\ UNCHANGED <<setup, container, game, pipe, flusher, timer, pending, saves,
                 linked, docker, crashes>>

\* entrypoint/run up to the redirection: display, audio and stream are there,
\* the display mode is set, the spec is a file and the path is a FIFO by now.
PreparePipe ==
  /\ container # "down" /\ game = "waiting" /\ selkies = "up"
  /\ pipe # "file"
  /\ game' = "opening"
  /\ pipe' = "fifo"
  /\ UNCHANGED <<setup, container, selkies, flusher, timer, pending, saves,
                 linked, docker, crashes>>

\* The same, with xrandr, a missing spec or the path in the way.
RunFails ==
  /\ container # "down" /\ game = "waiting" /\ selkies = "up"
  /\ game' = "gone"
  /\ UNCHANGED <<setup, container, selkies, pipe, flusher, timer, pending, saves,
                 linked, docker, crashes>>

\* The read end opens once there is a writer, and lets a waiting one go on.
OpenRead ==
  /\ container # "down" /\ game = "opening" /\ flusher \in {"opening", "sleeping"}
  /\ game' = "validating"
  /\ flusher' = "sleeping"
  /\ timer' = IF flusher = "opening" THEN FlushInterval ELSE timer
  /\ UNCHANGED <<setup, container, selkies, pipe, pending, saves, linked,
                 docker, crashes>>

\* session_entrypoint looks at all parts, of which other processes may have
\* replaced some, and replaces itself with RetroArch or ends with 64.
Launch ==
  /\ container # "down" /\ game = "validating"
  /\ \E parts \in {ps \in SUBSET Parts : Cardinality(ps) <= MaxChanges} :
     \E w \in Replaced(Built(request, saveRoot), parts) :
       IF LauncherAccepts(w)
         THEN world' = w /\ game' = "running" /\ written' = "none" /\ refused' = refused
         ELSE /\ world' = world /\ game' = "gone" /\ written' = written
              /\ refused' = (refused \/ parts = {})
  /\ UNCHANGED <<request, saveRoot, container, selkies, pipe, flusher, timer, pending,
                 age, lost, linked, docker, crashes>>

-----------------------------------------------------------------------------
(* Save flusher *)

\* Mutant: a look that comes too early ends the service's work.
FindPipe_Once ==
  /\ container # "down" /\ flusher = "looking"
  /\ flusher' = IF pipe = "fifo" THEN "opening" ELSE "gone"
  /\ UNCHANGED <<setup, container, selkies, game, pipe, timer, pending, saves,
                 linked, docker, crashes>>

FindPipe ==
  /\ container # "down" /\ flusher = "looking" /\ pipe = "fifo"
  /\ flusher' = "opening"
  /\ UNCHANGED <<setup, container, selkies, game, pipe, timer, pending, saves,
                 linked, docker, crashes>>

Readers == {"validating", "running"}

\* The write end opens at once when the game has the read end open already.
OpenWrite ==
  /\ container # "down" /\ flusher = "opening" /\ game \in Readers
  /\ flusher' = "sleeping"
  /\ timer' = FlushInterval
  /\ UNCHANGED <<setup, container, selkies, game, pipe, pending, saves, linked,
                 docker, crashes>>

\* Mutant: the command does not reach the FIFO.
Flush_Lost ==
  /\ container # "down" /\ flusher = "sleeping" /\ timer = 0
  /\ flusher' = IF game \in Readers THEN "sleeping" ELSE "looking"
  /\ timer' = IF game \in Readers THEN FlushInterval ELSE 0
  /\ UNCHANGED <<setup, container, selkies, game, pipe, pending, saves, linked,
                 docker, crashes>>

\* The sleep is over: SAVE_FILES is written, or nobody reads, the flusher ends
\* and s6 starts it again.
Flush ==
  /\ container # "down" /\ flusher = "sleeping" /\ timer = 0
  /\ flusher' = IF game \in Readers THEN "sleeping" ELSE "looking"
  /\ timer' = IF game \in Readers THEN FlushInterval ELSE 0
  /\ pending' = (game \in Readers \/ pending)
  /\ UNCHANGED <<setup, container, selkies, game, pipe, saves, linked, docker,
                 crashes>>

\* The flusher is killed (the container's memory is limited); s6 restarts it.
FlusherCrash ==
  /\ container # "down" /\ crashes < MaxCrashes
  /\ flusher \in {"opening", "sleeping"}
  /\ flusher' = "looking" /\ timer' = 0
  /\ crashes' = crashes + 1
  /\ UNCHANGED <<setup, container, selkies, game, pipe, pending, saves, linked,
                 docker>>

-----------------------------------------------------------------------------
(* RetroArch and Selkies *)

\* RetroArch reads the command on its main thread and saves.
SaveFiles ==
  /\ container # "down" /\ game = "running" /\ pending
  /\ pending' = FALSE
  /\ age' = 0
  /\ written' = SaveDirectory
  /\ UNCHANGED <<setup, container, selkies, game, pipe, flusher, timer, lost,
                 linked, docker, crashes>>

\* The host listens, or the client is connected; a client can lose its host.
\* RetroArch takes the spec's role, the health check expects the request's.
Netplay ==
  /\ container # "down" /\ game = "running" /\ world.spec.role = request.role
  /\ linked => request.role = "client"
  /\ linked' = ~linked
  /\ UNCHANGED <<setup, container, selkies, game, pipe, flusher, timer, pending,
                 saves, docker, crashes>>

MaxOf(a, b) == IF a > b THEN a ELSE b

\* RetroArch's end: with a last save, or without one.
Ends(saved) ==
  /\ age' = 0
  /\ IF game = "running" /\ saved
       THEN written' = SaveDirectory /\ lost' = lost
       ELSE written' = written /\ lost' = MaxOf(lost, age)

GameExits(saved) ==
  /\ container # "down" /\ game = "running"
  /\ game' = "gone"
  /\ linked' = FALSE
  /\ Ends(saved)
  /\ UNCHANGED <<setup, container, selkies, pipe, flusher, timer, pending, docker,
                 crashes>>

SelkiesExits ==
  /\ container # "down" /\ selkies # "gone"
  /\ selkies' = "gone"
  /\ UNCHANGED <<setup, container, game, pipe, flusher, timer, pending, saves,
                 linked, docker, crashes>>

-----------------------------------------------------------------------------
(* The end of the container *)

\* Mutant: the end of Selkies is left to s6, which would restart it.
Finish_GameOnly ==
  /\ container = "up" /\ game = "gone"
  /\ container' = "stopping"
  /\ UNCHANGED <<setup, selkies, game, pipe, flusher, timer, pending, saves,
                 linked, docker, crashes>>

\* entrypoint/finish of either service: s6-svscanctl -t.
Finish ==
  /\ container = "up"
  /\ game = "gone" \/ selkies = "gone"
  /\ container' = "stopping"
  /\ UNCHANGED <<setup, selkies, game, pipe, flusher, timer, pending, saves,
                 linked, docker, crashes>>

\* s6-supervise may restart the service before the signal of s6-svscan arrives.
Relaunch ==
  /\ container = "stopping" /\ game = "gone"
  /\ game' = "waiting"
  /\ UNCHANGED <<setup, container, selkies, pipe, flusher, timer, pending, saves,
                 linked, docker, crashes>>

\* The agent stops the container.
DockerStop ==
  /\ container = "up"
  /\ container' = "stopping"
  /\ UNCHANGED <<setup, selkies, game, pipe, flusher, timer, pending, saves,
                 linked, docker, crashes>>

Down(saved) ==
  /\ container' = "down"
  /\ game' = "gone" /\ selkies' = "gone" /\ flusher' = "gone"
  /\ timer' = 0 /\ pending' = FALSE /\ linked' = FALSE
  /\ Ends(saved)
  /\ UNCHANGED <<setup, pipe, docker, crashes>>

\* SIGTERM reaches every service; RetroArch saves on its way out.
Terminate == container = "stopping" /\ Down(TRUE)

\* SIGKILL at the end of docker stop's grace period, or the machine fails.
Kill == container # "down" /\ Down(FALSE)

-----------------------------------------------------------------------------
(* Time and the health check *)

\* Mutant: the Netplay socket is not asked for.
Probe_NoNetplay == game = "running" /\ selkies = "up"

\* health_command of _payload.
Probe == game = "running" /\ selkies = "up" /\ linked

\* What happens before the clock moves on.
Urgent ==
  \/ flusher = "sleeping" /\ timer = 0
  \/ pending /\ game = "running"
  \/ flusher = "looking" /\ pipe = "fifo"
  \/ flusher = "opening" /\ game \in Readers
  \/ game = "opening" /\ flusher \in {"opening", "sleeping"}

\* A success ends the start period; outside it Retries failures in a row decide.
HealthCheck ==
  /\ uptime' = IF health = "starting" /\ uptime < StartPeriod THEN uptime + 1 ELSE uptime
  /\ failures' = IF Probe THEN 0
                 ELSE IF (health = "starting" /\ uptime < StartPeriod) \/ failures = Retries
                   THEN failures
                 ELSE failures + 1
  /\ health' = IF Probe THEN "healthy"
               ELSE IF failures' = Retries THEN "unhealthy"
               ELSE health

Tick ==
  /\ container # "down" /\ ~Urgent
  /\ HealthCheck
  /\ age' = IF game = "running" THEN age + 1 ELSE age
  /\ timer' = IF flusher = "sleeping" THEN timer - 1 ELSE timer
  /\ UNCHANGED <<setup, container, selkies, game, pipe, flusher, pending, lost,
                 written, linked, crashes>>

-----------------------------------------------------------------------------
(* Specification *)

Next ==
  \/ SelkiesReady \/ PreparePipe \/ RunFails \/ OpenRead \/ Launch
  \/ FindPipe \/ OpenWrite \/ Flush \/ FlusherCrash
  \/ SaveFiles \/ Netplay \/ SelkiesExits
  \/ \E saved \in BOOLEAN : GameExits(saved)
  \/ Finish \/ Relaunch \/ DockerStop \/ Terminate \/ Kill
  \/ Tick

Spec == Init /\ [][Next]_vars

\* The scripts run, s6 and Docker do what they are told, and time goes on.
\* Selkies, Netplay and the players owe nothing.
FairSpec ==
  /\ Spec
  /\ WF_vars(PreparePipe \/ RunFails) /\ WF_vars(OpenRead) /\ WF_vars(Launch)
  /\ WF_vars(FindPipe) /\ WF_vars(OpenWrite) /\ WF_vars(Flush) /\ WF_vars(SaveFiles)
  /\ WF_vars(Finish) /\ WF_vars(Terminate) /\ WF_vars(Tick)

-----------------------------------------------------------------------------
(* Properties *)

\* Every variable has its type.
TypeOK ==
  /\ request \in Requests /\ saveRoot \in BOOLEAN
  /\ \E parts \in SUBSET Parts : world \in Replaced(Built(request, saveRoot), parts)
  /\ refused \in BOOLEAN
  /\ container \in {"up", "stopping", "down"}
  /\ selkies \in {"booting", "up", "gone"}
  /\ game \in {"waiting", "opening", "validating", "running", "gone"}
  /\ pipe \in {"absent", "fifo", "file"}
  /\ flusher \in {"looking", "opening", "sleeping", "gone"}
  /\ timer \in 0..FlushInterval
  /\ pending \in BOOLEAN /\ linked \in BOOLEAN
  /\ age \in Nat /\ lost \in Nat
  /\ written \in {"none", "session", "persistent"}
  /\ uptime \in 0..StartPeriod /\ failures \in 0..Retries
  /\ health \in {"starting", "healthy", "unhealthy"}
  /\ crashes \in 0..MaxCrashes

\* What the launcher takes on trust: the spec that the agent wrote and the
\* manifest of the image.
Trusted ==
  LET b == Built(request, saveRoot) IN world.spec = b.spec /\ world.manifest = b.manifest

\* The launcher: while spec and manifest are the ones it was given, RetroArch runs
\* only with the approved ROM (read-only, under the spec's name), the approved
\* core and frontend, in the stream the spec names, a host that keeps its save
\* on a writable mount, and with a name that fits, whatever else was replaced
\* and in whatever combination.  It is about the moment of the launcher's
\* look; it does not say which directory is mounted or what the base
\* configuration holds, which nothing checks.  interfaces.py: "RetroArch's
\* netplay protocol stores nicknames in a 32-byte field, including its
\* terminating NUL".
RunsApproved ==
  game = "running" /\ Trusted =>
    /\ world.specFile = "regular" /\ pipe = "fifo"
    /\ world.rom = [name |-> request.suffix, content |-> "approved", mount |-> "ro"]
    /\ world.core = "approved" /\ world.frontend = "approved"
    /\ world.subfolder = "own" /\ world.disk = "free"
    /\ saveRoot /\ request.role = "host" => world.saveMount \in {"rw", "other directory"}
    /\ world.spec.player_name.bytes <= 31

\* Session Manager, Runtime Agent and launcher agree: whatever the first two
\* accept and hand over intact (name, role, save mode, mounts, paths), the third
\* does not reject after the player has waited for it, unless the ROM is a link
\* to a file with another suffix.
SoundIsAccepted == refused => request.suffix # request.target

\* docs/milestone-17: the host's progress goes to the durable save, a guest's
\* never does, as long as the spec is the one the agent wrote.
OnlyHostPersists ==
  written # "none" /\ world.spec = WriteRuntimeSpec(request, saveRoot)
    => (written = "persistent" <=> saveRoot /\ request.role = "host")

\* docs/milestone-17: a failure "can still lose the most recent interval", one
\* more for each time the flusher itself is killed; never more, whenever
\* RetroArch, the flusher and the container begin and end.
LossBounded == lost <= (crashes + 1) * FlushInterval

\* Once Selkies is there, the two ends of the FIFO meet and RetroArch runs, or
\* the container ends: neither service waits for the other for ever.
LaunchSettles ==
  selkies = "up" ~> game = "running" \/ selkies = "gone" \/ container = "down"

\* The participant's game, stream and Netplay connection are all there.
Complete == game = "running" /\ selkies = "up" /\ linked

\* _wait_ready and the sweep only know what Docker's health check says: when a
\* participant never gets complete, or loses a part later, they are told.
LossIsNoticed ==
  health # "unhealthy" /\ ~Complete
    ~> Complete \/ health = "unhealthy" \/ container = "down"

\* entrypoint/finish: no "unattended emulator loop"; when RetroArch or Selkies
\* has ended, the container ends.
FailsClosed == game = "gone" \/ selkies = "gone" ~> container = "down"

=============================================================================

---------------------------- MODULE Orchestration ----------------------------
(***************************************************************************)
(* The Session Manager and the Runtime Agent together.  The manager makes  *)
(* one call at a time (it holds its service lock), over a connection with  *)
(* a timeout: when it gives up, or dies, the agent's thread goes on, waits *)
(* for the lifecycle lock and does what it was asked to do.  The manager's *)
(* records are in Valkey and survive it; after a restart it removes the    *)
(* runtime of every record that is not closed, then every runtime the      *)
(* agent lists.                                                            *)
(*                                                                         *)
(* The agent is the one of RuntimeAgent; only its callers are replaced.    *)
(***************************************************************************)
EXTENDS RuntimeAgent

\* NoRequest also stands for no participant.
ASSUME OrchestrationAssumption == NoRequest \notin Participants

VARIABLES
  seat,   \* what the manager's record says of each participant
  mgr     \* what the manager process is doing

allVars == <<vars, seat, mgr>>

-----------------------------------------------------------------------------
(* State *)

Seats == {"free", "starting", "active", "left", "error", "expired"}

\* Calls by what they are for: create a runtime; remove it because its start
\* failed, because its participant leaves or is retired, or because a record is
\* closed at startup; list the runtimes at startup and remove the listed ones.
Jobs == {"none", "create", "cleanup", "retire", "fail", "close", "list", "purge"}

Op(job) ==
  CASE job = "create" -> "create" [] job = "list" -> "list" [] OTHER -> "remove"

Idle == [pc |-> "idle", job |-> "none", pid |-> NoRequest, t |-> NoRequest, todo |-> {},
         racing |-> {}]

\* Creates that the agent still has to finish.
InFlight ==
  {thread[t].pid : t \in {u \in Threads : thread[u].op = "create" /\ ~At(u, "answered")}}

OrchestrationInit ==
  /\ Init
  /\ seat = [p \in Participants |-> "free"]
  /\ mgr = Idle

Undertake(job, pid) == mgr' = [mgr EXCEPT !.pc = "send", !.job = job, !.pid = pid]
Agent == <<Engine, Files, thread, Rest>>

-----------------------------------------------------------------------------
(* What the manager decides to do *)

\* create and join: the record is saved with the participant STARTING first.
StartParticipant(pid) ==
  /\ mgr.pc = "idle" /\ seat[pid] = "free"
  /\ seat' = [seat EXCEPT ![pid] = "starting"]
  /\ Undertake("create", pid)
  /\ UNCHANGED <<Agent, faults>>

\* _wait_ready: the runtime runs and is healthy; or it never will.
BecomeActive ==
  /\ mgr.pc = "ready"
  /\ \E c \in Named(mgr.pid) : c.state = "running"
  /\ seat' = [seat EXCEPT ![mgr.pid] = "active"]
  /\ mgr' = Idle
  /\ UNCHANGED <<Agent, faults>>

\* Mutant: the runtime that did not get ready is left alone.
ReadinessFails_NoCleanup ==
  /\ mgr.pc = "ready"
  /\ seat' = [seat EXCEPT ![mgr.pid] = "error"]
  /\ mgr' = Idle
  /\ UNCHANGED <<Agent, faults>>

ReadinessFails ==
  /\ mgr.pc = "ready"
  /\ Undertake("cleanup", mgr.pid)
  /\ UNCHANGED <<seat, Agent, faults>>

\* Leave, kick, close, silence: for any reason.
Retire(pid) ==
  /\ mgr.pc = "idle" /\ seat[pid] = "active"
  /\ Undertake("retire", pid)
  /\ UNCHANGED <<seat, Agent, faults>>

Dead(pid) == \A c \in Named(pid) : c.state # "running"

\* Mutant: a runtime that is missing is not looked for.
Sweep_ExitedOnly(pid) ==
  /\ mgr.pc = "idle" /\ seat[pid] = "active"
  /\ Named(pid) # {} /\ Dead(pid)
  /\ Undertake("fail", pid)
  /\ UNCHANGED <<seat, Agent, faults>>

\* The cleanup loop inspects the runtime: it is stopped or missing, or the agent
\* cannot be reached.
Sweep(pid) ==
  /\ mgr.pc = "idle" /\ seat[pid] = "active"
  /\ Dead(pid) \/ ~up
  /\ Undertake("fail", pid)
  /\ UNCHANGED <<seat, Agent, faults>>

\* The same when the inspection times out: an unknown state fails closed.
SweepBlind(pid) ==
  /\ mgr.pc = "idle" /\ seat[pid] = "active"
  /\ Fault("timeout")
  /\ Undertake("fail", pid)
  /\ UNCHANGED <<seat, Agent>>

-----------------------------------------------------------------------------
(* The outcome of a call.  Anything but these answers is an exception. *)

Succeeded(outcome) ==
  \/ outcome = "ok"
  \/ outcome = "missing" /\ Op(mgr.job) = "remove"

\* Mutant: the state of a session for one of a participant.
Gone_Closed(was) ==
  CASE mgr.job = "retire" -> "closed" [] mgr.job = "fail" -> "error"
    [] mgr.job = "close" /\ was = "active" -> "closed" [] OTHER -> was

\* What the record says once the runtime is known to be gone.
Gone(was) ==
  CASE mgr.job = "retire" -> "left" [] mgr.job = "fail" -> "error"
    [] mgr.job = "close" /\ was = "active" -> "left" [] OTHER -> was

\* Mutant: a retirement that failed is recorded like one that succeeded.
Failed_Swallowed ==
  seat' = CASE mgr.job = "cleanup" -> [seat EXCEPT ![mgr.pid] = "error"]
            [] mgr.job = "retire" -> [seat EXCEPT ![mgr.pid] = "left"]
            [] OTHER -> seat

\* A failed cleanup is swallowed; a failed retirement leaves the record alone.
Failed ==
  seat' = IF mgr.job = "cleanup" THEN [seat EXCEPT ![mgr.pid] = "error"] ELSE seat

Down == [Idle EXCEPT !.pc = "down"]

\* A startup that meets an exception ends the process.
AfterFailure ==
  /\ Failed
  /\ mgr' = CASE mgr.job = "create" -> [mgr EXCEPT !.pc = "send", !.job = "cleanup"]
              [] mgr.job \in {"close", "list", "purge"} -> Down
              [] OTHER -> Idle

\* The record of a participant that was STARTING cannot be closed: the state
\* machine refuses it after the runtime has been removed, and startup fails.
AfterSuccess ==
  LET was == IF mgr.pid = NoRequest THEN "free" ELSE seat[mgr.pid] IN
  CASE mgr.job = "create" -> UNCHANGED seat /\ mgr' = [mgr EXCEPT !.pc = "ready"]
    [] mgr.job = "list"   -> UNCHANGED seat /\ mgr' = [mgr EXCEPT !.pc = "purging"]
    [] mgr.job = "cleanup" -> seat' = [seat EXCEPT ![mgr.pid] = "error"] /\ mgr' = Idle
    [] mgr.job = "purge"  -> /\ UNCHANGED seat
                             /\ mgr' = [mgr EXCEPT !.pc = "purging", !.todo = @ \ {mgr.pid}]
    [] mgr.job = "close" /\ was = "starting" -> UNCHANGED seat /\ mgr' = Down
    [] mgr.job = "close" /\ was # "starting" ->
                             /\ seat' = [seat EXCEPT ![mgr.pid] = Gone(was)]
                             /\ mgr' = [Idle EXCEPT !.pc = "booting"]
    [] OTHER              -> seat' = [seat EXCEPT ![mgr.pid] = Gone(was)] /\ mgr' = Idle

-----------------------------------------------------------------------------
(* The connection *)

\* The request reaches a thread of the agent.
Send(t) ==
  /\ mgr.pc = "send"
  /\ \E req \in {r \in Requests : r.pid = mgr.pid} \cup {NoRequest} :
       /\ req = NoRequest <=> mgr.job # "create"
       /\ Accept(t, Op(mgr.job), mgr.pid, req)
  /\ mgr' = [mgr EXCEPT !.pc = "wait", !.t = t,
               !.todo = IF mgr.job = "list" THEN {c.pid : c \in Managed} ELSE @,
               !.racing = IF mgr.job = "list" THEN InFlight ELSE @]
  /\ UNCHANGED <<seat, calls>>

\* Nobody listens on the socket.
Refused ==
  /\ mgr.pc = "send" /\ ~up
  /\ AfterFailure
  /\ UNCHANGED <<Agent, faults>>

\* The answer arrives.
Receive ==
  /\ mgr.pc = "wait" /\ At(mgr.t, "answered")
  /\ IF Succeeded(thread[mgr.t].answer) THEN AfterSuccess ELSE AfterFailure
  /\ thread' = [thread EXCEPT ![mgr.t] = Quiet]
  /\ UNCHANGED <<Engine, Files, Rest, faults>>

\* The client's timeout is over; the agent's thread goes on.
GiveUp ==
  /\ mgr.pc = "wait" /\ ~At(mgr.t, "idle")
  /\ Fault("timeout")
  /\ AfterFailure
  /\ UNCHANGED Agent

\* The agent died with the request.
ConnectionLost ==
  /\ mgr.pc = "wait" /\ At(mgr.t, "idle")
  /\ AfterFailure
  /\ UNCHANGED <<Agent, faults>>

\* A thread whose client is gone answers into a closed connection.
Discard(t) ==
  /\ ~(mgr.pc = "wait" /\ mgr.t = t)
  /\ Reply(t)
  /\ UNCHANGED <<seat, mgr>>

-----------------------------------------------------------------------------
(* Crash and startup *)

ManagerCrash ==
  /\ mgr.pc # "down"
  /\ Fault("crash")
  /\ mgr' = Down
  /\ UNCHANGED <<seat, Agent>>

ManagerRestart ==
  /\ mgr.pc = "down"
  /\ mgr' = [Idle EXCEPT !.pc = "booting"]
  /\ UNCHANGED <<seat, Agent, faults>>

\* Mutant: records of participants that were starting stay for ever.
RecordExpires_Active(pid) ==
  /\ mgr.pc \in {"down", "booting"} /\ seat[pid] = "active"
  /\ seat' = [seat EXCEPT ![pid] = "expired"]
  /\ UNCHANGED <<mgr, Agent, faults>>

\* The record's key in Valkey reaches its end while no manager closes it.
RecordExpires(pid) ==
  /\ mgr.pc \in {"down", "booting"} /\ seat[pid] \in {"starting", "active"}
  /\ seat' = [seat EXCEPT ![pid] = "expired"]
  /\ UNCHANGED <<mgr, Agent, faults>>

\* reconcile_startup: the records first.
CloseRecord(pid) ==
  /\ mgr.pc = "booting" /\ seat[pid] \in {"starting", "active"}
  /\ Undertake("close", pid)
  /\ UNCHANGED <<seat, Agent, faults>>

ListRuntimes ==
  /\ mgr.pc = "booting" /\ \A p \in Participants : seat[p] \notin {"starting", "active"}
  /\ Undertake("list", NoRequest)
  /\ UNCHANGED <<seat, Agent, faults>>

Purge(pid) ==
  /\ mgr.pc = "purging" /\ pid \in mgr.todo
  /\ Undertake("purge", pid)
  /\ UNCHANGED <<seat, Agent, faults>>

\* Mutant: the service is opened before the listed runtimes are removed.
Ready_Early ==
  /\ mgr.pc = "purging"
  /\ mgr' = Idle
  /\ UNCHANGED <<seat, Agent, faults>>

\* Startup is complete: the service is offered.
Ready ==
  /\ mgr.pc = "purging" /\ mgr.todo = {}
  /\ mgr' = Idle
  /\ UNCHANGED <<seat, Agent, faults>>

-----------------------------------------------------------------------------
(* Specification *)

\* The steps of the agent's threads, without replies and arrivals.
ThreadStep(t) ==
  /\ Acquire(t) \/ Create(t) \/ Remove(t) \/ Unlocked(t)
  /\ UNCHANGED <<seat, mgr>>

AgentSurroundings == Surroundings /\ UNCHANGED <<seat, mgr>>

Decide ==
  \/ \E pid \in Participants :
       \/ StartParticipant(pid) \/ Retire(pid) \/ Sweep(pid) \/ SweepBlind(pid)
       \/ RecordExpires(pid) \/ CloseRecord(pid) \/ Purge(pid)
  \/ BecomeActive
  \/ ReadinessFails
  \/ ManagerCrash
  \/ ManagerRestart
  \/ ListRuntimes
  \/ Ready

Connection ==
  \/ Refused
  \/ Receive
  \/ GiveUp
  \/ ConnectionLost
  \/ \E t \in Threads : Send(t) \/ Discard(t)

OrchestrationNext ==
  \/ \E t \in Threads : ThreadStep(t)
  \/ AgentSurroundings
  \/ Decide
  \/ Connection

OrchestrationSpec == OrchestrationInit /\ [][OrchestrationNext]_allVars

\* What the manager does next once it has begun a call or its startup.
Proceed ==
  \/ \E t \in Threads : Send(t)
  \/ Refused \/ Receive \/ ConnectionLost
  \/ BecomeActive \/ ReadinessFails
  \/ ManagerRestart \/ ListRuntimes \/ Ready
  \/ \E pid \in Participants : CloseRecord(pid) \/ Purge(pid)

\* Threads go on, both processes are restarted, the manager goes through with
\* what it began, its cleanup loop runs, and keys expire.  Nobody has to create,
\* join or leave, and no call has to time out.
OrchestrationFair ==
  /\ OrchestrationSpec
  /\ \A t \in Threads : WF_allVars(ThreadStep(t) \/ Discard(t))
  /\ WF_allVars(Restart /\ UNCHANGED <<seat, mgr>>)
  /\ WF_allVars(Proceed)
  /\ SF_allVars(\E pid \in Participants : Sweep(pid))
  /\ SF_allVars(\E pid \in Participants : RecordExpires(pid))

-----------------------------------------------------------------------------
(* Properties *)

\* Every variable of the manager has its type.
OrchestrationTypeOK ==
  /\ TypeOK
  /\ seat \in [Participants -> Seats]
  /\ mgr \in [pc : {"idle", "send", "wait", "ready", "down", "booting", "purging"},
              job : Jobs, pid : Participants \cup {NoRequest},
              t : Threads \cup {NoRequest}, todo : SUBSET Participants,
              racing : SUBSET Participants]

\* A participant recorded as LEFT has no container, and no call that was given
\* up can make one appear later: its seat and its save are free for good,
\* whatever timed out, crashed or was retried before.
LeftIsFinal ==
  \A p \in Participants : seat[p] = "left" =>
    p \notin InFlight /\ \A c \in Managed : c.pid # p

\* As long as no call was given up and no process died, every container belongs
\* to a participant that is starting or active: nothing is orphaned by starts
\* and retirements that merely fail.
NoOrphanWithoutFault ==
  faults = MaxFaults => \A c \in Managed : seat[c.pid] \in {"starting", "active"}

\* When a restarted manager opens, the only containers left are those of creates
\* that the agent had not finished when it was asked for the list.
ReconciledClean ==
  [][mgr.pc = "purging" /\ mgr'.pc = "idle" =>
       \A c \in Managed' : c.pid \in mgr.racing]_allVars

\* A manager that was down comes up, whichever records and runtimes it finds,
\* also when its listing races with calls of its earlier life.
StartupCompletes == mgr.pc = "down" ~> mgr.pc = "idle"

\* A participant whose runtime is dead or missing does not stay ACTIVE.
DeadIsRetired ==
  \A p \in Participants : seat[p] = "active" /\ Dead(p) ~> seat[p] # "active"
=============================================================================

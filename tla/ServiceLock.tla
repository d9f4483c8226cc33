---------------------------- MODULE ServiceLock ----------------------------
(***************************************************************************)
(* Waiting for the Session Manager's one service lock.  The players of an  *)
(* open lobby send heartbeats; the cleanup thread sweeps; other users      *)
(* create and join, and such a start keeps the lock while it waits for its *)
(* runtime to become ready.  Each request is a thread that waits for the   *)
(* lock, and an RLock hands itself to any of the waiting threads.          *)
(*                                                                         *)
(* Time passes only while a start holds the lock or nobody wants it: work  *)
(* under the lock other than a start takes no time on this clock.          *)
(***************************************************************************)
EXTENDS Integers

CONSTANTS
  Players, Owner,      \* the players of the lobby, and the one who owns it
  BeatInterval,        \* how often a player's browser sends a heartbeat
  IdleTimeout, LobbyLease, SessionTtl, CleanupInterval,
  StartupTimeout,      \* how long a create may wait for its runtime
  ConnectTimeout,      \* how long a join may
  MaxHold,             \* bound: time that starts hold the lock in one busy period
  LastClose,           \* bound: browsers are closed before this
  MaxTime              \* bound: the clock stops here

ASSUME LockAssumption ==
  /\ Owner \in Players
  /\ BeatInterval \in Nat \ {0} /\ IdleTimeout \in Nat \ {0}
  /\ LobbyLease \in Nat \ {0} /\ SessionTtl \in Nat \ {0}
  /\ CleanupInterval \in Nat \ {0}
  /\ StartupTimeout \in Nat \ {0} /\ ConnectTimeout \in Nat \ {0}
  /\ MaxHold \in Nat /\ LastClose \in Nat /\ MaxTime \in Nat

VARIABLES
  now,        \* the clock; the lobby was created at 0
  active,     \* players whose participant is ACTIVE; none: the lobby is closed
  hb,         \* last_heartbeat of each participant
  expires,    \* expires_at of the lobby
  open,       \* players whose browser is open
  sent,       \* when each browser sent its last heartbeat
  beats,      \* players with a heartbeat request that waits for the lock
  sweeping,   \* the cleanup thread waits for the lock
  nextSweep,  \* when the cleanup thread wakes up
  starts,     \* kinds of start requests that wait for the lock
  holder,     \* the start that holds the lock, or "none"
  deadline,   \* when its wait for the runtime times out
  budget      \* time that starts may still hold the lock in this busy period

lobby == <<active, hb, expires>>
queue == <<beats, sweeping, starts>>
vars == <<now, lobby, open, sent, queue, nextSweep, holder, deadline, budget>>

-----------------------------------------------------------------------------
(* State *)

Starts == {"create", "join"}

Init ==
  /\ now = 0
  /\ active = Players
  /\ hb = [u \in Players |-> 0]
  /\ expires = IF LobbyLease < SessionTtl THEN LobbyLease ELSE SessionTtl
  /\ open = Players
  /\ sent = [u \in Players |-> 0]
  /\ beats = {}
  /\ sweeping = FALSE
  /\ nextSweep = CleanupInterval
  /\ starts = {}
  /\ holder = "none"
  /\ deadline = 0
  /\ budget = MaxHold

LeaseExpiry == IF now + LobbyLease < SessionTtl THEN now + LobbyLease ELSE SessionTtl

\* Mutant: only the owner's silence counts.
IsStale_OwnerOnly(u) == u = Owner /\ hb[u] + IdleTimeout <= now

IsStale(u) == hb[u] + IdleTimeout <= now

\* The participants that are still ACTIVE after a sweep, whose runtimes are
\* all healthy.
Swept ==
  IF expires <= now \/ SessionTtl <= now \/ Owner \notin active \/ IsStale(Owner)
    THEN {}
    ELSE {u \in active : ~IsStale(u)}

-----------------------------------------------------------------------------
(* Requests arrive and wait for the lock *)

SendHeartbeat(u) ==
  /\ u \in open
  /\ now = sent[u] + BeatInterval
  /\ sent' = [sent EXCEPT ![u] = now]
  /\ beats' = beats \cup {u}
  /\ UNCHANGED <<now, lobby, open, sweeping, starts, nextSweep, holder, deadline,
                 budget>>

\* The tab is closed, or loses its network.
CloseBrowser(u) ==
  /\ u \in open
  /\ now < LastClose
  /\ open' = open \ {u}
  /\ UNCHANGED <<now, lobby, sent, queue, nextSweep, holder, deadline, budget>>

RequestStart(kind) ==
  /\ budget > 0
  /\ kind \notin starts
  /\ starts' = starts \cup {kind}
  /\ UNCHANGED <<now, lobby, open, sent, beats, sweeping, nextSweep, holder,
                 deadline, budget>>

\* cleanup_loop: asyncio.sleep is over.
WakeSweep ==
  /\ ~sweeping
  /\ now >= nextSweep
  /\ sweeping' = TRUE
  /\ UNCHANGED <<now, lobby, open, sent, beats, starts, nextSweep, holder,
                 deadline, budget>>

-----------------------------------------------------------------------------
(* Handlers *)

\* Mutant: the heartbeat is recorded, the lease is not renewed.
Heartbeat_NoLease(u) ==
  /\ holder = "none"
  /\ u \in beats
  /\ beats' = beats \ {u}
  /\ active' = IF expires <= now THEN {} ELSE active
  /\ hb' = IF u \in active' THEN [hb EXCEPT ![u] = now] ELSE hb
  /\ UNCHANGED <<now, expires, open, sent, sweeping, starts, nextSweep, holder,
                 deadline, budget>>

\* An expired lobby is closed first; then a participant that is ACTIVE renews
\* itself and the lease, and anybody else is refused.
Heartbeat(u) ==
  /\ holder = "none"
  /\ u \in beats
  /\ beats' = beats \ {u}
  /\ active' = IF expires <= now THEN {} ELSE active
  /\ IF u \in active'
       THEN hb' = [hb EXCEPT ![u] = now] /\ expires' = LeaseExpiry
       ELSE UNCHANGED <<hb, expires>>
  /\ UNCHANGED <<now, open, sent, sweeping, starts, nextSweep, holder, deadline,
                 budget>>

Sweep ==
  /\ holder = "none"
  /\ sweeping
  /\ sweeping' = FALSE
  /\ active' = Swept
  /\ nextSweep' = now + CleanupInterval
  /\ UNCHANGED <<now, hb, expires, open, sent, beats, starts, holder, deadline,
                 budget>>

\* create begins with a sweep of its own; then either kind of start waits for
\* its runtime, in another lobby, without giving up the lock.
BeginStart(kind) ==
  /\ holder = "none"
  /\ kind \in starts
  /\ starts' = starts \ {kind}
  /\ active' = IF kind = "create" THEN Swept ELSE active
  /\ holder' = kind
  /\ deadline' = now + (IF kind = "create" THEN StartupTimeout ELSE ConnectTimeout)
  /\ UNCHANGED <<now, hb, expires, open, sent, beats, sweeping, nextSweep, budget>>

\* The runtime is ready, or has failed, or the wait has timed out.
EndStart ==
  /\ holder # "none"
  /\ holder' = "none"
  /\ deadline' = 0
  /\ UNCHANGED <<now, lobby, open, sent, queue, nextSweep, budget>>

-----------------------------------------------------------------------------
(* Time *)

\* What happens before the clock moves on.  While the lock is free nobody waits
\* for it when time passes: the busy period is over and the budget is whole.
Urgent ==
  \/ \E u \in open : now >= sent[u] + BeatInterval
  \/ ~sweeping /\ now >= nextSweep
  \/ holder = "none" /\ (beats # {} \/ starts # {} \/ sweeping)
  \/ holder # "none" /\ (now >= deadline \/ budget = 0)

Tick ==
  /\ now < MaxTime
  /\ ~Urgent
  /\ now' = now + 1
  /\ budget' = IF holder = "none" THEN MaxHold ELSE budget - 1
  /\ UNCHANGED <<lobby, open, sent, queue, nextSweep, holder, deadline>>

-----------------------------------------------------------------------------
(* Specification *)

Next ==
  \/ \E u \in Players : SendHeartbeat(u) \/ CloseBrowser(u) \/ Heartbeat(u)
  \/ \E kind \in Starts : RequestStart(kind) \/ BeginStart(kind)
  \/ WakeSweep
  \/ Sweep
  \/ EndStart
  \/ Tick

Spec == Init /\ [][Next]_vars

\* Timers fire, starts end by their timeout, a waiting thread gets the lock at
\* some time, and the clock goes on however many starts follow each other
\* within an instant.  Nobody owes a start, or the closing of a browser.
FairSpec ==
  /\ Spec
  /\ SF_vars(Tick) /\ WF_vars(EndStart) /\ WF_vars(WakeSweep) /\ SF_vars(Sweep)
  /\ WF_vars(\E u \in Players : SendHeartbeat(u)) /\ SF_vars(\E u \in Players : Heartbeat(u))
  /\ \A kind \in Starts : SF_vars(BeginStart(kind))

-----------------------------------------------------------------------------
(* Properties *)

\* Every variable has its type.
TypeOK ==
  /\ now \in Nat /\ expires \in Nat /\ nextSweep \in Nat /\ deadline \in Nat
  /\ budget \in 0..MaxHold
  /\ active \subseteq Players /\ open \subseteq Players /\ beats \subseteq Players
  /\ hb \in [Players -> Nat] /\ sent \in [Players -> Nat]
  /\ sweeping \in BOOLEAN
  /\ starts \subseteq Starts /\ holder \in Starts \cup {"none"}

\* A player's browser and the owner's were both heard from in time: they are
\* open and sent their heartbeats as they should.
Attended(u) == {u, Owner} \subseteq open

\* SESSION_HANDOFF.md and docs/milestone-10: idle means a missing heartbeat of
\* the browser.  A participant is retired, by a sweep, a create or an expiry,
\* only when its browser or the owner's is gone, or at the end of the session's
\* lifetime; never because its heartbeats waited behind somebody else's start.
PresentIsKept ==
  [][\A u \in active \ active' : ~Attended(u) \/ now >= SessionTtl]_vars

\* A player whose browser is closed does not stay ACTIVE for ever, however the
\* other threads compete with the sweep for the lock.
SilentIsRetired ==
  \A u \in Players : u \notin open ~> u \notin active

=============================================================================

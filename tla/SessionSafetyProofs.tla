------------------------ MODULE SessionSafetyProofs ------------------------
(***************************************************************************)
(* What the Session Manager's records, runtimes and seats owe each other,  *)
(* for every value of the constants: the capacities, the owner as the only *)
(* host, records that can be read back, and no container nobody accounts   *)
(* for.                                                                    *)
(*                                                                         *)
(* Nearly every step is calm: it takes seats and containers away, or keeps *)
(* them.  The first part shows that; only Join, Admit, LaunchRuntime and   *)
(* BecomeHealthy add something, and each invariant is then proved for      *)
(* calm steps once and for those four one by one.                          *)
(***************************************************************************)
EXTENDS SessionManagerProofs, FiniteSetTheorems

\* The states a participant may stay in when nobody works on it.
Rest == {"ACTIVE", "LEFT", "ERROR"}

\* How a calm step may rewrite the record S of session s as T: no seat is
\* taken, only the end of a start makes somebody ACTIVE, the host of an OPEN
\* session stays or leaves, and whoever fails has no container, unless it is
\* the participant whose start failed.
Lessens(s, S, T) ==
  /\ T \in Session
  /\ T.owner = S.owner /\ T.players = S.players
  /\ DOMAIN T.participants = DOMAIN S.participants
  /\ T.state \notin {"CLOSED", "ERROR"} => S.state \notin {"CLOSED", "ERROR"}
  /\ T.state = "OPEN" =>
       \/ T.participants[1].state = "ACTIVE"
       \/ /\ S.state = "OPEN"
          /\ T.participants[1].state \in {S.participants[1].state, "LEFT"}
  /\ \A i \in DOMAIN S.participants :
       LET p == S.participants[i]
           q == T.participants[i]
       IN /\ q.user = p.user /\ q.slot = p.slot
          /\ Live(q) => Live(p)
          /\ p.state \in Rest => q.state \in Rest
          /\ p.state = "LEFT" => q.state = "LEFT"
          /\ q.state = "ACTIVE" /\ p.state # "ACTIVE" =>
               task.pc = "activate" /\ <<s, i>> = Starting
          /\ q.state = "ERROR" /\ p.state # "ERROR" =>
               \/ runtime'[<<s, i>>] = "absent"
               \/ task.pc = "failed" /\ <<s, i>> = Starting

CalmStore ==
  \A s \in SessionIds :
    \/ sessions'[s] = sessions[s] /\ purge'[s] = purge[s]
    \/ /\ Present(s)
       /\ purge'[s] >= Retention
       /\ Lessens(s, sessions[s], sessions'[s])

CalmRuntimes ==
  \A p \in Pids :
    /\ runtime'[p] # "absent" => runtime[p] # "absent"
    /\ runtime'[p] = "healthy" => runtime[p] = "healthy"

Calm == CalmStore /\ CalmRuntimes /\ now' \in Nat /\ now <= now'

-----------------------------------------------------------------------------
(* The invariants *)

\* A container belongs to a participant of a record that was stored.
Named ==
  \A p \in Runtimes :
    Created(p[1]) /\ p[2] \in DOMAIN sessions[p[1]].participants

\* What a start knows: create starts the host, join somebody else in an OPEN
\* session, and who became healthy beside the host is not its owner.
RoleOK ==
  task.pc \in StartPoints =>
    LET S == sessions[task.sid] IN
    /\ task.op = "create" => task.pos = 1
    /\ task.op # "create" => task.pos # 1 /\ S.state = "OPEN"
    /\ task.pc \in {"provision", "activate"} /\ task.pos # 1 =>
         S.participants[task.pos].user # S.owner

\* The host of an OPEN session is ACTIVE or has left; an owner that joined
\* again did so after leaving, and its runtime finds no host to be healthy by.
HostOK ==
  \A s \in SessionIds : Created(s) =>
    LET S == sessions[s] IN
    /\ S.state = "OPEN" => S.participants[1].state \in {"ACTIVE", "LEFT"}
    /\ \A i \in DOMAIN S.participants \ {1} :
         S.participants[i].user = S.owner =>
           /\ S.participants[1].state = "LEFT"
           /\ S.participants[i].state # "ACTIVE"
           /\ runtime[<<s, i>>] # "healthy"

\* Between the admission and the launch there is room for one more.
RoomOK ==
  /\ Cardinality(Runtimes) <= RuntimeCapacity
  /\ task.pc \in {"start", "launch"} => Cardinality(Runtimes) < RuntimeCapacity

\* Nobody waits for a start that no thread works on.
Settled(s) ==
  Present(s) /\ sessions[s].state # "CLOSED" =>
    \A i \in DOMAIN sessions[s].participants :
      sessions[s].participants[i].state \in Rest

SettledOK ==
  \A s \in SessionIds :
    \/ task.pc = "down"
    \/ task.pc = "reconcile" /\ s \in task.todo
    \/ /\ task.pc \in StartPoints /\ s = task.sid
       /\ Present(s) =>
            \A i \in DOMAIN sessions[s].participants \ {task.pos} :
              sessions[s].participants[i].state \in Rest
    \/ Settled(s)

\* A failed start has removed its container before it says so.
AccountedOK ==
  /\ \A p \in Runtimes : Live(sessions[p[1]].participants[p[2]])
  /\ task.pc = "failed" => runtime[Starting] = "absent"
  /\ now <= MaxTime
  /\ \A s \in SessionIds : Created(s) => purge[s] >= Retention

-----------------------------------------------------------------------------
(* Calm steps *)

\* A step that writes nothing.
LEMMA NotStoredCalm ==
  ASSUME NotStored
  PROVE  CalmStore
  BY DEF NotStored, CalmStore

\* A save renews the key for the retention at least.
LEMMA PurgeLater ==
  ASSUME NEW T \in Session, now \in Nat
  PROVE  PurgeTime(T) \in Nat /\ PurgeTime(T) >= now + Retention
<1>1. Retention \in Nat /\ T.expires \in Nat
  BY ConfigAssumption DEF Session
<1> QED BY <1>1 DEF PurgeTime

\* A save of a lessened record.
LEMMA StoredCalm ==
  ASSUME IInv, NEW s \in SessionIds, Present(s),
         NEW T, Lessens(s, sessions[s], T), Stored(s, T)
  PROVE  CalmStore
<1>1. T \in Session /\ now \in Nat /\ Retention \in Nat
  BY ConfigAssumption DEF Lessens, IInv, TypeOK
<1>2. PurgeTime(T) \in Nat /\ PurgeTime(T) >= Retention
  BY <1>1, PurgeLater
<1>3. /\ sessions'[s] = T /\ purge'[s] = PurgeTime(T)
      /\ \A r \in SessionIds \ {s} :
           sessions'[r] = sessions[r] /\ purge'[r] = purge[r]
  BY DEF Stored, IInv, TypeOK
<1> QED BY <1>2, <1>3 DEF CalmStore

\* The same for a save that may fail.
LEMMA SaveCalm ==
  ASSUME IInv, NEW s \in SessionIds, NEW T,
         Present(s) => Lessens(s, sessions[s], T),
         Save(s, T) \/ SaveFails(s, T) \/ NotStored
  PROVE  CalmStore
<1>1. NotStored \/ (Present(s) /\ Stored(s, T))
  BY DEF Save, SaveFails
<1> QED BY <1>1, NotStoredCalm, StoredCalm

\* A record lessens into itself.
LEMMA LessensRefl ==
  ASSUME IInv, NEW s \in SessionIds, Created(s)
  PROVE  Lessens(s, sessions[s], sessions[s])
<1>1. sessions[s] \in Session /\ RecordOK(sessions[s])
  BY DEF IInv, StoreOK, RecordOK
<1> QED BY <1>1 DEF Lessens

\* Containers that only go away.
LEMMA ShrinkCalm ==
  ASSUME RuntimesShrink
  PROVE  CalmRuntimes
  BY DEF RuntimesShrink, CalmRuntimes

\* The common step of leave, kick, close, sweep and reconciliation.
LEMMA RetireThenSaveCalm ==
  ASSUME IInv, now' = now, NEW s \in SessionIds, Created(s),
         NEW gone, NEW ok, NEW T, NEW done, NEW raised,
         ok /\ Retire(gone) => Lessens(s, sessions[s], T),
         RetireThenSave(s, gone, ok, T, done, raised)
  PROVE  Calm /\ (task' = done \/ task' = raised)
<1>1. now \in Nat
  BY DEF IInv, TypeOK
<1>2. CASE ok /\ Retire(gone) /\ (Save(s, T) \/ SaveFails(s, T))
           /\ (task' = done \/ task' = raised)
  BY <1>1, <1>2, SaveCalm, RetireOK, ShrinkCalm DEF Calm
<1>3. CASE Retire(gone) /\ NotStored /\ task' = raised
  BY <1>1, <1>3, NotStoredCalm, RetireOK, ShrinkCalm DEF Calm
<1>4. CASE RetireFails(gone) /\ NotStored /\ task' = raised
  BY <1>1, <1>4, NotStoredCalm, RetireFailsOK, ShrinkCalm DEF Calm
<1> QED BY <1>2, <1>3, <1>4 DEF RetireThenSave

\* _close, however it ends.
LEMMA CloseCalm ==
  ASSUME IInv, now' = now, NEW s \in SessionIds, Created(s),
         NEW reason \in Reasons, NEW done, NEW raised,
         Close(s, reason, done, raised)
  PROVE  Calm /\ (task' = done \/ task' = raised)
<1> DEFINE S == sessions[s]
           T == Closed(S, reason, now)
           gone == {s} \X LivePositions(S)
<1>1. now \in Nat /\ RecordOK(S) /\ S \in Session
      /\ S.participants \in Seq(Participant)
  BY DEF IInv, TypeOK, StoreOK, RecordOK, Session
<1>2. CanClose(S) => Lessens(s, S, T)
  <2> SUFFICES ASSUME CanClose(S) PROVE Lessens(s, S, T)
    OBVIOUS
  <2>1. /\ RecordOK(T) /\ Evolves(S, T) /\ T.state = "CLOSED"
        /\ DOMAIN T.participants = DOMAIN S.participants
    BY <1>1, ClosedOK
  <2>2. T.participants = [i \in DOMAIN S.participants |->
                            left_participant(S.participants[i], now)]
    BY <1>1 DEF Closed, Session
  <2>3. ASSUME NEW i \in DOMAIN S.participants
        PROVE  /\ T.participants[i].user = S.participants[i].user
               /\ T.participants[i].slot = S.participants[i].slot
               /\ ~Live(T.participants[i])
               /\ T.participants[i].state \in {"LEFT", "ERROR"}
               /\ T.participants[i].state = "ERROR" =>
                    S.participants[i].state = "ERROR"
               /\ S.participants[i].state = "LEFT" =>
                    T.participants[i].state = "LEFT"
    <3>1. S.participants[i] \in Participant
      BY <1>1
    <3>2. T.participants[i] = left_participant(S.participants[i], now)
      BY <2>2
    <3> HIDE DEF T
    <3>3. CASE Live(S.participants[i])
      <4>1. T.participants[i] = [S.participants[i] EXCEPT !.state = "LEFT", !.hb = now]
        BY <3>2, <3>3 DEF left_participant
      <4> QED BY <3>1, <3>3, <4>1 DEF Participant, Live
    <3>4. CASE ~Live(S.participants[i])
      BY <3>2, <3>4 DEF left_participant, Live
    <3> QED BY <3>3, <3>4
  <2> HIDE DEF T
  <2> QED BY <2>1, <2>3 DEF Lessens, RecordOK, Evolves, Rest
<1>3. RetireThenSave(s, gone, CanClose(S), T, done, raised)
  BY DEF Close
<1> HIDE DEF T, gone
<1> QED BY <1>2, <1>3, RetireThenSaveCalm

\* A record with one participant replaced.
LEMMA ReplacedLessens ==
  ASSUME IInv, NEW s \in SessionIds, Created(s),
         NEW i \in DOMAIN sessions[s].participants, NEW p \in Participant,
         NEW T \in Session,
         T.participants = [sessions[s].participants EXCEPT ![i] = p],
         T.owner = sessions[s].owner, T.players = sessions[s].players,
         p.user = sessions[s].participants[i].user,
         p.slot = sessions[s].participants[i].slot,
         Live(p) => Live(sessions[s].participants[i]),
         sessions[s].participants[i].state \in Rest => p.state \in Rest,
         sessions[s].participants[i].state = "LEFT" => p.state = "LEFT",
         p.state = "ACTIVE" /\ sessions[s].participants[i].state # "ACTIVE" =>
           task.pc = "activate" /\ <<s, i>> = Starting,
         p.state = "ERROR" /\ sessions[s].participants[i].state # "ERROR" =>
           \/ runtime'[<<s, i>>] = "absent"
           \/ task.pc = "failed" /\ <<s, i>> = Starting,
         T.state \notin {"CLOSED", "ERROR"} =>
           sessions[s].state \notin {"CLOSED", "ERROR"},
         T.state = "OPEN" =>
           \/ i = 1 /\ p.state = "ACTIVE"
           \/ /\ sessions[s].state = "OPEN"
              /\ i # 1 \/ p.state \in {sessions[s].participants[1].state, "LEFT"}
  PROVE  Lessens(s, sessions[s], T)
<1> DEFINE S == sessions[s]
<1>1. S.participants \in Seq(Participant) /\ RecordOK(S)
  BY DEF IInv, StoreOK, RecordOK, Session
<1>2. 1 \in DOMAIN S.participants
  BY <1>1 DEF RecordOK
<1>3. /\ DOMAIN T.participants = DOMAIN S.participants
      /\ \A j \in DOMAIN S.participants :
           T.participants[j] = IF j = i THEN p ELSE S.participants[j]
  BY <1>1
<1>4. T.state = "OPEN" =>
       \/ T.participants[1].state = "ACTIVE"
       \/ /\ S.state = "OPEN"
          /\ T.participants[1].state \in {S.participants[1].state, "LEFT"}
  BY <1>2, <1>3
<1> HIDE DEF S
<1>5. ASSUME NEW j \in DOMAIN S.participants
      PROVE  LET o == S.participants[j]
                 q == T.participants[j]
             IN /\ q.user = o.user /\ q.slot = o.slot
                /\ Live(q) => Live(o)
                /\ o.state \in Rest => q.state \in Rest
                /\ o.state = "LEFT" => q.state = "LEFT"
                /\ q.state = "ACTIVE" /\ o.state # "ACTIVE" =>
                     task.pc = "activate" /\ <<s, j>> = Starting
                /\ q.state = "ERROR" /\ o.state # "ERROR" =>
                     \/ runtime'[<<s, j>>] = "absent"
                     \/ task.pc = "failed" /\ <<s, j>> = Starting
  <2>1. CASE j = i
    BY <1>3, <2>1 DEF S
  <2>2. CASE j # i
    BY <1>3, <2>2
  <2> QED BY <2>1, <2>2
<1> QED BY <1>3, <1>4, <1>5 DEF Lessens, S

\* _retire_participant, leave and kick, however they end.
LEMMA RetireParticipantCalm ==
  ASSUME IInv, now' = now, NEW s \in SessionIds, Created(s),
         sessions[s].state # "CLOSED",
         NEW i \in DOMAIN sessions[s].participants, NEW failed \in BOOLEAN,
         failed => /\ sessions[s].participants[i].state = "ACTIVE"
                   /\ sessions[s].participants[i].user # sessions[s].owner,
         NEW done, NEW raised, RetireParticipant(s, i, failed, done, raised)
  PROVE  Calm /\ (task' = done \/ task' = raised)
<1> DEFINE S == sessions[s]
           m == S.participants[i]
           p == IF failed THEN [m EXCEPT !.state = "ERROR", !.hb = now]
                          ELSE left_participant(m, now)
           T == Replaced(S, i, p)
           ok == failed \/ CanLeave(m)
<1>1. now \in Nat /\ RecordOK(S) /\ S \in Session
      /\ S.participants \in Seq(Participant) /\ m \in Participant
  BY DEF IInv, TypeOK, StoreOK, RecordOK, Session
<1>2. ok => /\ RecordOK(T) /\ T.state = S.state
            /\ T.participants = [S.participants EXCEPT ![i] = p]
  BY <1>1, RetiredOK, ZenonT(60)
<1>3. T.owner = S.owner /\ T.players = S.players
  BY <1>1 DEF Replaced, Session
<1>4. RetireThenSave(s, {<<s, i>>}, ok, T, done, raised)
  BY DEF RetireParticipant
<1>5. /\ p \in Participant /\ p.user = m.user /\ p.slot = m.slot
      /\ failed => p.state = "ERROR"
      /\ ~failed => p.state = IF Live(m) THEN "LEFT" ELSE m.state
  <2>1. CASE failed
    BY <1>1, <2>1 DEF Participant, ParticipantState
  <2>2. CASE ~failed /\ Live(m)
    <3>1. p = [m EXCEPT !.state = "LEFT", !.hb = now]
      BY <2>2 DEF left_participant
    <3> HIDE DEF p
    <3> QED BY <1>1, <2>2, <3>1 DEF Participant, ParticipantState
  <2>3. CASE ~failed /\ ~Live(m)
    BY <1>1, <2>3 DEF left_participant
  <2> QED BY <2>1, <2>2, <2>3
<1>6. failed => i # 1
  BY <1>1 DEF RecordOK
<1> HIDE DEF T, p, ok
<1>7. ASSUME ok, Retire({<<s, i>>}) PROVE Lessens(s, S, T)
  <2>1. runtime'[<<s, i>>] = "absent"
    BY <1>7, RetireOK, PositionsInPids
  <2>2. /\ Live(p) => Live(m)
        /\ m.state \in Rest => p.state \in Rest
        /\ m.state = "LEFT" => p.state = "LEFT"
        /\ p.state = "ACTIVE" => m.state = "ACTIVE"
        /\ ~failed => p.state \in {m.state, "LEFT"}
    BY <1>5 DEF Live, Rest
  <2>3. T \in Session /\ T.state = S.state
        /\ T.participants = [S.participants EXCEPT ![i] = p]
    BY <1>2, <1>7 DEF RecordOK
  <2>4. T.state = "OPEN" =>
          /\ S.state = "OPEN"
          /\ i # 1 \/ p.state \in {S.participants[1].state, "LEFT"}
    BY <1>6, <2>2, <2>3
  <2> QED BY <1>3, <1>5, <2>1, <2>2, <2>3, <2>4, ReplacedLessens
<1> QED BY <1>4, <1>7, RetireThenSaveCalm

-----------------------------------------------------------------------------
(* The actions that are calm *)

\* The step of a lock holder that does not go on starting a participant.
Quiet == Calm /\ task'.pc \notin StartPoints

\* The local state of an idle or stopped process.
LEMMA IdlePoints ==
  /\ Idle.pc = "idle" /\ Down.pc = "down"
  /\ Idle.pc \notin StartPoints /\ Down.pc \notin StartPoints
  BY DEF Idle, Down, StartPoints

\* A step that touches neither records nor containers.
LEMMA StillCalm ==
  ASSUME IInv, UNCHANGED <<now, sessions, purge, runtime>>
  PROVE  Calm
<1>1. NotStored /\ now \in Nat
  BY DEF NotStored, IInv, TypeOK
<1> QED BY <1>1, NotStoredCalm DEF Calm, CalmRuntimes

\* Requests that close a session.
LEMMA ClosingQuiet ==
  ASSUME IInv, NEW s \in SessionIds, NEW u,
         ExpireOnAccess(s) \/ CloseByOwner(s, u)
  PROVE  Quiet
<1>1. PICK reason \in Reasons : Close(s, reason, Idle, Idle)
  BY DEF ExpireOnAccess, CloseByOwner, Reasons
<1>2. Created(s) /\ now' = now
  BY DEF ExpireOnAccess, CloseByOwner, Present
<1>3. Calm /\ task' = Idle
  BY <1>1, <1>2, CloseCalm
<1> QED BY <1>3, IdlePoints DEF Quiet

\* Requests that retire a participant.
LEMMA LeavingQuiet ==
  ASSUME IInv, NEW s \in SessionIds, NEW u, Leave(s, u) \/ Kick(s, u)
  PROVE  Quiet
<1>1. Created(s) /\ now' = now
  BY DEF Leave, Kick, Serving, Present
<1>2. PICK i \in LivePositions(sessions[s]) :
        RetireParticipant(s, i, FALSE, Idle, Idle)
  BY DEF Leave, Kick, UserPositions
<1>3. i \in DOMAIN sessions[s].participants /\ sessions[s].state # "CLOSED"
  BY <1>1 DEF IInv, StoreOK, RecordOK, LivePositions
<1> DEFINE failed == FALSE
<1>4. failed \in BOOLEAN /\ ~failed /\ RetireParticipant(s, i, failed, Idle, Idle)
  BY <1>2
<1> HIDE DEF failed
<1>5. Calm /\ task' = Idle
  BY <1>1, <1>3, <1>4, RetireParticipantCalm
<1> QED BY <1>5, IdlePoints DEF Quiet

\* heartbeat changes times only.
LEMMA HeartbeatQuiet ==
  ASSUME IInv, NEW s \in SessionIds, NEW u, Heartbeat(s, u)
  PROVE  Quiet
<1> DEFINE S == sessions[s]
<1>1. /\ Created(s) /\ now' = now /\ runtime' = runtime
      /\ task' = task /\ task.pc = "idle" /\ now \in Nat
      /\ RecordOK(S) /\ S.created <= now
  BY DEF Heartbeat, Serving, Present, IInv, TypeOK, StoreOK
<1>2. PICK i \in ActivePositions(S) :
        LET T == [Replaced(S, i, [S.participants[i] EXCEPT !.hb = now])
                    EXCEPT !.expires = LeaseExpiry(S)]
        IN Save(s, T) \/ SaveFails(s, T)
  BY DEF Heartbeat, UserPositions
<1> DEFINE p == [S.participants[i] EXCEPT !.hb = now]
           T == [Replaced(S, i, p) EXCEPT !.expires = LeaseExpiry(S)]
<1>3. /\ i \in DOMAIN S.participants /\ S.participants[i].state = "ACTIVE"
      /\ S \in Session /\ S.participants \in Seq(Participant)
      /\ S.participants[i] \in Participant
  BY <1>1 DEF ActivePositions, RecordOK, Session
<1>4. /\ p \in Participant /\ p.user = S.participants[i].user
      /\ p.slot = S.participants[i].slot /\ p.state = "ACTIVE"
  BY <1>1, <1>3 DEF Participant
<1> HIDE DEF p
<1>5. LeaseExpiry(S) \in Nat
  BY <1>1, LeaseExpiryOK
<1>6. [S.participants EXCEPT ![i] = p] \in Seq(Participant)
  BY <1>3, <1>4, SeqReplace
<1>7. /\ T \in Session /\ T.participants = [S.participants EXCEPT ![i] = p]
      /\ T.state = S.state /\ T.owner = S.owner /\ T.players = S.players
  BY <1>3, <1>5, <1>6 DEF Session, Replaced
<1>8. Save(s, T) \/ SaveFails(s, T)
  BY <1>2 DEF p
<1> HIDE DEF T
<1>9. Lessens(s, S, T)
  <2>1. /\ Live(p) => Live(S.participants[i])
        /\ p.state = S.participants[i].state /\ p.state \in Rest
        /\ i = 1 => p.state = S.participants[1].state
    BY <1>3, <1>4 DEF Live, Rest
  <2>2. /\ T.state \notin {"CLOSED", "ERROR"} => S.state \notin {"CLOSED", "ERROR"}
        /\ T.state = "OPEN" =>
             /\ S.state = "OPEN"
             /\ i # 1 \/ p.state \in {S.participants[1].state, "LEFT"}
    BY <1>7, <2>1
  <2> QED BY <1>1, <1>3, <1>4, <1>7, <2>1, <2>2, ReplacedLessens
<1>10. CalmStore
  BY <1>8, <1>9, SaveCalm
<1> QED BY <1>1, <1>10 DEF Quiet, Calm, CalmRuntimes, StartPoints

\* Requests and moves of the lock holder that touch nothing here.
LEMMA StillQuiet ==
  ASSUME IInv,
         \/ \E u \in Users, players \in PlayerLimits : StartCreate(u, players)
         \/ \E s \in SessionIds, u \in Users : Launch(s, u)
         \/ RefuseCreate \/ StartSweep \/ SweepDone \/ InspectDone
         \/ StartProcess \/ ReconcileSessionsDone \/ Crash
  PROVE  Quiet
<1>0. task \in Task
  BY DEF IInv, TypeOK
<1>1. UNCHANGED <<now, sessions, purge, runtime>>
  BY DEF StartCreate, Launch, RefuseCreate, StartSweep, SweepDone, InspectDone,
         StartProcess, ReconcileSessionsDone, Crash
<1>2. task'.pc \notin StartPoints
  <2>1. CASE \E u \in Users, players \in PlayerLimits : StartCreate(u, players)
    BY <2>1 DEF StartCreate, Idle, StartPoints
  <2>2. CASE \E s \in SessionIds, u \in Users : Launch(s, u)
    BY <2>2 DEF Launch, Serving, StartPoints
  <2>3. CASE RefuseCreate \/ Crash
    BY <2>3, IdlePoints DEF RefuseCreate, Crash
  <2>4. CASE StartSweep \/ StartProcess
    BY <2>4 DEF StartSweep, StartProcess, Idle, StartPoints
  <2>5. CASE SweepDone
    <3>1. task' = [task EXCEPT !.pc = "admit"] \/ task' = Idle
      BY <2>5 DEF SweepDone
    <3> QED BY <1>0, <3>1, IdlePoints DEF Task, StartPoints
  <2>6. CASE InspectDone
    BY <1>0, <2>6 DEF InspectDone, ResumeSweep, Task, StartPoints
  <2>7. CASE ReconcileSessionsDone
    BY <1>0, <2>7 DEF ReconcileSessionsDone, Goto, Task, StartPoints
  <2> QED BY <2>1, <2>2, <2>3, <2>4, <2>5, <2>6, <2>7
<1> QED BY <1>1, <1>2, StillCalm DEF Quiet

\* The cleanup closes sessions and retires participants.
LEMMA SweepQuiet ==
  ASSUME IInv, SweepSession \/ InspectParticipant \/ EvictParticipant
  PROVE  Quiet
<1>0. task \in Task /\ now' = now
  BY DEF IInv, TypeOK, SweepSession, InspectParticipant, EvictParticipant
<1>1. CASE SweepSession
  <2>1. task.pc = "sweep"
    BY <1>1 DEF SweepSession
  <2>2. PICK s \in task.todo :
          LET rest == [task EXCEPT !.todo = @ \ {s}]
          IN \/ \E reason \in Reasons : Close(s, reason, rest, Idle)
             \/ /\ task'.pc = "inspect"
                /\ UNCHANGED <<sessions, purge, runtime, token, faults>>
    <3>1. PICK s \in task.todo :
            LET S    == sessions[s]
                rest == [task EXCEPT !.todo = @ \ {s}]
            IN \/ Close(s, "expired", rest, Idle)
               \/ Close(s, "owner_abandoned", rest, Idle)
               \/ /\ task' = [rest EXCEPT
                                !.pc = "inspect", !.sid = s,
                                !.queue = ActivePositions(S),
                                !.stale = {i \in ActivePositions(S) :
                                             IsStale(S.participants[i])}]
                  /\ UNCHANGED <<sessions, purge, runtime, token, faults>>
      BY <1>1 DEF SweepSession
    <3> QED BY <1>0, <3>1 DEF Reasons, Task
  <2> DEFINE rest == [task EXCEPT !.todo = @ \ {s}]
  <2>3. s \in SessionIds /\ Created(s) /\ rest.pc = "sweep"
    BY <1>0, <2>1 DEF IInv, TaskOK, Task
  <2> HIDE DEF rest
  <2>4. CASE \E reason \in Reasons : Close(s, reason, rest, Idle)
    <3>1. Calm /\ (task' = rest \/ task' = Idle)
      BY <1>0, <2>3, <2>4, CloseCalm
    <3> QED BY <2>3, <3>1, IdlePoints DEF Quiet, StartPoints
  <2>5. CASE task'.pc = "inspect" /\ UNCHANGED <<sessions, purge, runtime, token, faults>>
    BY <1>0, <2>5, StillCalm DEF Quiet, StartPoints
  <2> QED BY <2>2, <2>4, <2>5 DEF rest
<1>2. CASE InspectParticipant
  <2>1. task.pc = "inspect"
    BY <1>2 DEF InspectParticipant
  <2>2. PICK i \in task.queue :
          LET rest == [task EXCEPT !.queue = @ \ {i}] IN
          \/ RetireParticipant(task.sid, i, FALSE, rest, Idle)
          \/ /\ task' = rest \/ task' = [rest EXCEPT !.pc = "evict", !.pos = i]
             /\ UNCHANGED <<sessions, purge, runtime, token>>
    BY <1>2 DEF InspectParticipant
  <2> DEFINE rest == [task EXCEPT !.queue = @ \ {i}]
             s == task.sid
  <2>3. /\ s \in SessionIds /\ Created(s) /\ sessions[s].state # "CLOSED"
        /\ i \in DOMAIN sessions[s].participants
    BY <2>1 DEF IInv, TaskOK, ActivePositions
  <2>4. rest.pc = "inspect" /\ [rest EXCEPT !.pc = "evict", !.pos = i].pc = "evict"
    BY <1>0, <2>1 DEF Task
  <2> HIDE DEF rest
  <2>5. CASE RetireParticipant(s, i, FALSE, rest, Idle)
    <3> DEFINE failed == FALSE
    <3>1. failed \in BOOLEAN /\ ~failed /\ RetireParticipant(s, i, failed, rest, Idle)
      BY <2>5
    <3> HIDE DEF failed, s
    <3>2. Calm /\ (task' = rest \/ task' = Idle)
      BY <1>0, <2>3, <3>1, RetireParticipantCalm
    <3> QED BY <2>4, <3>2, IdlePoints DEF Quiet, StartPoints
  <2>6. CASE /\ task' = rest \/ task' = [rest EXCEPT !.pc = "evict", !.pos = i]
             /\ UNCHANGED <<sessions, purge, runtime, token>>
    BY <1>0, <2>4, <2>6, StillCalm DEF Quiet, StartPoints
  <2> QED BY <2>2, <2>5, <2>6 DEF rest
<1>3. CASE EvictParticipant
  <2> DEFINE s == task.sid
             i == task.pos
             next == [task EXCEPT !.pc = "inspect", !.pos = 0]
  <2>1. task.pc = "evict" /\ "owner_runtime_failed" \in Reasons
    BY <1>3 DEF EvictParticipant, Reasons
  <2>2. /\ s \in SessionIds /\ Created(s) /\ sessions[s].state # "CLOSED"
        /\ i \in DOMAIN sessions[s].participants
        /\ sessions[s].participants[i].state = "ACTIVE"
    BY <2>1 DEF IInv, TaskOK, ActivePositions
  <2>3. next.pc = "inspect" /\ ResumeSweep.pc = "sweep"
    BY <1>0 DEF Task, ResumeSweep
  <2> HIDE DEF next
  <2>4. CASE Close(s, "owner_runtime_failed", ResumeSweep, Idle)
    <3> HIDE DEF s
    <3>1. Calm /\ (task' = ResumeSweep \/ task' = Idle)
      BY <1>0, <2>1, <2>2, <2>4, CloseCalm
    <3> QED BY <2>3, <3>1, IdlePoints DEF Quiet, StartPoints
  <2>5. CASE /\ sessions[s].participants[i].user # sessions[s].owner
             /\ RetireParticipant(s, i, TRUE, next, Idle)
    <3> DEFINE failed == TRUE
    <3>1. failed \in BOOLEAN /\ RetireParticipant(s, i, failed, next, Idle)
      BY <2>5
    <3> HIDE DEF failed, s, i
    <3>2. Calm /\ (task' = next \/ task' = Idle)
      BY <1>0, <2>2, <2>5, <3>1, RetireParticipantCalm
    <3> QED BY <2>3, <3>2, IdlePoints DEF Quiet, StartPoints
  <2> QED BY <1>3, <2>4, <2>5 DEF EvictParticipant, next
<1> QED BY <1>1, <1>2, <1>3

\* The startup reconciliation closes sessions and removes containers.
LEMMA ReconcileQuiet ==
  ASSUME IInv, ReconcileSession \/ ReconcileRuntimes
  PROVE  Quiet
<1>0. task \in Task /\ now' = now /\ now \in Nat
  BY DEF IInv, TypeOK, ReconcileSession, ReconcileRuntimes
<1>1. CASE ReconcileSession
  <2>1. task.pc = "reconcile" /\ "manager_restarted" \in Reasons
    BY <1>1 DEF ReconcileSession, Reasons
  <2>2. PICK s \in task.todo :
          Close(s, "manager_restarted", [task EXCEPT !.todo = @ \ {s}], Down)
    BY <1>1 DEF ReconcileSession
  <2> DEFINE rest == [task EXCEPT !.todo = @ \ {s}]
  <2>3. s \in SessionIds /\ Created(s) /\ rest.pc = "reconcile"
    BY <1>0, <2>1 DEF IInv, TaskOK, Task
  <2> HIDE DEF rest
  <2>4. Close(s, "manager_restarted", rest, Down)
    BY <2>2 DEF rest
  <2>5. Calm /\ (task' = rest \/ task' = Down)
    BY <1>0, <2>1, <2>3, <2>4, CloseCalm
  <2> QED BY <2>3, <2>5, IdlePoints DEF Quiet, StartPoints
<1>2. CASE ReconcileRuntimes
  <2>1. NotStored /\ (task' = Idle \/ task' = Down)
    BY <1>2 DEF ReconcileRuntimes, NotStored
  <2>2. RuntimesShrink
    BY <1>2, RetireOK DEF ReconcileRuntimes
  <2> QED BY <1>0, <2>1, <2>2, NotStoredCalm, ShrinkCalm, IdlePoints DEF Quiet, Calm
<1> QED BY <1>1, <1>2

-----------------------------------------------------------------------------
(* The steps of a start that are calm *)

\* A save of the starting participant's record, T, with p in its place.
LEMMA MemberCalm ==
  ASSUME IInv, task.pc \in StartPoints,
         now' = now, runtime' = runtime,
         NEW p \in Participant,
         p.user = StartMember.user, p.slot = StartMember.slot,
         p.state # "LEFT",
         p.state = "ACTIVE" => task.pc = "activate",
         p.state = "ERROR" => task.pc = "failed",
         NEW T \in Session,
         T.participants = [StartSession.participants EXCEPT ![task.pos] = p],
         T.owner = StartSession.owner, T.players = StartSession.players,
         T.state \notin {"CLOSED", "ERROR"} =>
           StartSession.state \notin {"CLOSED", "ERROR"},
         T.state = "OPEN" =>
           \/ task.pos = 1 /\ p.state = "ACTIVE"
           \/ StartSession.state = "OPEN" /\ task.pos # 1,
         Save(task.sid, T) \/ SaveFails(task.sid, T)
  PROVE  /\ Calm
         /\ Save(task.sid, T) =>
              sessions'[task.sid] = T /\ T.participants[task.pos] = p
<1> DEFINE s == task.sid
           S == sessions[s]
           i == task.pos
<1>1. /\ s \in SessionIds /\ Created(s) /\ i \in DOMAIN S.participants
      /\ S = StartSession /\ S.participants[i] = StartMember
      /\ StartMember.state \in {"ALLOCATING", "STARTING"}
      /\ S.participants \in Seq(Participant)
      /\ <<s, i>> = Starting /\ now \in Nat
  BY StartFacts DEF StartSession, StartMember, Starting, IInv, TypeOK
<1>2. /\ Live(p) => Live(S.participants[i])
      /\ ~(S.participants[i].state \in Rest)
      /\ S.participants[i].state \notin {"LEFT", "ACTIVE", "ERROR"}
  BY <1>1 DEF Live, Rest
<1>3. /\ p.user = S.participants[i].user /\ p.slot = S.participants[i].slot
      /\ T.participants = [S.participants EXCEPT ![i] = p]
      /\ T.owner = S.owner /\ T.players = S.players
      /\ T.state \notin {"CLOSED", "ERROR"} => S.state \notin {"CLOSED", "ERROR"}
      /\ T.state = "OPEN" =>
           \/ i = 1 /\ p.state = "ACTIVE"
           \/ /\ S.state = "OPEN"
              /\ i # 1 \/ p.state \in {S.participants[1].state, "LEFT"}
      /\ p.state = "ACTIVE" => task.pc = "activate" /\ <<s, i>> = Starting
      /\ p.state = "ERROR" => task.pc = "failed" /\ <<s, i>> = Starting
      /\ Save(s, T) \/ SaveFails(s, T)
  BY <1>1
<1> HIDE DEF s, i, S
<1>4. Lessens(s, sessions[s], T)
  BY <1>1, <1>2, <1>3, ReplacedLessens DEF S
<1>5. Calm
  BY <1>1, <1>3, <1>4, SaveCalm DEF Calm, CalmRuntimes
<1>6. T.participants[i] = p
  BY <1>1, <1>3
<1>7. Save(s, T) => sessions'[s] = T
  BY <1>1 DEF Save, Stored, IInv, TypeOK
<1> QED BY <1>5, <1>6, <1>7 DEF s, i

\* Without faults of the store, a save is only refused for a record that is
\* gone.
LEMMA RefusedIsGone ==
  ASSUME NEW s, NEW T, "store" \notin FaultKinds, SaveFails(s, T)
  PROVE  ~Present(s) /\ NotStored
  BY DEF SaveFails, Fault

\* The save before the runtime is launched.
LEMMA SaveStartingCalm ==
  ASSUME IInv, RoleOK, SaveStarting
  PROVE  /\ Calm /\ runtime' = runtime
         /\ \/ task' = Idle /\ ("store" \notin FaultKinds => ~Present(task.sid))
            \/ /\ Goto("launch")
               /\ StartSession.state = "OPEN" => sessions'[task.sid].state = "OPEN"
<1> DEFINE S == StartSession
           p == [StartMember EXCEPT !.state = "STARTING"]
           T == [Replaced(S, task.pos, p)
                   EXCEPT !.state = IF @ = "CREATING" THEN "STARTING" ELSE @]
<1>1. /\ task.pc = "start" /\ task.pc \in StartPoints
      /\ now' = now /\ runtime' = runtime
  BY DEF SaveStarting, StartPoints
<1>2. \/ Save(task.sid, T) /\ Goto("launch")
      \/ SaveFails(task.sid, T) /\ task' = Idle
  BY DEF SaveStarting
<1>3. /\ S \in Session /\ S.participants \in Seq(Participant)
      /\ S.state \in SessionState /\ StartMember \in Participant
      /\ task.pos \in DOMAIN S.participants
      /\ task.op = "create" => S.state \in {"CREATING", "STARTING"}
      /\ task.op # "create" => task.pos # 1 /\ S.state = "OPEN"
  BY <1>1, StartFacts DEF Session, RoleOK, StartSession
<1>4. /\ p \in Participant /\ p.user = StartMember.user
      /\ p.slot = StartMember.slot /\ p.state = "STARTING"
  BY <1>3 DEF Participant, ParticipantState
<1> HIDE DEF p
<1>5. [S.participants EXCEPT ![task.pos] = p] \in Seq(Participant)
  BY <1>3, <1>4, SeqReplace
<1>6. /\ T \in Session
      /\ T.participants = [S.participants EXCEPT ![task.pos] = p]
      /\ T.state = IF S.state = "CREATING" THEN "STARTING" ELSE S.state
      /\ T.owner = S.owner /\ T.players = S.players
  BY <1>3, <1>5 DEF Session, SessionState, Replaced
<1> HIDE DEF T
<1>7. /\ T.state \notin {"CLOSED", "ERROR"} => S.state \notin {"CLOSED", "ERROR"}
      /\ T.state = "OPEN" => S.state = "OPEN" /\ task.pos # 1
  BY <1>3, <1>6
<1>8. Calm /\ (Save(task.sid, T) => sessions'[task.sid] = T)
  BY <1>1, <1>2, <1>4, <1>6, <1>7, MemberCalm
<1> QED BY <1>1, <1>2, <1>6, <1>8, RefusedIsGone

\* The save that makes the participant ACTIVE.
LEMMA SaveActiveCalm ==
  ASSUME IInv, RoleOK, SaveActive
  PROVE  /\ Quiet /\ task' = Idle
         /\ "store" \notin FaultKinds /\ Present(task.sid) =>
              sessions'[task.sid].participants[task.pos].state \in Rest
<1> DEFINE S == StartSession
           p == [StartMember EXCEPT !.state = "ACTIVE", !.hb = now]
           T == [Replaced(S, task.pos, p)
                   EXCEPT !.state = IF @ = "STARTING" THEN "OPEN" ELSE @,
                          !.expires = LeaseExpiry(S)]
<1>1. /\ task.pc = "activate" /\ task.pc \in StartPoints /\ task' = Idle
      /\ now' = now /\ runtime' = runtime /\ now \in Nat
  BY DEF SaveActive, StartPoints, IInv, TypeOK
<1>2. Save(task.sid, T) \/ SaveFails(task.sid, T)
  BY DEF SaveActive
<1>3. /\ S \in Session /\ S.participants \in Seq(Participant) /\ RecordOK(S)
      /\ S.state \in SessionState /\ StartMember \in Participant
      /\ S.created <= now
      /\ task.pos \in DOMAIN S.participants
      /\ task.op = "create" => task.pos = 1 /\ S.state \in {"CREATING", "STARTING"}
      /\ task.op # "create" => task.pos # 1 /\ S.state = "OPEN"
  BY <1>1, StartFacts DEF Session, RoleOK, StartSession
<1>4. /\ p \in Participant /\ p.user = StartMember.user
      /\ p.slot = StartMember.slot /\ p.state = "ACTIVE"
  BY <1>1, <1>3 DEF Participant, ParticipantState
<1> HIDE DEF p
<1>5. [S.participants EXCEPT ![task.pos] = p] \in Seq(Participant)
      /\ LeaseExpiry(S) \in Nat
  BY <1>1, <1>3, <1>4, SeqReplace, LeaseExpiryOK
<1>6. /\ T \in Session
      /\ T.participants = [S.participants EXCEPT ![task.pos] = p]
      /\ T.state = IF S.state = "STARTING" THEN "OPEN" ELSE S.state
      /\ T.owner = S.owner /\ T.players = S.players
  BY <1>3, <1>5 DEF Session, SessionState, Replaced
<1> HIDE DEF T
<1>7. /\ T.state \notin {"CLOSED", "ERROR"} => S.state \notin {"CLOSED", "ERROR"}
      /\ T.state = "OPEN" =>
           \/ task.pos = 1
           \/ S.state = "OPEN" /\ task.pos # 1
  BY <1>3, <1>6
<1>8. /\ Calm
      /\ Save(task.sid, T) =>
           sessions'[task.sid] = T /\ T.participants[task.pos] = p
  BY <1>1, <1>2, <1>4, <1>6, <1>7, MemberCalm
<1>9. "ACTIVE" \in Rest /\ task'.pc \notin StartPoints
  BY <1>1, IdlePoints DEF Rest
<1> QED BY <1>1, <1>2, <1>4, <1>8, <1>9, RefusedIsGone DEF Quiet

\* The save that records a failed start.
LEMMA SaveFailedCalm ==
  ASSUME IInv, RoleOK, SaveFailed
  PROVE  /\ Quiet /\ task' = Idle
         /\ "store" \notin FaultKinds /\ Present(task.sid) =>
              sessions'[task.sid].participants[task.pos].state \in Rest
<1> DEFINE S == StartSession
           p == [StartMember EXCEPT !.state = "ERROR"]
           T == [Replaced(S, task.pos, p)
                   EXCEPT !.state = IF task.op = "create" THEN "ERROR" ELSE @]
<1>1. /\ task.pc = "failed" /\ task.pc \in StartPoints /\ task' = Idle
      /\ now' = now /\ runtime' = runtime
  BY DEF SaveFailed, StartPoints
<1>2. Save(task.sid, T) \/ SaveFails(task.sid, T)
  BY DEF SaveFailed
<1>3. /\ S \in Session /\ S.participants \in Seq(Participant)
      /\ S.state \in SessionState /\ StartMember \in Participant
      /\ task.pos \in DOMAIN S.participants
      /\ task.op # "create" => task.pos # 1 /\ S.state = "OPEN"
  BY <1>1, StartFacts DEF Session, RoleOK, StartSession
<1>4. /\ p \in Participant /\ p.user = StartMember.user
      /\ p.slot = StartMember.slot /\ p.state = "ERROR"
  BY <1>3 DEF Participant, ParticipantState
<1> HIDE DEF p
<1>5. [S.participants EXCEPT ![task.pos] = p] \in Seq(Participant)
  BY <1>3, <1>4, SeqReplace
<1>6. /\ T \in Session
      /\ T.participants = [S.participants EXCEPT ![task.pos] = p]
      /\ T.state = IF task.op = "create" THEN "ERROR" ELSE S.state
      /\ T.owner = S.owner /\ T.players = S.players
  BY <1>3, <1>5 DEF Session, SessionState, Replaced
<1> HIDE DEF T
<1>7. /\ T.state \notin {"CLOSED", "ERROR"} => S.state \notin {"CLOSED", "ERROR"}
      /\ T.state = "OPEN" => S.state = "OPEN" /\ task.pos # 1
  BY <1>3, <1>6
<1>8. /\ Calm
      /\ Save(task.sid, T) =>
           sessions'[task.sid] = T /\ T.participants[task.pos] = p
  BY <1>1, <1>2, <1>4, <1>6, <1>7, MemberCalm
<1>9. "ERROR" \in Rest /\ task'.pc \notin StartPoints
  BY <1>1, IdlePoints DEF Rest
<1> QED BY <1>1, <1>2, <1>4, <1>8, <1>9, RefusedIsGone DEF Quiet

\* The launch adds at most the one container.
LEMMA LaunchRuntimeCalm ==
  ASSUME IInv, LaunchRuntime
  PROVE  /\ CalmStore /\ sessions' = sessions /\ now' = now
         /\ runtime' = Launched \/ runtime' = runtime
         /\ task'.pc \in {"wait", "cleanup"}
         /\ task'.op = task.op /\ task'.sid = task.sid /\ task'.pos = task.pos
<1>1. /\ task.pc = "launch" /\ task.sid \in SessionIds /\ Created(task.sid)
      /\ task \in Task /\ now' = now
  BY DEF LaunchRuntime, StartPoints, IInv, TypeOK, TaskOK
<1>2. \/ Save(task.sid, StartSession)
      \/ SaveFails(task.sid, StartSession)
      \/ NotStored
  BY DEF LaunchRuntime
<1>3. Lessens(task.sid, sessions[task.sid], StartSession)
  BY <1>1, LessensRefl DEF StartSession
<1>4. CalmStore
  BY <1>1, <1>2, <1>3, SaveCalm
<1>5. sessions' = sessions
  BY <1>2 DEF Save, SaveFails, Stored, NotStored, StartSession, IInv, TypeOK
<1>6. /\ runtime' = Launched \/ runtime' = runtime
      /\ \/ \E d : task' = [task EXCEPT !.pc = "wait", !.deadline = d]
         \/ task' = [task EXCEPT !.pc = "cleanup"]
  BY DEF LaunchRuntime, Goto
<1> QED BY <1>1, <1>4, <1>5, <1>6 DEF Task

\* The other steps of a start leave the records alone.
LEMMA StartCalm ==
  ASSUME IInv, WaitReady \/ ProvisionStream \/ CleanupFailedRuntime
  PROVE  /\ Calm /\ sessions' = sessions /\ now' = now
         /\ task.pc \in StartPoints \ {"start", "launch"}
         /\ task'.pc \in StartPoints \ {"start", "launch"}
         /\ task'.op = task.op /\ task'.sid = task.sid /\ task'.pos = task.pos
<1>0. task \in Task /\ now \in Nat
  BY DEF IInv, TypeOK
<1>1. CASE WaitReady \/ ProvisionStream
  <2>1. Calm
    BY <1>1, StillCalm DEF WaitReady, ProvisionStream
  <2>2. \E pc \in {"provision", "cleanup", "activate"} :
           task' = [task EXCEPT !.pc = pc]
    BY <1>1 DEF WaitReady, ProvisionStream, Goto
  <2> QED BY <1>0, <1>1, <2>1, <2>2 DEF WaitReady, ProvisionStream, StartPoints, Task
<1>2. CASE CleanupFailedRuntime
  <2>1. NotStored /\ now' = now /\ sessions' = sessions
    BY <1>2 DEF CleanupFailedRuntime, NotStored
  <2>2. RuntimesShrink
    BY <1>2, RetireOK, RetireFailsOK DEF CleanupFailedRuntime
  <2>3. task' = [task EXCEPT !.pc = "failed"] /\ task.pc = "cleanup"
    BY <1>2 DEF CleanupFailedRuntime, Goto
  <2> QED BY <1>0, <2>1, <2>2, <2>3, NotStoredCalm, ShrinkCalm
       DEF Calm, StartPoints, Task
<1> QED BY <1>1, <1>2

\* Time and failing containers.
LEMMA EnvironmentCalm ==
  ASSUME IInv,
         \/ Tick \/ UNCHANGED vars
         \/ \E p \in Pids : BecomeUnhealthy(p) \/ RuntimeExits(p)
  PROVE  Calm /\ UNCHANGED <<sessions, purge, task>>
<1>0. now \in Nat /\ runtime \in [Pids -> RuntimeState]
  BY DEF IInv, TypeOK
<1>1. CASE Tick
  BY <1>0, <1>1, NotStoredCalm DEF Tick, NotStored, Calm, CalmRuntimes
<1>2. CASE UNCHANGED vars
  BY <1>2, StillCalm DEF vars
<1>3. ASSUME NEW p \in Pids, BecomeUnhealthy(p) \/ RuntimeExits(p)
      PROVE  Calm /\ UNCHANGED <<sessions, purge, task>>
  <2>1. /\ NotStored /\ now' = now /\ UNCHANGED <<sessions, purge, task>>
        /\ runtime[p] # "absent"
        /\ \/ runtime' = [runtime EXCEPT ![p] = "unhealthy"]
           \/ runtime' = [runtime EXCEPT ![p] = "exited"]
    BY <1>3 DEF BecomeUnhealthy, RuntimeExits, Up, NotStored
  <2>2. CalmRuntimes
    BY <1>0, <2>1 DEF CalmRuntimes
  <2> QED BY <1>0, <2>1, <2>2, NotStoredCalm DEF Calm
<1> QED BY <1>1, <1>2, <1>3

-----------------------------------------------------------------------------
(* All steps, by what they do *)

\* The steps of a process that serves and starts nobody.
Plain == Quiet /\ task.pc \notin StartPoints \cup {"down", "reconcile"}

\* A process that dies or comes back.
Restarting ==
  Quiet /\ (StartProcess \/ ReconcileSession \/ ReconcileSessionsDone \/ Crash)

\* Every step is of one of these kinds.
LEMMA Kinds ==
  ASSUME IInv, RoleOK, [Next]_vars
  PROVE  \/ Plain \/ Restarting
         \/ Quiet /\ (SaveActive \/ SaveFailed)
         \/ SaveStarting \/ LaunchRuntime
         \/ WaitReady \/ ProvisionStream \/ CleanupFailedRuntime
         \/ Tick \/ UNCHANGED vars
         \/ \E p \in Pids : BecomeUnhealthy(p) \/ RuntimeExits(p)
         \/ \E p \in Pids : BecomeHealthy(p)
         \/ \E s \in SessionIds, u \in Users : Join(s, u)
         \/ Admit
<1>1. CASE \E u \in Users, players \in PlayerLimits : StartCreate(u, players)
  BY <1>1, StillQuiet DEF StartCreate, Plain, StartPoints
<1>2. CASE \E s \in SessionIds : ExpireOnAccess(s)
  BY <1>2, ClosingQuiet DEF ExpireOnAccess, Plain, StartPoints
<1>3. ASSUME NEW s \in SessionIds, NEW u \in Users, CloseByOwner(s, u)
      PROVE  Plain
  BY <1>3, ClosingQuiet DEF CloseByOwner, Plain, StartPoints
<1>4. ASSUME NEW s \in SessionIds, NEW u \in Users, Leave(s, u) \/ Kick(s, u)
      PROVE  Plain
  BY <1>4, LeavingQuiet DEF Leave, Kick, Serving, Plain, StartPoints
<1>5. ASSUME NEW s \in SessionIds, NEW u \in Users, Heartbeat(s, u)
      PROVE  Plain
  BY <1>5, HeartbeatQuiet DEF Heartbeat, Serving, Plain, StartPoints
<1>6. ASSUME NEW s \in SessionIds, NEW u \in Users, Launch(s, u)
      PROVE  Plain
  BY <1>6, StillQuiet DEF Launch, Serving, Plain, StartPoints
<1>7. CASE RefuseCreate \/ StartSweep \/ SweepDone \/ InspectDone
  BY <1>7, StillQuiet DEF RefuseCreate, StartSweep, SweepDone, InspectDone,
                          Plain, StartPoints
<1>8. CASE SweepSession \/ InspectParticipant \/ EvictParticipant
  BY <1>8, SweepQuiet DEF SweepSession, InspectParticipant, EvictParticipant,
                          Plain, StartPoints
<1>9. CASE StartProcess \/ ReconcileSessionsDone \/ Crash
  BY <1>9, StillQuiet DEF Restarting
<1>10. CASE ReconcileSession
  BY <1>10, ReconcileQuiet DEF Restarting
<1>11. CASE ReconcileRuntimes
  BY <1>11, ReconcileQuiet DEF ReconcileRuntimes, Plain, StartPoints
<1>12. CASE SaveActive \/ SaveFailed
  BY <1>12, SaveActiveCalm, SaveFailedCalm
<1>13. CASE Request
  BY <1>13, <1>1, <1>2, <1>3, <1>4, <1>5, <1>6 DEF Request
<1>14. CASE StartParticipant
  BY <1>14, <1>7, <1>12 DEF StartParticipant
<1>15. CASE Sweep \/ StartSweep
  BY <1>15, <1>7, <1>8 DEF Sweep
<1>16. CASE Reconcile
  BY <1>16, <1>9, <1>10, <1>11 DEF Reconcile
<1>17. CASE Environment
  BY <1>17, <1>9 DEF Environment
<1> QED BY <1>13, <1>14, <1>15, <1>16, <1>17 DEF Next

\* A calm step creates no record and changes no record's list of people.
LEMMA CalmRecords ==
  ASSUME IInv, CalmStore, NEW s \in SessionIds
  PROVE  /\ Created(s)' <=> Created(s)
         /\ Created(s) =>
              /\ Lessens(s, sessions[s], sessions'[s])
              /\ DOMAIN sessions'[s].participants = DOMAIN sessions[s].participants
<1>1. CASE sessions'[s] = sessions[s]
  BY <1>1, LessensRefl DEF Created
<1>2. CASE Present(s) /\ Lessens(s, sessions[s], sessions'[s])
  BY <1>2, SessionNotNone DEF Created, Present, Lessens
<1> QED BY <1>1, <1>2 DEF CalmStore

-----------------------------------------------------------------------------
(* The owner and the host *)

\* Calm steps give no container to somebody unknown.
LEMMA CalmNamed ==
  ASSUME IInv, Named, CalmStore, CalmRuntimes
  PROVE  Named'
<1> SUFFICES ASSUME NEW p \in Pids, runtime'[p] # "absent"
             PROVE  Created(p[1])' /\ p[2] \in DOMAIN sessions'[p[1]].participants
  BY DEF Named, Runtimes
<1>1. p[1] \in SessionIds /\ runtime[p] # "absent"
  BY DEF Pids, CalmRuntimes
<1>2. Created(p[1]) /\ p[2] \in DOMAIN sessions[p[1]].participants
  BY <1>1 DEF Named, Runtimes
<1> QED BY <1>1, <1>2, CalmRecords

\* Calm steps keep the host in its place.
LEMMA CalmHost ==
  ASSUME IInv, RoleOK, HostOK, CalmStore, CalmRuntimes
  PROVE  HostOK'
<1> SUFFICES ASSUME NEW s \in SessionIds, Created(s)'
             PROVE  LET T == sessions'[s] IN
                    /\ T.state = "OPEN" => T.participants[1].state \in {"ACTIVE", "LEFT"}
                    /\ \A i \in DOMAIN T.participants \ {1} :
                         T.participants[i].user = T.owner =>
                           /\ T.participants[1].state = "LEFT"
                           /\ T.participants[i].state # "ACTIVE"
                           /\ runtime'[<<s, i>>] # "healthy"
  BY DEF HostOK
<1> DEFINE S == sessions[s]
           T == sessions'[s]
<1>1. Created(s) /\ Lessens(s, S, T)
  BY CalmRecords
<1>2. 1 \in DOMAIN S.participants
  BY <1>1 DEF IInv, StoreOK, RecordOK, Session
<1>3. /\ S.state = "OPEN" => S.participants[1].state \in {"ACTIVE", "LEFT"}
      /\ \A i \in DOMAIN S.participants \ {1} :
           S.participants[i].user = S.owner =>
             /\ S.participants[1].state = "LEFT"
             /\ S.participants[i].state # "ACTIVE"
             /\ runtime[<<s, i>>] # "healthy"
  BY <1>1 DEF HostOK
<1> HIDE DEF S, T
<1>4. T.state = "OPEN" => T.participants[1].state \in {"ACTIVE", "LEFT"}
  BY <1>1, <1>3 DEF Lessens
<1>5. ASSUME NEW i \in DOMAIN T.participants \ {1}, T.participants[i].user = T.owner
      PROVE  /\ T.participants[1].state = "LEFT"
             /\ T.participants[i].state # "ACTIVE"
             /\ runtime'[<<s, i>>] # "healthy"
  <2>1. i \in DOMAIN S.participants \ {1} /\ S.participants[i].user = S.owner
    BY <1>1, <1>5 DEF Lessens
  <2>2. T.participants[1].state = "LEFT"
    BY <1>1, <1>2, <1>3, <2>1 DEF Lessens
  <2>3. runtime'[<<s, i>>] # "healthy"
    <3>1. <<s, i>> \in Pids
      BY <1>1, <2>1, PositionsInPids DEF S
    <3> QED BY <1>3, <2>1, <3>1 DEF CalmRuntimes
  <2>4. ASSUME T.participants[i].state = "ACTIVE" PROVE FALSE
    <3>1. task.pc = "activate" /\ <<s, i>> = Starting
      BY <1>1, <1>3, <2>1, <2>4 DEF Lessens
    <3>2. s = task.sid /\ i = task.pos
      BY <3>1 DEF Starting
    <3> QED BY <2>1, <3>1, <3>2 DEF RoleOK, StartPoints, S
  <2> QED BY <2>2, <2>3, <2>4
<1> QED BY <1>4, <1>5 DEF T

\* Who is healthy is not the owner beside a host that has left.
LEMMA StartRole ==
  ASSUME IInv, RoleOK, HostOK, WaitReady \/ ProvisionStream \/ CleanupFailedRuntime
  PROVE  RoleOK'
<1>1. /\ sessions' = sessions /\ task.pc \in StartPoints
      /\ task'.op = task.op /\ task'.sid = task.sid /\ task'.pos = task.pos
  BY StartCalm
<1>2. /\ task.sid \in SessionIds /\ Created(task.sid)
      /\ task.pos \in DOMAIN sessions[task.sid].participants /\ task \in Task
  BY <1>1 DEF IInv, TaskOK, TypeOK
<1>3. ASSUME task'.pc \in {"provision", "activate"}, task.pos # 1
      PROVE  sessions[task.sid].participants[task.pos].user # sessions[task.sid].owner
  <2>1. CASE WaitReady
    <3>1. task'.pc = "provision" => runtime[Starting] = "healthy"
      BY <1>2, <2>1 DEF WaitReady, Goto, Task
    <3>2. task'.pc # "activate"
      BY <1>2, <2>1 DEF WaitReady, Goto, Task
    <3> QED BY <1>2, <1>3, <3>1, <3>2 DEF HostOK, Starting
  <2>2. CASE ProvisionStream
    BY <1>1, <1>3, <2>2 DEF ProvisionStream, RoleOK
  <2>3. CASE CleanupFailedRuntime
    BY <1>2, <1>3, <2>3 DEF CleanupFailedRuntime, Goto, Task
  <2> QED BY <2>1, <2>2, <2>3
<1> QED BY <1>1, <1>3 DEF RoleOK

\* A join, and what it finds.
LEMMA JoinFacts ==
  ASSUME IInv, NEW s \in SessionIds, NEW u \in Users, Join(s, u)
  PROVE  LET S == sessions[s]
             n == Len(S.participants)
             T == sessions'[s]
         IN /\ Present(s) /\ Created(s) /\ S.state = "OPEN" /\ task.pc = "idle"
            /\ now' = now /\ now \in Nat /\ runtime' = runtime
            /\ n \in Nat /\ n + 1 # 1 /\ DOMAIN S.participants = 1..n
            /\ \A r \in SessionIds \ {s} :
                 sessions'[r] = sessions[r] /\ purge'[r] = purge[r]
            /\ \/ T = S /\ purge'[s] = purge[s] /\ task' = Idle
               \/ /\ RecordOK(T) /\ T \in Session /\ T # NoSession
                  /\ T.state = "OPEN" /\ T.owner = S.owner /\ T.players = S.players
                  /\ DOMAIN T.participants = DOMAIN S.participants \cup {n + 1}
                  /\ \A i \in DOMAIN S.participants :
                       T.participants[i] = S.participants[i]
                  /\ T.participants[n + 1].state = "ALLOCATING"
                  /\ T.participants[n + 1].user = u
                  /\ purge'[s] >= Retention
                  /\ \/ task' = Idle /\ Fault("store")
                     \/ /\ task'.pc = "start" /\ task'.op = "join"
                        /\ task'.sid = s /\ task'.pos = n + 1
<1> DEFINE S == sessions[s]
           n == Len(S.participants)
<1>1. /\ Present(s) /\ Created(s) /\ now' = now /\ runtime' = runtime
      /\ now \in Nat /\ RecordOK(S) /\ S.state = "OPEN" /\ task.pc = "idle"
      /\ n < MaxParticipants /\ S \in Session
      /\ S.participants \in Seq(Participant)
  BY DEF Join, Present, IInv, TypeOK, StoreOK, RecordOK, Session
<1>2. PICK slot \in 1..S.players :
        LET T == [S EXCEPT !.participants = Append(@, NewParticipant(u, slot))]
        IN /\ IsFreeSlot(S, slot)
           /\ \/ /\ Save(s, T)
                 /\ NoFault
                 /\ task' = Begin("join", s, Len(S.participants) + 1)
              \/ SaveFails(s, T) /\ task' = Idle
  BY DEF Join
<1> DEFINE T == [S EXCEPT !.participants = Append(@, NewParticipant(u, slot))]
<1>3. /\ RecordOK(T) /\ Evolves(S, T) /\ T.state = S.state
      /\ DOMAIN T.participants = DOMAIN S.participants \cup {n + 1}
      /\ \A i \in DOMAIN S.participants : T.participants[i] = S.participants[i]
      /\ T.participants[n + 1].state = "ALLOCATING"
  BY <1>1, <1>2, JoinedOK
<1>4. n \in Nat /\ n + 1 # 1 /\ DOMAIN S.participants = 1..n
  BY <1>1 DEF RecordOK
<1>5. T.participants[n + 1].user = u
  <2>1. T.participants = Append(S.participants, NewParticipant(u, slot))
    BY <1>1 DEF Session
  <2> QED BY <1>1, <2>1 DEF NewParticipant
<1>6. \/ /\ Save(s, T)
         /\ task' = Begin("join", s, n + 1)
      \/ SaveFails(s, T) /\ task' = Idle
  BY <1>2
<1> HIDE DEF T
<1>7. T \in Session /\ T # NoSession /\ T.owner = S.owner /\ T.players = S.players
  BY <1>3, SessionNotNone DEF RecordOK, Evolves
<1>8. PurgeTime(T) >= Retention
  BY <1>1, <1>7, PurgeLater, ConfigAssumption
<1>9. ASSUME Stored(s, T)
      PROVE  /\ sessions'[s] = T /\ purge'[s] >= Retention
             /\ \A r \in SessionIds \ {s} :
                  sessions'[r] = sessions[r] /\ purge'[r] = purge[r]
  BY <1>8, <1>9 DEF Stored, IInv, TypeOK
<1>10. CASE Save(s, T) /\ task' = Begin("join", s, n + 1)
  <2>1. n + 1 \in Nat /\ s \in Nat
    BY <1>4, BoundsAssumption DEF SessionIds
  <2>2. /\ task'.pc = "start" /\ task'.op = "join"
        /\ task'.sid = s /\ task'.pos = n + 1
    BY <1>10, <2>1, StartTask
  <2> QED BY <1>1, <1>3, <1>4, <1>5, <1>7, <1>9, <1>10, <2>2 DEF Save
<1>11. CASE NotStored /\ task' = Idle
  BY <1>1, <1>4, <1>11 DEF NotStored
<1>12. CASE Fault("store") /\ Stored(s, T) /\ task' = Idle
  BY <1>1, <1>3, <1>4, <1>5, <1>7, <1>9, <1>12
<1> QED BY <1>6, <1>10, <1>11, <1>12 DEF SaveFails

\* create stores one new record, with the owner as its only participant.
LEMMA AdmitFacts ==
  ASSUME IInv, Admit
  PROVE  /\ task.pc = "admit" /\ now' = now /\ now \in Nat /\ runtime' = runtime
         /\ Admissible /\ task.user \in Users
         /\ \E s \in SessionIds :
              LET T == sessions'[s] IN
              /\ ~Created(s)
              /\ \A r \in SessionIds \ {s} :
                   sessions'[r] = sessions[r] /\ purge'[r] = purge[r]
              /\ T \in Session /\ T # NoSession
              /\ T.state = "CREATING" /\ DOMAIN T.participants = {1}
              /\ T.owner = task.user /\ T.players \in Nat /\ T.players >= 1
              /\ T.participants[1].state = "ALLOCATING"
              /\ T.participants[1].user = task.user
              /\ T.participants[1].slot = 1
              /\ purge'[s] >= Retention
              /\ \/ task' = Idle /\ Fault("store")
                 \/ /\ task'.pc = "start" /\ task'.op = "create"
                    /\ task'.sid = s /\ task'.pos = 1
<1> DEFINE S == NewSession(task.user, task.players)
<1>1. /\ task.user \in Users /\ task.players \in Nat \ {0} /\ task.pc = "admit"
      /\ now \in Nat /\ now' = now /\ runtime' = runtime /\ Admissible
  BY ConfigAssumption DEF Admit, IInv, TypeOK, TaskOK
<1>2. PICK s \in SessionIds :
        /\ ~Created(s)
        /\ Stored(s, S)
        /\ \/ task' = Begin("create", s, 1)
           \/ Fault("store") /\ task' = Idle
  BY DEF Admit, IsNextSession
<1>3. /\ RecordOK(S) /\ S.state = "CREATING"
      /\ DOMAIN S.participants = {1}
      /\ S.participants[1].state = "ALLOCATING"
  BY <1>1, NewSessionOK
<1>4. S.owner = task.user /\ S.players = task.players
  BY DEF NewSession
<1> HIDE DEF S
<1>5. /\ S \in Session /\ S # NoSession
      /\ S.participants[1].user = task.user /\ S.participants[1].slot = 1
  BY <1>3, <1>4, SessionNotNone DEF RecordOK
<1>6. PurgeTime(S) >= Retention
  BY <1>1, <1>5, PurgeLater, ConfigAssumption
<1>7. /\ sessions'[s] = S /\ purge'[s] >= Retention
      /\ \A r \in SessionIds \ {s} :
           sessions'[r] = sessions[r] /\ purge'[r] = purge[r]
  BY <1>2, <1>6 DEF Stored, IInv, TypeOK
<1>8. S.players \in Nat /\ S.players >= 1
  BY <1>1, <1>4
<1>9. \/ task' = Idle /\ Fault("store")
      \/ /\ task'.pc = "start" /\ task'.op = "create"
         /\ task'.sid = s /\ task'.pos = 1
  <2>1. s \in Nat /\ 1 \in Nat
    BY BoundsAssumption DEF SessionIds
  <2> QED BY <1>2, <2>1, StartTask
<1> QED BY <1>1, <1>2, <1>3, <1>4, <1>5, <1>7, <1>8, <1>9

\* join keeps the host's place: an owner that joins has left before, and the
\* new position has no container yet.
LEMMA JoinHost ==
  ASSUME IInv, Named, HostOK, NEW s \in SessionIds, NEW u \in Users, Join(s, u)
  PROVE  Named' /\ RoleOK' /\ HostOK'
<1> DEFINE S == sessions[s]
           n == Len(S.participants)
           T == sessions'[s]
<1>1. /\ Created(s) /\ S.state = "OPEN" /\ runtime' = runtime
      /\ n \in Nat /\ n + 1 # 1 /\ DOMAIN S.participants = 1..n
      /\ \A r \in SessionIds \ {s} : sessions'[r] = sessions[r]
  BY JoinFacts
<1>2. \/ T = S /\ task' = Idle
      \/ /\ T # NoSession /\ T.state = "OPEN" /\ T.owner = S.owner
         /\ DOMAIN T.participants = DOMAIN S.participants \cup {n + 1}
         /\ \A i \in DOMAIN S.participants : T.participants[i] = S.participants[i]
         /\ T.participants[n + 1].state = "ALLOCATING"
         /\ T.participants[n + 1].user = u
         /\ \/ task' = Idle
            \/ /\ task'.pc = "start" /\ task'.op = "join"
               /\ task'.sid = s /\ task'.pos = n + 1
  BY JoinFacts
<1>3. CASE T = S /\ task' = Idle
  <2>1. \A r \in SessionIds : sessions'[r] = sessions[r]
    BY <1>1, <1>3
  <2>2. Named' /\ HostOK'
    BY <1>1, <2>1 DEF Named, HostOK, Runtimes, Created, Pids
  <2> QED BY <1>3, <2>2, IdlePoints DEF RoleOK
<1>4. CASE /\ T # NoSession /\ T.state = "OPEN" /\ T.owner = S.owner
           /\ DOMAIN T.participants = DOMAIN S.participants \cup {n + 1}
           /\ \A i \in DOMAIN S.participants : T.participants[i] = S.participants[i]
           /\ T.participants[n + 1].state = "ALLOCATING"
           /\ T.participants[n + 1].user = u
           /\ \/ task' = Idle
              \/ /\ task'.pc = "start" /\ task'.op = "join"
                 /\ task'.sid = s /\ task'.pos = n + 1
  <2>1. RoleOK'
    BY <1>1, <1>4, IdlePoints DEF RoleOK
  <2>2. Named'
    <3> SUFFICES ASSUME NEW p \in Pids, runtime[p] # "absent"
                 PROVE  Created(p[1])' /\ p[2] \in DOMAIN sessions'[p[1]].participants
      BY <1>1 DEF Named, Runtimes
    <3>1. /\ p[1] \in SessionIds /\ Created(p[1])
          /\ p[2] \in DOMAIN sessions[p[1]].participants
      BY DEF Named, Runtimes, Pids
    <3>2. CASE p[1] = s
      BY <1>4, <3>1, <3>2 DEF Created
    <3>3. CASE p[1] # s
      BY <1>1, <3>1, <3>3 DEF Created
    <3> QED BY <3>2, <3>3
  <2>3. 1 \in DOMAIN S.participants /\ S.participants[1].user = S.owner
    BY <1>1 DEF IInv, StoreOK, RecordOK
  <2>4. S.participants[1].state \in {"ACTIVE", "LEFT"}
    BY <1>1 DEF HostOK
  <2>5. u = S.owner => S.participants[1].state = "LEFT"
    <3>1. \A i \in ActivePositions(S) : S.participants[i].user # u
      BY DEF Join
    <3> QED BY <2>3, <2>4, <3>1 DEF ActivePositions
  <2>6. runtime[<<s, n + 1>>] # "healthy"
    <3>1. <<s, n + 1>> \in Pids
      <4>1. n < MaxParticipants
        BY DEF Join
      <4> HIDE DEF n
      <4> QED BY <1>1, <4>1, BoundsAssumption DEF Pids, Positions
    <3>2. n + 1 \notin DOMAIN S.participants
      BY <1>1
    <3> QED BY <3>1, <3>2 DEF Named, Runtimes
  <2>7. HostOK'
    <3> SUFFICES ASSUME NEW r \in SessionIds, sessions'[r] # NoSession
                 PROVE  LET R == sessions'[r] IN
                        /\ R.state = "OPEN" =>
                             R.participants[1].state \in {"ACTIVE", "LEFT"}
                        /\ \A i \in DOMAIN R.participants \ {1} :
                             R.participants[i].user = R.owner =>
                               /\ R.participants[1].state = "LEFT"
                               /\ R.participants[i].state # "ACTIVE"
                               /\ runtime[<<r, i>>] # "healthy"
      BY <1>1 DEF HostOK, Created
    <3>1. CASE r # s
      BY <1>1, <3>1 DEF HostOK, Created
    <3>2. CASE r = s
      <4>1. T.participants[1] = S.participants[1]
        BY <1>4, <2>3
      <4>2. ASSUME NEW i \in DOMAIN T.participants \ {1},
                   T.participants[i].user = T.owner
            PROVE  /\ T.participants[1].state = "LEFT"
                   /\ T.participants[i].state # "ACTIVE"
                   /\ runtime[<<s, i>>] # "healthy"
        <5>1. CASE i = n + 1
          BY <1>4, <2>5, <2>6, <4>1, <4>2, <5>1
        <5>2. CASE i \in DOMAIN S.participants
          BY <1>1, <1>4, <4>1, <4>2, <5>2 DEF HostOK
        <5> QED BY <1>4, <5>1, <5>2
      <4> QED BY <2>4, <3>2, <4>1, <4>2
    <3> QED BY <3>1, <3>2
  <2> QED BY <2>1, <2>2, <2>7
<1> QED BY <1>2, <1>3, <1>4

\* create brings a host and nobody beside it.
LEMMA AdmitHost ==
  ASSUME IInv, Named, HostOK, Admit
  PROVE  Named' /\ RoleOK' /\ HostOK'
<1>1. runtime' = runtime
  BY AdmitFacts
<1>2. PICK s \in SessionIds :
        /\ ~Created(s)
        /\ \A r \in SessionIds \ {s} : sessions'[r] = sessions[r]
        /\ sessions'[s].state = "CREATING"
        /\ DOMAIN sessions'[s].participants = {1}
        /\ \/ task' = Idle
           \/ /\ task'.pc = "start" /\ task'.op = "create"
              /\ task'.sid = s /\ task'.pos = 1
  BY AdmitFacts
<1>3. RoleOK'
  BY <1>2, IdlePoints DEF RoleOK
<1>4. Named'
  <2> SUFFICES ASSUME NEW p \in Pids, runtime[p] # "absent"
               PROVE  Created(p[1])' /\ p[2] \in DOMAIN sessions'[p[1]].participants
    BY <1>1 DEF Named, Runtimes
  <2>1. /\ p[1] \in SessionIds /\ Created(p[1])
        /\ p[2] \in DOMAIN sessions[p[1]].participants
    BY DEF Named, Runtimes, Pids
  <2> QED BY <1>2, <2>1 DEF Created
<1>5. HostOK'
  BY <1>1, <1>2 DEF HostOK, Created
<1> QED BY <1>3, <1>4, <1>5

\* The launch gives the starting participant a container that is not healthy.
LEMMA LaunchRuntimeHost ==
  ASSUME IInv, Named, RoleOK, HostOK, LaunchRuntime
  PROVE  Named' /\ RoleOK' /\ HostOK'
<1>1. /\ sessions' = sessions
      /\ runtime' = Launched \/ runtime' = runtime
      /\ task'.pc \in {"wait", "cleanup"}
      /\ task'.op = task.op /\ task'.sid = task.sid /\ task'.pos = task.pos
  BY LaunchRuntimeCalm
<1>2. /\ task.pc \in StartPoints /\ task.sid \in SessionIds /\ Created(task.sid)
      /\ task.pos \in DOMAIN sessions[task.sid].participants /\ Starting \in Pids
      /\ runtime \in [Pids -> RuntimeState]
  BY StartFacts DEF LaunchRuntime, StartPoints, StartSession, IInv, TypeOK
<1>3. RoleOK'
  BY <1>1, <1>2 DEF RoleOK, StartPoints
<1>4. \A p \in Pids : \/ runtime'[p] = runtime[p]
                      \/ p = Starting /\ runtime'[p] = "starting"
  BY <1>1, <1>2 DEF Launched
<1>5. Named'
  BY <1>1, <1>2, <1>4 DEF Named, Runtimes, Created, Starting
<1>6. HostOK'
  BY <1>1, <1>4, PositionsInPids DEF HostOK, Created
<1> QED BY <1>3, <1>5, <1>6

\* The health check of an owner that came back finds no host.
LEMMA BecomeHealthyHost ==
  ASSUME IInv, Named, RoleOK, HostOK, NEW p \in Pids, BecomeHealthy(p)
  PROVE  Named' /\ RoleOK' /\ HostOK'
<1>1. /\ sessions' = sessions /\ task' = task /\ runtime[p] # "absent"
      /\ runtime' = [runtime EXCEPT ![p] = "healthy"]
      /\ p[2] # 1 => Up(<<p[1], 1>>)
      /\ runtime \in [Pids -> RuntimeState]
  BY DEF BecomeHealthy, IInv, TypeOK
<1>2. RoleOK'
  BY <1>1 DEF RoleOK
<1>3. Named'
  BY <1>1 DEF Named, Runtimes, Created
<1>4. ASSUME NEW s \in SessionIds, Created(s),
             NEW i \in DOMAIN sessions[s].participants \ {1},
             sessions[s].participants[i].user = sessions[s].owner
      PROVE  runtime'[<<s, i>>] # "healthy"
  <2>1. sessions[s].participants[1].state = "LEFT" /\ runtime[<<s, i>>] # "healthy"
    BY <1>4 DEF HostOK
  <2>2. 1 \in DOMAIN sessions[s].participants /\ <<s, i>> \in Pids
    <3>1. RecordOK(sessions[s])
      BY <1>4 DEF IInv, StoreOK
    <3>2. 1 \in DOMAIN sessions[s].participants
      BY <3>1, <1>4 DEF RecordOK
    <3>3. <<s, i>> \in Pids
      BY <1>4, PositionsInPids DEF IInv
    <3> QED BY <3>2, <3>3
  <2>3. runtime[<<s, 1>>] = "absent"
    BY <1>4, <2>1, <2>2 DEF IInv, GoneOK
  <2>4. p # <<s, i>>
    BY <1>1, <1>4, <2>3 DEF Up
  <2> QED BY <1>1, <2>1, <2>2, <2>4
<1>5. HostOK'
  BY <1>1, <1>4 DEF HostOK, Created
<1> QED BY <1>2, <1>3, <1>5

\* The inductive invariant behind the owner's place.
SInv == IInv /\ Named /\ RoleOK /\ HostOK

\* It holds in the beginning.
LEMMA SInvInit == Init => SInv
<1> SUFFICES ASSUME Init PROVE SInv
  OBVIOUS
<1>1. IInv
  BY InitOK
<1>2. Runtimes = {} /\ \A s \in SessionIds : ~Created(s)
  BY DEF Init, Runtimes, Created
<1>3. task.pc \notin StartPoints
  BY IdlePoints DEF Init
<1> QED BY <1>1, <1>2, <1>3 DEF SInv, Named, RoleOK, HostOK

\* Every step keeps it.
LEMMA SInvStep == SInv /\ [Next]_vars => SInv'
<1> SUFFICES ASSUME SInv, [Next]_vars PROVE SInv'
  OBVIOUS
<1>0. IInv /\ Named /\ RoleOK /\ HostOK
  BY DEF SInv
<1>1. IInv'
  BY <1>0, NextOK
<1>2. ASSUME Calm PROVE Named' /\ HostOK'
  BY <1>0, <1>2, CalmNamed, CalmHost DEF Calm
<1>3. ASSUME Quiet PROVE RoleOK'
  BY <1>3 DEF Quiet, RoleOK
<1>4. CASE Quiet
  BY <1>1, <1>2, <1>3, <1>4 DEF Quiet, SInv
<1>5. CASE SaveStarting
  <2>1. /\ Calm
        /\ \/ task' = Idle
           \/ /\ Goto("launch")
              /\ StartSession.state = "OPEN" => sessions'[task.sid].state = "OPEN"
    BY <1>0, <1>5, SaveStartingCalm
  <2>2. task \in Task /\ task.pc \in StartPoints
    BY <1>0, <1>5 DEF SaveStarting, StartPoints, IInv, TypeOK
  <2>3. CASE task' = Idle
    BY <2>3, <1>1, <1>2, <2>1, IdlePoints DEF RoleOK, SInv
  <2>4. CASE /\ Goto("launch")
             /\ StartSession.state = "OPEN" => sessions'[task.sid].state = "OPEN"
    <3>1. /\ task'.pc = "launch" /\ task'.op = task.op
          /\ task'.sid = task.sid /\ task'.pos = task.pos
      BY <2>2, <2>4 DEF Goto, Task
    <3>2. RoleOK'
      BY <1>0, <2>2, <2>4, <3>1 DEF RoleOK, StartSession
    <3> QED BY <1>1, <1>2, <2>1, <3>2 DEF SInv
  <2> QED BY <2>1, <2>3, <2>4
<1>6. CASE LaunchRuntime
  BY <1>0, <1>1, <1>6, LaunchRuntimeHost DEF SInv
<1>7. CASE WaitReady \/ ProvisionStream \/ CleanupFailedRuntime
  BY <1>0, <1>1, <1>2, <1>7, StartCalm, StartRole DEF SInv
<1>8. CASE \/ Tick \/ UNCHANGED vars
           \/ \E p \in Pids : BecomeUnhealthy(p) \/ RuntimeExits(p)
  <2>1. Calm /\ sessions' = sessions /\ task' = task
    BY <1>0, <1>8, EnvironmentCalm
  <2>2. RoleOK'
    BY <1>0, <2>1 DEF RoleOK
  <2> QED BY <1>1, <1>2, <2>1, <2>2 DEF SInv
<1>9. CASE \E p \in Pids : BecomeHealthy(p)
  BY <1>0, <1>1, <1>9, BecomeHealthyHost DEF SInv
<1>10. CASE \E s \in SessionIds, u \in Users : Join(s, u)
  BY <1>0, <1>1, <1>10, JoinHost DEF SInv
<1>11. CASE Admit
  BY <1>0, <1>1, <1>11, AdmitHost DEF SInv
<1>12. CASE Plain \/ Restarting
  BY <1>4, <1>12 DEF Plain, Restarting
<1> QED BY <1>0, <1>4, <1>5, <1>6, <1>7, <1>8, <1>9, <1>10, <1>11, <1>12, Kinds

\* Whatever fails, and however often owners leave and come back: an ACTIVE
\* participant of the owner is the host, so the sweep's test for a missing
\* owner sees every lobby whose host is gone.
THEOREM OwnerHosts == Spec => []OwnerIsHost
<1>1. SInv => OwnerIsHost
  <2> SUFFICES ASSUME SInv, NEW s \in SessionIds, Created(s),
                      NEW i \in OwnerPositions(sessions[s])
               PROVE  i = 1
    BY DEF OwnerIsHost
  <2> QED BY DEF SInv, HostOK, OwnerPositions, UserPositions, ActivePositions
<1> QED BY <1>1, SInvInit, SInvStep, PTL DEF Spec

-----------------------------------------------------------------------------
(* The capacities *)

\* A set that gains at most one element.
LEMMA OneMore ==
  ASSUME NEW A, IsFiniteSet(A), NEW x, NEW B, B \subseteq A \cup {x}
  PROVE  /\ Cardinality(A) \in Nat /\ Cardinality(B) \in Nat
         /\ Cardinality(B) <= Cardinality(A) + 1
<1>1. /\ IsFiniteSet(A \cup {x}) /\ Cardinality(A) \in Nat
      /\ Cardinality(A \cup {x}) <= Cardinality(A) + 1
      /\ Cardinality(A \cup {x}) \in Nat
  BY FS_AddElement, FS_CardinalityType
<1>2. IsFiniteSet(B) /\ Cardinality(B) <= Cardinality(A \cup {x})
  BY <1>1, FS_Subset
<1>3. Cardinality(B) \in Nat
  BY <1>2, FS_CardinalityType
<1> QED BY <1>1, <1>2, <1>3

\* A set that gains nothing.
LEMMA NoMore ==
  ASSUME NEW A, IsFiniteSet(A), NEW B, B \subseteq A
  PROVE  /\ Cardinality(A) \in Nat /\ Cardinality(B) \in Nat
         /\ Cardinality(B) <= Cardinality(A)
<1>1. IsFiniteSet(B) /\ Cardinality(B) <= Cardinality(A)
  BY FS_Subset
<1> QED BY <1>1, FS_CardinalityType

\* What is counted is finite.
LEMMA CountedFinite ==
  /\ IsFiniteSet(Runtimes) /\ IsFiniteSet(ActiveSessions)
  /\ \A u : IsFiniteSet(UserSeats(u))
<1>1. IsFiniteSet(SessionIds) /\ IsFiniteSet(Positions)
  BY BoundsAssumption, FS_Interval DEF SessionIds, Positions
<1>2. IsFiniteSet(Pids)
  BY <1>1, FS_Product DEF Pids
<1>3. IsFiniteSet(Runtimes)
  BY <1>2, FS_Subset DEF Runtimes
<1>4. IsFiniteSet(ActiveSessions)
  BY <1>1, FS_Subset DEF ActiveSessions
<1>5. ASSUME NEW u PROVE IsFiniteSet(UserSeats(u))
  <2>1. UserSeats(u) \in SUBSET Pids
    BY DEF UserSeats, ActiveSessions, Pids
  <2> QED BY <1>2, <2>1, FS_Subset
<1> QED BY <1>3, <1>4, <1>5

\* A calm step makes no session active and takes no seat.
LEMMA CalmCounts ==
  ASSUME IInv, CalmStore, now' \in Nat, now <= now'
  PROVE  /\ ActiveSessions' \subseteq ActiveSessions
         /\ \A u : UserSeats(u)' \subseteq UserSeats(u)
         /\ \A s \in SessionIds : Present(s)' => Present(s)
<1>1. \A s \in SessionIds : Present(s)' => Present(s)
  <2> SUFFICES ASSUME NEW s \in SessionIds, Present(s)' PROVE Present(s)
    OBVIOUS
  <2>1. CASE sessions'[s] = sessions[s] /\ purge'[s] = purge[s]
    <3>1. purge[s] \in Nat /\ now \in Nat /\ now' < purge[s] /\ Created(s)
      BY <2>1 DEF IInv, TypeOK, Present, Created
    <3> QED BY <3>1 DEF Present
  <2> QED BY <2>1 DEF CalmStore
<1>2. ActiveSessions' \subseteq ActiveSessions
  <2> SUFFICES ASSUME NEW s \in SessionIds, Present(s)',
                      sessions'[s].state \notin {"CLOSED", "ERROR"}
               PROVE  s \in ActiveSessions
    BY DEF ActiveSessions
  <2>1. Present(s) /\ Lessens(s, sessions[s], sessions'[s])
    BY <1>1, CalmRecords DEF Present
  <2> QED BY <2>1 DEF ActiveSessions, Lessens
<1>3. ASSUME NEW u, NEW p \in UserSeats(u)' PROVE p \in UserSeats(u)
  <2>1. /\ p \in ActiveSessions' \X Positions
        /\ p[2] \in LivePositions(sessions'[p[1]])
        /\ sessions'[p[1]].participants[p[2]].user = u
    BY DEF UserSeats
  <2>2. p \in ActiveSessions \X Positions /\ p[1] \in SessionIds /\ Created(p[1])
    BY <1>2, <2>1 DEF ActiveSessions, Present
  <2>3. Lessens(p[1], sessions[p[1]], sessions'[p[1]])
    BY <2>2, CalmRecords
  <2>4. /\ p[2] \in LivePositions(sessions[p[1]])
        /\ sessions[p[1]].participants[p[2]].user = u
    BY <2>1, <2>3 DEF Lessens, LivePositions
  <2> QED BY <2>2, <2>4 DEF UserSeats
<1> QED BY <1>1, <1>2, <1>3

LimitsOK == RoomOK /\ CapacityHeld

\* Records and seats within the limits stay so in a calm step.
LEMMA CalmLimits ==
  ASSUME IInv, LimitsOK, CalmStore, now' \in Nat, now <= now'
  PROVE  /\ Cardinality(ActiveSessions') <= SessionCapacity
         /\ \A u \in Users : Cardinality(UserSeats(u)') <= PerUserCapacity
<1>0. SessionCapacity \in Nat /\ PerUserCapacity \in Nat
  BY ConfigAssumption
<1>1. Cardinality(ActiveSessions') <= SessionCapacity
  <2>1. ActiveSessions' \subseteq ActiveSessions
    BY CalmCounts
  <2>2. /\ Cardinality(ActiveSessions) \in Nat /\ Cardinality(ActiveSessions') \in Nat
        /\ Cardinality(ActiveSessions') <= Cardinality(ActiveSessions)
    BY <2>1, CountedFinite, NoMore
  <2>3. Cardinality(ActiveSessions) <= SessionCapacity
    BY DEF LimitsOK, CapacityHeld
  <2> QED BY <1>0, <2>2, <2>3
<1>2. ASSUME NEW u \in Users PROVE Cardinality(UserSeats(u)') <= PerUserCapacity
  <2>1. UserSeats(u)' \subseteq UserSeats(u)
    BY CalmCounts
  <2>2. /\ Cardinality(UserSeats(u)) \in Nat /\ Cardinality(UserSeats(u)') \in Nat
        /\ Cardinality(UserSeats(u)') <= Cardinality(UserSeats(u))
    BY <2>1, CountedFinite, NoMore
  <2>3. Cardinality(UserSeats(u)) <= PerUserCapacity
    BY DEF LimitsOK, CapacityHeld
  <2> QED BY <1>0, <2>2, <2>3
<1> QED BY <1>1, <1>2

\* One seat and one active session more, as the admission allowed.
LEMMA SeatLimits ==
  ASSUME LimitsOK, NEW s, NEW u \in Users, NEW p,
         HasUserCapacity(u),
         HasSessionCapacity \/ s \in ActiveSessions,
         ActiveSessions' \subseteq ActiveSessions \cup {s},
         \A v \in Users \ {u} : UserSeats(v)' \subseteq UserSeats(v),
         UserSeats(u)' \subseteq UserSeats(u) \cup {p}
  PROVE  /\ Cardinality(ActiveSessions') <= SessionCapacity
         /\ \A v \in Users : Cardinality(UserSeats(v)') <= PerUserCapacity
<1>0. SessionCapacity \in Nat /\ PerUserCapacity \in Nat
  BY ConfigAssumption
<1>1. ASSUME HasSessionCapacity
      PROVE  Cardinality(ActiveSessions') <= SessionCapacity
  <2>1. /\ Cardinality(ActiveSessions) \in Nat /\ Cardinality(ActiveSessions') \in Nat
        /\ Cardinality(ActiveSessions') <= Cardinality(ActiveSessions) + 1
    BY CountedFinite, OneMore
  <2> QED BY <1>0, <1>1, <2>1 DEF HasSessionCapacity
<1>2. ASSUME s \in ActiveSessions
      PROVE  Cardinality(ActiveSessions') <= SessionCapacity
  <2>1. ActiveSessions' \subseteq ActiveSessions
    BY <1>2
  <2>2. /\ Cardinality(ActiveSessions) \in Nat /\ Cardinality(ActiveSessions') \in Nat
        /\ Cardinality(ActiveSessions') <= Cardinality(ActiveSessions)
    BY <2>1, CountedFinite, NoMore
  <2> QED BY <1>0, <2>2 DEF LimitsOK, CapacityHeld
<1>3. ASSUME NEW v \in Users PROVE Cardinality(UserSeats(v)') <= PerUserCapacity
  <2>1. CASE v = u
    <3>1. /\ Cardinality(UserSeats(u)) \in Nat /\ Cardinality(UserSeats(u)') \in Nat
          /\ Cardinality(UserSeats(u)') <= Cardinality(UserSeats(u)) + 1
      BY CountedFinite, OneMore
    <3>2. Cardinality(UserSeats(u)) < PerUserCapacity
      BY DEF HasUserCapacity
    <3>3. Cardinality(UserSeats(u)') <= PerUserCapacity
      BY <1>0, <3>1, <3>2
    <3> QED BY <2>1, <3>3
  <2>2. CASE v # u
    <3>1. /\ Cardinality(UserSeats(v)) \in Nat /\ Cardinality(UserSeats(v)') \in Nat
          /\ Cardinality(UserSeats(v)') <= Cardinality(UserSeats(v))
      BY <2>2, CountedFinite, NoMore
    <3>2. Cardinality(UserSeats(v)) <= PerUserCapacity
      BY DEF LimitsOK, CapacityHeld
    <3> QED BY <1>0, <3>1, <3>2
  <2> QED BY <2>1, <2>2
<1> QED BY <1>1, <1>2, <1>3

\* join takes one seat in a session that is active already.
LEMMA JoinLimits ==
  ASSUME IInv, LimitsOK, NEW s \in SessionIds, NEW u \in Users, Join(s, u)
  PROVE  LimitsOK'
<1> DEFINE S == sessions[s]
           n == Len(S.participants)
           T == sessions'[s]
<1>1. /\ Present(s) /\ S.state = "OPEN" /\ now' = now /\ runtime' = runtime
      /\ \A r \in SessionIds \ {s} :
           sessions'[r] = sessions[r] /\ purge'[r] = purge[r]
      /\ \/ T = S /\ purge'[s] = purge[s]
         \/ /\ DOMAIN T.participants = DOMAIN S.participants \cup {n + 1}
            /\ \A i \in DOMAIN S.participants : T.participants[i] = S.participants[i]
            /\ T.participants[n + 1].user = u
  BY JoinFacts
<1>2. HasUserCapacity(u) /\ HasRuntimeCapacity
  BY DEF Join
<1> HIDE DEF n
<1>3. s \in ActiveSessions
  BY <1>1 DEF ActiveSessions
<1>4. ActiveSessions' \subseteq ActiveSessions
  BY <1>1, <1>3 DEF ActiveSessions, Present, Created
<1>5. ASSUME NEW v, NEW p \in UserSeats(v)'
      PROVE  p \in UserSeats(v) \/ (v = u /\ p = <<s, n + 1>>)
  <2>1. /\ p \in ActiveSessions \X Positions /\ p[1] \in SessionIds
        /\ p[2] \in LivePositions(sessions'[p[1]])
        /\ sessions'[p[1]].participants[p[2]].user = v
    BY <1>4 DEF UserSeats, ActiveSessions
  <2>2. CASE p[1] # s \/ T = S
    BY <1>1, <2>1, <2>2 DEF UserSeats
  <2>3. CASE p[1] = s /\ T # S
    <3>1. p[2] \in DOMAIN T.participants /\ Live(T.participants[p[2]])
      BY <2>1, <2>3 DEF LivePositions
    <3>2. CASE p[2] = n + 1
      BY <1>1, <2>1, <2>3, <3>2
    <3>3. CASE p[2] \in DOMAIN S.participants
      BY <1>1, <2>1, <2>3, <3>1, <3>3 DEF UserSeats, LivePositions
    <3> QED BY <1>1, <2>3, <3>1, <3>2, <3>3
  <2> QED BY <2>2, <2>3
<1>6. /\ Cardinality(ActiveSessions') <= SessionCapacity
      /\ \A v \in Users : Cardinality(UserSeats(v)') <= PerUserCapacity
  <2> DEFINE p == <<s, n + 1>>
  <2> HIDE DEF p
  <2>1. /\ ActiveSessions' \subseteq ActiveSessions \cup {s}
        /\ \A v \in Users \ {u} : UserSeats(v)' \subseteq UserSeats(v)
        /\ UserSeats(u)' \subseteq UserSeats(u) \cup {p}
    BY <1>4, <1>5 DEF p
  <2> QED BY <1>2, <1>3, <2>1, SeatLimits
<1>7. Runtimes' = Runtimes
  BY <1>1 DEF Runtimes
<1> QED BY <1>2, <1>6, <1>7 DEF LimitsOK, RoomOK, CapacityHeld, HasRuntimeCapacity

\* create takes one seat in one new session.
LEMMA AdmitLimits ==
  ASSUME IInv, LimitsOK, Admit
  PROVE  LimitsOK'
<1>1. now' = now /\ runtime' = runtime /\ Admissible /\ task.user \in Users
  BY AdmitFacts
<1>2. PICK s \in SessionIds :
        /\ \A r \in SessionIds \ {s} :
             sessions'[r] = sessions[r] /\ purge'[r] = purge[r]
        /\ DOMAIN sessions'[s].participants = {1}
        /\ sessions'[s].participants[1].user = task.user
  BY AdmitFacts
<1>3. ActiveSessions' \subseteq ActiveSessions \cup {s}
  BY <1>1, <1>2 DEF ActiveSessions, Present, Created
<1>4. ASSUME NEW v, NEW p \in UserSeats(v)'
      PROVE  p \in UserSeats(v) \/ (v = task.user /\ p = <<s, 1>>)
  <2>1. /\ p \in ActiveSessions' \X Positions /\ p[1] \in SessionIds
        /\ p[2] \in LivePositions(sessions'[p[1]])
        /\ sessions'[p[1]].participants[p[2]].user = v
    BY DEF UserSeats, ActiveSessions
  <2>2. CASE p[1] = s
    BY <1>2, <2>1, <2>2 DEF LivePositions
  <2>3. CASE p[1] # s
    BY <1>2, <1>3, <2>1, <2>3 DEF UserSeats
  <2> QED BY <2>2, <2>3
<1>5. /\ Cardinality(ActiveSessions') <= SessionCapacity
      /\ \A v \in Users : Cardinality(UserSeats(v)') <= PerUserCapacity
  <2> DEFINE p == <<s, 1>>
  <2>0. PICK u \in Users : u = task.user
    BY <1>1
  <2>1. /\ u \in Users /\ HasUserCapacity(u) /\ HasSessionCapacity
        /\ \A v \in Users \ {u} : UserSeats(v)' \subseteq UserSeats(v)
        /\ UserSeats(u)' \subseteq UserSeats(u) \cup {p}
    BY <1>1, <1>4, <2>0 DEF Admissible
  <2> HIDE DEF p
  <2> QED BY <1>3, <2>1, SeatLimits
<1>6. Runtimes' = Runtimes /\ HasRuntimeCapacity
  BY <1>1 DEF Runtimes, Admissible
<1> QED BY <1>5, <1>6 DEF LimitsOK, RoomOK, CapacityHeld, HasRuntimeCapacity

\* Every step keeps the limits.
LEMMA LimitsStep == SInv /\ LimitsOK /\ [Next]_vars => LimitsOK'
<1> SUFFICES ASSUME SInv, LimitsOK, [Next]_vars PROVE LimitsOK'
  OBVIOUS
<1>0. IInv /\ RoleOK /\ now \in Nat /\ RuntimeCapacity \in Nat
  BY ConfigAssumption DEF SInv, IInv, TypeOK
<1>1. ASSUME Calm,
             task'.pc \in {"start", "launch"} => task.pc \in {"start", "launch"}
      PROVE  LimitsOK'
  <2>1. Runtimes' \subseteq Runtimes
    BY <1>1 DEF Runtimes, Calm, CalmRuntimes
  <2>2. /\ Cardinality(Runtimes) \in Nat /\ Cardinality(Runtimes') \in Nat
        /\ Cardinality(Runtimes') <= Cardinality(Runtimes)
    BY <2>1, CountedFinite, NoMore
  <2>3. RoomOK'
    BY <1>0, <1>1, <2>2 DEF LimitsOK, RoomOK
  <2> QED BY <1>0, <1>1, <2>3, CalmLimits DEF LimitsOK, RoomOK, CapacityHeld, Calm
<1>2. CASE Quiet
  BY <1>1, <1>2 DEF Quiet, StartPoints
<1>3. CASE SaveStarting
  BY <1>0, <1>1, <1>3, SaveStartingCalm DEF SaveStarting
<1>4. CASE LaunchRuntime
  <2>1. /\ CalmStore /\ now' = now /\ task'.pc \in {"wait", "cleanup"}
        /\ runtime' = Launched \/ runtime' = runtime
        /\ task.pc = "launch"
    BY <1>0, <1>4, LaunchRuntimeCalm DEF LaunchRuntime
  <2>2. Runtimes' \subseteq Runtimes \cup {Starting}
    BY <1>0, <2>1 DEF Runtimes, Launched, IInv, TypeOK
  <2>3. /\ Cardinality(Runtimes) \in Nat /\ Cardinality(Runtimes') \in Nat
        /\ Cardinality(Runtimes') <= Cardinality(Runtimes) + 1
    BY <2>2, CountedFinite, OneMore
  <2>4. Cardinality(Runtimes) < RuntimeCapacity
    BY <1>4 DEF LaunchRuntime, LimitsOK, RoomOK
  <2>5. RoomOK'
    BY <1>0, <2>1, <2>3, <2>4 DEF RoomOK
  <2> QED BY <1>0, <2>1, <2>5, CalmLimits DEF LimitsOK, RoomOK, CapacityHeld
<1>5. CASE WaitReady \/ ProvisionStream \/ CleanupFailedRuntime
  BY <1>0, <1>1, <1>5, StartCalm
<1>6. CASE \/ Tick \/ UNCHANGED vars
           \/ \E p \in Pids : BecomeUnhealthy(p) \/ RuntimeExits(p)
  BY <1>0, <1>1, <1>6, EnvironmentCalm
<1>7. ASSUME NEW p \in Pids, BecomeHealthy(p) PROVE LimitsOK'
  <2>1. /\ runtime[p] # "absent" /\ runtime' = [runtime EXCEPT ![p] = "healthy"]
        /\ NotStored /\ now' = now /\ task' = task
    BY <1>7 DEF BecomeHealthy, NotStored
  <2>2. Runtimes' = Runtimes
    BY <1>0, <2>1 DEF Runtimes, IInv, TypeOK
  <2>3. RoomOK'
    BY <2>1, <2>2 DEF LimitsOK, RoomOK
  <2> QED BY <1>0, <2>1, <2>3, NotStoredCalm, CalmLimits
       DEF LimitsOK, RoomOK, CapacityHeld
<1>8. CASE \E s \in SessionIds, u \in Users : Join(s, u)
  BY <1>0, <1>8, JoinLimits
<1>9. CASE Admit
  BY <1>0, <1>9, AdmitLimits
<1>10. CASE Plain \/ Restarting
  BY <1>2, <1>10 DEF Plain, Restarting
<1> QED BY <1>0, <1>2, <1>3, <1>4, <1>5, <1>6, <1>7, <1>8, <1>9, <1>10, Kinds

\* Nobody and nothing counts in the beginning.
LEMMA LimitsInit == Init => LimitsOK
<1> SUFFICES ASSUME Init PROVE LimitsOK
  OBVIOUS
<1>1. Runtimes = {} /\ ActiveSessions = {}
  BY DEF Init, Runtimes, ActiveSessions, Present, Created
<1>2. \A u : UserSeats(u) = {}
  BY <1>1 DEF UserSeats
<1>3. task.pc \notin {"start", "launch"}
  BY IdlePoints DEF Init, StartPoints
<1>4. Cardinality({}) = 0
  BY FS_EmptySet
<1>5. RuntimeCapacity \in Nat /\ SessionCapacity \in Nat /\ PerUserCapacity \in Nat
  BY ConfigAssumption
<1> QED BY <1>1, <1>2, <1>3, <1>4, <1>5 DEF LimitsOK, RoomOK, CapacityHeld

\* For every limit, through every failure, crash and restart: neither
\* containers nor active lobbies nor the seats of a user exceed theirs, also
\* while the container of an admitted participant is still to come.
THEOREM CapacitiesHold == Spec => []CapacityHeld
<1>1. LimitsOK => CapacityHeld
  BY DEF LimitsOK
<1> QED BY <1>1, SInvInit, SInvStep, LimitsInit, LimitsStep, PTL DEF Spec

-----------------------------------------------------------------------------
(* No container is forgotten *)

\* Only the clock moves the clock, and not past its bound.
LEMMA ClockBound == now <= MaxTime /\ now \in Nat /\ [Next]_vars => now' <= MaxTime
<1> SUFFICES ASSUME now <= MaxTime, now \in Nat, [Next]_vars PROVE now' <= MaxTime
  OBVIOUS
<1>0. MaxTime \in Nat
  BY BoundsAssumption
<1>1. CASE now' = now
  BY <1>1
<1>2. CASE Tick
  BY <1>0, <1>2 DEF Tick
<1>3. CASE Request
  BY <1>1, <1>3 DEF Request, StartCreate, ExpireOnAccess, Join, Launch, Heartbeat,
                    Leave, Kick, CloseByOwner
<1>4. CASE StartParticipant
  BY <1>1, <1>4 DEF StartParticipant, Admit, RefuseCreate, SaveStarting,
                    LaunchRuntime, WaitReady, ProvisionStream, SaveActive,
                    CleanupFailedRuntime, SaveFailed
<1>5. CASE StartSweep \/ Sweep
  BY <1>1, <1>5 DEF StartSweep, Sweep, SweepSession, SweepDone,
                    InspectParticipant, InspectDone, EvictParticipant
<1>6. CASE Reconcile
  BY <1>1, <1>6 DEF Reconcile, StartProcess, ReconcileSession,
                    ReconcileSessionsDone, ReconcileRuntimes
<1>7. CASE Environment
  BY <1>1, <1>2, <1>7 DEF Environment, Crash, BecomeHealthy, BecomeUnhealthy,
                          RuntimeExits
<1> QED BY <1>1, <1>3, <1>4, <1>5, <1>6, <1>7 DEF Next, vars

\* A calm step takes the container before the seat.
LEMMA CalmAccounted ==
  ASSUME SInv, SInv', AccountedOK, Calm, now' <= MaxTime,
         task'.pc = "failed" => (runtime[Starting])' = "absent"
  PROVE  AccountedOK'
<1>0. IInv /\ IInv' /\ Named /\ CalmStore /\ CalmRuntimes
  BY DEF SInv, Calm
<1>1. ASSUME NEW p \in Pids, runtime'[p] # "absent"
      PROVE  Live(sessions'[p[1]].participants[p[2]])
  <2> DEFINE s == p[1]
             i == p[2]
  <2>1. s \in SessionIds /\ p = <<s, i>> /\ runtime[p] # "absent"
    BY <1>0, <1>1 DEF Pids, CalmRuntimes
  <2>2. /\ Created(s) /\ i \in DOMAIN sessions[s].participants
        /\ Live(sessions[s].participants[i])
    BY <2>1 DEF SInv, Named, AccountedOK, Runtimes
  <2>3. /\ Created(s)' /\ Lessens(s, sessions[s], sessions'[s])
        /\ i \in DOMAIN sessions'[s].participants
    BY <1>0, <2>1, <2>2, CalmRecords
  <2> DEFINE q == sessions'[s].participants[i]
  <2>4. q.state # "LEFT"
    BY <1>0, <1>1, <2>1, <2>3 DEF IInv, GoneOK
  <2>5. q.state # "ERROR"
    <3>1. SUFFICES ASSUME q.state = "ERROR" PROVE FALSE
      OBVIOUS
    <3>2. sessions[s].participants[i].state # "ERROR"
      BY <2>2 DEF Live
    <3>3. \/ runtime'[<<s, i>>] = "absent"
          \/ task.pc = "failed" /\ <<s, i>> = Starting
      BY <2>2, <2>3, <3>1, <3>2 DEF Lessens
    <3> QED BY <1>1, <2>1, <3>3 DEF AccountedOK
  <2> QED BY <2>4, <2>5 DEF Live
<1>2. ASSUME NEW s \in SessionIds, Created(s)' PROVE purge'[s] >= Retention
  BY <1>0, <1>2, CalmRecords DEF AccountedOK, CalmStore
<1> QED BY <1>1, <1>2 DEF AccountedOK, Runtimes

\* join and create add people without containers.
LEMMA SeatAccounted ==
  ASSUME SInv, AccountedOK, NEW s \in SessionIds,
         runtime' = runtime, now' <= MaxTime, task'.pc # "failed",
         \A r \in SessionIds \ {s} : sessions'[r] = sessions[r] /\ purge'[r] = purge[r],
         Created(s) =>
           \A i \in DOMAIN sessions[s].participants :
             sessions'[s].participants[i] = sessions[s].participants[i],
         \/ purge'[s] >= Retention
         \/ sessions'[s] = sessions[s] /\ purge'[s] = purge[s]
  PROVE  AccountedOK'
<1>1. ASSUME NEW p \in Pids, runtime[p] # "absent"
      PROVE  Live(sessions'[p[1]].participants[p[2]])
  <2>1. /\ p[1] \in SessionIds /\ Created(p[1])
        /\ p[2] \in DOMAIN sessions[p[1]].participants
        /\ Live(sessions[p[1]].participants[p[2]])
    BY <1>1 DEF SInv, Named, AccountedOK, Runtimes, Pids
  <2> QED BY <2>1
<1>2. ASSUME NEW r \in SessionIds, Created(r)' PROVE purge'[r] >= Retention
  BY <1>2 DEF AccountedOK, Created
<1> QED BY <1>1, <1>2 DEF AccountedOK, Runtimes

\* While the Runtime Agent answers, every step keeps account.
LEMMA AccountedStep ==
  ASSUME "agent" \notin FaultKinds
  PROVE  SInv /\ SInv' /\ AccountedOK /\ [Next]_vars => AccountedOK'
<1> SUFFICES ASSUME SInv, SInv', AccountedOK, [Next]_vars PROVE AccountedOK'
  OBVIOUS
<1>0. /\ IInv /\ RoleOK /\ task \in Task /\ now' <= MaxTime
      /\ runtime \in [Pids -> RuntimeState]
  BY ClockBound DEF SInv, IInv, TypeOK, AccountedOK
<1>1. ASSUME Calm, task'.pc # "failed" PROVE AccountedOK'
  BY <1>0, <1>1, CalmAccounted
<1>2. CASE Quiet
  BY <1>1, <1>2 DEF Quiet, StartPoints
<1>3. CASE SaveStarting
  <2>1. Calm /\ (task' = Idle \/ Goto("launch"))
    BY <1>0, <1>3, SaveStartingCalm
  <2>2. task'.pc # "failed"
    BY <1>0, <2>1, IdlePoints DEF Goto, Task
  <2> QED BY <1>1, <2>1, <2>2
<1>4. CASE LaunchRuntime
  <2>1. /\ CalmStore /\ sessions' = sessions /\ now' = now
        /\ runtime' = Launched \/ runtime' = runtime
        /\ task'.pc # "failed"
    BY <1>0, <1>4, LaunchRuntimeCalm
  <2>2. /\ Starting \in Pids /\ Starting[1] = task.sid /\ Starting[2] = task.pos
        /\ Live(sessions[task.sid].participants[task.pos])
    BY <1>0, <1>4, StartFacts
       DEF LaunchRuntime, StartPoints, StartMember, StartSession, Live, Starting
  <2>3. \A p \in Pids : runtime'[p] = runtime[p] \/ p = Starting
    BY <1>0, <2>1 DEF Launched
  <2>4. \A p \in Pids : runtime'[p] # "absent" =>
          Live(sessions'[p[1]].participants[p[2]])
    BY <2>1, <2>2, <2>3 DEF AccountedOK, Runtimes
  <2>5. \A s \in SessionIds : Created(s)' => purge'[s] >= Retention
    BY <2>1 DEF CalmStore, AccountedOK, Created
  <2> QED BY <1>0, <2>1, <2>4, <2>5 DEF AccountedOK, Runtimes
<1>5. CASE WaitReady \/ ProvisionStream
  <2>1. Calm
    BY <1>0, <1>5, StartCalm
  <2>2. task'.pc # "failed"
    BY <1>0, <1>5 DEF WaitReady, ProvisionStream, Goto, Task
  <2> QED BY <1>1, <2>1, <2>2
<1>6. CASE CleanupFailedRuntime
  <2>1. /\ Calm /\ task'.sid = task.sid /\ task'.pos = task.pos
        /\ task.pc \in StartPoints
    BY <1>0, <1>6, StartCalm
  <2>2. Starting \in Pids /\ Starting' = Starting
    BY <1>0, <2>1, StartFacts DEF Starting
  <2>3. Retire({Starting})
    BY <1>6 DEF CleanupFailedRuntime, RetireFails, Fault
  <2>4. (runtime[Starting])' = "absent"
    BY <2>2, <2>3 DEF Retire
  <2> QED BY <1>0, <2>1, <2>4, CalmAccounted
<1>7. CASE \/ Tick \/ UNCHANGED vars
           \/ \E p \in Pids : BecomeUnhealthy(p) \/ RuntimeExits(p)
  <2>1. Calm /\ task' = task
    BY <1>0, <1>7, EnvironmentCalm
  <2>2. task'.pc = "failed" => (runtime[Starting])' = "absent"
    <3> SUFFICES ASSUME task.pc = "failed" PROVE runtime'[Starting] = "absent"
      BY <2>1 DEF Starting
    <3>1. runtime[Starting] = "absent" /\ Starting \in Pids
      BY <1>0, StartFacts DEF AccountedOK, StartPoints
    <3> QED BY <2>1, <3>1 DEF Calm, CalmRuntimes
  <2> QED BY <1>0, <2>1, <2>2, CalmAccounted
<1>8. ASSUME NEW p \in Pids, BecomeHealthy(p) PROVE AccountedOK'
  <2>1. /\ sessions' = sessions /\ purge' = purge /\ task' = task
        /\ runtime[p] # "absent" /\ runtime' = [runtime EXCEPT ![p] = "healthy"]
    BY <1>8 DEF BecomeHealthy
  <2>2. \A q \in Pids : runtime'[q] = "absent" <=> runtime[q] = "absent"
    BY <1>0, <2>1
  <2>3. task.pc = "failed" => Starting \in Pids
    BY <1>0, StartFacts DEF StartPoints
  <2>4. Starting' = Starting
    BY <2>1 DEF Starting
  <2> QED BY <1>0, <2>1, <2>2, <2>3, <2>4 DEF AccountedOK, Runtimes, Created
<1>9. ASSUME NEW s \in SessionIds, NEW u \in Users, Join(s, u) PROVE AccountedOK'
  <2>1. /\ runtime' = runtime
        /\ \A r \in SessionIds \ {s} :
             sessions'[r] = sessions[r] /\ purge'[r] = purge[r]
        /\ \/ sessions'[s] = sessions[s] /\ purge'[s] = purge[s] /\ task' = Idle
           \/ /\ \A i \in DOMAIN sessions[s].participants :
                   sessions'[s].participants[i] = sessions[s].participants[i]
              /\ purge'[s] >= Retention
              /\ task' = Idle \/ task'.pc = "start"
    BY <1>0, <1>9, JoinFacts
  <2>2. task'.pc # "failed"
    BY <2>1, IdlePoints
  <2> QED BY <1>0, <2>1, <2>2, SeatAccounted
<1>10. CASE Admit
  <2>1. runtime' = runtime
    BY <1>0, <1>10, AdmitFacts
  <2>2. PICK s \in SessionIds :
          /\ ~Created(s)
          /\ \A r \in SessionIds \ {s} :
               sessions'[r] = sessions[r] /\ purge'[r] = purge[r]
          /\ purge'[s] >= Retention
          /\ task' = Idle \/ task'.pc = "start"
    BY <1>0, <1>10, AdmitFacts
  <2>3. task'.pc # "failed"
    BY <2>2, IdlePoints
  <2> QED BY <1>0, <2>1, <2>2, <2>3, SeatAccounted
<1>11. CASE Plain \/ Restarting
  BY <1>2, <1>11 DEF Plain, Restarting
<1> QED BY <1>0, <1>2, <1>3, <1>4, <1>5, <1>6, <1>7, <1>8, <1>9, <1>10, <1>11, Kinds

\* While the Runtime Agent answers and until the first key expires, whatever
\* else fails: every container belongs to somebody who still holds a seat in a
\* stored session, so a sweep, a close or a restart finds it.
THEOREM NothingForgotten ==
  ASSUME "agent" \notin FaultKinds, MaxTime < Retention
  PROVE  Spec => []RuntimesAccounted
<1>1. Init => AccountedOK
  <2> SUFFICES ASSUME Init PROVE AccountedOK
    OBVIOUS
  <2>1. /\ Runtimes = {} /\ now <= MaxTime
        /\ \A s \in SessionIds : ~Created(s)
    BY BoundsAssumption DEF Init, Runtimes, Created
  <2>2. task.pc # "failed"
    BY IdlePoints DEF Init
  <2> QED BY <2>1, <2>2 DEF AccountedOK
<1>2. SInv /\ SInv' /\ AccountedOK /\ [Next]_vars => AccountedOK'
  BY AccountedStep
<1>3. SInv /\ AccountedOK => RuntimesAccounted
  <2> SUFFICES ASSUME SInv, AccountedOK, NEW p \in Pids, runtime[p] # "absent"
               PROVE  Present(p[1]) /\ p[2] \in LivePositions(sessions[p[1]])
    BY DEF RuntimesAccounted, Runtimes
  <2>1. /\ p[1] \in SessionIds /\ Created(p[1])
        /\ p[2] \in DOMAIN sessions[p[1]].participants
        /\ Live(sessions[p[1]].participants[p[2]])
    BY DEF SInv, Named, AccountedOK, Runtimes, Pids
  <2>2. /\ now \in Nat /\ purge[p[1]] \in Nat /\ MaxTime \in Nat
        /\ Retention \in Nat
    BY <2>1, BoundsAssumption, ConfigAssumption DEF SInv, IInv, TypeOK
  <2>3. now < purge[p[1]]
    BY <2>1, <2>2 DEF AccountedOK
  <2> QED BY <2>1, <2>3 DEF Present, LivePositions
<1> QED BY <1>1, <1>2, <1>3, SInvInit, SInvStep, PTL DEF Spec

-----------------------------------------------------------------------------
(* Records that can be read back *)

\* Everybody in the stored record of s is at rest, but for some positions.
AtRest(s, but) ==
  Present(s) =>
    \A i \in DOMAIN sessions[s].participants \ but :
      sessions[s].participants[i].state \in Rest

\* No user holds two seats of one session.
UniqueUsers(S) ==
  \A i, j \in LivePositions(S) :
    i # j => S.participants[i].user # S.participants[j].user

\* A store that never fails leaves nobody halfway.
DecodeOK ==
  /\ \A s \in SessionIds : Created(s) => UniqueUsers(sessions[s])
  /\ "store" \notin FaultKinds => SettledOK

\* Slots are distinct, so whoever holds a seat finds room for it.
LEMMA UniqueDecodes ==
  ASSUME NEW S, RecordOK(S), UniqueUsers(S)
  PROVE  consistent_participants(S)
<1> DEFINE L == LivePositions(S)
           f == [i \in L |-> S.participants[i].slot]
<1>1. L \subseteq DOMAIN S.participants /\ S.players \in Nat
  BY DEF LivePositions, RecordOK, Session
<1>2. \A i \in L : S.participants[i].slot \in 1..S.players
  BY <1>1 DEF RecordOK
<1>3. \A i, j \in L : i # j => S.participants[i].slot # S.participants[j].slot
  BY DEF RecordOK
<1>4. f \in Injection(L, 1..S.players)
  <2>1. f \in [L -> 1..S.players]
    BY <1>2
  <2>2. \A i, j \in L : f[i] = f[j] => i = j
    BY <1>3
  <2> HIDE DEF f
  <2> QED BY <2>1, <2>2 DEF Injection, IsInjective
<1>5. IsFiniteSet(1..S.players) /\ Cardinality(1..S.players) = S.players
  <2> DEFINE n == S.players
  <2>1. n \in Nat /\ 1 \in Int /\ n \in Int
    BY <1>1
  <2> HIDE DEF n
  <2>2. /\ IsFiniteSet(1..n)
        /\ Cardinality(1..n) = IF 1 > n THEN 0 ELSE n - 1 + 1
    BY <2>1, FS_Interval
  <2>3. Cardinality(1..n) = n
    BY <2>1, <2>2
  <2> QED BY <2>2, <2>3 DEF n
<1> HIDE DEF f
<1>6. Cardinality(L) <= S.players
  BY <1>4, <1>5, FS_Injection
<1>7. \A i \in L : S.participants[i].slot <= S.players
  BY <1>1, <1>2
<1> QED BY <1>3, <1>6, <1>7 DEF UniqueUsers, consistent_participants, player_count

\* Calm steps give nobody a second seat.
LEMMA CalmUnique ==
  ASSUME IInv, CalmStore, NEW s \in SessionIds, Created(s),
         UniqueUsers(sessions[s])
  PROVE  UniqueUsers(sessions'[s])
<1>1. Lessens(s, sessions[s], sessions'[s])
  BY CalmRecords
<1>2. ASSUME NEW i \in LivePositions(sessions'[s])
      PROVE  /\ i \in LivePositions(sessions[s])
             /\ sessions'[s].participants[i].user = sessions[s].participants[i].user
  BY <1>1 DEF Lessens, LivePositions
<1> QED BY <1>2 DEF UniqueUsers

\* Calm steps leave at rest who was.
LEMMA CalmRest ==
  ASSUME IInv, CalmStore, now' \in Nat, now <= now',
         NEW s \in SessionIds, NEW but, AtRest(s, but)
  PROVE  AtRest(s, but)'
<1> SUFFICES ASSUME Present(s)', NEW i \in DOMAIN sessions'[s].participants \ but
             PROVE  sessions'[s].participants[i].state \in Rest
  BY DEF AtRest
<1>1. Present(s) /\ Lessens(s, sessions[s], sessions'[s])
  BY CalmCounts, CalmRecords DEF Present
<1>2. i \in DOMAIN sessions[s].participants
  BY <1>1 DEF Lessens
<1>3. sessions[s].participants[i].state \in Rest
  BY <1>1, <1>2 DEF AtRest
<1> QED BY <1>1, <1>2, <1>3 DEF Lessens

\* The same, where nobody is excepted.
LEMMA CalmAllRest ==
  ASSUME IInv, CalmStore, now' \in Nat, now <= now',
         NEW s \in SessionIds, AtRest(s, {})
  PROVE  AtRest(s, {})'
<1>1. PICK but : but = {}
  OBVIOUS
<1>2. AtRest(s, but)
  BY <1>1 DEF AtRest
<1>3. AtRest(s, but)'
  BY <1>2, CalmRest
<1> QED BY <1>1, <1>3 DEF AtRest

\* Where everybody is at rest, also in a closed record.
LEMMA SettledRest ==
  ASSUME IInv, NEW s \in SessionIds
  PROVE  Settled(s) <=> AtRest(s, {})
<1>1. ASSUME Present(s), sessions[s].state = "CLOSED",
             NEW i \in DOMAIN sessions[s].participants
      PROVE  sessions[s].participants[i].state \in Rest
  <2>1. LivePositions(sessions[s]) = {}
    BY <1>1 DEF IInv, StoreOK, RecordOK, Present
  <2> QED BY <1>1, <2>1 DEF LivePositions, Live, Rest
<1> QED BY <1>1 DEF Settled, AtRest

\* Who is not at rest is the participant a thread works on.
LEMMA OthersRest ==
  ASSUME IInv, SettledOK, task.pc \notin {"down", "reconcile"},
         NEW s \in SessionIds
  PROVE  \/ AtRest(s, {})
         \/ /\ task.pc \in StartPoints /\ s = task.sid
            /\ AtRest(s, {task.pos})
<1>1. Settled(s) => AtRest(s, {})
  BY SettledRest
<1> QED BY <1>1 DEF SettledOK, AtRest

\* A step after which everybody is at rest, or the process is down.
LEMMA AllRest ==
  ASSUME IInv', \A s \in SessionIds : AtRest(s, {})'
  PROVE  SettledOK'
<1>1. \A s \in SessionIds : Present(s)' /\ sessions'[s].state # "CLOSED" =>
        \A i \in DOMAIN sessions'[s].participants :
          sessions'[s].participants[i].state \in Rest
  BY DEF AtRest
<1> QED BY <1>1 DEF SettledOK, Settled

\* A step of a start that goes on.
LEMMA StartRest ==
  ASSUME IInv, SettledOK, CalmStore, now' \in Nat, now <= now',
         task.pc \in StartPoints, task'.pc \in StartPoints,
         task'.sid = task.sid, task'.pos = task.pos
  PROVE  SettledOK'
<1>1. ASSUME NEW s \in SessionIds
      PROVE  AtRest(s, {})' \/ (s = task.sid /\ AtRest(s, {task.pos})')
  <2>1. task.pc \notin {"down", "reconcile"}
    BY DEF StartPoints
  <2>2. CASE AtRest(s, {})
    BY <2>2, CalmAllRest
  <2>3. CASE s = task.sid /\ AtRest(s, {task.pos})
    <3>1. PICK but : but = {task.pos}
      OBVIOUS
    <3>2. AtRest(s, but)
      BY <2>3, <3>1 DEF AtRest
    <3>3. AtRest(s, but)'
      BY <3>2, CalmRest
    <3> QED BY <2>3, <3>1, <3>3 DEF AtRest
  <2> QED BY <2>1, <2>2, <2>3, OthersRest
<1>2. ASSUME NEW s \in SessionIds
      PROVE  \/ Settled(s)'
             \/ /\ s = task'.sid
                /\ Present(s)' =>
                     \A i \in DOMAIN sessions'[s].participants \ {task'.pos} :
                       sessions'[s].participants[i].state \in Rest
  BY <1>1 DEF AtRest, Settled
<1> QED BY <1>2 DEF SettledOK

\* Where no start is under way everybody is at rest.
LEMMA IdleRest ==
  ASSUME IInv, SettledOK, task.pc \notin StartPoints \cup {"down", "reconcile"},
         NEW s \in SessionIds
  PROVE  AtRest(s, {})
<1>1. Settled(s)
  BY DEF SettledOK
<1> QED BY <1>1, SettledRest

\* A quiet step of a process that serves and starts nobody.
LEMMA PlainRest ==
  ASSUME IInv, IInv', SettledOK, Plain
  PROVE  SettledOK'
<1>1. ASSUME NEW s \in SessionIds PROVE AtRest(s, {})'
  <2>1. AtRest(s, {})
    BY IdleRest DEF Plain
  <2> QED BY <2>1, CalmAllRest DEF Plain, Quiet, Calm
<1> QED BY <1>1, AllRest

\* The last step of a start leaves its participant at rest too.
LEMMA EndRest ==
  ASSUME IInv, IInv', RoleOK, SettledOK, "store" \notin FaultKinds,
         SaveActive \/ SaveFailed
  PROVE  SettledOK'
<1>1. /\ Quiet /\ task.pc \in {"activate", "failed"}
      /\ Present(task.sid) =>
           sessions'[task.sid].participants[task.pos].state \in Rest
  BY SaveActiveCalm, SaveFailedCalm DEF SaveActive, SaveFailed
<1>2. CalmStore /\ now' \in Nat /\ now <= now'
  BY <1>1 DEF Quiet, Calm
<1>3. ASSUME NEW s \in SessionIds PROVE AtRest(s, {})'
  <2>1. CASE AtRest(s, {})
    BY <1>2, <2>1, CalmAllRest
  <2>2. CASE s = task.sid /\ AtRest(s, {task.pos})
    <3>1. PICK but : but = {task.pos}
      OBVIOUS
    <3>2. AtRest(s, but)
      BY <2>2, <3>1 DEF AtRest
    <3>3. AtRest(s, but)'
      BY <1>2, <3>2, CalmRest
    <3>4. Present(s)' => Present(s)
      BY <1>2, CalmCounts
    <3> QED BY <1>1, <2>2, <3>1, <3>3, <3>4 DEF AtRest
  <2> QED BY <1>1, <2>1, <2>2, OthersRest
<1> QED BY <1>3, AllRest

\* A save that starts the participant's container is refused only for a record
\* that is gone.
LEMMA SaveStartingRest ==
  ASSUME IInv, IInv', RoleOK, SettledOK, "store" \notin FaultKinds, SaveStarting
  PROVE  SettledOK'
<1>1. /\ task \in Task /\ task.pc = "start" /\ task.pc \in StartPoints
  BY DEF SaveStarting, StartPoints, IInv, TypeOK
<1>2. /\ Calm
      /\ ~Present(task.sid) \/ Goto("launch")
  BY SaveStartingCalm
<1>3. CASE Goto("launch")
  <2>1. /\ task'.pc \in StartPoints
        /\ task'.sid = task.sid /\ task'.pos = task.pos
    BY <1>1, <1>3 DEF Goto, Task, StartPoints
  <2> QED BY <1>1, <1>2, <2>1, StartRest DEF Calm
<1>4. CASE ~Present(task.sid)
  <2>1. ASSUME NEW s \in SessionIds PROVE AtRest(s, {})'
    <3>1. AtRest(s, {})
      BY <1>1, <1>4, OthersRest DEF AtRest
    <3> QED BY <1>2, <3>1, CalmAllRest DEF Calm
  <2> QED BY <2>1, AllRest
<1> QED BY <1>2, <1>3, <1>4

\* A process that dies leaves a start halfway; the next one closes every
\* session before it serves anybody.
LEMMA RestartRest ==
  ASSUME IInv, IInv', SettledOK, Restarting
  PROVE  SettledOK'
<1>1. CalmStore /\ now' \in Nat /\ now <= now' /\ task \in Task
  BY DEF Restarting, Quiet, Calm, IInv, TypeOK
<1>2. CASE task'.pc = "down"
  BY <1>2 DEF SettledOK
<1>3. CASE Crash
  BY <1>2, <1>3, IdlePoints DEF Crash
<1>4. CASE StartProcess
  <2>1. /\ task'.pc = "reconcile" /\ task'.todo = NotClosed
        /\ sessions' = sessions /\ purge' = purge /\ now' = now
    BY <1>4 DEF StartProcess, Idle
  <2>2. \A s \in SessionIds : s \in task'.todo \/ Settled(s)'
    BY <2>1 DEF NotClosed, Settled, Present, Created
  <2> QED BY <2>1, <2>2 DEF SettledOK
<1>5. CASE ReconcileSessionsDone
  <2>1. task.pc = "reconcile" /\ task.todo = {}
    BY <1>5 DEF ReconcileSessionsDone
  <2>2. ASSUME NEW s \in SessionIds PROVE AtRest(s, {})'
    <3>1. Settled(s)
      BY <2>1 DEF SettledOK, StartPoints
    <3> QED BY <1>1, <3>1, SettledRest, CalmAllRest
  <2> QED BY <2>2, AllRest
<1>6. CASE ReconcileSession
  <2>1. task.pc = "reconcile"
    BY <1>6 DEF ReconcileSession
  <2>2. PICK r \in task.todo :
          Close(r, "manager_restarted", [task EXCEPT !.todo = @ \ {r}], Down)
    BY <1>6 DEF ReconcileSession
  <2>3. r \in SessionIds /\ Created(r)
    BY <1>1, <2>2 DEF Task, IInv, TaskOK
  <2>4. \/ task' = Down
        \/ /\ task' = [task EXCEPT !.todo = @ \ {r}]
           /\ sessions'[r].state = "CLOSED"
    <3> DEFINE S == sessions[r]
               T == Closed(S, "manager_restarted", now)
    <3>1. S \in Session
      BY <2>3 DEF IInv, StoreOK, RecordOK
    <3>2. T.state = "CLOSED"
      BY <3>1 DEF Closed, Session
    <3>3. \/ task' = Down
          \/ /\ task' = [task EXCEPT !.todo = @ \ {r}]
             /\ Save(r, T)
      BY <2>2 DEF Close, RetireThenSave
    <3> HIDE DEF T
    <3>4. Save(r, T) => sessions'[r] = T
      BY <2>3 DEF Save, Stored, IInv, TypeOK
    <3> QED BY <3>2, <3>3, <3>4
  <2>5. CASE task' = Down
    BY <1>2, <2>5, IdlePoints
  <2>6. CASE task' = [task EXCEPT !.todo = @ \ {r}] /\ sessions'[r].state = "CLOSED"
    <3>1. task'.pc = "reconcile" /\ task'.todo = task.todo \ {r}
      BY <1>1, <2>1, <2>6 DEF Task
    <3>2. ASSUME NEW s \in SessionIds PROVE s \in task'.todo \/ Settled(s)'
      <4>1. CASE s = r
        BY <2>6, <4>1 DEF Settled
      <4>2. CASE s # r /\ s \notin task.todo
        <5>1. Settled(s)
          BY <2>1, <4>2 DEF SettledOK, StartPoints
        <5>2. AtRest(s, {})'
          BY <1>1, <5>1, SettledRest, CalmAllRest
        <5> QED BY <5>2 DEF AtRest, Settled
      <4> QED BY <3>1, <4>1, <4>2
    <3> QED BY <3>1, <3>2 DEF SettledOK
  <2> QED BY <2>4, <2>5, <2>6
<1> QED BY <1>3, <1>4, <1>5, <1>6 DEF Restarting

\* join and create add one participant, and start it at once.
LEMMA SeatRest ==
  ASSUME IInv, IInv', SettledOK, NEW s \in SessionIds, NEW i,
         task.pc \notin StartPoints \cup {"down", "reconcile"}, now' = now,
         \A r \in SessionIds \ {s} : sessions'[r] = sessions[r] /\ purge'[r] = purge[r],
         \/ sessions'[s] = sessions[s] /\ purge'[s] = purge[s]
         \/ /\ \A j \in DOMAIN sessions'[s].participants \ {i} :
                 /\ Present(s) /\ j \in DOMAIN sessions[s].participants
                 /\ sessions'[s].participants[j] = sessions[s].participants[j]
            /\ task'.pc = "start" /\ task'.sid = s /\ task'.pos = i
  PROVE  SettledOK'
<1>1. \A r \in SessionIds : Settled(r) /\ AtRest(r, {})
  BY IdleRest, SettledRest
<1>2. \A r \in SessionIds : sessions'[r] = sessions[r] /\ purge'[r] = purge[r] =>
                              Settled(r)'
  BY <1>1 DEF Settled, Present, Created
<1>3. ASSUME \A j \in DOMAIN sessions'[s].participants \ {i} :
               /\ Present(s) /\ j \in DOMAIN sessions[s].participants
               /\ sessions'[s].participants[j] = sessions[s].participants[j]
      PROVE  \A j \in DOMAIN sessions'[s].participants \ {i} :
               sessions'[s].participants[j].state \in Rest
  BY <1>1, <1>3 DEF AtRest
<1> QED BY <1>2, <1>3 DEF SettledOK, StartPoints

\* Every step keeps it, if the store does not fail.
LEMMA SettledStep ==
  ASSUME "store" \notin FaultKinds
  PROVE  SInv /\ SInv' /\ SettledOK /\ [Next]_vars => SettledOK'
<1> SUFFICES ASSUME SInv, SInv', SettledOK, [Next]_vars PROVE SettledOK'
  OBVIOUS
<1>0. IInv /\ IInv' /\ RoleOK /\ task \in Task
  BY DEF SInv, IInv, TypeOK
<1>1. CASE Plain
  BY <1>0, <1>1, PlainRest
<1>2. CASE Restarting
  BY <1>0, <1>2, RestartRest
<1>3. CASE SaveActive \/ SaveFailed
  BY <1>0, <1>3, EndRest
<1>4. CASE SaveStarting
  BY <1>0, <1>4, SaveStartingRest
<1>5. CASE LaunchRuntime
  <2>1. /\ CalmStore /\ now' = now /\ task'.pc \in StartPoints
        /\ task'.sid = task.sid /\ task'.pos = task.pos /\ now \in Nat
        /\ task.pc \in StartPoints
    BY <1>0, <1>5, LaunchRuntimeCalm DEF StartPoints, LaunchRuntime, IInv, TypeOK
  <2> QED BY <1>0, <2>1, StartRest
<1>6. CASE WaitReady \/ ProvisionStream \/ CleanupFailedRuntime
  BY <1>0, <1>6, StartCalm, StartRest DEF Calm
<1>7. ASSUME Calm, UNCHANGED <<sessions, purge, task>> PROVE SettledOK'
  <2>1. \A s \in SessionIds : Present(s)' => Present(s)
    BY <1>0, <1>7, CalmCounts DEF Calm
  <2>2. \A s \in SessionIds : Settled(s) => Settled(s)'
    BY <1>7, <2>1 DEF Settled
  <2> QED BY <1>7, <2>1, <2>2 DEF SettledOK
<1>8. CASE \/ Tick \/ UNCHANGED vars
           \/ \E p \in Pids : BecomeUnhealthy(p) \/ RuntimeExits(p)
  BY <1>0, <1>7, <1>8, EnvironmentCalm
<1>9. CASE \E p \in Pids : BecomeHealthy(p)
  BY <1>9 DEF BecomeHealthy, SettledOK, Settled, Present, Created
<1>10. ASSUME NEW s \in SessionIds, NEW u \in Users, Join(s, u) PROVE SettledOK'
  <2> DEFINE n == Len(sessions[s].participants)
  <2>1. /\ Present(s) /\ task.pc = "idle" /\ now' = now
        /\ \A r \in SessionIds \ {s} :
             sessions'[r] = sessions[r] /\ purge'[r] = purge[r]
        /\ \/ sessions'[s] = sessions[s] /\ purge'[s] = purge[s]
           \/ /\ DOMAIN sessions'[s].participants =
                   DOMAIN sessions[s].participants \cup {n + 1}
              /\ \A i \in DOMAIN sessions[s].participants :
                   sessions'[s].participants[i] = sessions[s].participants[i]
              /\ \/ Fault("store")
                 \/ /\ task'.pc = "start"
                    /\ task'.sid = s /\ task'.pos = n + 1
    BY <1>0, <1>10, JoinFacts
  <2>2. PICK i : i = n + 1
    OBVIOUS
  <2> HIDE DEF n
  <2>3. \/ sessions'[s] = sessions[s] /\ purge'[s] = purge[s]
        \/ /\ \A j \in DOMAIN sessions'[s].participants \ {i} :
                /\ Present(s) /\ j \in DOMAIN sessions[s].participants
                /\ sessions'[s].participants[j] = sessions[s].participants[j]
           /\ task'.pc = "start" /\ task'.sid = s /\ task'.pos = i
    BY <2>1, <2>2 DEF Fault
  <2> QED BY <1>0, <2>1, <2>3, SeatRest DEF StartPoints
<1>11. CASE Admit
  <2>1. task.pc = "admit" /\ now' = now
    BY <1>0, <1>11, AdmitFacts
  <2>2. PICK s \in SessionIds :
          /\ \A r \in SessionIds \ {s} :
               sessions'[r] = sessions[r] /\ purge'[r] = purge[r]
          /\ DOMAIN sessions'[s].participants = {1}
          /\ \/ Fault("store")
             \/ task'.pc = "start" /\ task'.sid = s /\ task'.pos = 1
    BY <1>0, <1>11, AdmitFacts
  <2>3. PICK i : i = 1
    OBVIOUS
  <2>4. /\ DOMAIN sessions'[s].participants \ {i} = {}
        /\ task'.pc = "start" /\ task'.sid = s /\ task'.pos = i
    BY <2>2, <2>3 DEF Fault
  <2> QED BY <1>0, <2>1, <2>2, <2>4, SeatRest DEF StartPoints
<1> QED BY <1>0, <1>1, <1>2, <1>3, <1>4, <1>5, <1>6, <1>8, <1>9, <1>10, <1>11, Kinds

\* Who joins has no seat in the session yet: with one seat for a user anywhere
\* the admission says so, and where everybody is at rest join itself does.
LEMMA JoinerIsNew ==
  ASSUME PerUserCapacity = 1 \/ "store" \notin FaultKinds,
         SInv, DecodeOK, NEW s \in SessionIds, NEW u \in Users, Join(s, u),
         NEW i \in LivePositions(sessions[s])
  PROVE  sessions[s].participants[i].user # u
<1>0. IInv
  BY DEF SInv
<1>1. /\ Present(s) /\ sessions[s].state = "OPEN" /\ task.pc = "idle"
      /\ i \in DOMAIN sessions[s].participants
  BY <1>0, JoinFacts DEF LivePositions
<1>2. CASE PerUserCapacity = 1
  <2>1. SUFFICES ASSUME sessions[s].participants[i].user = u PROVE FALSE
    OBVIOUS
  <2>2. <<s, i>> \in UserSeats(u)
    <3>1. i \in Positions
      BY <1>0, <1>1, PositionsInPids DEF Present
    <3> QED BY <1>1, <2>1, <3>1 DEF UserSeats, ActiveSessions
  <2>3. IsFiniteSet(UserSeats(u))
    BY CountedFinite
  <2>4. Cardinality(UserSeats(u)) # 0 /\ Cardinality(UserSeats(u)) \in Nat
    BY <2>2, <2>3, FS_EmptySet, FS_CardinalityType
  <2>5. Cardinality(UserSeats(u)) < 1
    BY <1>2 DEF Join, HasUserCapacity
  <2> QED BY <2>4, <2>5
<1>3. CASE "store" \notin FaultKinds
  <2>1. Settled(s)
    BY <1>1, <1>3 DEF DecodeOK, SettledOK, StartPoints
  <2>2. sessions[s].participants[i].state \in Rest
    BY <1>1, <2>1 DEF Settled
  <2>3. i \in ActivePositions(sessions[s])
    BY <1>1, <2>2 DEF ActivePositions, LivePositions, Live, Rest
  <2> QED BY <2>3 DEF Join
<1> QED BY <1>2, <1>3

\* Every step keeps the records such that they can be read back.
LEMMA DecodeStep ==
  ASSUME PerUserCapacity = 1 \/ "store" \notin FaultKinds
  PROVE  SInv /\ SInv' /\ DecodeOK /\ [Next]_vars => DecodeOK'
<1> SUFFICES ASSUME SInv, SInv', DecodeOK, [Next]_vars PROVE DecodeOK'
  OBVIOUS
<1>0. IInv /\ RoleOK /\ now \in Nat
  BY DEF SInv, IInv, TypeOK
<1>1. "store" \notin FaultKinds => SettledOK'
  BY SettledStep DEF DecodeOK
<1>2. SUFFICES ASSUME NEW r \in SessionIds, Created(r)'
               PROVE  UniqueUsers(sessions'[r])
  BY <1>1 DEF DecodeOK
<1>3. CASE CalmStore
  BY <1>0, <1>2, <1>3, CalmRecords, CalmUnique DEF DecodeOK
<1>4. CASE sessions' = sessions
  BY <1>2, <1>4 DEF DecodeOK, Created
<1>5. ASSUME NEW s \in SessionIds, NEW u \in Users, Join(s, u)
      PROVE  UniqueUsers(sessions'[r])
  <2> DEFINE n == Len(sessions[s].participants)
  <2>1. /\ Created(s)
        /\ \A q \in SessionIds \ {s} : sessions'[q] = sessions[q]
        /\ \/ sessions'[s] = sessions[s]
           \/ /\ DOMAIN sessions'[s].participants =
                   DOMAIN sessions[s].participants \cup {n + 1}
              /\ \A i \in DOMAIN sessions[s].participants :
                   sessions'[s].participants[i] = sessions[s].participants[i]
              /\ sessions'[s].participants[n + 1].user = u
    BY <1>0, <1>5, JoinFacts
  <2> HIDE DEF n
  <2>2. \A i \in LivePositions(sessions[s]) : sessions[s].participants[i].user # u
    BY <1>5, JoinerIsNew
  <2>3. CASE sessions'[r] = sessions[r]
    BY <1>2, <2>3 DEF DecodeOK, Created
  <2>4. CASE r = s /\ sessions'[s] # sessions[s]
    <3>1. UniqueUsers(sessions[s])
      BY <2>1 DEF DecodeOK
    <3>2. ASSUME NEW i \in LivePositions(sessions'[s])
          PROVE  \/ i = n + 1
                 \/ /\ i \in LivePositions(sessions[s])
                    /\ sessions'[s].participants[i] = sessions[s].participants[i]
      BY <2>1, <2>4 DEF LivePositions
    <3> QED BY <2>1, <2>2, <2>4, <3>1, <3>2 DEF UniqueUsers
  <2> QED BY <2>1, <2>3, <2>4
<1>6. CASE Admit
  <2>1. PICK s \in SessionIds :
          /\ \A q \in SessionIds \ {s} : sessions'[q] = sessions[q]
          /\ DOMAIN sessions'[s].participants = {1}
    BY <1>0, <1>6, AdmitFacts
  <2>2. CASE r = s
    BY <2>1, <2>2 DEF UniqueUsers, LivePositions
  <2>3. CASE r # s
    BY <1>2, <2>1, <2>3 DEF DecodeOK, Created
  <2> QED BY <2>2, <2>3
<1>7. CASE Plain \/ Restarting \/ Quiet
  BY <1>3, <1>7 DEF Plain, Restarting, Quiet, Calm
<1>8. CASE SaveStarting \/ LaunchRuntime
  BY <1>0, <1>3, <1>8, SaveStartingCalm, LaunchRuntimeCalm DEF Calm
<1>9. CASE WaitReady \/ ProvisionStream \/ CleanupFailedRuntime
  BY <1>0, <1>4, <1>9, StartCalm
<1>10. CASE \/ Tick \/ UNCHANGED vars
            \/ \E p \in Pids : BecomeUnhealthy(p) \/ RuntimeExits(p)
  BY <1>0, <1>4, <1>10, EnvironmentCalm
<1>11. CASE \E p \in Pids : BecomeHealthy(p)
  BY <1>4, <1>11 DEF BecomeHealthy
<1> QED BY <1>0, <1>5, <1>6, <1>7, <1>8, <1>9, <1>10, <1>11, Kinds

\* Where a user has one seat anywhere, or the store does not fail: every stored
\* record passes the validator that runs when it is read, through every other
\* failure, crash and restart.
THEOREM RecordsReadBack ==
  ASSUME PerUserCapacity = 1 \/ "store" \notin FaultKinds
  PROVE  Spec => []RecordsDecode
<1>1. Init => DecodeOK
  BY IdlePoints DEF Init, Down, Idle, DecodeOK, SettledOK, Created
<1>2. SInv /\ SInv' /\ DecodeOK /\ [Next]_vars => DecodeOK'
  BY DecodeStep
<1>3. SInv /\ DecodeOK => RecordsDecode
  <2> SUFFICES ASSUME SInv, DecodeOK, NEW s \in SessionIds, Present(s)
               PROVE  consistent_participants(sessions[s])
    BY DEF RecordsDecode
  <2>1. RecordOK(sessions[s]) /\ UniqueUsers(sessions[s])
    BY DEF SInv, IInv, StoreOK, DecodeOK, Present
  <2> QED BY <2>1, UniqueDecodes
<1> QED BY <1>1, <1>2, <1>3, SInvInit, SInvStep, PTL DEF Spec

-----------------------------------------------------------------------------
(* The cleanup takes nothing without cause *)

\* A runtime that is given up on was found not healthy, or its inspection failed.
Blamed ==
  task.pc # "evict" /\ task'.pc = "evict" =>
    runtime[<<task'.sid, task'.pos>>] # "healthy" \/ faults' < faults

\* What one step may take.
Taken ==
  \A s \in NotClosed :
    LET S == sessions[s]
        T == sessions'[s]
        Lost(i) == \/ IsStale(S.participants[i])
                   \/ <<"evict", s, i>> = <<task.pc, task.sid, task.pos>>
    IN task.pc \in {"sweep", "inspect", "evict"} =>
         /\ T.state = "CLOSED" => \/ LeaseOver(S)
                                  \/ \A i \in OwnerPositions(S) : Lost(i)
         /\ T.state = S.state =>
              \A i \in ActivePositions(S) :
                T.participants[i].state # "ACTIVE" =>
                  Lost(i) /\ S.participants[i].user # S.owner

\* What one step owes, the body of CleanupForCause.
CauseStep ==
  /\ Blamed
  /\ Taken

\* The list of silent participants that the loop made and still has to work on
\* is as true as when it was made, and the owner is not on it.
StaleOK ==
  task.pc \in {"inspect", "evict"} =>
    LET S == sessions[task.sid] IN
    \A i \in task.stale \cap task.queue :
      IsStale(S.participants[i]) /\ S.participants[i].user # S.owner

\* What _close does to the records.
LEMMA CloseEffect ==
  ASSUME IInv, NEW s \in SessionIds, Created(s), NEW reason, NEW done, NEW raised,
         Close(s, reason, done, raised)
  PROVE  /\ \A r \in SessionIds \ {s} : sessions'[r] = sessions[r]
         /\ sessions'[s] = sessions[s] \/ sessions'[s].state = "CLOSED"
<1> DEFINE T == Closed(sessions[s], reason, now)
<1>1. sessions[s] \in Session /\ sessions \in [SessionIds -> Session \cup {NoSession}]
  BY DEF IInv, TypeOK, StoreOK, RecordOK
<1>2. T.state = "CLOSED"
  BY <1>1 DEF Closed, Session
<1>3. NotStored \/ Stored(s, T)
  BY DEF Close, RetireThenSave, SaveFails, Save
<1> HIDE DEF T
<1> QED BY <1>1, <1>2, <1>3 DEF NotStored, Stored

\* What _retire_participant does to the records.
LEMMA RetireEffect ==
  ASSUME IInv, NEW s \in SessionIds, Created(s), NEW i, NEW failed, NEW done,
         NEW raised, RetireParticipant(s, i, failed, done, raised)
  PROVE  /\ \A r \in SessionIds \ {s} : sessions'[r] = sessions[r]
         /\ sessions'[s].state = sessions[s].state
         /\ sessions'[s].owner = sessions[s].owner
         /\ \A j \in DOMAIN sessions[s].participants \ {i} :
              sessions'[s].participants[j] = sessions[s].participants[j]
<1> DEFINE m == sessions[s].participants[i]
           p == IF failed THEN [m EXCEPT !.state = "ERROR", !.hb = now]
                          ELSE left_participant(m, now)
           T == Replaced(sessions[s], i, p)
<1>1. sessions[s] \in Session /\ sessions \in [SessionIds -> Session \cup {NoSession}]
  BY DEF IInv, TypeOK, StoreOK, RecordOK
<1>2. NotStored \/ Stored(s, T)
  BY DEF RetireParticipant, RetireThenSave, SaveFails, Save
<1> HIDE DEF p
<1>3. /\ T.state = sessions[s].state /\ T.owner = sessions[s].owner
      /\ T.participants = [sessions[s].participants EXCEPT ![i] = p]
  BY <1>1 DEF Replaced, Session
<1>4. \A j \in DOMAIN sessions[s].participants \ {i} :
        T.participants[j] = sessions[s].participants[j]
  BY <1>3
<1> HIDE DEF T
<1> QED BY <1>1, <1>2, <1>3, <1>4 DEF NotStored, Stored

\* The sweep of one session: it closes a lobby that is over or whose owner is
\* gone, or goes on with the true list of who is silent.
LEMMA SweepSessionCause ==
  ASSUME SInv, SweepSession
  PROVE  CauseStep /\ StaleOK'
<1>0. IInv /\ task \in Task /\ task.pc = "sweep" /\ now' = now
  BY DEF SInv, IInv, TypeOK, SweepSession
<1>1. PICK s \in task.todo :
        LET S    == sessions[s]
            rest == [task EXCEPT !.todo = @ \ {s}]
        IN \/ LeaseOver(S) /\ Close(s, "expired", rest, Idle)
           \/ Abandoned(S) /\ Close(s, "owner_abandoned", rest, Idle)
           \/ /\ ~Abandoned(S)
              /\ task' = [rest EXCEPT
                            !.pc = "inspect", !.sid = s,
                            !.queue = ActivePositions(S),
                            !.stale = {i \in ActivePositions(S) :
                                         IsStale(S.participants[i])}]
              /\ sessions' = sessions
  BY DEF SweepSession
<1> DEFINE S == sessions[s]
           rest == [task EXCEPT !.todo = @ \ {s}]
<1>2. s \in SessionIds /\ Created(s) /\ rest.pc = "sweep" /\ rest \in Task
  BY <1>0 DEF IInv, TaskOK, Task
<1>3. \A i \in OwnerPositions(S) : i = 1
  BY <1>2 DEF SInv, HostOK, OwnerPositions, UserPositions, ActivePositions
<1> HIDE DEF rest
<1>4. ASSUME NEW reason, Close(s, reason, rest, Idle), LeaseOver(S) \/ Abandoned(S)
      PROVE  CauseStep /\ StaleOK'
  <2>1. /\ \A r \in SessionIds \ {s} : sessions'[r] = sessions[r]
        /\ sessions'[s] = S \/ sessions'[s].state = "CLOSED"
    BY <1>0, <1>2, <1>4, CloseEffect
  <2>2. task' = rest \/ task' = Idle
    BY <1>4 DEF Close, RetireThenSave
  <2>3. StaleOK'
    BY <1>2, <2>2, IdlePoints DEF StaleOK
  <2>4. Abandoned(S) => \A i \in OwnerPositions(S) : IsStale(S.participants[i])
    BY <1>3 DEF Abandoned, IsFirst
  <2>5. CauseStep
    BY <1>2, <1>4, <2>1, <2>2, <2>4, IdlePoints DEF CauseStep, Blamed, Taken, NotClosed,
       ActivePositions
  <2> QED BY <2>3, <2>5
<1>5. CASE /\ ~Abandoned(S)
           /\ task' = [rest EXCEPT
                         !.pc = "inspect", !.sid = s,
                         !.queue = ActivePositions(S),
                         !.stale = {i \in ActivePositions(S) :
                                      IsStale(S.participants[i])}]
           /\ sessions' = sessions
  <2>1. /\ task'.sid = s /\ task'.queue = ActivePositions(S)
        /\ task'.stale = {i \in ActivePositions(S) : IsStale(S.participants[i])}
    BY <1>2, <1>5 DEF Task
  <2>2. ASSUME NEW i \in ActivePositions(S), IsStale(S.participants[i])
        PROVE  S.participants[i].user # S.owner
    <3>1. SUFFICES ASSUME i \in OwnerPositions(S) PROVE FALSE
      BY DEF OwnerPositions, UserPositions
    <3>2. Abandoned(S)
      BY <1>3, <2>2, <3>1 DEF Abandoned
    <3> QED BY <1>5, <3>2
  <2>3. StaleOK'
    BY <1>0, <1>5, <2>1, <2>2 DEF StaleOK, IsStale
  <2>5. task'.pc = "inspect"
    BY <1>2, <1>5 DEF Task
  <2>4. CauseStep
    BY <1>5, <2>5 DEF CauseStep, Blamed, Taken, NotClosed, ActivePositions
  <2> QED BY <2>3, <2>4
<1> QED BY <1>1, <1>4, <1>5 DEF rest

\* One participant of the loop: it is retired only if it is on the list.
LEMMA InspectCause ==
  ASSUME SInv, StaleOK, InspectParticipant
  PROVE  CauseStep /\ StaleOK'
<1>0. IInv /\ task \in Task /\ task.pc = "inspect" /\ now' = now
  BY DEF SInv, IInv, TypeOK, InspectParticipant
<1>1. PICK i \in task.queue :
        LET rest == [task EXCEPT !.queue = @ \ {i}] IN
        \/ i \in task.stale /\ RetireParticipant(task.sid, i, FALSE, rest, Idle)
        \/ /\ \/ task' = rest
              \/ /\ task' = [rest EXCEPT !.pc = "evict", !.pos = i]
                 /\ runtime[<<task.sid, i>>] # "healthy" \/ Fault("agent")
           /\ sessions' = sessions
  BY DEF InspectParticipant
<1> DEFINE S == sessions[task.sid]
           rest == [task EXCEPT !.queue = @ \ {i}]
<1>2. /\ task.sid \in SessionIds /\ Created(task.sid)
      /\ task.queue \subseteq ActivePositions(S)
      /\ task.queue \subseteq DOMAIN S.participants
  BY <1>0 DEF IInv, TaskOK, ActivePositions
<1>3. /\ rest.sid = task.sid /\ rest.queue = task.queue \ {i}
      /\ rest.stale = task.stale /\ rest.pc = "inspect"
      /\ [rest EXCEPT !.pc = "evict", !.pos = i].pos = i
      /\ [rest EXCEPT !.pc = "evict", !.pos = i].sid = task.sid
      /\ [rest EXCEPT !.pc = "evict", !.pos = i].queue = task.queue \ {i}
      /\ [rest EXCEPT !.pc = "evict", !.pos = i].stale = task.stale
  BY <1>0 DEF Task
<1>4. \A j \in task.stale \cap task.queue :
        IsStale(S.participants[j]) /\ S.participants[j].user # S.owner
  BY <1>0 DEF StaleOK
<1> HIDE DEF rest
<1>5. CASE i \in task.stale /\ RetireParticipant(task.sid, i, FALSE, rest, Idle)
  <2> DEFINE failed == FALSE
  <2>1. RetireParticipant(task.sid, i, failed, rest, Idle)
    BY <1>5
  <2> HIDE DEF failed
  <2>2. /\ \A r \in SessionIds \ {task.sid} : sessions'[r] = sessions[r]
        /\ sessions'[task.sid].owner = S.owner
        /\ \A j \in DOMAIN S.participants \ {i} :
             sessions'[task.sid].participants[j] = S.participants[j]
        /\ sessions'[task.sid].state = S.state
    <3>1. PICK s : s = task.sid
      OBVIOUS
    <3> QED BY <1>0, <1>2, <2>1, <3>1, RetireEffect
  <2>3. task' = rest \/ task' = Idle
    BY <2>1 DEF RetireParticipant, RetireThenSave
  <2>4. StaleOK'
    BY <1>0, <1>2, <1>3, <1>4, <2>2, <2>3, IdlePoints DEF StaleOK, IsStale
  <2>5. IsStale(S.participants[i]) /\ S.participants[i].user # S.owner
    BY <1>4, <1>5
  <2>6. CauseStep
    BY <1>3, <2>2, <2>3, <2>5, IdlePoints DEF CauseStep, Blamed, Taken, NotClosed,
       ActivePositions
  <2> QED BY <2>4, <2>6
<1>6. CASE /\ \/ task' = rest
              \/ /\ task' = [rest EXCEPT !.pc = "evict", !.pos = i]
                 /\ runtime[<<task.sid, i>>] # "healthy" \/ Fault("agent")
           /\ sessions' = sessions
  <2>1. StaleOK'
    BY <1>0, <1>3, <1>4, <1>6 DEF StaleOK, IsStale
  <2>3. Blamed
    <3>1. Fault("agent") => faults' < faults
      BY <1>0 DEF Fault, IInv, TypeOK
    <3> QED BY <1>3, <1>6, <3>1 DEF Blamed
  <2>2. CauseStep
    BY <1>6, <2>3 DEF CauseStep, Taken, NotClosed, ActivePositions
  <2> QED BY <2>1, <2>2
<1> QED BY <1>1, <1>5, <1>6 DEF rest

\* The participant with the failed runtime: the owner's ends the lobby.
LEMMA EvictCause ==
  ASSUME SInv, StaleOK, EvictParticipant
  PROVE  CauseStep /\ StaleOK'
<1> DEFINE S == sessions[task.sid]
           next == [task EXCEPT !.pc = "inspect", !.pos = 0]
<1>0. IInv /\ task \in Task /\ task.pc = "evict" /\ now' = now
  BY DEF SInv, IInv, TypeOK, EvictParticipant
<1>1. /\ task.sid \in SessionIds /\ Created(task.sid)
      /\ task.pos \in ActivePositions(S) \ task.queue
      /\ task.queue \subseteq DOMAIN S.participants
  BY <1>0 DEF IInv, TaskOK, ActivePositions
<1>2. \A i \in OwnerPositions(S) : i = 1
  BY <1>1 DEF SInv, HostOK, OwnerPositions, UserPositions, ActivePositions
<1>3. /\ next.sid = task.sid /\ next.queue = task.queue /\ next.stale = task.stale
      /\ ResumeSweep.pc = "sweep"
  BY <1>0 DEF Task, ResumeSweep
<1>4. \A j \in task.stale \cap task.queue :
        IsStale(S.participants[j]) /\ S.participants[j].user # S.owner
  BY <1>0 DEF StaleOK
<1>5. PICK s, k : s = task.sid /\ k = task.pos
  OBVIOUS
<1> HIDE DEF next
<1>6. CASE /\ S.participants[task.pos].user = S.owner
           /\ Close(task.sid, "owner_runtime_failed", ResumeSweep, Idle)
  <2>1. /\ \A r \in SessionIds \ {s} : sessions'[r] = sessions[r]
        /\ sessions'[s] = sessions[s] \/ sessions'[s].state = "CLOSED"
    BY <1>0, <1>1, <1>5, <1>6, CloseEffect
  <2>2. task' = ResumeSweep \/ task' = Idle
    BY <1>6 DEF Close, RetireThenSave
  <2>3. StaleOK'
    BY <1>3, <2>2, IdlePoints DEF StaleOK
  <2>4. k \in OwnerPositions(S)
    BY <1>1, <1>5, <1>6 DEF OwnerPositions, UserPositions
  <2>5. \A i \in OwnerPositions(S) : i = task.pos
    BY <1>2, <1>5, <2>4
  <2>6. CauseStep
    BY <1>0, <1>5, <2>1, <2>5 DEF CauseStep, Blamed, Taken, NotClosed, ActivePositions
  <2> QED BY <2>3, <2>6
<1>7. CASE /\ S.participants[task.pos].user # S.owner
           /\ RetireParticipant(task.sid, task.pos, TRUE, next, Idle)
  <2> DEFINE failed == TRUE
  <2>1. RetireParticipant(s, k, failed, next, Idle)
    BY <1>5, <1>7
  <2> HIDE DEF failed
  <2>2. /\ \A r \in SessionIds \ {s} : sessions'[r] = sessions[r]
        /\ sessions'[s].state = sessions[s].state
        /\ sessions'[s].owner = sessions[s].owner
        /\ \A j \in DOMAIN sessions[s].participants \ {k} :
             sessions'[s].participants[j] = sessions[s].participants[j]
    BY <1>0, <1>1, <1>5, <2>1, RetireEffect
  <2>3. task' = next \/ task' = Idle
    BY <2>1 DEF RetireParticipant, RetireThenSave
  <2>4. StaleOK'
    BY <1>0, <1>1, <1>3, <1>4, <1>5, <2>2, <2>3, IdlePoints DEF StaleOK, IsStale
  <2>5. CauseStep
    BY <1>0, <1>5, <1>7, <2>2 DEF CauseStep, Blamed, Taken, NotClosed, ActivePositions
  <2> QED BY <2>4, <2>5
<1> QED BY <1>6, <1>7 DEF EvictParticipant, next

\* Requests, starts and restarts have no part in a sweep.
LEMMA NoSweepStep ==
  ASSUME task \in Task, Request \/ StartParticipant \/ StartSweep \/ Reconcile \/ Crash
  PROVE  \/ CauseStep /\ StaleOK'
         \/ task' = Down /\ sessions' = sessions
<1>1. ASSUME task.pc \notin {"sweep", "inspect", "evict"},
             task'.pc \notin {"inspect", "evict"}
      PROVE  CauseStep /\ StaleOK'
  BY <1>1 DEF CauseStep, Blamed, Taken, StaleOK
<1>2. ASSUME NEW s, NEW u,
             \/ ExpireOnAccess(s) \/ CloseByOwner(s, u) \/ Leave(s, u) \/ Kick(s, u)
      PROVE  CauseStep /\ StaleOK'
  <2>1. task.pc = "idle" /\ task' = Idle
    BY <1>2 DEF ExpireOnAccess, CloseByOwner, Leave, Kick, Serving, Close,
                RetireParticipant, RetireThenSave
  <2> QED BY <1>1, <2>1, IdlePoints
<1>3. ASSUME NEW s, NEW u, Launch(s, u) \/ Heartbeat(s, u) \/ Join(s, u)
      PROVE  CauseStep /\ StaleOK'
  <2>1. /\ task.pc = "idle"
        /\ \/ task' = task \/ task' = Idle
           \/ \E i : task' = Begin("join", s, i)
    BY <1>3 DEF Launch, Heartbeat, Join, Serving
  <2>2. task'.pc \in {"idle", "start"}
    BY <2>1, IdlePoints DEF Begin, Idle
  <2> QED BY <1>1, <2>1, <2>2
<1>4. ASSUME NEW u, NEW n, StartCreate(u, n) PROVE CauseStep /\ StaleOK'
  BY <1>1, <1>4 DEF StartCreate, Idle
<1>5. CASE StartSweep
  BY <1>1, <1>5 DEF StartSweep, Idle
<1>6. CASE Request
  BY <1>2, <1>3, <1>4, <1>6 DEF Request
<1>7. CASE Admit \/ RefuseCreate
  <2>1. task.pc = "admit" /\ (task' = Idle \/ \E s : task' = Begin("create", s, 1))
    BY <1>7 DEF Admit, RefuseCreate
  <2>2. task'.pc \in {"idle", "start"}
    BY <2>1, IdlePoints DEF Begin, Idle
  <2> QED BY <1>1, <2>1, <2>2
<1>8. CASE SaveStarting \/ SaveActive \/ SaveFailed
  <2>1. task.pc \in StartPoints /\ (task' = Idle \/ Goto("launch"))
    BY <1>8 DEF SaveStarting, SaveActive, SaveFailed, StartPoints
  <2>2. task'.pc \in {"idle", "launch"}
    BY <2>1, IdlePoints DEF Goto, Task
  <2> QED BY <1>1, <2>1, <2>2 DEF StartPoints
<1>9. CASE LaunchRuntime \/ WaitReady \/ ProvisionStream \/ CleanupFailedRuntime
  <2>1. /\ task.pc \in StartPoints
        /\ \/ \E pc \in StartPoints : task' = [task EXCEPT !.pc = pc]
           \/ \E d : task' = [task EXCEPT !.pc = "wait", !.deadline = d]
    BY <1>9 DEF LaunchRuntime, WaitReady, ProvisionStream, CleanupFailedRuntime,
                Goto, StartPoints
  <2>2. task'.pc \in StartPoints
    BY <2>1 DEF Task, StartPoints
  <2> QED BY <1>1, <2>1, <2>2 DEF StartPoints
<1>10. CASE Reconcile
  <2>1. /\ task.pc \in {"down", "reconcile", "runtimes"}
        /\ \/ \E S : task' = [Idle EXCEPT !.pc = "reconcile", !.op = "reconcile",
                                          !.todo = S]
           \/ \E s : task' = [task EXCEPT !.todo = @ \ {s}]
           \/ task' = [task EXCEPT !.pc = "runtimes"]
           \/ task' = Idle \/ task' = Down
    <3>1. CASE StartProcess
      BY <3>1 DEF StartProcess
    <3>2. CASE ReconcileSession
      BY <3>2 DEF ReconcileSession, Close, RetireThenSave
    <3>3. CASE ReconcileSessionsDone \/ ReconcileRuntimes
      BY <3>3 DEF ReconcileSessionsDone, ReconcileRuntimes, Goto
    <3> QED BY <1>10, <3>1, <3>2, <3>3 DEF Reconcile
  <2>2. task'.pc \in {"down", "reconcile", "runtimes", "idle"}
    BY <2>1, IdlePoints DEF Task, Idle
  <2> QED BY <1>1, <2>1, <2>2
<1>11. CASE Crash
  BY <1>1, <1>11, IdlePoints DEF Crash
<1> QED BY <1>5, <1>6, <1>7, <1>8, <1>9, <1>10, <1>11 DEF StartParticipant

\* A step that changes no record and gives up on nobody takes nothing.
LEMMA NothingTaken ==
  ASSUME sessions' = sessions, task'.pc # "evict" \/ task' = task
  PROVE  CauseStep
  BY DEF CauseStep, Blamed, Taken, NotClosed, ActivePositions

\* Every step takes only what it has cause to take.
LEMMA CauseNext == SInv /\ StaleOK /\ [Next]_vars => CauseStep /\ StaleOK'
<1> SUFFICES ASSUME SInv, StaleOK, [Next]_vars PROVE CauseStep /\ StaleOK'
  OBVIOUS
<1>0. IInv /\ task \in Task /\ now \in Nat
  BY DEF SInv, IInv, TypeOK
<1>1. CASE SweepSession
  BY <1>1, SweepSessionCause
<1>2. CASE InspectParticipant
  BY <1>2, InspectCause
<1>3. CASE EvictParticipant
  BY <1>3, EvictCause
<1>4. CASE SweepDone \/ InspectDone
  <2>1. sessions' = sessions
    BY <1>4 DEF SweepDone, InspectDone
  <2>2. task'.pc \in {"sweep", "admit", "idle"}
    BY <1>0, <1>4, IdlePoints DEF SweepDone, InspectDone, ResumeSweep, Task
  <2> QED BY <2>1, <2>2, NothingTaken DEF StaleOK
<1>5. CASE Request \/ StartParticipant \/ StartSweep \/ Reconcile \/ Crash
  <2>1. CASE task' = Down /\ sessions' = sessions
    BY <2>1, NothingTaken, IdlePoints DEF StaleOK
  <2> QED BY <1>0, <1>5, <2>1, NoSweepStep
<1>6. CASE \/ Tick \/ UNCHANGED vars
           \/ \E p \in Pids : BecomeHealthy(p) \/ BecomeUnhealthy(p) \/ RuntimeExits(p)
  <2>1. sessions' = sessions /\ task' = task /\ now' \in Nat /\ now <= now'
    <3>1. CASE Tick
      BY <1>0, <3>1 DEF Tick
    <3>2. CASE UNCHANGED vars
      BY <1>0, <3>2 DEF vars
    <3>3. CASE \E p \in Pids : BecomeHealthy(p) \/ BecomeUnhealthy(p) \/ RuntimeExits(p)
      BY <1>0, <3>3 DEF BecomeHealthy, BecomeUnhealthy, RuntimeExits
    <3> QED BY <1>6, <3>1, <3>2, <3>3
  <2>2. StaleOK'
    <3> SUFFICES ASSUME task.pc \in {"inspect", "evict"},
                        NEW i \in task.stale \cap task.queue
                 PROVE  /\ IsStale(sessions[task.sid].participants[i])'
                        /\ sessions[task.sid].participants[i].user
                             # sessions[task.sid].owner
      BY <2>1 DEF StaleOK
    <3> DEFINE p == sessions[task.sid].participants[i]
    <3>1. /\ task.sid \in SessionIds /\ Created(task.sid)
          /\ i \in DOMAIN sessions[task.sid].participants
      BY <1>0 DEF IInv, TaskOK, ActivePositions
    <3>2. p.hb \in Nat /\ IdleTimeout \in Nat
      <4>1. sessions[task.sid].participants \in Seq(Participant)
        BY <1>0, <3>1 DEF IInv, StoreOK, RecordOK, Session
      <4>2. p \in Participant
        BY <3>1, <4>1
      <4> QED BY <4>2, ConfigAssumption DEF Participant
    <3>3. p.hb + IdleTimeout <= now
      BY DEF StaleOK, IsStale
    <3>4. IsStale(p)'
      BY <1>0, <2>1, <3>2, <3>3 DEF IsStale
    <3> QED BY <3>4 DEF StaleOK
  <2> QED BY <2>1, <2>2, NothingTaken
<1> QED BY <1>1, <1>2, <1>3, <1>4, <1>5, <1>6 DEF Next, Sweep, Environment

\* Whatever fails in between, however long a sweep takes and whoever leaves and
\* comes back: it closes a lobby early only for its owner's absence or silence, or
\* because the inspection of the owner's runtime found it not healthy or failed,
\* and takes a guest's seat only for the guest's own silence or inspection.
THEOREM CleanupHasCause == Spec => CleanupForCause
<1>1. Init => StaleOK
  BY IdlePoints DEF Init, StaleOK
<1>2. SInv /\ StaleOK /\ [Next]_vars => StaleOK' /\ [CauseStep]_vars
  BY CauseNext
<1>3. [][CauseStep]_vars => CleanupForCause
  BY DEF CleanupForCause, CauseStep, Blamed, Taken
<1> QED BY <1>1, <1>2, <1>3, SInvInit, SInvStep, PTL DEF Spec
=============================================================================

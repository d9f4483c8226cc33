------------------------ MODULE SessionManagerProofs ------------------------
(***************************************************************************)
(* Proofs about SessionManager, for every value of its constants.          *)
(*                                                                         *)
(* Every handler changes the store by replacing one record.  The first     *)
(* part shows, for each way the code builds a new record, that it keeps    *)
(* RecordOK and is a legal evolution of the old one; the second part shows *)
(* that every action keeps the inductive invariant IInv.                   *)
(***************************************************************************)
EXTENDS SessionManager, TLAPS

\* What holds of every record in the store.
RecordOK(S) ==
  /\ S \in Session
  /\ S.created <= S.expires
  /\ S.expires <= S.created + SessionTtl
  /\ Len(S.participants) >= 1
  /\ Len(S.participants) <= MaxParticipants
  /\ S.participants[1].user = S.owner
  /\ S.participants[1].slot = 1
  /\ \A i \in DOMAIN S.participants : S.participants[i].slot \in 1..S.players
  /\ \A i, j \in LivePositions(S) :
       i # j => S.participants[i].slot # S.participants[j].slot
  /\ S.state = "CLOSED" => LivePositions(S) = {}

StoreOK ==
  \A s \in SessionIds : Created(s) =>
    RecordOK(sessions[s]) /\ sessions[s].created <= now

\* A participant recorded LEFT has no container, and a token needs one.
GoneOK ==
  /\ \A s \in SessionIds : Created(s) =>
       \A i \in DOMAIN sessions[s].participants :
         sessions[s].participants[i].state = "LEFT" =>
           runtime[<<s, i>>] = "absent"
  /\ \A p \in token : runtime[p] # "absent"

\* What the lock holder's local variables say about the store.
TaskOK ==
  /\ task.pc \in {"idle", "down"} => task.todo = {} /\ task.op = "none"
  /\ \A s \in task.todo : Created(s) /\ sessions[s].state # "CLOSED"
  /\ task.pc \in {"sweep", "inspect", "evict", "admit"} /\ task.op = "create" =>
       task.user \in Users /\ task.players \in PlayerLimits
  /\ task.pc = "admit" => task.op = "create" /\ task.todo = {}
  /\ task.pc \in StartPoints =>
       /\ task.todo = {}
       /\ task.sid \in SessionIds
       /\ Created(task.sid)
       /\ sessions[task.sid].state # "CLOSED"
       /\ task.op = "create" =>
            sessions[task.sid].state \in {"CREATING", "STARTING"}
       /\ task.pos \in DOMAIN sessions[task.sid].participants
       /\ sessions[task.sid].participants[task.pos].state =
            IF task.pc = "start" THEN "ALLOCATING" ELSE "STARTING"
  /\ task.pc \in {"inspect", "evict"} =>
       /\ task.sid \in SessionIds \ task.todo
       /\ Created(task.sid)
       /\ sessions[task.sid].state # "CLOSED"
       /\ task.queue \subseteq ActivePositions(sessions[task.sid])
  /\ task.pc = "evict" =>
       task.pos \in ActivePositions(sessions[task.sid]) \ task.queue

\* The inductive invariant.
IInv == TypeOK /\ StoreOK /\ GoneOK /\ TaskOK

\* What a step may do to the records, the body of RecordsEvolve.
StoreStep ==
  \A s \in SessionIds : Created(s) => Evolves(sessions[s], sessions'[s])

-----------------------------------------------------------------------------
(* Records *)

\* A sequence with one element replaced, or with every element mapped, is a
\* sequence of the same length.
LEMMA SeqReplace ==
  ASSUME NEW T, NEW q \in Seq(T), NEW i \in DOMAIN q, NEW e \in T
  PROVE  /\ [q EXCEPT ![i] = e] \in Seq(T)
         /\ Len([q EXCEPT ![i] = e]) = Len(q)
         /\ DOMAIN [q EXCEPT ![i] = e] = DOMAIN q
  OBVIOUS

\* A sequence whose elements are mapped one by one is a sequence as long.
LEMMA SeqMap ==
  ASSUME NEW T, NEW q \in Seq(T), NEW f,
         f = [i \in DOMAIN q |-> f[i]],
         \A i \in DOMAIN q : f[i] \in T
  PROVE  /\ f \in Seq(T)
         /\ Len(f) = Len(q)
         /\ DOMAIN f = DOMAIN q
  OBVIOUS

\* An update of one participant in place: the new record T has p at position i.
LEMMA ReplacedOK ==
  ASSUME NEW S, RecordOK(S), S.state # "CLOSED",
         NEW i \in DOMAIN S.participants, NEW p \in Participant,
         p.user = S.participants[i].user, p.slot = S.participants[i].slot,
         Live(p) => Live(S.participants[i]),
         ParticipantStep(S.participants[i].state, p.state),
         NEW T \in Session,
         T.participants = [S.participants EXCEPT ![i] = p],
         T.owner = S.owner, T.players = S.players, T.created = S.created,
         T.state # "CLOSED",
         T.state # S.state => T.state \in SESSION_TRANSITIONS[S.state],
         S.created <= T.expires, T.expires <= S.created + SessionTtl
  PROVE  RecordOK(T) /\ Evolves(S, T)
<1> DEFINE Q == T.participants
<1>1. S \in Session /\ S.participants \in Seq(Participant)
  BY DEF RecordOK, Session
<1>2. Q \in Seq(Participant) /\ Len(Q) = Len(S.participants)
      /\ DOMAIN Q = DOMAIN S.participants
  BY <1>1, SeqReplace
<1>3. \A j \in DOMAIN Q : Q[j] = IF j = i THEN p ELSE S.participants[j]
  BY <1>1
<1>4. LivePositions(T) \subseteq LivePositions(S)
  BY <1>2, <1>3 DEF LivePositions
<1>5. \A j \in DOMAIN Q : Q[j].slot = S.participants[j].slot
                          /\ Q[j].user = S.participants[j].user
  BY <1>3
<1>6. RecordOK(T)
  <2>1. 1 \in DOMAIN Q
    BY <1>1, <1>2 DEF RecordOK
  <2>2. \A j, k \in LivePositions(T) : j # k => Q[j].slot # Q[k].slot
    BY <1>2, <1>4, <1>5 DEF RecordOK, LivePositions
  <2> QED BY <1>2, <1>5, <2>1, <2>2 DEF RecordOK
<1>7. \A j \in DOMAIN Q :
        ParticipantStep(S.participants[j].state, Q[j].state)
  BY <1>3 DEF ParticipantStep
<1> QED BY <1>2, <1>5, <1>6, <1>7 DEF Evolves

\* Closing a session: every live participant goes LEFT.
LEMMA ClosedOK ==
  ASSUME NEW S, RecordOK(S), CanClose(S),
         NEW reason \in Reasons, NEW t \in Nat
  PROVE  LET T == Closed(S, reason, t) IN
         /\ RecordOK(T) /\ Evolves(S, T) /\ T.state = "CLOSED"
         /\ DOMAIN T.participants = DOMAIN S.participants
         /\ \A i \in DOMAIN S.participants :
              T.participants[i].state = "LEFT" =>
                i \in LivePositions(S) \/ S.participants[i].state = "LEFT"
<1> DEFINE T == Closed(S, reason, t)
           L(i) == left_participant(S.participants[i], t)
           Q == [i \in DOMAIN S.participants |-> L(i)]
<1>1. S \in Session /\ S.participants \in Seq(Participant)
  BY DEF RecordOK, Session
<1>2. ASSUME NEW i \in DOMAIN S.participants
      PROVE  /\ L(i) \in Participant
             /\ L(i).user = S.participants[i].user
             /\ L(i).slot = S.participants[i].slot
             /\ ~Live(L(i))
             /\ ParticipantStep(S.participants[i].state, L(i).state)
             /\ L(i).state = "LEFT" =>
                  i \in LivePositions(S) \/ S.participants[i].state = "LEFT"
  <2>1. S.participants[i] \in Participant
    BY <1>1
  <2>2. CASE Live(S.participants[i])
    <3>1. L(i) = [S.participants[i] EXCEPT !.state = "LEFT", !.hb = t]
      BY <2>2 DEF left_participant
    <3>2. "LEAVING" \in PARTICIPANT_TRANSITIONS[S.participants[i].state]
          /\ "LEFT" \in PARTICIPANT_TRANSITIONS["LEAVING"]
      BY <2>2 DEF CanClose, CanLeave
    <3>3. /\ L(i) \in Participant /\ L(i).state = "LEFT"
          /\ L(i).user = S.participants[i].user
          /\ L(i).slot = S.participants[i].slot
      BY <2>1, <3>1 DEF Participant, ParticipantState
    <3>4. ParticipantStep(S.participants[i].state, L(i).state)
      BY <3>2, <3>3 DEF ParticipantStep
    <3>5. i \in LivePositions(S)
      BY <2>2 DEF LivePositions
    <3> QED BY <3>3, <3>4, <3>5 DEF Live
  <2>3. CASE ~Live(S.participants[i])
    BY <2>1, <2>3 DEF left_participant, ParticipantStep
  <2> QED BY <2>2, <2>3
<1>3. Q \in Seq(Participant) /\ Len(Q) = Len(S.participants)
      /\ DOMAIN Q = DOMAIN S.participants
  <2>1. Q = [i \in DOMAIN S.participants |-> Q[i]]
    OBVIOUS
  <2>2. \A i \in DOMAIN S.participants : Q[i] \in Participant
    BY <1>2
  <2> HIDE DEF Q
  <2> QED BY <1>1, <2>1, <2>2, SeqMap
<1>4. /\ T \in Session /\ T.participants = Q /\ T.state = "CLOSED"
      /\ T.expires = S.expires /\ T.created = S.created
      /\ T.owner = S.owner /\ T.players = S.players
  BY <1>1, <1>3 DEF Session, Closed, SessionState
<1>5. LivePositions(T) = {}
  BY <1>2, <1>3, <1>4 DEF LivePositions
<1>6. RecordOK(T)
  <2>1. 1 \in DOMAIN Q
    BY <1>1, <1>3 DEF RecordOK
  <2> QED BY <1>2, <1>3, <1>4, <1>5, <2>1 DEF RecordOK
<1>7. Evolves(S, T)
  <2>1. S.state # "CLOSED" /\ "CLOSED" \in SESSION_TRANSITIONS[S.state]
    BY DEF CanClose, SESSION_TRANSITIONS
  <2> QED BY <1>2, <1>3, <1>4, <2>1 DEF Evolves
<1> QED BY <1>2, <1>3, <1>4, <1>6, <1>7

\* A join: one more participant, on a slot nobody live holds.
LEMMA JoinedOK ==
  ASSUME NEW S, RecordOK(S), S.state # "CLOSED", now \in Nat,
         NEW u \in Users, NEW slot \in 1..S.players, IsFreeSlot(S, slot),
         Len(S.participants) < MaxParticipants
  PROVE  LET p == NewParticipant(u, slot)
             T == [S EXCEPT !.participants = Append(@, p)]
         IN /\ RecordOK(T) /\ Evolves(S, T) /\ T.state = S.state
            /\ DOMAIN T.participants =
                 DOMAIN S.participants \cup {Len(S.participants) + 1}
            /\ \A i \in DOMAIN S.participants :
                 T.participants[i] = S.participants[i]
            /\ T.participants[Len(S.participants) + 1].state = "ALLOCATING"
<1> DEFINE p == NewParticipant(u, slot)
           T == [S EXCEPT !.participants = Append(@, p)]
           n == Len(S.participants)
           Q == Append(S.participants, p)
<1>1. S \in Session /\ S.participants \in Seq(Participant) /\ S.players \in Nat
  BY DEF RecordOK, Session
<1>2. p \in Participant /\ p.slot = slot /\ p.user = u /\ p.state = "ALLOCATING"
  BY <1>1 DEF NewParticipant, Participant, ParticipantState
<1>3. /\ Q \in Seq(Participant) /\ Len(Q) = n + 1 /\ n \in Nat
      /\ DOMAIN S.participants = 1..n /\ DOMAIN Q = 1..(n + 1)
      /\ \A i \in 1..n : Q[i] = S.participants[i]
      /\ Q[n + 1] = p
  BY <1>1, <1>2
<1>4. /\ T \in Session /\ T.participants = Q /\ T.state = S.state
      /\ T.expires = S.expires /\ T.created = S.created
      /\ T.owner = S.owner /\ T.players = S.players
  BY <1>1, <1>3 DEF Session
<1>5. LivePositions(T) \subseteq LivePositions(S) \cup {n + 1}
  BY <1>3, <1>4 DEF LivePositions
<1>6. \A i \in LivePositions(S) : S.participants[i].slot # slot
  BY DEF IsFreeSlot, Occupied
<1>7. \A i, j \in LivePositions(T) : i # j => Q[i].slot # Q[j].slot
  BY <1>2, <1>3, <1>5, <1>6 DEF RecordOK, LivePositions
<1>8. RecordOK(T)
  <2>1. \A i \in DOMAIN Q : Q[i].slot \in 1..S.players
    BY <1>2, <1>3 DEF RecordOK
  <2>2. 1 \in 1..n /\ n + 1 >= 1 /\ n + 1 <= MaxParticipants
    BY <1>3, BoundsAssumption DEF RecordOK
  <2>3. Q[1].user = S.owner /\ Q[1].slot = 1
    BY <1>3, <2>2 DEF RecordOK
  <2>4. S.created <= S.expires /\ S.expires <= S.created + SessionTtl
    BY DEF RecordOK
  <2> HIDE DEF T, Q, p, n
  <2>5. S.state # "CLOSED"
    OBVIOUS
  <2> QED BY <1>3, <1>4, <1>7, <2>1, <2>2, <2>3, <2>4, <2>5 DEF RecordOK
<1>9. Evolves(S, T)
  BY <1>3, <1>4 DEF Evolves, ParticipantStep
<1> QED BY <1>2, <1>3, <1>4, <1>8, <1>9

\* A new lobby with its owner on slot 1.
LEMMA NewSessionOK ==
  ASSUME NEW u \in Users, NEW players \in Nat \ {0}, now \in Nat
  PROVE  LET S == NewSession(u, players) IN
         /\ RecordOK(S) /\ S.state = "CREATING"
         /\ DOMAIN S.participants = {1}
         /\ S.participants[1].state = "ALLOCATING"
<1> DEFINE S == NewSession(u, players)
           p == NewParticipant(u, 1)
<1>1. p \in Participant /\ p.slot = 1 /\ p.user = u /\ p.state = "ALLOCATING"
  BY DEF NewParticipant, Participant, ParticipantState
<1>2. /\ <<p>> \in Seq(Participant) /\ Len(<<p>>) = 1
      /\ DOMAIN <<p>> = {1} /\ <<p>>[1] = p
  BY <1>1
<1>3. /\ Earliest(LobbyLease, SessionTtl) \in Nat
      /\ Earliest(LobbyLease, SessionTtl) <= SessionTtl
  BY ConfigAssumption DEF Earliest
<1>4. /\ S \in Session /\ S.participants = <<p>> /\ S.created = now
      /\ S.expires = now + Earliest(LobbyLease, SessionTtl)
      /\ S.owner = u /\ S.players = players /\ S.state = "CREATING"
  BY <1>2, <1>3 DEF NewSession, Session, SessionState, Reasons
<1>5. RecordOK(S)
  <2>1. \A i, j \in LivePositions(S) : i = j
    BY <1>2, <1>4 DEF LivePositions
  <2>2. S.created <= S.expires /\ S.expires <= S.created + SessionTtl
    BY <1>3, <1>4, ConfigAssumption
  <2>3. /\ Len(S.participants) >= 1 /\ Len(S.participants) <= MaxParticipants
        /\ S.participants[1].user = S.owner /\ S.participants[1].slot = 1
        /\ \A i \in DOMAIN S.participants :
             S.participants[i].slot \in 1..S.players
    BY <1>1, <1>2, <1>4, BoundsAssumption
  <2> HIDE DEF S
  <2> QED BY <1>4, <2>1, <2>2, <2>3 DEF RecordOK
<1> QED BY <1>1, <1>2, <1>4, <1>5

\* The renewed lease stays within the session's lifetime.
LEMMA LeaseExpiryOK ==
  ASSUME NEW S, RecordOK(S), now \in Nat, S.created <= now
  PROVE  /\ LeaseExpiry(S) \in Nat
         /\ S.created <= LeaseExpiry(S)
         /\ LeaseExpiry(S) <= S.created + SessionTtl
  BY ConfigAssumption DEF LeaseExpiry, Earliest, RecordOK, Session

-----------------------------------------------------------------------------
(* Steps on the store *)

\* A session record is never mistaken for a missing one.
LEMMA SessionNotNone == \A S \in Session : S # NoSession
  BY DEF Session, NoSession, SessionState

\* A record evolves into itself.
LEMMA EvolvesRefl ==
  ASSUME NEW S \in Session
  PROVE  Evolves(S, S)
  BY DEF Evolves, ParticipantStep, Session

\* One record is replaced by a legal successor, or none is.
LEMMA StoreReplace ==
  ASSUME IInv, now' = now, NEW s \in SessionIds, Created(s),
         NEW T, RecordOK(T), Evolves(sessions[s], T), Stored(s, T)
  PROVE  /\ sessions' \in [SessionIds -> Session \cup {NoSession}]
         /\ purge' \in [SessionIds -> Nat]
         /\ StoreOK' /\ StoreStep
         /\ sessions'[s] = T
         /\ \A r \in SessionIds \ {s} : sessions'[r] = sessions[r]
<1>1. T \in Session /\ T.created = sessions[s].created /\ T # NoSession
  BY SessionNotNone DEF RecordOK, Evolves
<1>2. /\ sessions' = [sessions EXCEPT ![s] = T]
      /\ sessions' \in [SessionIds -> Session \cup {NoSession}]
  BY <1>1 DEF Stored, IInv, TypeOK
<1>3. PurgeTime(T) \in Nat
  <2>1. now \in Nat /\ Retention \in Nat
    BY ConfigAssumption DEF IInv, TypeOK
  <2>2. T.expires \in Nat
    BY <1>1 DEF Session
  <2> QED BY <2>1, <2>2 DEF PurgeTime
<1>4. purge' \in [SessionIds -> Nat]
  BY <1>3 DEF Stored, IInv, TypeOK
<1>5. sessions'[s] = T /\ \A r \in SessionIds \ {s} : sessions'[r] = sessions[r]
  BY <1>2 DEF IInv, TypeOK
<1>6. StoreOK'
  BY <1>1, <1>5 DEF StoreOK, Created, IInv
<1>7. StoreStep
  <2> SUFFICES ASSUME NEW r \in SessionIds, Created(r)
               PROVE  Evolves(sessions[r], sessions'[r])
    BY DEF StoreStep
  <2>1. CASE r = s
    BY <1>5, <2>1
  <2>2. CASE r # s
    BY <1>5, <2>2, EvolvesRefl DEF IInv, StoreOK, RecordOK
  <2> QED BY <2>1, <2>2
<1> QED BY <1>2, <1>4, <1>5, <1>6, <1>7

\* A step that writes nothing, at the same or a later time.
LEMMA StoreSame ==
  ASSUME IInv, NotStored, now' \in Nat, now <= now'
  PROVE  /\ sessions' \in [SessionIds -> Session \cup {NoSession}]
         /\ purge' \in [SessionIds -> Nat]
         /\ StoreOK' /\ StoreStep
<1>1. sessions' = sessions /\ purge' = purge
  BY DEF NotStored
<1>2. StoreStep
  BY <1>1, EvolvesRefl DEF StoreStep, IInv, StoreOK, RecordOK
<1>3. StoreOK'
  <2> SUFFICES ASSUME NEW s \in SessionIds, Created(s)
               PROVE  sessions[s].created <= now'
    BY <1>1 DEF StoreOK, Created, IInv
  <2>1. sessions[s].created \in Nat /\ now \in Nat /\ sessions[s].created <= now
    BY DEF IInv, StoreOK, RecordOK, Session, TypeOK
  <2> QED BY <2>1
<1> QED BY <1>1, <1>2, <1>3 DEF IInv, TypeOK

\* A step that writes nothing, or one record again as it is.
Kept == NotStored \/ \E s \in SessionIds : Created(s) /\ Stored(s, sessions[s])

\* Writing a record again renews its key only.
LEMMA KeptSame ==
  ASSUME IInv, Kept, now' = now
  PROVE  /\ sessions' \in [SessionIds -> Session \cup {NoSession}]
         /\ purge' \in [SessionIds -> Nat]
         /\ StoreOK' /\ StoreStep /\ sessions' = sessions
<1>1. now \in Nat /\ sessions \in [SessionIds -> Session \cup {NoSession}]
  BY DEF IInv, TypeOK
<1>2. CASE NotStored
  BY <1>1, <1>2, StoreSame DEF NotStored
<1>3. ASSUME NEW s \in SessionIds, Created(s), Stored(s, sessions[s])
      PROVE  /\ purge' \in [SessionIds -> Nat]
             /\ StoreOK' /\ StoreStep /\ sessions' = sessions
  <2>1. RecordOK(sessions[s]) /\ Evolves(sessions[s], sessions[s])
    BY <1>3, EvolvesRefl DEF IInv, StoreOK, RecordOK
  <2>2. sessions' = sessions
    BY <1>1, <1>3 DEF Stored
  <2> QED BY <1>3, <2>1, <2>2, StoreReplace
<1> QED BY <1>1, <1>2, <1>3 DEF Kept

\* A save that fails leaves the old record or the new one.
LEMMA SaveFailsCases ==
  ASSUME NEW s, NEW T, SaveFails(s, T), faults \in Nat
  PROVE  /\ faults' \in Nat
         /\ \/ NotStored
            \/ Stored(s, T)
  BY DEF SaveFails, Fault, NoFault

\* The fault counter stays a natural number.
LEMMA FaultsOK ==
  ASSUME faults \in Nat
  PROVE  /\ NoFault => faults' \in Nat
         /\ \A kind \in AllFaultKinds : Fault(kind) => faults' \in Nat
  BY DEF NoFault, Fault

-----------------------------------------------------------------------------
(* Steps on runtimes and tokens *)

\* What retiring does, however it ends: containers and tokens only go away.
RuntimesShrink ==
  /\ runtime' \in [Pids -> RuntimeState]
  /\ token' \subseteq token
  /\ \A p \in Pids : runtime'[p] = runtime[p] \/ runtime'[p] = "absent"
  /\ \A p \in token' : runtime'[p] # "absent"

\* Retiring a set of runtimes leaves none of them.
LEMMA RetireOK ==
  ASSUME IInv, NEW gone, Retire(gone)
  PROVE  RuntimesShrink /\ \A p \in Pids \cap gone : runtime'[p] = "absent"
<1>1. runtime' = [p \in Pids |-> IF p \in gone THEN "absent" ELSE runtime[p]]
      /\ token' = token \ gone
  BY DEF Retire
<1>2. runtime \in [Pids -> RuntimeState] /\ token \subseteq Pids
      /\ \A p \in token : runtime[p] # "absent"
  BY DEF IInv, TypeOK, GoneOK
<1> QED BY <1>1, <1>2 DEF RuntimesShrink, RuntimeState

\* A retirement that fails half-way only took containers and tokens away.
LEMMA RetireFailsOK ==
  ASSUME IInv, NEW gone, RetireFails(gone)
  PROVE  RuntimesShrink /\ faults' \in Nat
<1>1. PICK p \in gone :
        LET before == {q \in gone : q[2] < p[2]} IN
        /\ Fault("agent")
        /\ \/ Retire(before \cup {p})
           \/ Retire(before)
           \/ /\ runtime' = [q \in Pids |->
                               IF q \in before THEN "absent" ELSE runtime[q]]
              /\ token' = token \ (before \cup {p})
  BY DEF RetireFails
<1> DEFINE before == {q \in gone : q[2] < p[2]}
<1>2. faults' \in Nat
  BY <1>1 DEF Fault, IInv, TypeOK
<1>3. CASE Retire(before \cup {p})
  BY <1>2, <1>3, RetireOK
<1>4. CASE Retire(before)
  BY <1>2, <1>4, RetireOK
<1>5. CASE /\ runtime' = [q \in Pids |->
                            IF q \in before THEN "absent" ELSE runtime[q]]
           /\ token' = token \ (before \cup {p})
  <2>1. runtime \in [Pids -> RuntimeState] /\ token \subseteq Pids
        /\ \A q \in token : runtime[q] # "absent"
    BY DEF IInv, TypeOK, GoneOK
  <2> HIDE DEF before
  <2> QED BY <1>2, <1>5, <2>1 DEF RuntimesShrink, RuntimeState
<1> QED BY <1>1, <1>3, <1>4, <1>5

\* LEFT participants stay without a container if records only gain LEFT where
\* the container is gone.
LEMMA GoneKept ==
  ASSUME IInv, RuntimesShrink,
         \A s \in SessionIds : Created(s)' =>
           \A i \in DOMAIN sessions'[s].participants :
             sessions'[s].participants[i].state = "LEFT" =>
               \/ runtime'[<<s, i>>] = "absent"
               \/ /\ Created(s) /\ i \in DOMAIN sessions[s].participants
                  /\ sessions[s].participants[i].state = "LEFT"
                  /\ <<s, i>> \in Pids
  PROVE  GoneOK'
  BY DEF GoneOK, IInv, RuntimesShrink

\* A position in the participants of a stored session names a runtime.
LEMMA PositionsInPids ==
  ASSUME IInv, NEW s \in SessionIds, Created(s)
  PROVE  /\ DOMAIN sessions[s].participants = 1..Len(sessions[s].participants)
         /\ Len(sessions[s].participants) \in Nat
         /\ DOMAIN sessions[s].participants \subseteq Positions
         /\ \A i \in DOMAIN sessions[s].participants : <<s, i>> \in Pids
<1>1. /\ sessions[s].participants \in Seq(Participant)
      /\ Len(sessions[s].participants) <= MaxParticipants
  BY DEF IInv, StoreOK, RecordOK, Session
<1> QED BY <1>1, BoundsAssumption DEF Pids, Positions

\* The common step of leave, kick, close, sweep and reconciliation.
LEMMA RetireThenSaveOK ==
  ASSUME IInv, now' = now, NEW s \in SessionIds, Created(s),
         NEW gone, NEW ok, NEW T, NEW done, NEW raised,
         ok => /\ RecordOK(T)
               /\ Evolves(sessions[s], T)
               /\ DOMAIN T.participants = DOMAIN sessions[s].participants
               /\ \A i \in DOMAIN T.participants :
                    T.participants[i].state = "LEFT" =>
                      <<s, i>> \in gone \/ sessions[s].participants[i].state = "LEFT",
         RetireThenSave(s, gone, ok, T, done, raised)
  PROVE  /\ sessions' \in [SessionIds -> Session \cup {NoSession}]
         /\ purge' \in [SessionIds -> Nat]
         /\ runtime' \in [Pids -> RuntimeState]
         /\ token' \subseteq Pids
         /\ faults' \in Nat
         /\ StoreOK' /\ StoreStep /\ GoneOK'
         /\ \/ task' = raised
            \/ /\ ok /\ task' = done
               /\ sessions'[s] = T
               /\ \A r \in SessionIds \ {s} : sessions'[r] = sessions[r]
<1>0. now \in Nat /\ faults \in Nat /\ token \subseteq Pids
  BY DEF IInv, TypeOK
<1>1. ASSUME ok, Retire(gone), Stored(s, T)
      PROVE  GoneOK'
  <2>1. RuntimesShrink /\ \A p \in Pids \cap gone : runtime'[p] = "absent"
    BY <1>1, RetireOK
  <2>2. sessions'[s] = T /\ \A r \in SessionIds \ {s} : sessions'[r] = sessions[r]
    BY <1>1, StoreReplace
  <2> SUFFICES ASSUME NEW r \in SessionIds, Created(r)',
                      NEW i \in DOMAIN sessions'[r].participants,
                      sessions'[r].participants[i].state = "LEFT"
               PROVE  \/ runtime'[<<r, i>>] = "absent"
                      \/ /\ Created(r) /\ i \in DOMAIN sessions[r].participants
                         /\ sessions[r].participants[i].state = "LEFT"
                         /\ <<r, i>> \in Pids
    BY <2>1, GoneKept
  <2>3. CASE r = s
    BY <1>1, <2>1, <2>2, <2>3, PositionsInPids
  <2>4. CASE r # s
    <3>1. Created(r) /\ sessions'[r] = sessions[r]
      BY <2>2, <2>4 DEF Created
    <3> QED BY <3>1, PositionsInPids
  <2> QED BY <2>3, <2>4
<1>2. ASSUME RuntimesShrink, NotStored
      PROVE  GoneOK'
  <2>1. sessions' = sessions
    BY <1>2 DEF NotStored
  <2> QED BY <1>2, <2>1, GoneKept, PositionsInPids DEF Created
<1>3. CASE ok /\ Retire(gone) /\ Save(s, T) /\ NoFault /\ task' = done
  BY <1>0, <1>1, <1>3, RetireOK, StoreReplace, FaultsOK DEF Save, RuntimesShrink
<1>4. CASE ~ok /\ Retire(gone) /\ NotStored /\ NoFault /\ task' = raised
  BY <1>0, <1>2, <1>4, RetireOK, StoreSame, FaultsOK DEF RuntimesShrink
<1>5. CASE ok /\ Retire(gone) /\ SaveFails(s, T) /\ task' = raised
  <2>1. faults' \in Nat /\ (NotStored \/ Stored(s, T))
    BY <1>0, <1>5, SaveFailsCases
  <2>2. RuntimesShrink
    BY <1>5, RetireOK
  <2>3. CASE NotStored
    BY <1>0, <1>2, <1>5, <2>1, <2>2, <2>3, StoreSame DEF RuntimesShrink
  <2>4. CASE Stored(s, T)
    BY <1>0, <1>1, <1>5, <2>1, <2>2, <2>4, StoreReplace DEF RuntimesShrink
  <2> QED BY <2>1, <2>3, <2>4
<1>6. CASE RetireFails(gone) /\ NotStored /\ task' = raised
  BY <1>0, <1>2, <1>6, RetireFailsOK, StoreSame DEF RuntimesShrink
<1> QED BY <1>3, <1>4, <1>5, <1>6 DEF RetireThenSave

\* Everything a step owes except for the lock holder's part.
StepOK ==
  /\ now' \in Nat
  /\ sessions' \in [SessionIds -> Session \cup {NoSession}]
  /\ purge' \in [SessionIds -> Nat]
  /\ runtime' \in [Pids -> RuntimeState]
  /\ token' \subseteq Pids
  /\ faults' \in Nat
  /\ StoreOK' /\ StoreStep /\ GoneOK'

\* A step that owes nothing keeps the invariant.
LEMMA StepDone ==
  ASSUME StepOK, task' \in Task, TaskOK'
  PROVE  IInv' /\ StoreStep
  BY DEF StepOK, IInv, TypeOK

\* _close, however it ends.
LEMMA CloseOK ==
  ASSUME IInv, now' = now, NEW s \in SessionIds, Created(s),
         NEW reason \in Reasons, NEW done, NEW raised,
         Close(s, reason, done, raised)
  PROVE  /\ StepOK
         /\ \/ task' = raised
            \/ /\ task' = done
               /\ \A r \in SessionIds \ {s} : sessions'[r] = sessions[r]
<1> DEFINE S == sessions[s]
           T == Closed(S, reason, now)
           gone == {s} \X LivePositions(S)
<1>1. now \in Nat /\ RecordOK(S)
  BY DEF IInv, TypeOK, StoreOK
<1>2. CanClose(S) =>
        /\ RecordOK(T)
        /\ Evolves(S, T)
        /\ DOMAIN T.participants = DOMAIN S.participants
        /\ \A i \in DOMAIN T.participants :
             T.participants[i].state = "LEFT" =>
               <<s, i>> \in gone \/ S.participants[i].state = "LEFT"
  BY <1>1, ClosedOK
<1>3. RetireThenSave(s, gone, CanClose(S), T, done, raised)
  BY DEF Close
<1> HIDE DEF T, gone
<1> QED BY <1>1, <1>2, <1>3, RetireThenSaveOK DEF StepOK

\* A participant that leaves, or whose runtime failed.
LEMMA RetiredOK ==
  ASSUME NEW S, RecordOK(S), S.state # "CLOSED", now \in Nat,
         NEW i \in DOMAIN S.participants, NEW failed \in BOOLEAN,
         failed => S.participants[i].state = "ACTIVE",
         failed \/ CanLeave(S.participants[i])
  PROVE  LET p == IF failed
                    THEN [S.participants[i] EXCEPT !.state = "ERROR", !.hb = now]
                    ELSE left_participant(S.participants[i], now)
             T == Replaced(S, i, p)
         IN /\ RecordOK(T) /\ Evolves(S, T) /\ T.state = S.state
            /\ T.participants = [S.participants EXCEPT ![i] = p]
            /\ DOMAIN T.participants = DOMAIN S.participants
<1> DEFINE m == S.participants[i]
           p == IF failed THEN [m EXCEPT !.state = "ERROR", !.hb = now]
                          ELSE left_participant(m, now)
           T == Replaced(S, i, p)
<1>1. S \in Session /\ S.participants \in Seq(Participant) /\ m \in Participant
  BY DEF RecordOK, Session
<1>2. /\ p \in Participant /\ p.user = m.user /\ p.slot = m.slot
      /\ Live(p) => Live(m)
      /\ ParticipantStep(m.state, p.state)
  <2>1. CASE failed
    <3>1. p = [m EXCEPT !.state = "ERROR", !.hb = now]
      BY <2>1
    <3>2. p \in Participant /\ p.user = m.user /\ p.slot = m.slot /\ p.state = "ERROR"
      BY <1>1, <3>1 DEF Participant, ParticipantState
    <3>3. ParticipantStep(m.state, p.state)
      BY <2>1, <3>2 DEF ParticipantStep, PARTICIPANT_TRANSITIONS
    <3> QED BY <3>2, <3>3 DEF Live
  <2>2. CASE ~failed /\ Live(m)
    <3>1. p = [m EXCEPT !.state = "LEFT", !.hb = now]
      BY <2>2 DEF left_participant
    <3>2. p \in Participant /\ p.user = m.user /\ p.slot = m.slot /\ p.state = "LEFT"
      BY <1>1, <3>1 DEF Participant, ParticipantState
    <3>3. "LEAVING" \in PARTICIPANT_TRANSITIONS[m.state]
          /\ "LEFT" \in PARTICIPANT_TRANSITIONS["LEAVING"]
      BY <2>2 DEF CanLeave
    <3> QED BY <3>2, <3>3 DEF Live, ParticipantStep
  <2>3. CASE ~failed /\ ~Live(m)
    BY <1>1, <2>3 DEF left_participant, ParticipantStep
  <2> QED BY <2>1, <2>2, <2>3
<1> HIDE DEF p
<1>3. [S.participants EXCEPT ![i] = p] \in Seq(Participant)
      /\ DOMAIN [S.participants EXCEPT ![i] = p] = DOMAIN S.participants
  BY <1>1, <1>2, SeqReplace
<1>4. /\ T \in Session /\ T.participants = [S.participants EXCEPT ![i] = p]
      /\ T.state = S.state /\ T.expires = S.expires /\ T.created = S.created
      /\ T.owner = S.owner /\ T.players = S.players
  BY <1>1, <1>3 DEF Replaced, Session
<1> HIDE DEF T
<1>5. S.created <= T.expires /\ T.expires <= S.created + SessionTtl
  BY <1>4 DEF RecordOK
<1>6. RecordOK(T) /\ Evolves(S, T)
  <2>1. T.state # "CLOSED"
        /\ (T.state # S.state => T.state \in SESSION_TRANSITIONS[S.state])
    BY <1>4
  <2> QED BY <1>2, <1>4, <1>5, <2>1, ReplacedOK
<1> QED BY <1>3, <1>4, <1>6 DEF p, T

\* _retire_participant, leave and kick, however they end.
LEMMA RetireParticipantOK ==
  ASSUME IInv, now' = now, NEW s \in SessionIds, Created(s),
         sessions[s].state # "CLOSED",
         NEW i \in DOMAIN sessions[s].participants, NEW failed \in BOOLEAN,
         failed => sessions[s].participants[i].state = "ACTIVE",
         NEW done, NEW raised, RetireParticipant(s, i, failed, done, raised)
  PROVE  /\ StepOK
         /\ \/ task' = raised
            \/ /\ task' = done
               /\ sessions'[s].state = sessions[s].state
               /\ DOMAIN sessions'[s].participants = DOMAIN sessions[s].participants
               /\ \A j \in DOMAIN sessions[s].participants \ {i} :
                    sessions'[s].participants[j] = sessions[s].participants[j]
               /\ Created(s)'
               /\ \A r \in SessionIds \ {s} : sessions'[r] = sessions[r]
<1> DEFINE S == sessions[s]
           p == IF failed
                  THEN [S.participants[i] EXCEPT !.state = "ERROR", !.hb = now]
                  ELSE left_participant(S.participants[i], now)
           T == Replaced(S, i, p)
           ok == failed \/ CanLeave(S.participants[i])
<1>1. now \in Nat /\ RecordOK(S)
  BY DEF IInv, TypeOK, StoreOK
<1>2. ok =>
        /\ RecordOK(T)
        /\ Evolves(S, T) /\ T.state = S.state
        /\ T.participants = [S.participants EXCEPT ![i] = p]
        /\ DOMAIN T.participants = DOMAIN S.participants
  BY <1>1, RetiredOK, ZenonT(60)
<1>3. ok => \A j \in DOMAIN T.participants \ {i} :
              T.participants[j] = S.participants[j]
  BY <1>2
<1>4. RetireThenSave(s, {<<s, i>>}, ok, T, done, raised)
  BY DEF RetireParticipant
<1> HIDE DEF T, p, ok
<1>5. /\ StepOK
      /\ \/ task' = raised
         \/ /\ ok /\ task' = done
            /\ sessions'[s] = T
            /\ \A r \in SessionIds \ {s} : sessions'[r] = sessions[r]
  BY <1>1, <1>2, <1>3, <1>4, RetireThenSaveOK DEF StepOK
<1>6. ok => T # NoSession
  BY <1>2, SessionNotNone DEF RecordOK
<1> QED BY <1>2, <1>3, <1>5, <1>6 DEF Created

-----------------------------------------------------------------------------
(* The lock holder *)

\* A task that is idle or down says nothing about the store.
LEMMA QuietTask ==
  ASSUME task' = Idle \/ task' = Down
  PROVE  task' \in Task /\ TaskOK'
<1>1. Idle \in Task /\ Idle.pc = "idle" /\ Idle.todo = {} /\ Idle.op = "none"
  BY DEF Idle, Task, Points
<1>2. Down \in Task /\ Down.pc = "down" /\ Down.todo = {} /\ Down.op = "none"
  BY DEF Idle, Down, Task, Points
<1>3. CASE task' = Idle
  BY <1>1, <1>3 DEF TaskOK, StartPoints
<1>4. CASE task' = Down
  BY <1>2, <1>4 DEF TaskOK, StartPoints
<1> QED BY <1>3, <1>4

\* The task that starts participant <<s, i>>.
LEMMA StartTask ==
  ASSUME NEW s \in Nat, NEW i \in Nat, NEW op \in {"create", "join"}
  PROVE  /\ Begin(op, s, i) \in Task
         /\ Begin(op, s, i).pc = "start" /\ Begin(op, s, i).op = op
         /\ Begin(op, s, i).sid = s /\ Begin(op, s, i).pos = i
         /\ Begin(op, s, i).todo = {}
  BY DEF Begin, Idle, Task, Points, StartPoints

\* A save, or the failure of one, with no runtime touched.
LEMMA SaveStep ==
  ASSUME IInv, now' = now, runtime' = runtime, token' = token, faults' \in Nat,
         NEW s \in SessionIds, Created(s),
         NEW T, RecordOK(T), Evolves(sessions[s], T),
         \A i \in DOMAIN T.participants : T.participants[i].state = "LEFT" =>
           /\ i \in DOMAIN sessions[s].participants
           /\ sessions[s].participants[i].state = "LEFT",
         Stored(s, T) \/ NotStored
  PROVE  StepOK
<1>1. now \in Nat /\ RuntimesShrink
  BY DEF IInv, TypeOK, GoneOK, RuntimesShrink
<1>2. CASE Stored(s, T)
  <2>1. /\ sessions' \in [SessionIds -> Session \cup {NoSession}]
        /\ purge' \in [SessionIds -> Nat]
        /\ StoreOK' /\ StoreStep
        /\ sessions'[s] = T
        /\ \A r \in SessionIds \ {s} : sessions'[r] = sessions[r]
    BY <1>2, StoreReplace
  <2>2. GoneOK'
    <3> SUFFICES ASSUME NEW r \in SessionIds, Created(r)',
                        NEW i \in DOMAIN sessions'[r].participants,
                        sessions'[r].participants[i].state = "LEFT"
                 PROVE  /\ Created(r) /\ i \in DOMAIN sessions[r].participants
                        /\ sessions[r].participants[i].state = "LEFT"
                        /\ <<r, i>> \in Pids
      BY <1>1, GoneKept
    <3>1. CASE r = s
      BY <2>1, <3>1, PositionsInPids
    <3>2. CASE r # s
      <4>1. Created(r) /\ sessions'[r] = sessions[r]
        BY <2>1, <3>2 DEF Created
      <4> QED BY <4>1, PositionsInPids
    <3> QED BY <3>1, <3>2
  <2> QED BY <1>1, <2>1, <2>2 DEF StepOK, IInv, TypeOK
<1>3. CASE NotStored
  <2>1. sessions' = sessions
    BY <1>3 DEF NotStored
  <2>2. GoneOK'
    BY <1>1, <2>1, GoneKept, PositionsInPids DEF Created
  <2> QED BY <1>1, <1>3, <2>2, StoreSame DEF StepOK, IInv, TypeOK
<1> QED BY <1>2, <1>3

\* Steps that leave the store alone and only take containers away.
LEMMA ShrinkStep ==
  ASSUME IInv, now' = now, NotStored, RuntimesShrink, faults' \in Nat
  PROVE  StepOK
<1>1. sessions' = sessions /\ now \in Nat
  BY DEF NotStored, IInv, TypeOK
<1>2. GoneOK'
  BY <1>1, GoneKept, PositionsInPids DEF Created
<1> QED BY <1>1, <1>2, StoreSame DEF StepOK, RuntimesShrink, IInv, TypeOK

\* Steps of the lock holder that leave everything else alone.
LEMMA TaskOnlyStep ==
  ASSUME IInv, UNCHANGED <<now, sessions, purge, runtime, token>>, faults' \in Nat
  PROVE  StepOK
<1>1. NotStored /\ RuntimesShrink
  BY DEF NotStored, RuntimesShrink, IInv, TypeOK, GoneOK
<1> QED BY <1>1, ShrinkStep

\* The members of NotClosed are created and not CLOSED.
LEMMA NotClosedOK ==
  /\ NotClosed \subseteq SessionIds
  /\ \A s \in NotClosed : Created(s) /\ sessions[s].state # "CLOSED"
  BY DEF NotClosed, Present

-----------------------------------------------------------------------------
(* Requests *)

\* A create request takes the lock and lists the sessions to sweep.
LEMMA StartCreateStep ==
  ASSUME IInv, NEW u \in Users, NEW players \in PlayerLimits,
         StartCreate(u, players)
  PROVE  IInv' /\ StoreStep
<1>1. StepOK
  BY TaskOnlyStep DEF StartCreate, IInv, TypeOK
<1>2. /\ task'.pc = "sweep" /\ task'.op = "create" /\ task'.user = u
      /\ task'.players = players /\ task'.todo = NotClosed
      /\ sessions' = sessions
  BY DEF StartCreate, Idle
<1>3. task' \in Task
  BY NotClosedOK, ConfigAssumption DEF StartCreate, Idle, Task, Points
<1>4. TaskOK'
  BY <1>2, NotClosedOK DEF TaskOK, StartPoints, Created
<1> QED BY <1>1, <1>3, <1>4, StepDone

\* _expire, on the way into a handler.
LEMMA ExpireOnAccessStep ==
  ASSUME IInv, NEW s \in SessionIds, ExpireOnAccess(s)
  PROVE  IInv' /\ StoreStep
<1>1. Created(s) /\ Close(s, "expired", Idle, Idle) /\ now' = now
  BY DEF ExpireOnAccess, Present
<1>2. "expired" \in Reasons
  BY DEF Reasons
<1>3. StepOK /\ task' = Idle
  BY <1>1, <1>2, CloseOK
<1> QED BY <1>3, QuietTask, StepDone

\* close.
LEMMA CloseByOwnerStep ==
  ASSUME IInv, NEW s \in SessionIds, NEW u, CloseByOwner(s, u)
  PROVE  IInv' /\ StoreStep
<1>1. Created(s) /\ Close(s, "owner_closed", Idle, Idle) /\ now' = now
  BY DEF CloseByOwner, Present
<1>2. "owner_closed" \in Reasons
  BY DEF Reasons
<1>3. StepOK /\ task' = Idle
  BY <1>1, <1>2, CloseOK
<1> QED BY <1>3, QuietTask, StepDone

\* leave.
LEMMA LeaveStep ==
  ASSUME IInv, NEW s \in SessionIds, NEW u, Leave(s, u)
  PROVE  IInv' /\ StoreStep
<1>1. Created(s) /\ sessions[s].state # "CLOSED" /\ now' = now
  BY DEF Leave, Serving, Present
<1>2. PICK i \in DOMAIN sessions[s].participants :
        RetireParticipant(s, i, FALSE, Idle, Idle)
  BY DEF Leave, UserPositions, LivePositions
<1> DEFINE failed == FALSE
<1>3. failed \in BOOLEAN /\ ~failed /\ RetireParticipant(s, i, failed, Idle, Idle)
  BY <1>2
<1> HIDE DEF failed
<1>4. StepOK /\ task' = Idle
  BY <1>1, <1>3, RetireParticipantOK
<1> QED BY <1>4, QuietTask, StepDone

\* kick.
LEMMA KickStep ==
  ASSUME IInv, NEW s \in SessionIds, NEW u, Kick(s, u)
  PROVE  IInv' /\ StoreStep
<1>1. Created(s) /\ now' = now
  BY DEF Kick, Serving, Present
<1>2. PICK i \in LivePositions(sessions[s]) :
        RetireParticipant(s, i, FALSE, Idle, Idle)
  BY DEF Kick
<1>3. i \in DOMAIN sessions[s].participants /\ sessions[s].state # "CLOSED"
  BY <1>1 DEF IInv, StoreOK, RecordOK, LivePositions
<1> DEFINE failed == FALSE
<1>4. failed \in BOOLEAN /\ ~failed /\ RetireParticipant(s, i, failed, Idle, Idle)
  BY <1>2
<1> HIDE DEF failed
<1>5. StepOK /\ task' = Idle
  BY <1>1, <1>3, <1>4, RetireParticipantOK
<1> QED BY <1>5, QuietTask, StepDone

\* launch provisions a token only for a runtime that is up.
LEMMA LaunchStep ==
  ASSUME IInv, NEW s \in SessionIds, NEW u, Launch(s, u)
  PROVE  IInv' /\ StoreStep
<1>1. PICK i \in DOMAIN sessions[s].participants :
        Up(<<s, i>>) /\ token' = token \cup {<<s, i>>}
  BY DEF Launch, UserPositions, ActivePositions
<1>2. /\ Created(s) /\ now' = now /\ sessions' = sessions /\ purge' = purge
      /\ runtime' = runtime /\ task' = task /\ faults' = faults
  BY DEF Launch, Serving, Present
<1>3. <<s, i>> \in Pids /\ runtime[<<s, i>>] # "absent"
  BY <1>1, <1>2, PositionsInPids DEF Up
<1>4. GoneOK'
  BY <1>1, <1>2, <1>3 DEF GoneOK, IInv, Created
<1>5. StepOK
  <2>1. NotStored /\ now \in Nat
    BY <1>2 DEF NotStored, IInv, TypeOK
  <2> QED BY <1>1, <1>2, <1>3, <1>4, <2>1, StoreSame DEF StepOK, IInv, TypeOK
<1>6. task' \in Task /\ TaskOK'
  BY <1>2 DEF IInv, TypeOK, TaskOK, Created, ActivePositions
<1> QED BY <1>5, <1>6, StepDone

\* heartbeat renews the lease within the lifetime.
LEMMA HeartbeatStep ==
  ASSUME IInv, NEW s \in SessionIds, NEW u, Heartbeat(s, u)
  PROVE  IInv' /\ StoreStep
<1> DEFINE S == sessions[s]
<1>1. /\ Created(s) /\ now' = now /\ runtime' = runtime /\ token' = token
      /\ task' = task /\ task.pc = "idle" /\ now \in Nat /\ faults \in Nat
      /\ RecordOK(S) /\ S.created <= now
  BY DEF Heartbeat, Serving, Present, IInv, TypeOK, StoreOK
<1>2. PICK i \in ActivePositions(S) :
        LET T == [Replaced(S, i, [S.participants[i] EXCEPT !.hb = now])
                    EXCEPT !.expires = LeaseExpiry(S)]
        IN (Save(s, T) /\ NoFault) \/ SaveFails(s, T)
  BY DEF Heartbeat, UserPositions
<1> DEFINE p == [S.participants[i] EXCEPT !.hb = now]
           T == [Replaced(S, i, p) EXCEPT !.expires = LeaseExpiry(S)]
<1>3. /\ i \in DOMAIN S.participants /\ S.participants[i].state = "ACTIVE"
      /\ S \in Session /\ S.participants \in Seq(Participant)
      /\ S.participants[i] \in Participant
      /\ S.state # "CLOSED"
  BY <1>1 DEF ActivePositions, RecordOK, Session, LivePositions, Live
<1>4. /\ p \in Participant /\ p.user = S.participants[i].user
      /\ p.slot = S.participants[i].slot /\ p.state = "ACTIVE"
  BY <1>1, <1>3 DEF Participant
<1> HIDE DEF p
<1>5. /\ LeaseExpiry(S) \in Nat /\ S.created <= LeaseExpiry(S)
      /\ LeaseExpiry(S) <= S.created + SessionTtl
  BY <1>1, LeaseExpiryOK
<1>6. [S.participants EXCEPT ![i] = p] \in Seq(Participant)
  BY <1>3, <1>4, SeqReplace
<1>7. /\ T \in Session /\ T.participants = [S.participants EXCEPT ![i] = p]
      /\ T.state = S.state /\ T.expires = LeaseExpiry(S) /\ T.created = S.created
      /\ T.owner = S.owner /\ T.players = S.players
  BY <1>3, <1>5, <1>6 DEF Session, Replaced
<1>8. (Save(s, T) /\ NoFault) \/ SaveFails(s, T)
  BY <1>2 DEF p
<1> HIDE DEF T
<1>9. RecordOK(T) /\ Evolves(S, T)
  <2>1. Live(p) => Live(S.participants[i])
    BY <1>3, <1>4 DEF Live
  <2>2. ParticipantStep(S.participants[i].state, p.state)
    BY <1>3, <1>4 DEF ParticipantStep
  <2> QED BY <1>1, <1>3, <1>4, <1>5, <1>7, <2>1, <2>2, ReplacedOK
<1>10. \A j \in DOMAIN T.participants : T.participants[j].state = "LEFT" =>
         j \in DOMAIN S.participants /\ S.participants[j].state = "LEFT"
  BY <1>3, <1>4, <1>7
<1>11. faults' \in Nat /\ (Stored(s, T) \/ NotStored)
  BY <1>1, <1>8, SaveFailsCases DEF Save, NoFault
<1>12. StepOK
  BY <1>1, <1>9, <1>10, <1>11, SaveStep
<1>13. task' \in Task /\ TaskOK'
  BY <1>1 DEF IInv, TypeOK, TaskOK, StartPoints
<1> QED BY <1>12, <1>13, StepDone

\* join appends one ALLOCATING participant.
LEMMA JoinStep ==
  ASSUME IInv, NEW s \in SessionIds, NEW u \in Users, Join(s, u)
  PROVE  IInv' /\ StoreStep
<1> DEFINE S == sessions[s]
           n == Len(S.participants)
<1>1. /\ Created(s) /\ now' = now /\ runtime' = runtime /\ token' = token
      /\ now \in Nat /\ faults \in Nat /\ RecordOK(S) /\ S.state = "OPEN"
      /\ n < MaxParticipants
  BY DEF Join, Present, IInv, TypeOK, StoreOK
<1>2. PICK slot \in 1..S.players :
        LET T == [S EXCEPT !.participants = Append(@, NewParticipant(u, slot))]
        IN /\ IsFreeSlot(S, slot)
           /\ \/ /\ Save(s, T)
                 /\ NoFault
                 /\ task' = Begin("join", s, Len(S.participants) + 1)
              \/ SaveFails(s, T) /\ task' = Idle
  BY DEF Join
<1> DEFINE T == [S EXCEPT !.participants = Append(@, NewParticipant(u, slot))]
<1>3. /\ RecordOK(T) /\ Evolves(S, T) /\ T.state = S.state
      /\ DOMAIN T.participants = DOMAIN S.participants \cup {n + 1}
      /\ \A i \in DOMAIN S.participants : T.participants[i] = S.participants[i]
      /\ T.participants[n + 1].state = "ALLOCATING"
  BY <1>1, <1>2, JoinedOK
<1>4. \/ /\ Save(s, T)
         /\ NoFault
         /\ task' = Begin("join", s, n + 1)
      \/ SaveFails(s, T) /\ task' = Idle
  BY <1>2
<1> HIDE DEF T
<1>5. \A j \in DOMAIN T.participants : T.participants[j].state = "LEFT" =>
         j \in DOMAIN S.participants /\ S.participants[j].state = "LEFT"
  BY <1>3
<1>6. faults' \in Nat /\ (Stored(s, T) \/ NotStored)
  BY <1>1, <1>4, SaveFailsCases DEF Save, NoFault
<1>7. StepOK
  BY <1>1, <1>3, <1>5, <1>6, SaveStep
<1>8. task' \in Task /\ TaskOK'
  <2>1. CASE task' = Idle
    BY <2>1, QuietTask
  <2>2. CASE Save(s, T) /\ task' = Begin("join", s, n + 1)
    <3>2. n + 1 \in Nat /\ s \in Nat
      BY <1>1, BoundsAssumption DEF RecordOK, Session, SessionIds
    <3>3. /\ task' \in Task
          /\ task'.pc = "start" /\ task'.op = "join" /\ task'.sid = s
          /\ task'.pos = n + 1 /\ task'.todo = {}
      BY <2>2, <3>2, StartTask
    <3>4. sessions'[s] = T
      BY <1>1, <1>3, <2>2, StoreReplace DEF Save
    <3>5. T # NoSession
      BY <1>3, SessionNotNone DEF RecordOK
    <3> QED BY <1>1, <1>3, <3>3, <3>4, <3>5 DEF TaskOK, Created, StartPoints
  <2> QED BY <1>4, <2>1, <2>2
<1> QED BY <1>7, <1>8, StepDone

-----------------------------------------------------------------------------
(* Starting a participant *)

\* create stores a new record under a fresh identifier.
LEMMA AdmitStep ==
  ASSUME IInv, Admit
  PROVE  IInv' /\ StoreStep
<1> DEFINE S == NewSession(task.user, task.players)
<1>1. /\ task.user \in Users /\ task.players \in Nat \ {0}
      /\ now \in Nat /\ faults \in Nat
      /\ now' = now /\ runtime' = runtime /\ token' = token
  BY ConfigAssumption DEF Admit, IInv, TypeOK, TaskOK
<1>2. PICK s \in SessionIds :
        /\ IsNextSession(s)
        /\ \/ /\ Stored(s, S)
              /\ NoFault
              /\ task' = Begin("create", s, 1)
           \/ Fault("store") /\ Stored(s, S) /\ task' = Idle
  BY DEF Admit
<1>3. /\ RecordOK(S) /\ S.state = "CREATING" /\ S.created = now
      /\ DOMAIN S.participants = {1}
      /\ S.participants[1].state = "ALLOCATING"
  BY <1>1, NewSessionOK DEF NewSession
<1> HIDE DEF S
<1>4. S \in Session /\ S # NoSession /\ ~Created(s) /\ Stored(s, S) /\ faults' \in Nat
  BY <1>1, <1>2, <1>3, SessionNotNone DEF RecordOK, IsNextSession, Fault, NoFault
<1>5. /\ sessions' \in [SessionIds -> Session \cup {NoSession}]
      /\ sessions'[s] = S
      /\ \A r \in SessionIds \ {s} : sessions'[r] = sessions[r]
  BY <1>4 DEF Stored, IInv, TypeOK
<1>6. purge' \in [SessionIds -> Nat]
  <2>1. PurgeTime(S) \in Nat
    BY <1>1, <1>4, ConfigAssumption DEF PurgeTime, Session
  <2> QED BY <1>4, <2>1 DEF Stored, IInv, TypeOK
<1>7. StoreOK' /\ StoreStep
  <2>1. StoreOK'
    BY <1>1, <1>3, <1>5 DEF StoreOK, Created, IInv
  <2>2. StoreStep
    <3> SUFFICES ASSUME NEW r \in SessionIds, Created(r)
                 PROVE  Evolves(sessions[r], sessions'[r])
      BY DEF StoreStep
    <3>1. r # s /\ sessions'[r] = sessions[r]
      BY <1>4, <1>5
    <3> QED BY <3>1, EvolvesRefl DEF IInv, StoreOK, RecordOK
  <2> QED BY <2>1, <2>2
<1>8. GoneOK'
  <2> SUFFICES ASSUME NEW r \in SessionIds, Created(r)',
                      NEW i \in DOMAIN sessions'[r].participants,
                      sessions'[r].participants[i].state = "LEFT"
               PROVE  runtime[<<r, i>>] = "absent"
    BY <1>1 DEF GoneOK, IInv
  <2>1. r # s /\ sessions'[r] = sessions[r]
    BY <1>3, <1>5
  <2> QED BY <2>1 DEF IInv, GoneOK, Created
<1>9. StepOK
  BY <1>1, <1>4, <1>5, <1>6, <1>7, <1>8 DEF StepOK, IInv, TypeOK
<1>10. task' \in Task /\ TaskOK'
  <2>1. CASE task' = Idle
    BY <2>1, QuietTask
  <2>2. CASE task' = Begin("create", s, 1)
    <3>1. s \in Nat /\ 1 \in Nat
      BY BoundsAssumption DEF SessionIds
    <3>2. /\ task' \in Task
          /\ task'.pc = "start" /\ task'.op = "create" /\ task'.sid = s
          /\ task'.pos = 1 /\ task'.todo = {}
      BY <2>2, <3>1, StartTask
    <3> QED BY <1>3, <1>4, <1>5, <3>2 DEF TaskOK, Created, StartPoints
  <2> QED BY <1>2, <2>1, <2>2
<1> QED BY <1>9, <1>10, StepDone

\* create is refused: nothing changes.
LEMMA RefuseCreateStep ==
  ASSUME IInv, RefuseCreate
  PROVE  IInv' /\ StoreStep
<1>1. faults' \in Nat
  BY DEF RefuseCreate, ResolveGameFails, NoFault, Fault, IInv, TypeOK
<1>2. StepOK /\ task' = Idle
  BY <1>1, TaskOnlyStep DEF RefuseCreate
<1> QED BY <1>2, QuietTask, StepDone

\* What the lock holder knows while it starts a participant.
LEMMA StartFacts ==
  ASSUME IInv, task.pc \in StartPoints
  PROVE  /\ task.sid \in SessionIds /\ Created(task.sid)
         /\ RecordOK(StartSession) /\ StartSession.created <= now
         /\ StartSession \in Session
         /\ StartSession.participants \in Seq(Participant)
         /\ StartSession.state # "CLOSED"
         /\ task.op = "create" => StartSession.state \in {"CREATING", "STARTING"}
         /\ task.pos \in DOMAIN StartSession.participants
         /\ StartMember \in Participant
         /\ StartMember.state =
              IF task.pc = "start" THEN "ALLOCATING" ELSE "STARTING"
         /\ Starting \in Pids
<1>1. /\ task.sid \in SessionIds /\ Created(task.sid)
      /\ task.pos \in DOMAIN sessions[task.sid].participants
  BY DEF IInv, TaskOK
<1>2. RecordOK(StartSession) /\ StartSession \in Session
  BY <1>1 DEF IInv, StoreOK, RecordOK, StartSession
<1>3. Starting \in Pids
  BY <1>1, PositionsInPids DEF Starting
<1> QED BY <1>1, <1>2, <1>3
     DEF IInv, TaskOK, StoreOK, StartSession, StartMember, Session

\* A move of the lock holder to another point of the start of a participant,
\* with the store as it is.
LEMMA GotoOK ==
  ASSUME IInv, task.pc \in StartPoints \ {"start"}, sessions' = sessions,
         NEW pc \in StartPoints \ {"start"}, NEW d \in Nat,
         task' = [task EXCEPT !.pc = pc] \/
         task' = [task EXCEPT !.pc = pc, !.deadline = d]
  PROVE  task' \in Task /\ TaskOK'
<1>1. task \in Task
  BY DEF IInv, TypeOK
<1>2. /\ task' \in Task /\ task'.pc = pc
      /\ task'.op = task.op /\ task'.todo = task.todo
      /\ task'.sid = task.sid /\ task'.pos = task.pos
  BY <1>1 DEF Task, Points
<1> QED BY <1>2 DEF IInv, TaskOK, StartPoints, Created

\* A save of the starting participant's record, T, with p in its place.
LEMMA MemberSave ==
  ASSUME IInv, task.pc \in StartPoints,
         now' = now, runtime' = runtime, token' = token,
         NEW p \in Participant,
         p.user = StartMember.user, p.slot = StartMember.slot, p.state # "LEFT",
         ParticipantStep(StartMember.state, p.state),
         NEW T \in Session,
         T.participants = [StartSession.participants EXCEPT ![task.pos] = p],
         T.owner = StartSession.owner, T.players = StartSession.players,
         T.created = StartSession.created, T.state # "CLOSED",
         T.state # StartSession.state =>
           T.state \in SESSION_TRANSITIONS[StartSession.state],
         StartSession.created <= T.expires,
         T.expires <= StartSession.created + SessionTtl,
         (Save(task.sid, T) /\ NoFault) \/ SaveFails(task.sid, T)
  PROVE  /\ StepOK
         /\ Save(task.sid, T) =>
              /\ sessions'[task.sid] # NoSession /\ sessions'[task.sid] = T
              /\ task.pos \in DOMAIN T.participants
              /\ T.participants[task.pos] = p
<1> DEFINE S == StartSession
           s == task.sid
<1>1. /\ s \in SessionIds /\ Created(s) /\ RecordOK(S) /\ S = sessions[s]
      /\ S.participants \in Seq(Participant)
      /\ task.pos \in DOMAIN S.participants /\ S.state # "CLOSED"
      /\ StartMember = S.participants[task.pos]
      /\ Live(StartMember) /\ faults \in Nat
  BY StartFacts DEF StartSession, StartMember, Live, IInv, TypeOK
<1>2. RecordOK(T) /\ Evolves(S, T)
  BY <1>1, ReplacedOK
<1>3. /\ DOMAIN T.participants = DOMAIN S.participants
      /\ T.participants[task.pos] = p
      /\ \A j \in DOMAIN S.participants \ {task.pos} :
           T.participants[j] = S.participants[j]
  BY <1>1
<1>4. \A j \in DOMAIN T.participants : T.participants[j].state = "LEFT" =>
         j \in DOMAIN S.participants /\ S.participants[j].state = "LEFT"
  BY <1>3
<1>5. faults' \in Nat /\ (Stored(s, T) \/ NotStored)
  BY <1>1, SaveFailsCases DEF Save, NoFault
<1>6. StepOK
  BY <1>1, <1>2, <1>4, <1>5, SaveStep
<1>7. ASSUME Save(s, T)
      PROVE  sessions'[s] # NoSession /\ sessions'[s] = T
  <2>1. sessions'[s] = T
    BY <1>1, <1>2, <1>7, StoreReplace DEF Save
  <2>2. T # NoSession
    BY SessionNotNone
  <2>3. sessions'[s] # NoSession
    BY <2>1, <2>2
  <2> QED BY <2>1, <2>3
<1> QED BY <1>1, <1>3, <1>6, <1>7

\* The save before the runtime is launched.
LEMMA SaveStartingStep ==
  ASSUME IInv, SaveStarting
  PROVE  IInv' /\ StoreStep
<1> DEFINE S == StartSession
           p == [StartMember EXCEPT !.state = "STARTING"]
           T == [Replaced(S, task.pos, p)
                   EXCEPT !.state = IF @ = "CREATING" THEN "STARTING" ELSE @]
<1>1. /\ task.pc = "start" /\ task.pc \in StartPoints
      /\ now' = now /\ runtime' = runtime /\ token' = token
      /\ task \in Task
  BY DEF SaveStarting, StartPoints, IInv, TypeOK
<1>2. \/ Save(task.sid, T) /\ NoFault /\ Goto("launch")
      \/ SaveFails(task.sid, T) /\ task' = Idle
  BY DEF SaveStarting
<1>3. /\ S \in Session /\ S.participants \in Seq(Participant) /\ RecordOK(S)
      /\ S.state # "CLOSED" /\ S.state \in SessionState
      /\ task.pos \in DOMAIN S.participants
      /\ StartMember \in Participant /\ StartMember.state = "ALLOCATING"
      /\ task.op = "create" => S.state \in {"CREATING", "STARTING"}
  BY <1>1, StartFacts DEF Session
<1>4. /\ p \in Participant /\ p.user = StartMember.user
      /\ p.slot = StartMember.slot /\ p.state = "STARTING"
  BY <1>3 DEF Participant, ParticipantState
<1> HIDE DEF p
<1>5. [S.participants EXCEPT ![task.pos] = p] \in Seq(Participant)
  BY <1>3, <1>4, SeqReplace
<1>6. /\ T \in Session
      /\ T.participants = [S.participants EXCEPT ![task.pos] = p]
      /\ T.state = IF S.state = "CREATING" THEN "STARTING" ELSE S.state
      /\ T.expires = S.expires /\ T.created = S.created
      /\ T.owner = S.owner /\ T.players = S.players
  BY <1>3, <1>5 DEF Session, SessionState, Replaced
<1> HIDE DEF T
<1>7. /\ T.state # "CLOSED"
      /\ T.state # S.state => T.state \in SESSION_TRANSITIONS[S.state]
      /\ S.created <= T.expires /\ T.expires <= S.created + SessionTtl
      /\ task.op = "create" => T.state \in {"CREATING", "STARTING"}
  BY <1>3, <1>6 DEF SESSION_TRANSITIONS, RecordOK
<1>8. ParticipantStep(StartMember.state, p.state)
  BY <1>3, <1>4 DEF ParticipantStep, PARTICIPANT_TRANSITIONS
<1>9. (Save(task.sid, T) /\ NoFault) \/ SaveFails(task.sid, T)
  BY <1>2
<1>10. /\ StepOK
       /\ Save(task.sid, T) =>
            /\ sessions'[task.sid] # NoSession /\ sessions'[task.sid] = T
            /\ task.pos \in DOMAIN T.participants
            /\ T.participants[task.pos] = p
  BY <1>1, <1>4, <1>6, <1>7, <1>8, <1>9, MemberSave
<1>11. task' \in Task /\ TaskOK'
  <2>1. CASE task' = Idle
    BY <2>1, QuietTask
  <2>2. CASE Save(task.sid, T) /\ Goto("launch")
    <3>1. /\ task' \in Task /\ task'.pc = "launch"
          /\ task'.op = task.op /\ task'.todo = task.todo
          /\ task'.sid = task.sid /\ task'.pos = task.pos
      BY <1>1, <2>2 DEF Goto, Task, Points, StartPoints
    <3>2. task.todo = {} /\ task.sid \in SessionIds
      BY <1>1 DEF IInv, TaskOK
    <3> QED BY <1>4, <1>7, <1>10, <2>2, <3>1, <3>2
         DEF TaskOK, StartPoints, Created
  <2> QED BY <1>2, <2>1, <2>2
<1> QED BY <1>10, <1>11, StepDone

\* The save that makes the participant ACTIVE.
LEMMA SaveActiveStep ==
  ASSUME IInv, SaveActive
  PROVE  IInv' /\ StoreStep
<1> DEFINE S == StartSession
           p == [StartMember EXCEPT !.state = "ACTIVE", !.hb = now]
           T == [Replaced(S, task.pos, p)
                   EXCEPT !.state = IF @ = "STARTING" THEN "OPEN" ELSE @,
                          !.expires = LeaseExpiry(S)]
<1>1. /\ task.pc = "activate" /\ task.pc \in StartPoints /\ task' = Idle
      /\ now' = now /\ runtime' = runtime /\ token' = token /\ now \in Nat
  BY DEF SaveActive, StartPoints, IInv, TypeOK
<1>2. (Save(task.sid, T) /\ NoFault) \/ SaveFails(task.sid, T)
  BY DEF SaveActive
<1>3. /\ S \in Session /\ S.participants \in Seq(Participant) /\ RecordOK(S)
      /\ S.state # "CLOSED" /\ S.state \in SessionState /\ S.created <= now
      /\ task.pos \in DOMAIN S.participants
      /\ StartMember \in Participant /\ StartMember.state = "STARTING"
  BY <1>1, StartFacts DEF Session
<1>4. /\ p \in Participant /\ p.user = StartMember.user
      /\ p.slot = StartMember.slot /\ p.state = "ACTIVE"
  BY <1>1, <1>3 DEF Participant, ParticipantState
<1> HIDE DEF p
<1>5. [S.participants EXCEPT ![task.pos] = p] \in Seq(Participant)
  BY <1>3, <1>4, SeqReplace
<1>6. /\ LeaseExpiry(S) \in Nat /\ S.created <= LeaseExpiry(S)
      /\ LeaseExpiry(S) <= S.created + SessionTtl
  BY <1>1, <1>3, LeaseExpiryOK
<1>7. /\ T \in Session
      /\ T.participants = [S.participants EXCEPT ![task.pos] = p]
      /\ T.state = IF S.state = "STARTING" THEN "OPEN" ELSE S.state
      /\ T.expires = LeaseExpiry(S) /\ T.created = S.created
      /\ T.owner = S.owner /\ T.players = S.players
  BY <1>3, <1>5, <1>6 DEF Session, SessionState, Replaced
<1> HIDE DEF T
<1>8. /\ T.state # "CLOSED"
      /\ T.state # S.state => T.state \in SESSION_TRANSITIONS[S.state]
  BY <1>3, <1>7 DEF SESSION_TRANSITIONS
<1>9. ParticipantStep(StartMember.state, p.state)
  BY <1>3, <1>4 DEF ParticipantStep, PARTICIPANT_TRANSITIONS
<1>10. StepOK
  BY <1>1, <1>2, <1>4, <1>6, <1>7, <1>8, <1>9, MemberSave
<1> QED BY <1>1, <1>10, QuietTask, StepDone

\* The save that records a failed start.
LEMMA SaveFailedStep ==
  ASSUME IInv, SaveFailed
  PROVE  IInv' /\ StoreStep
<1> DEFINE S == StartSession
           p == [StartMember EXCEPT !.state = "ERROR"]
           T == [Replaced(S, task.pos, p)
                   EXCEPT !.state = IF task.op = "create" THEN "ERROR" ELSE @]
<1>1. /\ task.pc = "failed" /\ task.pc \in StartPoints /\ task' = Idle
      /\ now' = now /\ runtime' = runtime /\ token' = token
  BY DEF SaveFailed, StartPoints
<1>2. (Save(task.sid, T) /\ NoFault) \/ SaveFails(task.sid, T)
  BY DEF SaveFailed
<1>3. /\ S \in Session /\ S.participants \in Seq(Participant) /\ RecordOK(S)
      /\ S.state # "CLOSED" /\ S.state \in SessionState
      /\ task.pos \in DOMAIN S.participants
      /\ StartMember \in Participant /\ StartMember.state = "STARTING"
      /\ task.op = "create" => S.state \in {"CREATING", "STARTING"}
  BY <1>1, StartFacts DEF Session
<1>4. /\ p \in Participant /\ p.user = StartMember.user
      /\ p.slot = StartMember.slot /\ p.state = "ERROR"
  BY <1>3 DEF Participant, ParticipantState
<1> HIDE DEF p
<1>5. [S.participants EXCEPT ![task.pos] = p] \in Seq(Participant)
  BY <1>3, <1>4, SeqReplace
<1>6. /\ T \in Session
      /\ T.participants = [S.participants EXCEPT ![task.pos] = p]
      /\ T.state = IF task.op = "create" THEN "ERROR" ELSE S.state
      /\ T.expires = S.expires /\ T.created = S.created
      /\ T.owner = S.owner /\ T.players = S.players
  BY <1>3, <1>5 DEF Session, SessionState, Replaced
<1> HIDE DEF T
<1>7. /\ T.state # "CLOSED"
      /\ T.state # S.state => T.state \in SESSION_TRANSITIONS[S.state]
      /\ S.created <= T.expires /\ T.expires <= S.created + SessionTtl
  BY <1>3, <1>6 DEF SESSION_TRANSITIONS, RecordOK
<1>8. ParticipantStep(StartMember.state, p.state)
  BY <1>3, <1>4 DEF ParticipantStep, PARTICIPANT_TRANSITIONS
<1>9. StepOK
  BY <1>1, <1>2, <1>4, <1>6, <1>7, <1>8, MemberSave
<1> QED BY <1>1, <1>9, QuietTask, StepDone

\* Steps that leave the records alone and give no container to a LEFT
\* participant.
LEMMA ContainerStep ==
  ASSUME IInv, now' = now, Kept, faults' \in Nat,
         runtime' \in [Pids -> RuntimeState], token' \subseteq Pids,
         \A p \in token' : runtime'[p] # "absent",
         \A s \in SessionIds : Created(s) =>
           \A i \in DOMAIN sessions[s].participants :
             sessions[s].participants[i].state = "LEFT" =>
               runtime'[<<s, i>>] = "absent"
  PROVE  StepOK
<1>1. sessions' = sessions /\ now \in Nat
  BY KeptSame DEF IInv, TypeOK
<1>2. GoneOK'
  BY <1>1 DEF GoneOK, Created
<1> QED BY <1>1, <1>2, KeptSame DEF StepOK

\* One container, of a participant that is not LEFT, changes its state.
LEMMA OneContainerStep ==
  ASSUME IInv, now' = now, Kept, faults' \in Nat,
         NEW p \in Pids, NEW st \in RuntimeState \ {"absent"},
         runtime' = [runtime EXCEPT ![p] = st], token' \subseteq token,
         \A s \in SessionIds : Created(s) =>
           \A i \in DOMAIN sessions[s].participants :
             sessions[s].participants[i].state = "LEFT" => <<s, i>> # p
  PROVE  StepOK
<1>1. /\ runtime \in [Pids -> RuntimeState] /\ token \subseteq Pids
      /\ \A q \in token : runtime[q] # "absent"
  BY DEF IInv, TypeOK, GoneOK
<1>2. /\ runtime' \in [Pids -> RuntimeState]
      /\ \A q \in Pids : runtime'[q] = IF q = p THEN st ELSE runtime[q]
  BY <1>1
<1>3. token' \subseteq Pids /\ \A q \in token' : runtime'[q] # "absent"
  BY <1>1, <1>2
<1>4. \A s \in SessionIds : Created(s) =>
        \A i \in DOMAIN sessions[s].participants :
          sessions[s].participants[i].state = "LEFT" =>
            runtime'[<<s, i>>] = "absent"
  BY <1>2, PositionsInPids DEF IInv, GoneOK
<1> QED BY <1>2, <1>3, <1>4, ContainerStep

\* The container is created for a participant that is STARTING.
LEMMA LaunchRuntimeStep ==
  ASSUME IInv, LaunchRuntime
  PROVE  IInv' /\ StoreStep
<1> DEFINE launched == [runtime EXCEPT ![Starting] = "starting"]
           timeout == IF task.op = "create" THEN StartupTimeout ELSE ConnectTimeout
           d == Earliest(now + timeout, MaxTime)
<1>1. /\ task.pc = "launch" /\ task.pc \in StartPoints /\ now' = now
      /\ token' = token /\ faults \in Nat /\ now \in Nat
      /\ task.sid \in SessionIds /\ Created(task.sid)
  BY DEF LaunchRuntime, StartPoints, IInv, TypeOK, TaskOK
<1>2. /\ faults' \in Nat
      /\ \/ runtime' = launched /\ Kept
         \/ runtime' = runtime /\ NotStored
      /\ \/ task' = [task EXCEPT !.pc = "wait", !.deadline = d]
         \/ task' = [task EXCEPT !.pc = "cleanup"]
  <2>1. CASE Save(task.sid, StartSession) /\ NoFault /\ runtime' = launched
             /\ task' = [task EXCEPT !.pc = "wait", !.deadline = d]
    BY <1>1, <2>1 DEF Save, NoFault, StartSession, Kept
  <2>2. CASE SaveFails(task.sid, StartSession) /\ runtime' = launched /\ Goto("cleanup")
    BY <1>1, <2>2, SaveFailsCases DEF Goto, StartSession, Kept
  <2>3. CASE Fault("agent") /\ NotStored /\ Goto("cleanup")
             /\ (runtime' = launched \/ runtime' = runtime)
    BY <1>1, <2>3, FaultsOK DEF Goto, Kept, AllFaultKinds
  <2> QED BY <2>1, <2>2, <2>3 DEF LaunchRuntime, Launched
<1>3. d \in Nat
  BY <1>1, ConfigAssumption, BoundsAssumption DEF Earliest
<1> HIDE DEF d
<1>4. task' \in Task /\ TaskOK'
  <2>1. sessions' = sessions
    BY <1>1, <1>2, KeptSame DEF NotStored
  <2> QED BY <1>1, <1>2, <1>3, <2>1, GotoOK DEF StartPoints
<1>5. StepOK
  <2>1. CASE runtime' = runtime /\ NotStored
    BY <1>1, <1>2, <2>1, TaskOnlyStep DEF NotStored
  <2>2. CASE runtime' = launched /\ Kept
    <3>1. Starting \in Pids /\ StartMember.state = "STARTING"
      BY <1>1, StartFacts
    <3>2. \A s \in SessionIds : Created(s) =>
            \A i \in DOMAIN sessions[s].participants :
              sessions[s].participants[i].state = "LEFT" => <<s, i>> # Starting
      BY <3>1 DEF Starting, StartMember, StartSession
    <3>3. "starting" \in RuntimeState \ {"absent"} /\ token' \subseteq token
      BY <1>1 DEF RuntimeState
    <3> QED BY <1>1, <1>2, <2>2, <3>1, <3>2, <3>3, OneContainerStep
  <2> QED BY <1>2, <2>1, <2>2
<1> QED BY <1>4, <1>5, StepDone

\* Waiting for readiness only moves the lock holder.
LEMMA WaitReadyStep ==
  ASSUME IInv, WaitReady
  PROVE  IInv' /\ StoreStep
<1>1. /\ task.pc \in StartPoints \ {"start"} /\ sessions' = sessions
      /\ faults \in Nat
  BY DEF WaitReady, StartPoints, IInv, TypeOK
<1>2. /\ faults' \in Nat
      /\ \/ task' = [task EXCEPT !.pc = "provision"]
         \/ task' = [task EXCEPT !.pc = "cleanup"]
  BY <1>1, FaultsOK DEF WaitReady, Goto, AllFaultKinds
<1>3. task' \in Task /\ TaskOK'
  BY <1>1, <1>2, GotoOK DEF StartPoints
<1>4. StepOK
  BY <1>2, TaskOnlyStep DEF WaitReady
<1> QED BY <1>3, <1>4, StepDone

\* A token is only accepted by a container that is up.
LEMMA ProvisionStreamStep ==
  ASSUME IInv, ProvisionStream
  PROVE  IInv' /\ StoreStep
<1>1. /\ task.pc \in StartPoints \ {"start"} /\ sessions' = sessions
      /\ now' = now /\ NotStored /\ runtime' = runtime /\ faults \in Nat
  BY DEF ProvisionStream, StartPoints, NotStored, IInv, TypeOK
<1>2. /\ faults' \in Nat
      /\ \/ task' = [task EXCEPT !.pc = "activate"]
         \/ task' = [task EXCEPT !.pc = "cleanup"]
      /\ token' = token \/ (Up(Starting) /\ token' = token \cup {Starting})
  BY <1>1, FaultsOK DEF ProvisionStream, Goto, AllFaultKinds
<1>3. task' \in Task /\ TaskOK'
  BY <1>1, <1>2, GotoOK DEF StartPoints
<1>4. StepOK
  <2>1. Starting \in Pids
    BY <1>1, StartFacts
  <2>2. /\ runtime \in [Pids -> RuntimeState] /\ token \subseteq Pids
        /\ \A q \in token : runtime[q] # "absent"
        /\ \A s \in SessionIds : Created(s) =>
             \A i \in DOMAIN sessions[s].participants :
               sessions[s].participants[i].state = "LEFT" =>
                 runtime[<<s, i>>] = "absent"
    BY DEF IInv, TypeOK, GoneOK
  <2>3. token' \subseteq Pids /\ \A q \in token' : runtime[q] # "absent"
    BY <1>2, <2>1, <2>2 DEF Up
  <2> QED BY <1>1, <1>2, <2>2, <2>3, ContainerStep DEF Kept
<1> QED BY <1>3, <1>4, StepDone

\* The cleanup of a failed start takes the container away, or fails to.
LEMMA CleanupFailedRuntimeStep ==
  ASSUME IInv, CleanupFailedRuntime
  PROVE  IInv' /\ StoreStep
<1>1. /\ task.pc \in StartPoints \ {"start"} /\ sessions' = sessions
      /\ now' = now /\ NotStored /\ faults \in Nat
      /\ task' = [task EXCEPT !.pc = "failed"]
  BY DEF CleanupFailedRuntime, StartPoints, NotStored, Goto, IInv, TypeOK
<1>2. task' \in Task /\ TaskOK'
  BY <1>1, GotoOK DEF StartPoints
<1>3. RuntimesShrink /\ faults' \in Nat
  BY <1>1, RetireOK, RetireFailsOK, FaultsOK DEF CleanupFailedRuntime
<1> QED BY <1>1, <1>2, <1>3, ShrinkStep, StepDone

-----------------------------------------------------------------------------
(* Sweep and reconciliation *)

\* The sweep lists the sessions that are not CLOSED.
LEMMA StartSweepStep ==
  ASSUME IInv, StartSweep
  PROVE  IInv' /\ StoreStep
<1>1. StepOK
  BY TaskOnlyStep DEF StartSweep, IInv, TypeOK
<1>2. /\ task'.pc = "sweep" /\ task'.op = "sweep" /\ task'.todo = NotClosed
      /\ sessions' = sessions
  BY DEF StartSweep, Idle
<1>3. task' \in Task
  BY NotClosedOK DEF StartSweep, Idle, Task, Points
<1>4. TaskOK'
  BY <1>2, NotClosedOK DEF TaskOK, StartPoints, Created
<1> QED BY <1>1, <1>3, <1>4, StepDone

\* The startup reconciliation lists the same sessions.
LEMMA StartProcessStep ==
  ASSUME IInv, StartProcess
  PROVE  IInv' /\ StoreStep
<1>1. StepOK
  BY TaskOnlyStep DEF StartProcess, IInv, TypeOK
<1>2. /\ task'.pc = "reconcile" /\ task'.op = "reconcile"
      /\ task'.todo = NotClosed /\ sessions' = sessions
  BY DEF StartProcess, Idle
<1>3. task' \in Task
  BY NotClosedOK DEF StartProcess, Idle, Task, Points
<1>4. TaskOK'
  BY <1>2, NotClosedOK DEF TaskOK, StartPoints, Created
<1> QED BY <1>1, <1>3, <1>4, StepDone

\* After one session of the loop was dealt with, the rest of the list is as
\* it was.
LEMMA RestOfLoop ==
  ASSUME IInv, task.pc \in {"sweep", "reconcile"}, NEW s \in task.todo,
         task' = [task EXCEPT !.todo = @ \ {s}],
         \A r \in SessionIds \ {s} : sessions'[r] = sessions[r]
  PROVE  task' \in Task /\ TaskOK'
<1>1. task \in Task
  BY DEF IInv, TypeOK
<1>2. /\ task' \in Task /\ task'.pc = task.pc /\ task'.op = task.op
      /\ task'.user = task.user /\ task'.players = task.players
      /\ task'.todo = task.todo \ {s} /\ task.todo \subseteq SessionIds
  BY <1>1 DEF Task
<1>3. \A r \in task'.todo : Created(r)' /\ sessions'[r].state # "CLOSED"
  BY <1>2 DEF IInv, TaskOK, Created
<1> QED BY <1>2, <1>3 DEF IInv, TaskOK, StartPoints

\* One session of the sweep: closed, or its participants are inspected.
LEMMA SweepSessionStep ==
  ASSUME IInv, SweepSession
  PROVE  IInv' /\ StoreStep
<1>1. task.pc = "sweep" /\ now' = now /\ task \in Task
  BY DEF SweepSession, IInv, TypeOK
<1>2. PICK s \in task.todo :
        LET S    == sessions[s]
            rest == [task EXCEPT !.todo = @ \ {s}]
        IN \/ Close(s, "expired", rest, Idle)
           \/ Close(s, "owner_abandoned", rest, Idle)
           \/ /\ task' = [rest EXCEPT
                            !.pc = "inspect", !.sid = s,
                            !.queue = ActivePositions(S),
                            !.stale = {i \in ActivePositions(S) :
                                         IsStale(S.participants[i])}]
              /\ UNCHANGED <<sessions, purge, runtime, token, faults>>
  BY DEF SweepSession
<1> DEFINE rest == [task EXCEPT !.todo = @ \ {s}]
           A == ActivePositions(sessions[s])
           stale == {i \in A : IsStale(sessions[s].participants[i])}
<1>3. /\ s \in SessionIds /\ Created(s) /\ sessions[s].state # "CLOSED"
      /\ {"expired", "owner_abandoned"} \subseteq Reasons
      /\ task.todo \subseteq SessionIds
  BY <1>1 DEF IInv, TaskOK, Task, Reasons
<1>4. ASSUME NEW reason \in Reasons, Close(s, reason, rest, Idle)
      PROVE  IInv' /\ StoreStep
  <2>1. /\ StepOK
        /\ \/ task' = Idle
           \/ /\ task' = rest
              /\ \A r \in SessionIds \ {s} : sessions'[r] = sessions[r]
    BY <1>1, <1>3, <1>4, CloseOK
  <2>2. task' \in Task /\ TaskOK'
    BY <1>1, <2>1, QuietTask, RestOfLoop
  <2> QED BY <2>1, <2>2, StepDone
<1>5. CASE /\ task' = [rest EXCEPT !.pc = "inspect", !.sid = s, !.queue = A,
                                   !.stale = stale]
           /\ UNCHANGED <<sessions, purge, runtime, token, faults>>
  <2>1. A \subseteq Positions /\ stale \subseteq Positions
    BY <1>3, PositionsInPids DEF ActivePositions
  <2>2. s \in Nat
    BY <1>3 DEF SessionIds
  <2>3. /\ rest \in Task /\ rest.op = task.op /\ rest.user = task.user
        /\ rest.players = task.players /\ rest.todo = task.todo \ {s}
    BY <1>1, <1>3 DEF Task
  <2> HIDE DEF stale, A, rest
  <2>4. /\ task' \in Task /\ task'.pc = "inspect" /\ task'.sid = s
        /\ task'.queue = A /\ task'.op = task.op /\ task'.user = task.user
        /\ task'.players = task.players /\ task'.todo = task.todo \ {s}
    BY <1>5, <2>2, <2>3, <2>1 DEF Task, Points
  <2>5. StepOK
    BY <1>1, <1>5, TaskOnlyStep DEF IInv, TypeOK
  <2>6. TaskOK'
    BY <1>1, <1>3, <1>5, <2>4 DEF TaskOK, IInv, StartPoints, Created, A
  <2> QED BY <2>4, <2>5, <2>6, StepDone
<1> QED BY <1>2, <1>3, <1>4, <1>5

\* The sweep is over: a create goes on to admission.
LEMMA SweepDoneStep ==
  ASSUME IInv, SweepDone
  PROVE  IInv' /\ StoreStep
<1>1. task \in Task /\ task.pc = "sweep" /\ task.todo = {} /\ sessions' = sessions
  BY DEF SweepDone, IInv, TypeOK
<1>2. StepOK
  BY TaskOnlyStep DEF SweepDone, IInv, TypeOK
<1>3. CASE task.op = "create"
  <2>1. /\ task' \in Task /\ task'.pc = "admit" /\ task'.op = task.op
        /\ task'.todo = {} /\ task'.user = task.user
        /\ task'.players = task.players
    BY <1>1, <1>3 DEF SweepDone, Task, Points
  <2>2. TaskOK'
    BY <1>1, <1>3, <2>1 DEF TaskOK, IInv, StartPoints
  <2> QED BY <1>2, <2>1, <2>2, StepDone
<1>4. CASE task.op # "create"
  BY <1>2, <1>4, QuietTask, StepDone DEF SweepDone
<1> QED BY <1>3, <1>4

\* The rest of the participants of a session under inspection stays ACTIVE.
LEMMA RestOfInspection ==
  ASSUME IInv, task.pc \in {"inspect", "evict"},
         NEW i, i \notin task'.queue, task'.queue \subseteq task.queue,
         task' \in Task, task'.pc = "inspect", task'.sid = task.sid,
         task'.op = task.op, task'.user = task.user,
         task'.players = task.players, task'.todo = task.todo,
         sessions'[task.sid] # NoSession,
         sessions'[task.sid].state = sessions[task.sid].state,
         DOMAIN sessions'[task.sid].participants =
           DOMAIN sessions[task.sid].participants,
         \A j \in DOMAIN sessions[task.sid].participants \ {i} :
           sessions'[task.sid].participants[j] =
             sessions[task.sid].participants[j],
         \A r \in SessionIds \ {task.sid} : sessions'[r] = sessions[r]
  PROVE  TaskOK'
<1>1. /\ task.sid \in SessionIds \ task.todo /\ task.todo \subseteq SessionIds
      /\ task.queue \subseteq ActivePositions(sessions[task.sid])
      /\ sessions[task.sid].state # "CLOSED"
  BY DEF IInv, TaskOK, TypeOK, Task
<1>2. task'.queue \subseteq ActivePositions(sessions'[task.sid])
  BY <1>1 DEF ActivePositions
<1>3. \A r \in task'.todo : Created(r)' /\ sessions'[r].state # "CLOSED"
  BY <1>1 DEF IInv, TaskOK, Created
<1>4. task'.op = "create" => task'.user \in Users /\ task'.players \in PlayerLimits
  BY DEF IInv, TaskOK
<1> QED BY <1>1, <1>2, <1>3, <1>4 DEF TaskOK, StartPoints, Created

\* One participant: retired for its silence, passed over, or to be evicted.
LEMMA InspectParticipantStep ==
  ASSUME IInv, InspectParticipant
  PROVE  IInv' /\ StoreStep
<1>1. /\ task.pc = "inspect" /\ now' = now /\ task \in Task
      /\ faults \in Nat
  BY DEF InspectParticipant, IInv, TypeOK
<1>2. PICK i \in task.queue :
        LET rest == [task EXCEPT !.queue = @ \ {i}] IN
        \/ RetireParticipant(task.sid, i, FALSE, rest, Idle)
        \/ /\ task' = rest
           /\ NoFault
           /\ UNCHANGED <<sessions, purge, runtime, token>>
        \/ /\ NoFault \/ Fault("agent")
           /\ task' = [rest EXCEPT !.pc = "evict", !.pos = i]
           /\ UNCHANGED <<sessions, purge, runtime, token>>
  BY DEF InspectParticipant
<1> DEFINE rest == [task EXCEPT !.queue = @ \ {i}]
           s == task.sid
<1>3. /\ s \in SessionIds /\ Created(s) /\ sessions[s].state # "CLOSED"
      /\ i \in ActivePositions(sessions[s])
      /\ i \in DOMAIN sessions[s].participants
      /\ i \in Nat
  BY <1>1, PositionsInPids DEF IInv, TaskOK, ActivePositions, Task, Positions
<1>4. /\ rest \in Task /\ rest.pc = "inspect" /\ rest.sid = s
      /\ rest.op = task.op /\ rest.user = task.user /\ rest.todo = task.todo
      /\ rest.players = task.players /\ rest.queue = task.queue \ {i}
  BY <1>1 DEF Task
<1>5. [rest EXCEPT !.pc = "evict", !.pos = i].queue = rest.queue
  BY <1>4 DEF Task
<1> HIDE DEF rest
<1>6. CASE RetireParticipant(s, i, FALSE, rest, Idle)
  <2> DEFINE failed == FALSE
  <2>1. failed \in BOOLEAN /\ ~failed /\ RetireParticipant(s, i, failed, rest, Idle)
    BY <1>6
  <2> HIDE DEF failed
  <2> HIDE DEF s
  <2>2. /\ StepOK
        /\ \/ task' = Idle
           \/ /\ task' = rest
              /\ sessions'[s].state = sessions[s].state
              /\ DOMAIN sessions'[s].participants = DOMAIN sessions[s].participants
              /\ \A j \in DOMAIN sessions[s].participants \ {i} :
                   sessions'[s].participants[j] = sessions[s].participants[j]
              /\ sessions'[s] # NoSession
              /\ \A r \in SessionIds \ {s} : sessions'[r] = sessions[r]
    BY <1>1, <1>3, <2>1, RetireParticipantOK DEF Created
  <2>3. CASE task' = Idle
    BY <2>2, <2>3, QuietTask, StepDone
  <2>4. CASE task' = rest
    <3>1. task' \in Task
      BY <1>4, <2>4
    <3>2. TaskOK'
      BY <1>1, <1>4, <2>2, <2>4, QuietTask, RestOfInspection DEF s
    <3> QED BY <2>2, <3>1, <3>2, StepDone
  <2> QED BY <2>2, <2>3, <2>4
<1>7. CASE /\ task' = rest
           /\ NoFault
           /\ UNCHANGED <<sessions, purge, runtime, token>>
  <2>1. StepOK
    BY <1>1, <1>7, TaskOnlyStep, FaultsOK
  <2>2. sessions'[task.sid] # NoSession
    BY <1>3, <1>7 DEF Created
  <2>3. TaskOK'
    BY <1>1, <1>4, <1>7, <2>2, RestOfInspection
  <2> QED BY <1>4, <1>7, <2>1, <2>3, StepDone
<1>8. CASE /\ NoFault \/ Fault("agent")
           /\ task' = [rest EXCEPT !.pc = "evict", !.pos = i]
           /\ UNCHANGED <<sessions, purge, runtime, token>>
  <2>1. /\ task' \in Task /\ task'.pc = "evict" /\ task'.pos = i
        /\ task'.sid = s /\ task'.op = task.op /\ task'.user = task.user
        /\ task'.players = task.players /\ task'.todo = task.todo
        /\ task'.queue = task.queue \ {i}
    BY <1>3, <1>4, <1>8 DEF Task, Points
  <2>2. faults' \in Nat
    BY <1>1, <1>8, FaultsOK DEF AllFaultKinds
  <2>3. StepOK
    BY <1>1, <1>8, <2>2, TaskOnlyStep
  <2>4. TaskOK'
    BY <1>1, <1>3, <1>8, <2>1 DEF TaskOK, IInv, StartPoints, Created
  <2> QED BY <2>1, <2>3, <2>4, StepDone
<1> QED BY <1>2, <1>6, <1>7, <1>8 DEF rest

\* The locals of the inspected session are dropped, the list goes on.
LEMMA ResumeSweepOK ==
  ASSUME IInv, task.pc \in {"inspect", "evict"}, task' = ResumeSweep,
         \A r \in SessionIds \ {task.sid} : sessions'[r] = sessions[r]
  PROVE  task' \in Task /\ TaskOK'
<1>1. task \in Task
  BY DEF IInv, TypeOK
<1>2. /\ task' \in Task /\ task'.pc = "sweep" /\ task'.op = task.op
      /\ task'.user = task.user /\ task'.players = task.players
      /\ task'.todo = task.todo /\ task.todo \subseteq SessionIds
  BY <1>1 DEF ResumeSweep, Task, Points
<1>3. \A r \in task'.todo : Created(r)' /\ sessions'[r].state # "CLOSED"
  BY <1>2 DEF IInv, TaskOK, Created
<1> QED BY <1>2, <1>3 DEF IInv, TaskOK, StartPoints

\* All participants of the session were looked at.
LEMMA InspectDoneStep ==
  ASSUME IInv, InspectDone
  PROVE  IInv' /\ StoreStep
<1>1. StepOK
  BY TaskOnlyStep DEF InspectDone, IInv, TypeOK
<1>2. task' \in Task /\ TaskOK'
  BY ResumeSweepOK DEF InspectDone
<1> QED BY <1>1, <1>2, StepDone

\* A failed runtime: the owner's closes the session, a guest's fails the guest.
LEMMA EvictParticipantStep ==
  ASSUME IInv, EvictParticipant
  PROVE  IInv' /\ StoreStep
<1> DEFINE s == task.sid
           i == task.pos
           next == [task EXCEPT !.pc = "inspect", !.pos = 0]
<1>1. /\ task.pc = "evict" /\ now' = now /\ task \in Task
      /\ "owner_runtime_failed" \in Reasons
  BY DEF EvictParticipant, IInv, TypeOK, Reasons
<1>2. /\ s \in SessionIds /\ Created(s) /\ sessions[s].state # "CLOSED"
      /\ i \in DOMAIN sessions[s].participants /\ i \notin task.queue
      /\ sessions[s].participants[i].state = "ACTIVE"
  BY <1>1 DEF IInv, TaskOK, ActivePositions
<1>3. /\ next \in Task /\ next.pc = "inspect" /\ next.sid = s
      /\ next.op = task.op /\ next.user = task.user /\ next.todo = task.todo
      /\ next.players = task.players /\ next.queue = task.queue
  BY <1>1 DEF Task, Points
<1> HIDE DEF next
<1>4. CASE Close(s, "owner_runtime_failed", ResumeSweep, Idle)
  <2> HIDE DEF s
  <2>1. /\ StepOK
        /\ \/ task' = Idle
           \/ /\ task' = ResumeSweep
              /\ \A r \in SessionIds \ {s} : sessions'[r] = sessions[r]
    BY <1>1, <1>2, <1>4, CloseOK
  <2>2. task' \in Task /\ TaskOK'
    BY <1>1, <2>1, QuietTask, ResumeSweepOK DEF s
  <2> QED BY <2>1, <2>2, StepDone
<1>5. CASE RetireParticipant(s, i, TRUE, next, Idle)
  <2> DEFINE failed == TRUE
  <2>1. failed \in BOOLEAN /\ RetireParticipant(s, i, failed, next, Idle)
    BY <1>5
  <2> HIDE DEF failed, s, i
  <2>2. /\ StepOK
        /\ \/ task' = Idle
           \/ /\ task' = next
              /\ sessions'[s].state = sessions[s].state
              /\ DOMAIN sessions'[s].participants = DOMAIN sessions[s].participants
              /\ \A j \in DOMAIN sessions[s].participants \ {i} :
                   sessions'[s].participants[j] = sessions[s].participants[j]
              /\ sessions'[s] # NoSession
              /\ \A r \in SessionIds \ {s} : sessions'[r] = sessions[r]
    BY <1>1, <1>2, <2>1, RetireParticipantOK DEF Created
  <2>3. CASE task' = Idle
    BY <2>2, <2>3, QuietTask, StepDone
  <2>4. CASE task' = next
    <3>1. task' \in Task
      BY <1>3, <2>4
    <3>2. TaskOK'
      BY <1>1, <1>2, <1>3, <2>2, <2>4, QuietTask, RestOfInspection DEF s
    <3> QED BY <2>2, <3>1, <3>2, StepDone
  <2> QED BY <2>2, <2>3, <2>4
<1> QED BY <1>4, <1>5 DEF EvictParticipant, next

\* One session of the startup reconciliation.
LEMMA ReconcileSessionStep ==
  ASSUME IInv, ReconcileSession
  PROVE  IInv' /\ StoreStep
<1>1. /\ task.pc = "reconcile" /\ now' = now /\ task \in Task
      /\ "manager_restarted" \in Reasons
  BY DEF ReconcileSession, IInv, TypeOK, Reasons
<1>2. PICK s \in task.todo :
        Close(s, "manager_restarted", [task EXCEPT !.todo = @ \ {s}], Down)
  BY DEF ReconcileSession
<1>3. s \in SessionIds /\ Created(s)
  BY <1>1 DEF IInv, TaskOK, Task
<1>4. /\ StepOK
      /\ \/ task' = Down
         \/ /\ task' = [task EXCEPT !.todo = @ \ {s}]
            /\ \A r \in SessionIds \ {s} : sessions'[r] = sessions[r]
  BY <1>1, <1>2, <1>3, CloseOK
<1>5. task' \in Task /\ TaskOK'
  BY <1>1, <1>4, QuietTask, RestOfLoop
<1> QED BY <1>4, <1>5, StepDone

\* Every listed session was closed.
LEMMA ReconcileSessionsDoneStep ==
  ASSUME IInv, ReconcileSessionsDone
  PROVE  IInv' /\ StoreStep
<1>1. task \in Task /\ task.todo = {}
  BY DEF ReconcileSessionsDone, IInv, TypeOK
<1>2. task' \in Task /\ task'.pc = "runtimes" /\ task'.todo = {}
  BY <1>1 DEF ReconcileSessionsDone, Goto, Task, Points
<1>3. TaskOK'
  BY <1>2 DEF TaskOK, StartPoints
<1>4. StepOK
  BY TaskOnlyStep DEF ReconcileSessionsDone, IInv, TypeOK
<1> QED BY <1>2, <1>3, <1>4, StepDone

\* The containers left over are removed.
LEMMA ReconcileRuntimesStep ==
  ASSUME IInv, ReconcileRuntimes
  PROVE  IInv' /\ StoreStep
<1>1. now' = now /\ NotStored /\ faults \in Nat
  BY DEF ReconcileRuntimes, NotStored, IInv, TypeOK
<1>2. task' = Idle \/ task' = Down
  BY DEF ReconcileRuntimes
<1>3. RuntimesShrink /\ faults' \in Nat
  BY <1>1, RetireOK, FaultsOK DEF ReconcileRuntimes, AllFaultKinds
<1> QED BY <1>1, <1>2, <1>3, ShrinkStep, QuietTask, StepDone

-----------------------------------------------------------------------------
(* Time, runtimes and crashes *)

\* The clock advances.
LEMMA TickStep ==
  ASSUME IInv, Tick
  PROVE  IInv' /\ StoreStep
<1>1. /\ now' \in Nat /\ now <= now' /\ NotStored /\ sessions' = sessions
      /\ UNCHANGED <<runtime, token, task, faults>>
  BY DEF Tick, NotStored, IInv, TypeOK
<1>2. StepOK
  BY <1>1, StoreSame DEF StepOK, IInv, TypeOK, GoneOK, Created
<1>3. task' \in Task /\ TaskOK'
  BY <1>1 DEF IInv, TypeOK, TaskOK, Created
<1> QED BY <1>2, <1>3, StepDone

\* A container that exists changes its state by itself.
LEMMA RuntimeStep ==
  ASSUME IInv, NEW p \in Pids,
         BecomeHealthy(p) \/ BecomeUnhealthy(p) \/ RuntimeExits(p)
  PROVE  IInv' /\ StoreStep
<1>1. /\ now' = now /\ NotStored /\ sessions' = sessions /\ task' = task
      /\ token' \subseteq token /\ runtime[p] # "absent" /\ faults' \in Nat
  BY FaultsOK DEF BecomeHealthy, BecomeUnhealthy, RuntimeExits, NotStored, Up,
                  IInv, TypeOK, AllFaultKinds
<1>2. PICK st \in RuntimeState \ {"absent"} : runtime' = [runtime EXCEPT ![p] = st]
  BY DEF BecomeHealthy, BecomeUnhealthy, RuntimeExits, RuntimeState
<1>3. \A s \in SessionIds : Created(s) =>
        \A i \in DOMAIN sessions[s].participants :
          sessions[s].participants[i].state = "LEFT" => <<s, i>> # p
  BY <1>1 DEF IInv, GoneOK
<1>4. StepOK
  BY <1>1, <1>2, <1>3, OneContainerStep DEF Kept
<1>5. task' \in Task /\ TaskOK'
  BY <1>1 DEF IInv, TypeOK, TaskOK, Created
<1> QED BY <1>4, <1>5, StepDone

\* The process dies; the store and the containers stay.
LEMMA CrashStep ==
  ASSUME IInv, Crash
  PROVE  IInv' /\ StoreStep
<1>1. faults' \in Nat
  BY FaultsOK DEF Crash, IInv, TypeOK, AllFaultKinds
<1>2. StepOK
  BY <1>1, TaskOnlyStep DEF Crash
<1> QED BY <1>2, QuietTask, StepDone DEF Crash

-----------------------------------------------------------------------------
(* The theorems *)

\* The initial state: an empty store and no process.
LEMMA InitOK == Init => IInv
<1> SUFFICES ASSUME Init PROVE IInv
  OBVIOUS
<1>1. Down \in Task /\ Down.pc = "down" /\ Down.todo = {} /\ Down.op = "none"
  BY DEF Idle, Down, Task, Points
<1>2. TypeOK
  BY <1>1, BoundsAssumption DEF Init, TypeOK, RuntimeState
<1>3. \A s \in SessionIds : ~Created(s)
  BY DEF Init, Created
<1>4. TaskOK
  BY <1>1 DEF Init, TaskOK, StartPoints
<1> QED BY <1>2, <1>3, <1>4 DEF Init, IInv, StoreOK, GoneOK

\* Every step of the specification keeps IInv and changes the records legally.
LEMMA NextOK == IInv /\ [Next]_vars => IInv' /\ StoreStep
<1> SUFFICES ASSUME IInv, [Next]_vars PROVE IInv' /\ StoreStep
  OBVIOUS
<1>1. CASE Request
  BY <1>1, StartCreateStep, ExpireOnAccessStep, JoinStep, LaunchStep,
     HeartbeatStep, LeaveStep, KickStep, CloseByOwnerStep DEF Request
<1>2. CASE StartParticipant
  BY <1>2, AdmitStep, RefuseCreateStep, SaveStartingStep, LaunchRuntimeStep,
     WaitReadyStep, ProvisionStreamStep, SaveActiveStep,
     CleanupFailedRuntimeStep, SaveFailedStep DEF StartParticipant
<1>3. CASE StartSweep
  BY <1>3, StartSweepStep
<1>4. CASE Sweep
  BY <1>4, SweepSessionStep, SweepDoneStep, InspectParticipantStep,
     InspectDoneStep, EvictParticipantStep DEF Sweep
<1>5. CASE Reconcile
  BY <1>5, StartProcessStep, ReconcileSessionStep, ReconcileSessionsDoneStep,
     ReconcileRuntimesStep DEF Reconcile
<1>6. CASE Environment
  BY <1>6, TickStep, CrashStep, RuntimeStep DEF Environment
<1>7. CASE UNCHANGED vars
  <2>1. /\ UNCHANGED <<now, sessions, purge, runtime, token>> /\ task' = task
        /\ faults' \in Nat /\ sessions' = sessions
    BY <1>7 DEF vars, IInv, TypeOK
  <2>2. task' \in Task /\ TaskOK'
    BY <2>1 DEF IInv, TypeOK, TaskOK, Created
  <2> QED BY <2>1, <2>2, TaskOnlyStep, StepDone
<1> QED BY <1>1, <1>2, <1>3, <1>4, <1>5, <1>6, <1>7 DEF Next

\* IInv is an invariant of the specification.
THEOREM Inductive == Spec => []IInv
<1>1. Init => IInv
  BY InitOK
<1>2. IInv /\ [Next]_vars => IInv'
  BY NextOK
<1> QED BY <1>1, <1>2, PTL DEF Spec

\* Whatever fails or crashes, every variable keeps its type: no handler stores
\* a record or leaves a local variable outside the data model.
THEOREM TypeCorrect == Spec => []TypeOK
<1>1. IInv => TypeOK
  BY DEF IInv
<1> QED BY <1>1, Inductive, PTL

\* For every lease, lifetime and timeout: no sequence of joins, heartbeats and
\* slow starts pushes a lease past the session's lifetime.
THEOREM LeaseIsBounded == Spec => []LeaseBounded
<1>1. IInv => LeaseBounded
  BY DEF IInv, StoreOK, RecordOK, LeaseBounded
<1> QED BY <1>1, Inductive, PTL

\* For any number of players and participants: live participants never share a
\* slot, and the host stays first, on slot 1.
THEOREM SeatsAreSound == Spec => []SeatsSound
<1>1. IInv => SeatsSound
  BY DEF IInv, StoreOK, RecordOK, SeatsSound
<1> QED BY <1>1, Inductive, PTL

\* However calls to the providers fail: LEFT is only recorded once the runtime
\* and its token are gone.
THEOREM LeftMeansGone == Spec => []LeftIsGone
<1>1. IInv => LeftIsGone
  BY DEF IInv, GoneOK, LeftIsGone
<1> QED BY <1>1, Inductive, PTL

\* A CLOSED session has no live participant.
THEOREM ClosedMeansEmpty == Spec => []ClosedIsEmpty
<1>1. IInv => ClosedIsEmpty
  BY DEF IInv, StoreOK, RecordOK, ClosedIsEmpty
<1> QED BY <1>1, Inductive, PTL

\* Every save over a stored record, on every path, follows the transition
\* tables and leaves a CLOSED record alone.
THEOREM RecordsOnlyEvolve == Spec => RecordsEvolve
<1>1. IInv /\ [Next]_vars => [StoreStep]_vars
  BY NextOK
<1>2. [][StoreStep]_vars => RecordsEvolve
  BY DEF RecordsEvolve, StoreStep
<1> QED BY <1>1, <1>2, Inductive, PTL DEF Spec
=============================================================================

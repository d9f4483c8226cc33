------------------------- MODULE ServiceLockProofs -------------------------
(***************************************************************************)
(* While the starts of one busy period hold the service lock for less than *)
(* the idle timeout and the lease minus one heartbeat interval, nobody who *)
(* is present is retired: for any number of players and any durations.     *)
(***************************************************************************)
EXTENDS ServiceLock, TLAPS

\* The condition under which waiting for the lock does no harm.  With the
\* default durations (15 s, 45 s, 120 s) a busy period has to be shorter than
\* 30 s; a join alone may take 45 s and a create 180 s.
HoldsAreShort ==
  /\ BeatInterval + MaxHold < IdleTimeout
  /\ BeatInterval + MaxHold < LobbyLease

\* The clock does not pass a browser's next heartbeat, and runs ahead of what
\* was sent and recorded.
Clocks ==
  /\ \A u \in Players : sent[u] <= now /\ hb[u] <= now
  /\ \A u \in open : now <= sent[u] + BeatInterval

\* A heartbeat that waits is late by no more than the busy period has lasted;
\* one that does not wait has been recorded.
Recorded ==
  \A u \in active \cap open :
    /\ u \notin beats => hb[u] >= sent[u]
    /\ now <= hb[u] + BeatInterval + (MaxHold - budget)

\* The lease runs from the last recorded heartbeat of anybody.
Leased ==
  \A u \in active : expires >= hb[u] + LobbyLease \/ expires >= SessionTtl

OwnerStays == active # {} => Owner \in active

IInv == TypeOK /\ Clocks /\ Recorded /\ Leased /\ OwnerStays

-----------------------------------------------------------------------------

\* A sweep keeps the owner or nobody.
LEMMA SweptKeepsOwner == Swept \subseteq active /\ (Swept # {} => Owner \in Swept)
BY DEF Swept

\* Every variable keeps its type, whatever order the threads get the lock in.
LEMMA TypeStep == TypeOK /\ [Next]_vars => TypeOK'
<1> SUFFICES ASSUME TypeOK, [Next]_vars PROVE TypeOK'
  OBVIOUS
<1> USE LockAssumption DEF TypeOK, Starts
<1>1. ASSUME NEW u \in Players, SendHeartbeat(u) PROVE TypeOK'
  BY <1>1 DEF SendHeartbeat, lobby
<1>2. ASSUME NEW u \in Players, CloseBrowser(u) PROVE TypeOK'
  BY <1>2 DEF CloseBrowser, lobby, queue
<1>3. ASSUME NEW u \in Players, Heartbeat(u) PROVE TypeOK'
  BY <1>3 DEF Heartbeat, LeaseExpiry
<1>4. ASSUME NEW kind \in Starts, RequestStart(kind) PROVE TypeOK'
  BY <1>4 DEF RequestStart, lobby
<1>5. ASSUME NEW kind \in Starts, BeginStart(kind) PROVE TypeOK'
  BY <1>5, SweptKeepsOwner DEF BeginStart
<1>6. CASE WakeSweep
  BY <1>6 DEF WakeSweep, lobby
<1>7. CASE Sweep
  <2>1. sweeping' \in BOOLEAN
    BY <1>7, Zenon DEF Sweep
  <2>2. active' \subseteq Players /\ nextSweep' \in Nat
    BY <1>7, SweptKeepsOwner DEF Sweep
  <2> QED BY <1>7, <2>1, <2>2 DEF Sweep
<1>8. CASE EndStart
  BY <1>8 DEF EndStart, lobby, queue
<1>9. CASE Tick
  <2>1. budget' \in 0..MaxHold
    <3>1. CASE holder = "none"
      BY <1>9, <3>1 DEF Tick
    <3>2. CASE holder # "none"
      BY <1>9, <3>2 DEF Tick, Urgent
    <3> QED BY <3>1, <3>2
  <2> QED BY <1>9, <2>1 DEF Tick, lobby, queue
<1>10. CASE UNCHANGED vars
  BY <1>10 DEF vars, lobby, queue
<1> QED BY <1>1, <1>2, <1>3, <1>4, <1>5, <1>6, <1>7, <1>8, <1>9, <1>10 DEF Next

\* The initial values.
LEMMA TypeInit == Init => TypeOK
<1> SUFFICES ASSUME Init PROVE TypeOK
  OBVIOUS
<1>1. sweeping \in BOOLEAN
  BY Zenon DEF Init
<1>2. expires \in Nat
  BY LockAssumption DEF Init
<1>3. hb \in [Players -> Nat] /\ sent \in [Players -> Nat]
  BY DEF Init
<1> QED BY <1>1, <1>2, <1>3, LockAssumption DEF Init, TypeOK, Starts

\* The type invariant holds always.
THEOREM TypeCorrect == Spec => []TypeOK
BY TypeInit, TypeStep, PTL DEF Spec

-----------------------------------------------------------------------------

\* Initially everybody has just been heard from.
LEMMA InvInit == Init => IInv
<1> SUFFICES ASSUME Init PROVE IInv
  OBVIOUS
<1>1. /\ now = 0 /\ active = Players /\ open = Players /\ budget = MaxHold
      /\ \A u \in Players : hb[u] = 0 /\ sent[u] = 0
      /\ expires = LobbyLease \/ expires = SessionTtl
  BY DEF Init
<1>2. Clocks
  BY <1>1, LockAssumption DEF Clocks
<1>3. Recorded
  <2> SUFFICES ASSUME NEW u \in Players
               PROVE hb[u] >= sent[u] /\ now <= hb[u] + BeatInterval + (MaxHold - budget)
    BY <1>1 DEF Recorded
  <2> hb[u] = 0 /\ sent[u] = 0 /\ MaxHold - budget = 0
    BY <1>1, LockAssumption
  <2> QED BY <1>1, LockAssumption
<1>4. Leased
  <2> SUFFICES ASSUME NEW u \in Players
               PROVE expires >= hb[u] + LobbyLease \/ expires >= SessionTtl
    BY <1>1 DEF Leased
  <2> hb[u] = 0
    BY <1>1
  <2> QED BY <1>1, LockAssumption
<1>5. OwnerStays
  BY <1>1, LockAssumption DEF OwnerStays
<1> QED BY <1>2, <1>3, <1>4, <1>5, TypeInit DEF IInv

\* The invariant is kept by every step, and by the ticks of the clock because
\* no tick passes a heartbeat that is due or waits at a free lock.
LEMMA InvStep == IInv /\ [Next]_vars => IInv'
<1> SUFFICES ASSUME IInv, [Next]_vars PROVE IInv'
  OBVIOUS
<1> USE LockAssumption
<1>t. TypeOK /\ TypeOK'
  BY TypeStep DEF IInv
<1>i. Clocks /\ Recorded /\ Leased /\ OwnerStays
  BY DEF IInv
<1>1. ASSUME NEW u \in Players, SendHeartbeat(u) PROVE IInv'
  <2>1. Clocks'
    BY <1>1, <1>t, <1>i DEF SendHeartbeat, Clocks, TypeOK, lobby
  <2>2. Recorded'
    BY <1>1, <1>t, <1>i DEF SendHeartbeat, Recorded, TypeOK, lobby
  <2>3. Leased' /\ OwnerStays'
    BY <1>1, <1>t, <1>i DEF SendHeartbeat, Leased, OwnerStays, TypeOK, lobby
  <2> QED BY <2>1, <2>2, <2>3, <1>t DEF IInv
<1>2. ASSUME NEW u \in Players, CloseBrowser(u) PROVE IInv'
  BY <1>2, <1>t, <1>i DEF CloseBrowser, IInv, Clocks, Recorded, Leased, OwnerStays,
                         lobby, queue
<1>3. ASSUME NEW u \in Players, Heartbeat(u) PROVE IInv'
  <2>1. Clocks'
    BY <1>3, <1>t, <1>i DEF Heartbeat, Clocks, TypeOK
  <2>2. active' \subseteq active /\ OwnerStays'
    BY <1>3, <1>t, <1>i DEF Heartbeat, OwnerStays, TypeOK
  <2>3. Recorded'
    <3> SUFFICES ASSUME NEW w \in active' \cap open
                 PROVE /\ w \notin beats' => hb'[w] >= sent'[w]
                       /\ now' <= hb'[w] + BeatInterval + (MaxHold - budget')
      BY <1>3 DEF Recorded, Heartbeat
    <3> w \in Players /\ w \in active /\ w \in open
      BY <2>2, <1>t DEF TypeOK
    <3>1. CASE w = u
      BY <3>1, <1>3, <1>t, <1>i DEF Heartbeat, Clocks, TypeOK
    <3>2. CASE w # u
      BY <3>2, <1>3, <1>t, <1>i DEF Heartbeat, Recorded, TypeOK
    <3> QED BY <3>1, <3>2
  <2>4. Leased'
    <3> SUFFICES ASSUME NEW w \in active'
                 PROVE expires' >= hb'[w] + LobbyLease \/ expires' >= SessionTtl
      BY DEF Leased
    <3> w \in Players /\ w \in active
      BY <2>2, <1>t DEF TypeOK
    <3>1. CASE u \in active'
      <4>1. hb'[w] <= now
        BY <3>1, <1>3, <1>t, <1>i DEF Heartbeat, Clocks, TypeOK
      <4>2. expires' = LeaseExpiry
        BY <3>1, <1>3 DEF Heartbeat
      <4>3. hb'[w] \in Nat
        BY <1>t DEF TypeOK
      <4> QED BY <4>1, <4>2, <4>3, <1>t DEF LeaseExpiry, TypeOK
    <3>2. CASE u \notin active'
      BY <3>2, <1>3, <1>i DEF Heartbeat, Leased
    <3> QED BY <3>1, <3>2
  <2> QED BY <2>1, <2>2, <2>3, <2>4, <1>t DEF IInv
<1>4. ASSUME NEW kind \in Starts, RequestStart(kind) PROVE IInv'
  BY <1>4, <1>t, <1>i DEF RequestStart, IInv, Clocks, Recorded, Leased, OwnerStays, lobby
<1>5. ASSUME NEW kind \in Starts, BeginStart(kind) PROVE IInv'
  <2>1. active' \subseteq active /\ OwnerStays'
    BY <1>5, <1>i, SweptKeepsOwner DEF BeginStart, OwnerStays
  <2> QED BY <2>1, <1>5, <1>t, <1>i DEF BeginStart, IInv, Clocks, Recorded, Leased
<1>6. CASE WakeSweep
  BY <1>6, <1>t, <1>i DEF WakeSweep, IInv, Clocks, Recorded, Leased, OwnerStays, lobby
<1>7. CASE Sweep
  <2>1. active' \subseteq active /\ OwnerStays'
    BY <1>7, <1>i, SweptKeepsOwner DEF Sweep, OwnerStays
  <2> QED BY <2>1, <1>7, <1>t, <1>i DEF Sweep, IInv, Clocks, Recorded, Leased
<1>8. CASE EndStart
  BY <1>8, <1>t, <1>i DEF EndStart, IInv, Clocks, Recorded, Leased, OwnerStays, lobby, queue
<1>9. CASE Tick
  <2> USE DEF Tick, lobby, queue
  <2>1. \A u \in open : now < sent[u] + BeatInterval
    BY <1>9, <1>t DEF Urgent, TypeOK
  <2>2. Clocks'
    BY <2>1, <1>9, <1>t, <1>i DEF Clocks, TypeOK
  <2>3. Recorded'
    <3> SUFFICES ASSUME NEW w \in active \cap open
                 PROVE /\ w \notin beats => hb[w] >= sent[w]
                       /\ now + 1 <= hb[w] + BeatInterval + (MaxHold - budget')
      BY <1>9 DEF Recorded
    <3> w \in Players /\ hb[w] \in Nat /\ sent[w] \in Nat
      BY <1>t DEF TypeOK
    <3>1. CASE holder = "none"
      <4>1. w \notin beats
        BY <3>1, <1>9 DEF Urgent
      <4>2. budget' = MaxHold
        BY <3>1, <1>9
      <4> QED BY <4>1, <4>2, <2>1, <1>t, <1>i DEF Recorded, TypeOK
    <3>2. CASE holder # "none"
      BY <3>2, <1>9, <1>t, <1>i DEF Recorded, TypeOK
    <3> QED BY <3>1, <3>2
  <2>4. Leased' /\ OwnerStays'
    BY <1>9, <1>i DEF Leased, OwnerStays
  <2> QED BY <2>2, <2>3, <2>4, <1>t DEF IInv
<1>10. CASE UNCHANGED vars
  BY <1>10, <1>t, <1>i DEF vars, lobby, queue, IInv, Clocks, Recorded, Leased, OwnerStays
<1> QED BY <1>1, <1>2, <1>3, <1>4, <1>5, <1>6, <1>7, <1>8, <1>9, <1>10 DEF Next

-----------------------------------------------------------------------------

\* A player who is present has been heard from recently enough.
LEMMA PresentIsFresh ==
  ASSUME HoldsAreShort, IInv, NEW u \in active, u \in open
  PROVE ~IsStale(u) /\ (expires > now \/ now >= SessionTtl)
<1> USE LockAssumption
<1>1. u \in Players /\ hb[u] \in Nat
  BY DEF IInv, TypeOK
<1>2. now <= hb[u] + BeatInterval + MaxHold
  BY <1>1 DEF IInv, Recorded, TypeOK
<1>3. ~IsStale(u)
  BY <1>1, <1>2 DEF HoldsAreShort, IsStale, IInv, TypeOK
<1>4. expires > now \/ now >= SessionTtl
  BY <1>1, <1>2 DEF HoldsAreShort, IInv, Leased, TypeOK
<1> QED BY <1>3, <1>4

\* A sweep, also the one of a create, does not touch who is present.
LEMMA SweptKeepsPresent ==
  ASSUME HoldsAreShort, IInv, NEW u \in active, Attended(u), now < SessionTtl
  PROVE u \in Swept
<1> USE LockAssumption
<1>1. u \in open /\ Owner \in open /\ Owner \in active
  BY DEF Attended, IInv, OwnerStays
<1>2. ~IsStale(u) /\ ~IsStale(Owner) /\ expires > now
  BY <1>1, PresentIsFresh DEF IInv, TypeOK
<1> QED BY <1>1, <1>2 DEF Swept, IInv, TypeOK

\* Nobody is retired because a heartbeat waited behind somebody else's start,
\* as long as the starts of a busy period are short.
THEOREM ShortHoldsKeepPresent == HoldsAreShort => (Spec => PresentIsKept)
<1> SUFFICES ASSUME HoldsAreShort PROVE Spec => PresentIsKept
  OBVIOUS
<1> USE LockAssumption
<1>1. IInv /\ [Next]_vars =>
        [\A u \in active \ active' : ~Attended(u) \/ now >= SessionTtl]_vars
  <2> SUFFICES ASSUME IInv, Next, NEW u \in active, Attended(u), now < SessionTtl
               PROVE u \in active'
    BY DEF IInv, TypeOK
  <2>1. u \in Swept /\ expires > now
    BY SweptKeepsPresent, PresentIsFresh DEF Attended, IInv, TypeOK
  <2>2. ASSUME NEW w \in Players, SendHeartbeat(w) \/ CloseBrowser(w)
        PROVE u \in active'
    BY <2>2 DEF SendHeartbeat, CloseBrowser, lobby
  <2>3. ASSUME NEW w \in Players, Heartbeat(w) PROVE u \in active'
    BY <2>1, <2>3 DEF Heartbeat, IInv, TypeOK
  <2>4. ASSUME NEW kind \in Starts, RequestStart(kind) \/ BeginStart(kind)
        PROVE u \in active'
    BY <2>1, <2>4 DEF RequestStart, BeginStart, lobby
  <2>5. CASE WakeSweep \/ EndStart \/ Tick
    BY <2>5 DEF WakeSweep, EndStart, Tick, lobby
  <2>6. CASE Sweep
    BY <2>1, <2>6 DEF Sweep
  <2> QED BY <2>2, <2>3, <2>4, <2>5, <2>6 DEF Next
<1> QED BY <1>1, InvInit, InvStep, PTL DEF Spec, PresentIsKept
=============================================================================

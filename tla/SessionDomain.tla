--------------------------- MODULE SessionDomain ---------------------------
(***************************************************************************)
(* The lobby data model of the Session Manager: the states of a session    *)
(* and of a participant, the transitions the service allows between them,  *)
(* and the pure functions on session records the handlers are built from.  *)
(*                                                                         *)
(* A session record keeps the fields that the service decides on:          *)
(*   owner, players (max_players), state, participants, created, expires,  *)
(*   reason (closed_reason).                                               *)
(* A participant record keeps user, slot, state and hb (last_heartbeat).   *)
(* A participant's identifier is the pair <<session, position>>: the code  *)
(* draws a UUID, and only ever appends to the tuple of participants.       *)
(***************************************************************************)
EXTENDS Integers, Sequences, FiniteSets

SessionState ==
  {"CREATING", "STARTING", "OPEN", "RUNNING", "DRAINING", "CLOSED", "ERROR"}

ParticipantState ==
  {"ALLOCATING", "STARTING", "STREAM_READY", "NETPLAY_CONNECTING",
   "ACTIVE", "LEAVING", "LEFT", "ERROR"}

SESSION_TRANSITIONS ==
  [CREATING |-> {"STARTING", "OPEN", "CLOSED", "ERROR"},
   STARTING |-> {"OPEN", "CLOSED", "ERROR"},
   OPEN     |-> {"RUNNING", "DRAINING", "CLOSED", "ERROR"},
   RUNNING  |-> {"DRAINING", "CLOSED", "ERROR"},
   DRAINING |-> {"CLOSED", "ERROR"},
   CLOSED   |-> {},
   ERROR    |-> {"DRAINING", "CLOSED"}]

PARTICIPANT_TRANSITIONS ==
  [ALLOCATING         |-> {"STARTING", "ACTIVE", "ERROR"},
   STARTING           |-> {"STREAM_READY", "ACTIVE", "ERROR"},
   STREAM_READY       |-> {"NETPLAY_CONNECTING", "ACTIVE", "ERROR"},
   NETPLAY_CONNECTING |-> {"ACTIVE", "ERROR"},
   ACTIVE             |-> {"LEAVING", "ERROR"},
   LEAVING            |-> {"LEFT", "ERROR"},
   LEFT               |-> {},
   ERROR              |-> {"LEAVING", "LEFT"}]

-----------------------------------------------------------------------------
(* Participants. *)

\* A participant that has neither left nor failed holds a seat.
Live(p) == p.state \notin {"LEFT", "ERROR"}

LivePositions(S) == {i \in DOMAIN S.participants : Live(S.participants[i])}

ActivePositions(S) ==
  {i \in DOMAIN S.participants : S.participants[i].state = "ACTIVE"}

player_count(S) == Cardinality(LivePositions(S))

Occupied(S) == {S.participants[i].slot : i \in LivePositions(S)}

\* Mutant: the next slot is counted, not searched.
IsFreeSlot_Counted(S, slot) == slot \in 1..S.players /\ slot = player_count(S) + 1

\* The slot a new player gets: the lowest one no live participant holds.
IsFreeSlot(S, slot) ==
  /\ slot \in 1..S.players
  /\ slot \notin Occupied(S)
  /\ \A lower \in 1..(slot - 1) : lower \in Occupied(S)

\* What the Session model's validator demands of a record it decodes.
consistent_participants(S) ==
  /\ \A i, j \in LivePositions(S) : i # j =>
       /\ S.participants[i].user # S.participants[j].user
       /\ S.participants[i].slot # S.participants[j].slot
  /\ \A i \in LivePositions(S) : S.participants[i].slot <= S.players
  /\ player_count(S) <= S.players

-----------------------------------------------------------------------------
(* Retiring participants and closing a session. *)

\* _left_participant goes through LEAVING, and refuses a state that cannot.
CanLeave(p) ==
  \/ ~Live(p)
  \/ /\ "LEAVING" \in PARTICIPANT_TRANSITIONS[p.state]
     /\ "LEFT" \in PARTICIPANT_TRANSITIONS["LEAVING"]

left_participant(p, now) ==
  IF Live(p) THEN [p EXCEPT !.state = "LEFT", !.hb = now] ELSE p

CanClose(S) ==
  /\ "CLOSED" \in SESSION_TRANSITIONS[S.state]
  /\ \A i \in DOMAIN S.participants : CanLeave(S.participants[i])

\* Mutant: the participants keep their states.
Closed_SeatsKept(S, reason, now) == [S EXCEPT !.state = "CLOSED", !.reason = reason]

Closed(S, reason, now) ==
  [S EXCEPT !.state = "CLOSED",
            !.participants =
              [i \in DOMAIN S.participants |->
                 left_participant(S.participants[i], now)],
            !.reason = reason]

\* _replace_participant without append: the record with one participant changed.
Replaced(S, i, p) == [S EXCEPT !.participants[i] = p]

-----------------------------------------------------------------------------
(* Positions that satisfy a test, and the first of them. *)

IsFirst(i, positions) == i \in positions /\ \A j \in positions : i <= j
=============================================================================

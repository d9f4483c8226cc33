------------------------- MODULE SessionRepository -------------------------
(***************************************************************************)
(* What a session repository promises its callers, as the in-memory        *)
(* repository implements it: add and save are atomic, add refuses a        *)
(* session that exists, and save replaces exactly the revision the caller  *)
(* names.  A record is its revision; 0 stands for no record.               *)
(*                                                                         *)
(* A record may go away by itself, when its retention ends, and a caller   *)
(* may get an error in place of the outcome, as over a connection.         *)
(***************************************************************************)
EXTENDS Naturals

CONSTANTS
  Keys,       \* session identifiers
  Clients,    \* callers
  Revisions   \* the revisions a caller may name

VARIABLES
  store,  \* the revision of each record
  call    \* what each caller asked for, and how far it is

NoCall == [op |-> "none"]

Init ==
  /\ store = [k \in Keys |-> 0]
  /\ call = [c \in Clients |-> NoCall]

Ask(c, op, k, expected) ==
  /\ call[c] = NoCall
  /\ call' = [call EXCEPT ![c] =
                [op |-> op, key |-> k, expected |-> expected, stage |-> "pending"]]
  /\ UNCHANGED store

\* The one moment at which a call takes effect, or is refused.
Apply(c, current, next) ==
  /\ call[c].stage = "pending"
  /\ IF store[call[c].key] = current
       THEN /\ store' = [store EXCEPT ![call[c].key] = next]
            /\ call' = [call EXCEPT ![c].stage = "applied"]
       ELSE /\ call' = [call EXCEPT ![c].stage = "refused"]
            /\ UNCHANGED store

add(c) == call[c].op = "add" /\ Apply(c, 0, 1)

save(c) ==
  /\ call[c].op = "save"
  /\ Apply(c, call[c].expected, call[c].expected + 1)

\* The caller hears the outcome, or that the connection failed.
Answer(c) ==
  /\ call[c] # NoCall
  /\ call' = [call EXCEPT ![c] = NoCall]
  /\ UNCHANGED store

Expire(k) ==
  /\ store' = [store EXCEPT ![k] = 0]
  /\ UNCHANGED call

Next ==
  \/ \E c \in Clients :
       \/ \E k \in Keys : Ask(c, "add", k, 0)
       \/ \E k \in Keys, expected \in Revisions : Ask(c, "save", k, expected)
       \/ add(c) \/ save(c) \/ Answer(c)
  \/ \E k \in Keys : Expire(k)

Spec == Init /\ [][Next]_<<store, call>>
=============================================================================

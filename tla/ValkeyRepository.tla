-------------------------- MODULE ValkeyRepository --------------------------
(***************************************************************************)
(* The Valkey session repository: one key per session with an expiry, and  *)
(* one index set that list() walks.  Every command to the server is a step *)
(* of its own, so that clients interleave, keys expire and connections     *)
(* break between two of them.  The server executes one command, or one     *)
(* MULTI transaction, at a time.                                           *)
(*                                                                         *)
(* The value of a key is the revision of the record it holds, 0 for none;  *)
(* the rest of the record is carried along.  Session identifiers are fresh *)
(* UUIDs: only one add is ever made for a key.                             *)
(***************************************************************************)
EXTENDS Naturals, FiniteSets

CONSTANTS
  Keys,        \* session keys
  Clients,     \* callers of the repository
  MaxRevision  \* bound: revisions of one record

ASSUME RepositoryAssumption == MaxRevision \in Nat \ {0} /\ 0 \notin Keys

VARIABLES
  store,    \* the revision under each key
  highest,  \* the last revision ever written under each key
  index,    \* the members of the index set
  client    \* the call each client is in

vars == <<store, highest, index, client>>

-----------------------------------------------------------------------------
(* State *)

Points == {"idle", "set", "sadd", "watch", "get", "exec", "smembers", "fetch",
           "srem", "applied", "refused", "listed"}

NoKey == 0

Client ==
  [pc : Points, key : Keys \cup {NoKey}, expected : Nat,
   dirty : BOOLEAN,     \* the watched key changed
   todo : SUBSET Keys,  \* keys list() still has to fetch
   found : SUBSET Keys, \* sessions list() will return
   steady : SUBSET Keys] \* saved sessions present since list() began

Quiet == [pc |-> "idle", key |-> NoKey, expected |-> 0, dirty |-> FALSE,
          todo |-> {}, found |-> {}, steady |-> {}]

Init ==
  /\ store = [k \in Keys |-> 0]
  /\ highest = [k \in Keys |-> 0]
  /\ index = {}
  /\ client = [c \in Clients |-> Quiet]

At(c, pc) == client[c].pc = pc

\* client with c moved to pc, and a write to key k seen by those who watch it.
Written(k, c, pc) ==
  [d \in Clients |->
     IF d = c THEN [client[d] EXCEPT !.pc = pc]
     ELSE IF client[d].key = k THEN [client[d] EXCEPT !.dirty = TRUE]
     ELSE client[d]]

Goto(c, pc) == client' = [client EXCEPT ![c].pc = pc]

-----------------------------------------------------------------------------
(* add: SET NX, then SADD *)

Fresh(k) == highest[k] = 0 /\ \A c \in Clients : client[c].key # k

CallAdd(c, k) ==
  /\ At(c, "idle")
  /\ Fresh(k)
  /\ client' = [client EXCEPT ![c] = [Quiet EXCEPT !.pc = "set", !.key = k]]
  /\ UNCHANGED <<store, highest, index>>

SetKey(c) ==
  LET k == client[c].key IN
  /\ At(c, "set")
  /\ IF store[k] = 0
       THEN /\ store' = [store EXCEPT ![k] = 1]
            /\ highest' = [highest EXCEPT ![k] = 1]
            /\ client' = Written(k, c, "sadd")
       ELSE Goto(c, "refused") /\ UNCHANGED <<store, highest>>
  /\ UNCHANGED index

AddToIndex(c) ==
  /\ At(c, "sadd")
  /\ index' = index \cup {client[c].key}
  /\ Goto(c, "applied")
  /\ UNCHANGED <<store, highest>>

-----------------------------------------------------------------------------
(* save: WATCH, GET, compare revisions, MULTI SET SADD EXEC *)

\* The caller names a revision it has read or written before.
CallSave(c, k, expected) ==
  /\ At(c, "idle")
  /\ expected \in 1..highest[k]
  /\ expected < MaxRevision
  /\ client' = [client EXCEPT ![c] =
                  [Quiet EXCEPT !.pc = "watch", !.key = k, !.expected = expected]]
  /\ UNCHANGED <<store, highest, index>>

WatchKey(c) ==
  /\ At(c, "watch")
  /\ client' = [client EXCEPT ![c].pc = "get", ![c].dirty = FALSE]
  /\ UNCHANGED <<store, highest, index>>

\* Mutant: a record that is gone does not refuse the save.
GetKey_NoneAccepted(c) ==
  /\ At(c, "get")
  /\ Goto(c, IF store[client[c].key] \in {0, client[c].expected} THEN "exec" ELSE "refused")
  /\ UNCHANGED <<store, highest, index>>

GetKey(c) ==
  /\ At(c, "get")
  /\ Goto(c, IF store[client[c].key] = client[c].expected THEN "exec" ELSE "refused")
  /\ UNCHANGED <<store, highest, index>>

\* Mutants: save does not write the index; the key is not watched,
\* it only has to exist (SET XX).
Execute_NoIndex(c) ==
  LET k == client[c].key
      next == client[c].expected + 1
  IN /\ At(c, "exec")
     /\ ~client[c].dirty
     /\ store' = [store EXCEPT ![k] = next]
     /\ highest' = [highest EXCEPT ![k] = next]
     /\ client' = Written(k, c, "applied")
     /\ UNCHANGED index

Execute_NoWatch(c) ==
  LET k == client[c].key
      next == client[c].expected + 1
  IN /\ At(c, "exec")
     /\ IF store[k] = 0
          THEN Goto(c, "refused") /\ UNCHANGED <<store, highest, index>>
          ELSE /\ store' = [store EXCEPT ![k] = next]
               /\ highest' = [highest EXCEPT ![k] = next]
               /\ index' = index \cup {k}
               /\ client' = Written(k, c, "applied")

\* EXEC does nothing when the watched key was written or has expired.
Execute(c) ==
  LET k == client[c].key
      next == client[c].expected + 1
  IN /\ At(c, "exec")
     /\ IF client[c].dirty
          THEN Goto(c, "refused") /\ UNCHANGED <<store, highest, index>>
          ELSE /\ store' = [store EXCEPT ![k] = next]
               /\ highest' = [highest EXCEPT ![k] = next]
               /\ index' = index \cup {k}
               /\ client' = Written(k, c, "applied")

-----------------------------------------------------------------------------
(* list: SMEMBERS, then GET each member, and SREM the ones that are gone *)

CallList(c) ==
  /\ At(c, "idle")
  /\ client' = [client EXCEPT ![c] =
                  [Quiet EXCEPT !.pc = "smembers",
                                !.steady = {k \in Keys : store[k] > 1}]]
  /\ UNCHANGED <<store, highest, index>>

ReadIndex(c) ==
  /\ At(c, "smembers")
  /\ client' = [client EXCEPT ![c].pc = "fetch", ![c].todo = index]
  /\ UNCHANGED <<store, highest, index>>

\* Mutant: list() ends at the first key that is gone.
Fetched_Ends(call, k) ==
  IF store[k] = 0
    THEN [call EXCEPT !.pc = "listed", !.todo = {}]
    ELSE [call EXCEPT !.todo = call.todo \ {k}, !.found = call.found \cup {k}]

\* The state of a list() that has read key k.
Fetched(call, k) ==
  IF store[k] = 0
    THEN [call EXCEPT !.pc = "srem", !.todo = call.todo \ {k}, !.key = k]
    ELSE [call EXCEPT !.todo = call.todo \ {k}, !.found = call.found \cup {k}]

Fetch(c) ==
  /\ At(c, "fetch")
  /\ \E k \in client[c].todo :
       client' = [client EXCEPT ![c] = Fetched(client[c], k)]
  /\ UNCHANGED <<store, highest, index>>

DropFromIndex(c) ==
  /\ At(c, "srem")
  /\ index' = index \ {client[c].key}
  /\ client' = [client EXCEPT ![c].pc = "fetch", ![c].key = NoKey]
  /\ UNCHANGED <<store, highest>>

Listed(c) ==
  /\ At(c, "fetch")
  /\ client[c].todo = {}
  /\ Goto(c, "listed")
  /\ UNCHANGED <<store, highest, index>>

-----------------------------------------------------------------------------
(* The connection and the server *)

Return(c) ==
  /\ client[c].pc \in {"applied", "refused", "listed"}
  /\ client' = [client EXCEPT ![c] = Quiet]
  /\ UNCHANGED <<store, highest, index>>

\* A command failed, or the process died: the call ends wherever it is.
Break(c) ==
  /\ client[c].pc \notin {"idle", "applied", "refused", "listed"}
  /\ client' = [client EXCEPT ![c] = Quiet]
  /\ UNCHANGED <<store, highest, index>>

\* The key's time to live ends.
Expire(k) ==
  /\ store[k] > 0
  /\ store' = [store EXCEPT ![k] = 0]
  /\ client' = [c \in Clients |->
                  [client[c] EXCEPT !.dirty = @ \/ client[c].key = k,
                                    !.steady = @ \ {k}]]
  /\ UNCHANGED <<highest, index>>

-----------------------------------------------------------------------------
(* Specification *)

Next ==
  \/ \E c \in Clients :
       \/ \E k \in Keys : CallAdd(c, k)
       \/ SetKey(c)
       \/ AddToIndex(c)
       \/ \E k \in Keys, expected \in 1..MaxRevision : CallSave(c, k, expected)
       \/ WatchKey(c)
       \/ GetKey(c)
       \/ Execute(c)
       \/ CallList(c)
       \/ ReadIndex(c)
       \/ Fetch(c)
       \/ DropFromIndex(c)
       \/ Listed(c)
       \/ Return(c)
       \/ Break(c)
  \/ \E k \in Keys : Expire(k)

Spec == Init /\ [][Next]_vars

-----------------------------------------------------------------------------
(* Properties *)

\* Every variable has its type.
TypeOK ==
  /\ store \in [Keys -> Nat]
  /\ highest \in [Keys -> Nat]
  /\ index \subseteq Keys
  /\ client \in [Clients -> Client]

\* A session that was saved at least once after its add is in the index as
\* long as it exists: no add that was cut off between SET and SADD, and no
\* list() that removes a key it saw missing, hides a session that may have a
\* runtime from the sweep and from startup reconciliation.
SavedIsIndexed == \A k \in Keys : store[k] > 1 => k \in index

\* list() is not a snapshot, but it misses no saved session that was there all
\* the time it ran.
ListComplete == \A c \in Clients : At(c, "listed") => client[c].steady \subseteq client[c].found

\* A record that has expired never comes back: a save that read it before, or
\* an add that was slow, does not bring a session back to life.
NoResurrection ==
  [][\A k \in Keys : highest[k] > 0 /\ store[k] = 0 => store'[k] = 0]_vars

\* The abstract call a client is in.
Abstracted(c) ==
  LET call(op, stage) == [op |-> op, key |-> client[c].key,
                          expected |-> client[c].expected, stage |-> stage]
  IN CASE client[c].pc = "set" -> call("add", "pending")
       [] client[c].pc = "sadd" -> call("add", "applied")
       [] client[c].pc \in {"watch", "get", "exec"} -> call("save", "pending")
       [] client[c].pc \in {"applied", "refused"} ->
            call(IF client[c].expected = 0 THEN "add" ELSE "save", client[c].pc)
       [] OTHER -> [op |-> "none"]

Calls == [c \in Clients |-> Abstracted(c)]

Abstract == INSTANCE SessionRepository WITH call <- Calls, Revisions <- 1..MaxRevision

\* The repository keeps the promise of the in-memory one although WATCH, GET
\* and EXEC are separate commands: a save that is answered took effect at one
\* moment, on exactly the revision its caller named, and a save that is refused
\* was refused at a moment when that revision was no longer current.
KeepsContract == Abstract!Spec
=============================================================================

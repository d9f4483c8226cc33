----------------------- MODULE ValkeyRepositoryProofs -----------------------
(***************************************************************************)
(* Proofs about ValkeyRepository, for any sets of keys and clients and any *)
(* number of revisions.                                                    *)
(***************************************************************************)
EXTENDS ValkeyRepository, TLAPS

\* What a client that is in a call knows about its key.
CallOK(c) ==
  LET k == client[c].key
      e == client[c].expected
  IN /\ client[c].pc = "set" =>
          /\ k \in Keys /\ e = 0 /\ highest[k] = 0
          /\ \A d \in Clients \ {c} : client[d].key # k
     /\ client[c].pc = "sadd" => k \in Keys /\ e = 0 /\ highest[k] > 0
     /\ client[c].pc \in {"watch", "get", "exec"} => k \in Keys /\ e \in 1..highest[k]
     /\ client[c].pc \in {"get", "exec"} /\ client[c].dirty =>
          store[k] = 0 \/ store[k] > e
     /\ client[c].pc = "exec" /\ ~client[c].dirty => store[k] = e

\* What a client that is listing knows: a key to be dropped is gone for good,
\* and a steady session is found, or still to be fetched.
ListOK(c) ==
  /\ client[c].pc = "srem" =>
       client[c].key \in Keys /\ store[client[c].key] = 0 /\ highest[client[c].key] > 0
  /\ \A k \in client[c].todo : highest[k] > 0
  /\ \A k \in client[c].steady : store[k] > 1
  /\ client[c].pc = "smembers" => client[c].steady \subseteq index
  /\ client[c].pc \in {"fetch", "srem"} =>
       client[c].steady \subseteq client[c].found \cup client[c].todo
  /\ client[c].pc = "listed" => client[c].steady \subseteq client[c].found

StoreOK ==
  \A k \in Keys :
    /\ store[k] \in {0, highest[k]}
    /\ k \in index => highest[k] > 0
    /\ store[k] > 1 => k \in index

\* The inductive invariant.
IInv ==
  /\ TypeOK
  /\ StoreOK
  /\ \A c \in Clients : CallOK(c) /\ ListOK(c)

\* The body of NoResurrection.
StaysGone == \A k \in Keys : highest[k] > 0 /\ store[k] = 0 => store'[k] = 0

\* The initial state: an empty server.
LEMMA InitOK == Init => IInv
  BY DEF Init, IInv, TypeOK, StoreOK, CallOK, ListOK, Client, Quiet, Points, NoKey

\* A step of one client that leaves the server alone.
LEMMA LocalStep ==
  ASSUME IInv, NEW c \in Clients, NEW new \in Client,
         client' = [client EXCEPT ![c] = new],
         UNCHANGED <<store, highest, index>>,
         CallOK(c)', ListOK(c)',
         \A d \in Clients \ {c} : client[d].pc = "set" => client[d].key # new.key
  PROVE  IInv' /\ StaysGone
<1>1. /\ client \in [Clients -> Client]
      /\ client' \in [Clients -> Client]
      /\ \A d \in Clients : client'[d] = IF d = c THEN new ELSE client[d]
  BY DEF IInv, TypeOK
<1>2. ASSUME NEW d \in Clients, d # c
      PROVE  CallOK(d)' /\ ListOK(d)'
  <2>1. CallOK(d) /\ ListOK(d) /\ client'[d] = client[d] /\ client'[c] = new
    BY <1>1, <1>2 DEF IInv
  <2>2. ListOK(d)'
    BY <2>1 DEF ListOK
  <2>3. CallOK(d)'
    BY <1>1, <1>2, <2>1 DEF CallOK
  <2> QED BY <2>2, <2>3
<1> QED BY <1>1, <1>2 DEF IInv, TypeOK, StoreOK, StaysGone

\* A call of add, for a fresh key.
LEMMA CallAddStep ==
  ASSUME IInv, NEW c \in Clients, NEW k \in Keys, CallAdd(c, k)
  PROVE  IInv' /\ StaysGone
<1> DEFINE new == [Quiet EXCEPT !.pc = "set", !.key = k]
<1>1. /\ new \in Client /\ new.pc = "set" /\ new.key = k /\ new.expected = 0
      /\ new.todo = {} /\ new.steady = {}
  BY DEF Client, Quiet, Points
<1>2. /\ client' = [client EXCEPT ![c] = new] /\ UNCHANGED <<store, highest, index>>
      /\ Fresh(k)
  BY DEF CallAdd
<1> HIDE DEF new
<1>3. /\ client'[c] = new
      /\ \A d \in Clients \ {c} : client'[d] = client[d]
  BY <1>2 DEF IInv, TypeOK
<1>4. CallOK(c)' /\ ListOK(c)'
  BY <1>1, <1>2, <1>3 DEF CallOK, ListOK, Fresh
<1>5. \A d \in Clients \ {c} : client[d].key # new.key
  BY <1>1, <1>2 DEF Fresh
<1> QED BY <1>1, <1>2, <1>4, <1>5, LocalStep

\* A call of save names a revision that was written before.
LEMMA CallSaveStep ==
  ASSUME IInv, NEW c \in Clients, NEW k \in Keys, NEW e \in 1..MaxRevision,
         CallSave(c, k, e)
  PROVE  IInv' /\ StaysGone
<1> DEFINE new == [Quiet EXCEPT !.pc = "watch", !.key = k, !.expected = e]
<1>0. e \in Nat
  BY RepositoryAssumption
<1>1. /\ new \in Client /\ new.pc = "watch" /\ new.key = k /\ new.expected = e
      /\ new.todo = {} /\ new.steady = {} /\ ~new.dirty
  BY <1>0 DEF Client, Quiet, Points
<1>2. /\ client' = [client EXCEPT ![c] = new] /\ UNCHANGED <<store, highest, index>>
      /\ e \in 1..highest[k] /\ highest[k] \in Nat
  BY DEF CallSave, IInv, TypeOK
<1> HIDE DEF new
<1>3. client'[c] = new /\ e \in Nat /\ e >= 1
  BY <1>2 DEF IInv, TypeOK
<1>4. CallOK(c)' /\ ListOK(c)'
  BY <1>1, <1>2, <1>3 DEF CallOK, ListOK
<1>5. \A d \in Clients \ {c} : client[d].pc = "set" => client[d].key # new.key
  BY <1>1, <1>2 DEF IInv, CallOK
<1> QED BY <1>1, <1>2, <1>4, <1>5, LocalStep

\* A client that goes on with the same call, to the point pc.
LEMMA MoveStep ==
  ASSUME IInv, NEW c \in Clients, NEW new \in Client, client[c].pc # "set",
         client' = [client EXCEPT ![c] = new],
         new.key = client[c].key \/ new.key = NoKey,
         UNCHANGED <<store, highest, index>>,
         CallOK(c)', ListOK(c)'
  PROVE  IInv' /\ StaysGone
<1>1. \A d \in Clients \ {c} : client[d].pc = "set" => client[d].key # new.key
  BY RepositoryAssumption DEF IInv, CallOK, NoKey
<1> QED BY <1>1, LocalStep

\* WATCH: from here on, a write to the key is seen.
LEMMA WatchKeyStep ==
  ASSUME IInv, NEW c \in Clients, WatchKey(c)
  PROVE  IInv' /\ StaysGone
<1> DEFINE new == [client[c] EXCEPT !.pc = "get", !.dirty = FALSE]
<1>1. client[c] \in Client /\ CallOK(c) /\ ListOK(c) /\ client[c].pc = "watch"
  BY DEF IInv, TypeOK, WatchKey, At
<1>2. /\ new \in Client /\ new.pc = "get" /\ new.key = client[c].key
      /\ new.expected = client[c].expected /\ new.todo = client[c].todo
      /\ new.steady = client[c].steady /\ ~new.dirty
  BY <1>1 DEF Client, Points
<1>3. client' = [client EXCEPT ![c] = new] /\ UNCHANGED <<store, highest, index>>
  BY DEF WatchKey
<1> HIDE DEF new
<1>4. client'[c] = new
  BY <1>3 DEF IInv, TypeOK
<1>5. CallOK(c)' /\ ListOK(c)'
  BY <1>1, <1>2, <1>3, <1>4 DEF CallOK, ListOK
<1> QED BY <1>1, <1>2, <1>3, <1>5, MoveStep

\* GET: the revision is compared; a write since WATCH has left its mark.
LEMMA GetKeyStep ==
  ASSUME IInv, NEW c \in Clients, GetKey(c)
  PROVE  IInv' /\ StaysGone
<1> DEFINE pc == IF store[client[c].key] = client[c].expected THEN "exec" ELSE "refused"
           new == [client[c] EXCEPT !.pc = pc]
<1>1. client[c] \in Client /\ CallOK(c) /\ ListOK(c) /\ client[c].pc = "get"
  BY DEF IInv, TypeOK, GetKey, At
<1>2. /\ new \in Client /\ new.pc = pc /\ new.key = client[c].key
      /\ new.expected = client[c].expected /\ new.todo = client[c].todo
      /\ new.steady = client[c].steady /\ new.dirty = client[c].dirty
      /\ new.found = client[c].found
  BY <1>1 DEF Client, Points
<1>3. client' = [client EXCEPT ![c] = new] /\ UNCHANGED <<store, highest, index>>
  BY DEF GetKey, Goto
<1> HIDE DEF new
<1>4. client'[c] = new
  BY <1>3 DEF IInv, TypeOK
<1>5. CallOK(c)'
  BY <1>1, <1>2, <1>3, <1>4 DEF CallOK
<1>6. ListOK(c)'
  BY <1>1, <1>2, <1>3, <1>4 DEF ListOK
<1> QED BY <1>1, <1>2, <1>3, <1>5, <1>6, MoveStep

\* SET NX of a fresh key: nobody else has it.
LEMMA SetKeyStep ==
  ASSUME IInv, NEW c \in Clients, SetKey(c)
  PROVE  IInv' /\ StaysGone
<1> DEFINE k == client[c].key
           new == [client[c] EXCEPT !.pc = "sadd"]
<1>1. /\ client \in [Clients -> Client] /\ client[c] \in Client
      /\ CallOK(c) /\ ListOK(c) /\ client[c].pc = "set"
  BY DEF IInv, TypeOK, SetKey, At
<1>2. /\ k \in Keys /\ client[c].expected = 0 /\ highest[k] = 0 /\ store[k] = 0
      /\ \A d \in Clients \ {c} : client[d].key # k
  BY <1>1 DEF CallOK, IInv, StoreOK
<1>3. /\ store' = [store EXCEPT ![k] = 1] /\ highest' = [highest EXCEPT ![k] = 1]
      /\ client' = Written(k, c, "sadd") /\ index' = index
  BY <1>2 DEF SetKey
<1>4. /\ client' \in [Clients -> Client] /\ client'[c] = new
      /\ \A d \in Clients \ {c} : client'[d] = client[d]
  BY <1>1, <1>2, <1>3 DEF Written, Client, Points
<1>5. /\ new.pc = "sadd" /\ new.key = k /\ new.expected = 0
      /\ new.todo = client[c].todo /\ new.steady = client[c].steady
  BY <1>1, <1>2 DEF Client
<1> HIDE DEF new
<1>6. /\ store' \in [Keys -> Nat] /\ highest' \in [Keys -> Nat]
      /\ \A j \in Keys : /\ store'[j] = IF j = k THEN 1 ELSE store[j]
                         /\ highest'[j] = IF j = k THEN 1 ELSE highest[j]
  BY <1>2, <1>3 DEF IInv, TypeOK
<1> HIDE DEF k
<1>7. CallOK(c)' /\ ListOK(c)'
  <2>1. client[c].todo \subseteq Keys /\ client[c].steady \subseteq Keys
    BY <1>1 DEF Client
  <2>2. CallOK(c)'
    BY <1>2, <1>4, <1>5, <1>6 DEF CallOK
  <2>3. ListOK(c)'
    BY <1>1, <1>2, <1>3, <1>4, <1>5, <1>6, <2>1 DEF ListOK
  <2> QED BY <2>2, <2>3
<1>8. ASSUME NEW d \in Clients, d # c
      PROVE  CallOK(d)' /\ ListOK(d)'
  <2>1. /\ CallOK(d) /\ ListOK(d) /\ client'[d] = client[d] /\ client[d].key # k
        /\ client[d].todo \subseteq Keys /\ client[d].steady \subseteq Keys
    BY <1>1, <1>2, <1>4, <1>8 DEF IInv, Client
  <2>2. CallOK(d)'
    <3>1. client[d].pc = "set" => \A x \in Clients \ {d} : client'[x].key # client[d].key
      BY <1>1, <1>2, <1>4, <1>5, <1>8, <2>1 DEF CallOK
    <3> QED BY <1>6, <2>1, <3>1 DEF CallOK
  <2>3. ListOK(d)'
    BY <1>2, <1>3, <1>6, <2>1 DEF ListOK
  <2> QED BY <2>2, <2>3
<1>9. StoreOK' /\ StaysGone
  BY <1>2, <1>3, <1>6 DEF StoreOK, StaysGone, IInv, TypeOK
<1> QED BY <1>3, <1>4, <1>6, <1>7, <1>8, <1>9 DEF IInv, TypeOK

\* A step of one client that changes the index, and nothing else of the server.
LEMMA IndexStep ==
  ASSUME IInv, NEW c \in Clients, NEW new \in Client, client[c].pc # "set",
         client' = [client EXCEPT ![c] = new],
         new.key = client[c].key \/ new.key = NoKey,
         UNCHANGED <<store, highest>>, index' \subseteq Keys,
         \A k \in Keys : k \in index' => highest[k] > 0,
         \A k \in Keys : store[k] > 1 => k \in index',
         CallOK(c)', ListOK(c)'
  PROVE  IInv' /\ StaysGone
<1>1. /\ client \in [Clients -> Client]
      /\ client' \in [Clients -> Client]
      /\ \A d \in Clients : client'[d] = IF d = c THEN new ELSE client[d]
  BY DEF IInv, TypeOK
<1>2. ASSUME NEW d \in Clients, d # c
      PROVE  CallOK(d)' /\ ListOK(d)'
  <2>1. /\ CallOK(d) /\ ListOK(d) /\ client'[d] = client[d] /\ client'[c] = new
        /\ client[d].steady \subseteq Keys
    BY <1>1, <1>2 DEF IInv, Client
  <2>2. ListOK(d)'
    BY <2>1 DEF ListOK
  <2>3. CallOK(d)'
    BY <1>1, <1>2, <2>1, RepositoryAssumption DEF CallOK, NoKey
  <2> QED BY <2>2, <2>3
<1> QED BY <1>1, <1>2 DEF IInv, TypeOK, StoreOK, StaysGone

\* SADD after SET.
LEMMA AddToIndexStep ==
  ASSUME IInv, NEW c \in Clients, AddToIndex(c)
  PROVE  IInv' /\ StaysGone
<1> DEFINE new == [client[c] EXCEPT !.pc = "applied"]
<1>1. client[c] \in Client /\ CallOK(c) /\ ListOK(c) /\ client[c].pc = "sadd"
  BY DEF IInv, TypeOK, AddToIndex, At
<1>2. /\ new \in Client /\ new.pc = "applied" /\ new.key = client[c].key
      /\ new.todo = client[c].todo /\ new.steady = client[c].steady
  BY <1>1 DEF Client, Points
<1>3. /\ client' = [client EXCEPT ![c] = new] /\ UNCHANGED <<store, highest>>
      /\ index' = index \cup {client[c].key}
  BY DEF AddToIndex, Goto
<1> HIDE DEF new
<1>4. client'[c] = new
  BY <1>3 DEF IInv, TypeOK
<1>5. CallOK(c)' /\ ListOK(c)'
  BY <1>1, <1>2, <1>3, <1>4 DEF CallOK, ListOK
<1>6. client[c].key \in Keys /\ highest[client[c].key] > 0
  BY <1>1 DEF CallOK
<1>7. /\ index' \subseteq Keys
      /\ \A k \in Keys : k \in index' => highest[k] > 0
      /\ \A k \in Keys : store[k] > 1 => k \in index'
  BY <1>3, <1>6 DEF IInv, TypeOK, StoreOK
<1> QED BY <1>1, <1>2, <1>3, <1>5, <1>7, IndexStep

\* SREM of a key that list() saw missing: it cannot have come back.
LEMMA DropFromIndexStep ==
  ASSUME IInv, NEW c \in Clients, DropFromIndex(c)
  PROVE  IInv' /\ StaysGone
<1> DEFINE new == [client[c] EXCEPT !.pc = "fetch", !.key = NoKey]
<1>1. client[c] \in Client /\ CallOK(c) /\ ListOK(c) /\ client[c].pc = "srem"
  BY DEF IInv, TypeOK, DropFromIndex, At
<1>2. /\ new \in Client /\ new.pc = "fetch" /\ new.key = NoKey
      /\ new.todo = client[c].todo /\ new.steady = client[c].steady
      /\ new.found = client[c].found
  BY <1>1 DEF Client, Points
<1>3. /\ client' = [client EXCEPT ![c] = new] /\ UNCHANGED <<store, highest>>
      /\ index' = index \ {client[c].key}
  BY DEF DropFromIndex
<1> HIDE DEF new
<1>4. client'[c] = new
  BY <1>3 DEF IInv, TypeOK
<1>5. CallOK(c)' /\ ListOK(c)'
  BY <1>1, <1>2, <1>3, <1>4 DEF CallOK, ListOK
<1>6. client[c].key \in Keys /\ store[client[c].key] = 0
  BY <1>1 DEF ListOK
<1>7. /\ index' \subseteq Keys
      /\ \A k \in Keys : k \in index' => highest[k] > 0
      /\ \A k \in Keys : store[k] > 1 => k \in index'
  BY <1>3, <1>6 DEF IInv, TypeOK, StoreOK
<1> QED BY <1>1, <1>2, <1>3, <1>5, <1>7, IndexStep

\* A call that begins to list, and one that ends.
LEMMA CallListStep ==
  ASSUME IInv, NEW c \in Clients, CallList(c)
  PROVE  IInv' /\ StaysGone
<1> DEFINE steady == {k \in Keys : store[k] > 1}
           new == [Quiet EXCEPT !.pc = "smembers", !.steady = steady]
<1>1. client[c].pc = "idle"
  BY DEF CallList, At
<1>2. /\ new \in Client /\ new.pc = "smembers" /\ new.key = NoKey
      /\ new.todo = {} /\ new.steady = steady
  BY DEF Client, Quiet, Points
<1>3. client' = [client EXCEPT ![c] = new] /\ UNCHANGED <<store, highest, index>>
  BY DEF CallList
<1> HIDE DEF new
<1>4. client'[c] = new
  BY <1>3 DEF IInv, TypeOK
<1>5. CallOK(c)' /\ ListOK(c)'
  BY <1>2, <1>3, <1>4 DEF CallOK, ListOK, IInv, StoreOK
<1> QED BY <1>1, <1>2, <1>3, <1>5, MoveStep

\* The call ends, with or without an answer.
LEMMA EndStep ==
  ASSUME IInv, NEW c \in Clients, Return(c) \/ Break(c)
  PROVE  IInv' /\ StaysGone
<1>1. /\ Quiet \in Client /\ Quiet.pc = "idle" /\ Quiet.key = NoKey
      /\ Quiet.todo = {} /\ Quiet.steady = {}
  BY DEF Client, Quiet, Points
<1>2. client' = [client EXCEPT ![c] = Quiet] /\ UNCHANGED <<store, highest, index>>
  BY DEF Return, Break
<1>3. client'[c] = Quiet
  BY <1>2 DEF IInv, TypeOK
<1>4. CallOK(c)' /\ ListOK(c)'
  BY <1>1, <1>2, <1>3 DEF CallOK, ListOK
<1>5. \A d \in Clients \ {c} : client[d].pc = "set" => client[d].key # Quiet.key
  BY <1>1, RepositoryAssumption DEF IInv, CallOK, NoKey
<1> QED BY <1>1, <1>2, <1>4, <1>5, LocalStep

\* SMEMBERS: the steady sessions are among the members.
LEMMA ReadIndexStep ==
  ASSUME IInv, NEW c \in Clients, ReadIndex(c)
  PROVE  IInv' /\ StaysGone
<1> DEFINE new == [client[c] EXCEPT !.pc = "fetch", !.todo = index]
<1>1. /\ client[c] \in Client /\ CallOK(c) /\ ListOK(c)
      /\ client[c].pc = "smembers" /\ index \subseteq Keys
  BY DEF IInv, TypeOK, ReadIndex, At
<1>2. /\ new \in Client /\ new.pc = "fetch" /\ new.key = client[c].key
      /\ new.todo = index /\ new.steady = client[c].steady
      /\ new.found = client[c].found
  BY <1>1 DEF Client, Points
<1>3. client' = [client EXCEPT ![c] = new] /\ UNCHANGED <<store, highest, index>>
  BY DEF ReadIndex
<1> HIDE DEF new
<1>4. client'[c] = new
  BY <1>3 DEF IInv, TypeOK
<1>5. CallOK(c)' /\ ListOK(c)'
  BY <1>1, <1>2, <1>3, <1>4 DEF CallOK, ListOK, IInv, StoreOK
<1> QED BY <1>1, <1>2, <1>3, <1>5, MoveStep

\* GET of one member: found, or to be dropped.
LEMMA FetchStep ==
  ASSUME IInv, NEW c \in Clients, Fetch(c)
  PROVE  IInv' /\ StaysGone
<1>1. /\ client[c] \in Client /\ CallOK(c) /\ ListOK(c) /\ client[c].pc = "fetch"
      /\ UNCHANGED <<store, highest, index>>
  BY DEF IInv, TypeOK, Fetch, At
<1>2. PICK k \in client[c].todo :
        client' = [client EXCEPT ![c] = Fetched(client[c], k)]
  BY DEF Fetch
<1>3. k \in Keys /\ highest[k] > 0
  BY <1>1 DEF Client, ListOK
<1>4. CASE store[k] = 0
  <2> DEFINE new == [client[c] EXCEPT !.pc = "srem", !.todo = client[c].todo \ {k}, !.key = k]
  <2>1. /\ new \in Client /\ new.pc = "srem" /\ new.key = k
        /\ new.todo = client[c].todo \ {k} /\ new.steady = client[c].steady
        /\ new.found = client[c].found
    BY <1>1, <1>3 DEF Client, Points
  <2>2. client' = [client EXCEPT ![c] = new]
    BY <1>2, <1>4 DEF Fetched
  <2> HIDE DEF new
  <2>3. client'[c] = new
    BY <2>2 DEF IInv, TypeOK
  <2>4. CallOK(c)' /\ ListOK(c)'
    BY <1>1, <1>3, <1>4, <2>1, <2>3 DEF CallOK, ListOK
  <2>5. \A d \in Clients \ {c} : client[d].pc = "set" => client[d].key # new.key
    BY <1>3, <2>1 DEF IInv, CallOK
  <2> QED BY <1>1, <2>1, <2>2, <2>4, <2>5, LocalStep
<1>5. CASE store[k] # 0
  <2> DEFINE new == [client[c] EXCEPT !.todo = client[c].todo \ {k},
                                  !.found = client[c].found \cup {k}]
  <2>1. /\ new \in Client /\ new.pc = "fetch" /\ new.key = client[c].key
        /\ new.todo = client[c].todo \ {k} /\ new.steady = client[c].steady
        /\ new.found = client[c].found \cup {k}
    BY <1>1, <1>3 DEF Client, Points
  <2>2. client' = [client EXCEPT ![c] = new]
    BY <1>2, <1>5 DEF Fetched
  <2> HIDE DEF new
  <2>3. client'[c] = new
    BY <2>2 DEF IInv, TypeOK
  <2>4. CallOK(c)' /\ ListOK(c)'
    BY <1>1, <2>1, <2>3 DEF CallOK, ListOK
  <2> QED BY <1>1, <2>1, <2>2, <2>4, MoveStep
<1> QED BY <1>4, <1>5

\* The list is complete.
LEMMA ListedStep ==
  ASSUME IInv, NEW c \in Clients, Listed(c)
  PROVE  IInv' /\ StaysGone
<1> DEFINE new == [client[c] EXCEPT !.pc = "listed"]
<1>1. /\ client[c] \in Client /\ CallOK(c) /\ ListOK(c)
      /\ client[c].pc = "fetch" /\ client[c].todo = {}
  BY DEF IInv, TypeOK, Listed, At
<1>2. /\ new \in Client /\ new.pc = "listed" /\ new.key = client[c].key
      /\ new.todo = {} /\ new.steady = client[c].steady
      /\ new.found = client[c].found
  BY <1>1 DEF Client, Points
<1>3. client' = [client EXCEPT ![c] = new] /\ UNCHANGED <<store, highest, index>>
  BY DEF Listed, Goto
<1> HIDE DEF new
<1>4. client'[c] = new
  BY <1>3 DEF IInv, TypeOK
<1>5. CallOK(c)' /\ ListOK(c)'
  BY <1>1, <1>2, <1>3, <1>4 DEF CallOK, ListOK
<1> QED BY <1>1, <1>2, <1>3, <1>5, MoveStep

\* EXEC: without a mark the revision is still the expected one, and every
\* other watcher of the key is left with a newer one.
LEMMA ExecuteStep ==
  ASSUME IInv, NEW c \in Clients, Execute(c)
  PROVE  IInv' /\ StaysGone
<1> DEFINE k == client[c].key
           e == client[c].expected
<1>1. /\ client \in [Clients -> Client] /\ client[c] \in Client
      /\ CallOK(c) /\ ListOK(c) /\ client[c].pc = "exec"
      /\ store \in [Keys -> Nat] /\ highest \in [Keys -> Nat] /\ index \subseteq Keys
  BY DEF IInv, TypeOK, Execute, At
<1>2. CASE client[c].dirty
  <2> DEFINE new == [client[c] EXCEPT !.pc = "refused"]
  <2>1. /\ new \in Client /\ new.pc = "refused" /\ new.key = client[c].key
        /\ new.todo = client[c].todo /\ new.steady = client[c].steady
    BY <1>1 DEF Client, Points
  <2>2. client' = [client EXCEPT ![c] = new] /\ UNCHANGED <<store, highest, index>>
    BY <1>2 DEF Execute, Goto
  <2> HIDE DEF new
  <2>3. client'[c] = new
    BY <2>2 DEF IInv, TypeOK
  <2>4. CallOK(c)' /\ ListOK(c)'
    BY <1>1, <2>1, <2>2, <2>3 DEF CallOK, ListOK
  <2> QED BY <1>1, <2>1, <2>2, <2>4, MoveStep
<1>3. CASE ~client[c].dirty
  <2> DEFINE new == [client[c] EXCEPT !.pc = "applied"]
             marked(d) == [client[d] EXCEPT !.dirty = TRUE]
  <2>1. /\ k \in Keys /\ e \in Nat /\ e >= 1 /\ store[k] = e /\ highest[k] = e
    BY <1>1, <1>3 DEF CallOK, IInv, StoreOK
  <2>2. /\ store' = [store EXCEPT ![k] = e + 1]
        /\ highest' = [highest EXCEPT ![k] = e + 1]
        /\ client' = Written(k, c, "applied") /\ index' = index \cup {k}
    BY <1>3 DEF Execute
  <2>3. /\ store' \in [Keys -> Nat] /\ highest' \in [Keys -> Nat]
        /\ \A j \in Keys : /\ store'[j] = IF j = k THEN e + 1 ELSE store[j]
                           /\ highest'[j] = IF j = k THEN e + 1 ELSE highest[j]
    BY <1>1, <2>1, <2>2
  <2>4. /\ new \in Client /\ new.pc = "applied" /\ new.key = k
        /\ new.todo = client[c].todo /\ new.steady = client[c].steady
    BY <1>1 DEF Client, Points
  <2>5. \A d \in Clients :
          /\ marked(d) \in Client /\ marked(d).dirty
          /\ marked(d).pc = client[d].pc /\ marked(d).key = client[d].key
          /\ marked(d).expected = client[d].expected
          /\ marked(d).todo = client[d].todo /\ marked(d).found = client[d].found
          /\ marked(d).steady = client[d].steady
    BY <1>1 DEF Client
  <2>6. /\ client'[c] = new
        /\ \A d \in Clients \ {c} :
             client'[d] = IF client[d].key = k THEN marked(d) ELSE client[d]
        /\ client' = [d \in Clients |-> client'[d]]
    BY <2>2 DEF Written
  <2> HIDE DEF new, marked
  <2>7. client' \in [Clients -> Client]
    BY <1>1, <2>4, <2>5, <2>6
  <2> HIDE DEF k, e
  <2>8. CallOK(c)' /\ ListOK(c)'
    <3>1. client[c].todo \subseteq Keys /\ client[c].steady \subseteq Keys
      BY <1>1 DEF Client
    <3> QED BY <1>1, <2>1, <2>3, <2>4, <2>6, <3>1 DEF CallOK, ListOK
  <2>9. ASSUME NEW d \in Clients, d # c
        PROVE  CallOK(d)' /\ ListOK(d)'
    <3>1. /\ CallOK(d) /\ ListOK(d) /\ client[d].todo \subseteq Keys
          /\ client[d].steady \subseteq Keys /\ client[d].expected \in Nat
      BY <1>1, <2>9 DEF IInv, Client
    <3>2. /\ client'[d].pc = client[d].pc /\ client'[d].key = client[d].key
          /\ client'[d].expected = client[d].expected
          /\ client'[d].todo = client[d].todo /\ client'[d].found = client[d].found
          /\ client'[d].steady = client[d].steady
          /\ client[d].key = k => client'[d].dirty
          /\ client[d].key # k => client'[d] = client[d]
      BY <2>5, <2>6, <2>9
    <3>3. client[d].pc = "set" => client[d].key # k
      BY <2>1, <3>1 DEF CallOK
    <3>4. \A x \in Clients : client'[x].key = client[x].key
      BY <2>4, <2>5, <2>6 DEF k
    <3>5. CallOK(d)'
      <4>1. CASE client[d].key = k
        BY <2>1, <2>3, <3>1, <3>2, <3>3, <4>1 DEF CallOK
      <4>2. CASE client[d].key # k
        BY <2>1, <2>3, <3>1, <3>2, <3>4, <4>2 DEF CallOK
      <4> QED BY <4>1, <4>2
    <3>6. ListOK(d)'
      BY <2>1, <2>2, <2>3, <3>1, <3>2 DEF ListOK
    <3> QED BY <3>5, <3>6
  <2>10. StoreOK' /\ StaysGone
    BY <1>1, <2>1, <2>2, <2>3 DEF StoreOK, StaysGone, IInv
  <2>11. index' \subseteq Keys
    BY <1>1, <2>1, <2>2
  <2> QED BY <2>3, <2>7, <2>8, <2>9, <2>10, <2>11 DEF IInv, TypeOK
<1> QED BY <1>2, <1>3

\* Expiry: every watcher of the key sees it, and no steady session is lost.
LEMMA ExpireStep ==
  ASSUME IInv, NEW k \in Keys, Expire(k)
  PROVE  IInv' /\ StaysGone
<1> DEFINE new(c) == [client[c] EXCEPT !.dirty = @ \/ client[c].key = k,
                                       !.steady = @ \ {k}]
<1>1. /\ client \in [Clients -> Client] /\ store \in [Keys -> Nat]
      /\ highest \in [Keys -> Nat] /\ index \subseteq Keys
      /\ store' = [store EXCEPT ![k] = 0] /\ highest' = highest /\ index' = index
      /\ client' = [c \in Clients |-> new(c)]
  BY DEF IInv, TypeOK, Expire
<1>2. /\ store' \in [Keys -> Nat]
      /\ \A j \in Keys : store'[j] = IF j = k THEN 0 ELSE store[j]
  BY <1>1
<1>3. \A c \in Clients :
        /\ new(c).pc = client[c].pc /\ new(c).key = client[c].key
        /\ new(c).expected = client[c].expected
        /\ new(c).todo = client[c].todo /\ new(c).found = client[c].found
        /\ new(c).steady = client[c].steady \ {k}
        /\ new(c).dirty = (client[c].dirty \/ client[c].key = k)
        /\ new(c) \in Client
  BY <1>1 DEF Client
<1>4. client' \in [Clients -> Client] /\ \A c \in Clients : client'[c] = new(c)
  BY <1>1, <1>3
<1> HIDE DEF new
<1>5. ASSUME NEW c \in Clients
      PROVE  CallOK(c)' /\ ListOK(c)'
  <2>1. /\ CallOK(c) /\ ListOK(c) /\ client[c].todo \subseteq Keys
        /\ client[c].steady \subseteq Keys
    BY <1>1 DEF IInv, Client
  <2>2. /\ client'[c].pc = client[c].pc /\ client'[c].key = client[c].key
        /\ client'[c].expected = client[c].expected
        /\ client'[c].todo = client[c].todo /\ client'[c].found = client[c].found
        /\ client'[c].steady = client[c].steady \ {k}
        /\ client'[c].dirty <=> (client[c].dirty \/ client[c].key = k)
        /\ \A x \in Clients : client'[x].key = client[x].key
    BY <1>3, <1>4
  <2>3. CallOK(c)'
    <3>1. CASE client[c].key = k
      BY <1>1, <1>2, <2>1, <2>2, <3>1 DEF CallOK
    <3>2. CASE client[c].key # k
      BY <1>1, <1>2, <2>1, <2>2, <3>2 DEF CallOK
    <3> QED BY <3>1, <3>2
  <2>4. ListOK(c)'
    BY <1>1, <1>2, <2>1, <2>2 DEF ListOK
  <2> QED BY <2>3, <2>4
<1>6. StoreOK' /\ StaysGone
  BY <1>1, <1>2 DEF StoreOK, StaysGone, IInv
<1> QED BY <1>1, <1>2, <1>4, <1>5, <1>6 DEF IInv, TypeOK

\* Every step keeps the invariant and resurrects nothing.
LEMMA NextOK == IInv /\ [Next]_vars => IInv' /\ StaysGone
<1> SUFFICES ASSUME IInv, [Next]_vars PROVE IInv' /\ StaysGone
  OBVIOUS
<1>1. ASSUME NEW c \in Clients, NEW k \in Keys, CallAdd(c, k)
      PROVE  IInv' /\ StaysGone
  BY <1>1, CallAddStep
<1>2. ASSUME NEW c \in Clients, NEW k \in Keys, NEW e \in 1..MaxRevision,
             CallSave(c, k, e)
      PROVE  IInv' /\ StaysGone
  BY <1>2, CallSaveStep
<1>3. ASSUME NEW c \in Clients, SetKey(c) \/ AddToIndex(c)
      PROVE  IInv' /\ StaysGone
  BY <1>3, SetKeyStep, AddToIndexStep
<1>4. ASSUME NEW c \in Clients, WatchKey(c) \/ GetKey(c) \/ Execute(c)
      PROVE  IInv' /\ StaysGone
  BY <1>4, WatchKeyStep, GetKeyStep, ExecuteStep
<1>5. ASSUME NEW c \in Clients,
             CallList(c) \/ ReadIndex(c) \/ Fetch(c) \/ DropFromIndex(c) \/ Listed(c)
      PROVE  IInv' /\ StaysGone
  BY <1>5, CallListStep, ReadIndexStep, FetchStep, DropFromIndexStep, ListedStep
<1>6. ASSUME NEW c \in Clients, Return(c) \/ Break(c)
      PROVE  IInv' /\ StaysGone
  BY <1>6, EndStep
<1>7. ASSUME NEW k \in Keys, Expire(k)
      PROVE  IInv' /\ StaysGone
  BY <1>7, ExpireStep
<1>8. CASE UNCHANGED vars
  BY <1>8 DEF vars, IInv, TypeOK, StoreOK, CallOK, ListOK, StaysGone
<1> QED BY <1>1, <1>2, <1>3, <1>4, <1>5, <1>6, <1>7, <1>8 DEF Next

\* The invariant holds in every reachable state.
THEOREM Inductive == Spec => []IInv
<1>1. IInv /\ [Next]_vars => IInv'
  BY NextOK
<1> QED BY InitOK, <1>1, PTL DEF Spec

\* Type correctness.
THEOREM TypeCorrect == Spec => []TypeOK
<1>1. IInv => TypeOK
  BY DEF IInv
<1> QED BY Inductive, <1>1, PTL

\* add is two commands, and list() removes keys it saw missing; still the index
\* has every session that was saved after its add, so the sweep and the startup
\* reconciliation see each session that can own a runtime.
THEOREM SavedStaysIndexed == Spec => []SavedIsIndexed
<1>1. IInv => SavedIsIndexed
  BY DEF IInv, StoreOK, SavedIsIndexed
<1> QED BY Inductive, <1>1, PTL

\* list() returns every saved session that is there from its first to its last
\* command, whatever other callers write and list in between.
THEOREM ListIsComplete == Spec => []ListComplete
<1>1. IInv => ListComplete
  BY DEF IInv, ListOK, ListComplete, At
<1> QED BY Inductive, <1>1, PTL

\* WATCH covers expiry too: an expired session is never written back.
THEOREM NeverResurrected == Spec => NoResurrection
<1>1. IInv /\ [Next]_vars => [StaysGone]_vars
  BY NextOK
<1> QED BY Inductive, <1>1, PTL DEF Spec, NoResurrection, StaysGone

-----------------------------------------------------------------------------
(* Refinement: the repository implements SessionRepository *)

\* What the abstract repository sees of client d: its point, key and revision.
Same(d) ==
  /\ client'[d].pc = client[d].pc
  /\ client'[d].key = client[d].key
  /\ client'[d].expected = client[d].expected

\* The abstract call depends on nothing else.
LEMMA SameCall == ASSUME NEW d \in Clients, Same(d) PROVE Abstracted(d)' = Abstracted(d)
  BY DEF Same, Abstracted

\* An abstract call is none, or has the four fields.
AbstractCall(op, k, e, stage) == [op |-> op, key |-> k, expected |-> e, stage |-> stage]

\* The abstract call at each point of the code.
LEMMA CallAt ==
  ASSUME NEW c \in Clients
  PROVE  LET k == client[c].key
             e == client[c].expected
             pc == client[c].pc
         IN /\ pc = "set" => Abstracted(c) = AbstractCall("add", k, e, "pending")
            /\ pc = "sadd" => Abstracted(c) = AbstractCall("add", k, e, "applied")
            /\ pc \in {"watch", "get", "exec"} =>
                 Abstracted(c) = AbstractCall("save", k, e, "pending")
            /\ pc \in {"applied", "refused"} /\ e = 0 =>
                 Abstracted(c) = AbstractCall("add", k, e, pc)
            /\ pc \in {"applied", "refused"} /\ e # 0 =>
                 Abstracted(c) = AbstractCall("save", k, e, pc)
            /\ pc \in {"idle", "smembers", "fetch", "srem", "listed"} =>
                 Abstracted(c) = Abstract!NoCall
  BY DEF Abstracted, AbstractCall, Abstract!NoCall

\* A step of client c changes the abstract call of c alone.
LEMMA CallsMove ==
  ASSUME NEW c \in Clients, \A d \in Clients \ {c} : Same(d)
  PROVE  Calls' = [Calls EXCEPT ![c] = Abstracted(c)']
<1>1. \A d \in Clients \ {c} : Abstracted(d)' = Abstracted(d)
  BY SameCall
<1> QED BY <1>1 DEF Calls

\* A step that moves no call, and leaves the records alone, is invisible.
LEMMA Invisible ==
  ASSUME NEW c \in Clients, \A d \in Clients \ {c} : Same(d),
         Abstracted(c)' = Abstracted(c), store' = store
  PROVE  UNCHANGED <<store, Calls>>
<1>1. Calls' = [Calls EXCEPT ![c] = Abstracted(c)']
  BY CallsMove
<1>2. Calls[c] = Abstracted(c)
  BY DEF Calls
<1> QED BY <1>1, <1>2 DEF Calls

\* A call is asked for.
LEMMA AskMapped ==
  ASSUME IInv, NEW c \in Clients, NEW k \in Keys,
         CallAdd(c, k) \/ \E e \in 1..MaxRevision : CallSave(c, k, e)
  PROVE  \/ Abstract!Ask(c, "add", k, 0)
         \/ \E e \in 1..MaxRevision : Abstract!Ask(c, "save", k, e)
<1>1. client[c].pc = "idle" /\ client \in [Clients -> Client]
  BY DEF CallAdd, CallSave, At, IInv, TypeOK
<1>2. Calls[c] = Abstract!NoCall
  BY <1>1, CallAt DEF Calls
<1>3. CASE CallAdd(c, k)
  <2> DEFINE new == [Quiet EXCEPT !.pc = "set", !.key = k]
  <2>1. new.pc = "set" /\ new.key = k /\ new.expected = 0
    BY DEF Quiet
  <2>2. client' = [client EXCEPT ![c] = new] /\ store' = store
    BY <1>3 DEF CallAdd
  <2> HIDE DEF new
  <2>3. client'[c] = new /\ \A d \in Clients \ {c} : client'[d] = client[d]
    BY <1>1, <2>2
  <2>4. \A d \in Clients \ {c} : Same(d)
    BY <2>3 DEF Same
  <2>5. Abstracted(c)' = AbstractCall("add", k, 0, "pending")
    BY <2>1, <2>3 DEF Abstracted, AbstractCall
  <2> QED BY <1>2, <2>2, <2>4, <2>5, CallsMove DEF Abstract!Ask, AbstractCall
<1>4. ASSUME NEW e \in 1..MaxRevision, CallSave(c, k, e)
      PROVE  Abstract!Ask(c, "save", k, e)
  <2> DEFINE new == [Quiet EXCEPT !.pc = "watch", !.key = k, !.expected = e]
  <2>1. new.pc = "watch" /\ new.key = k /\ new.expected = e
    BY DEF Quiet
  <2>2. client' = [client EXCEPT ![c] = new] /\ store' = store
    BY <1>4 DEF CallSave
  <2> HIDE DEF new
  <2>3. client'[c] = new /\ \A d \in Clients \ {c} : client'[d] = client[d]
    BY <1>1, <2>2
  <2>4. \A d \in Clients \ {c} : Same(d)
    BY <2>3 DEF Same
  <2>5. Abstracted(c)' = AbstractCall("save", k, e, "pending")
    BY <2>1, <2>3 DEF Abstracted, AbstractCall
  <2> QED BY <1>2, <2>2, <2>4, <2>5, CallsMove DEF Abstract!Ask, AbstractCall
<1> QED BY <1>3, <1>4

\* An abstract call that goes on to another stage.
LEMMA Staged ==
  ASSUME NEW c \in Clients, NEW op, NEW k, NEW e, NEW s, NEW t,
         \A d \in Clients \ {c} : Same(d),
         Abstracted(c) = AbstractCall(op, k, e, s),
         Abstracted(c)' = AbstractCall(op, k, e, t)
  PROVE  /\ Calls[c].op = op /\ Calls[c].key = k
         /\ Calls[c].expected = e /\ Calls[c].stage = s
         /\ Calls' = [Calls EXCEPT ![c].stage = t]
<1>1. Calls[c] = AbstractCall(op, k, e, s)
  BY DEF Calls
<1>2. [AbstractCall(op, k, e, s) EXCEPT !.stage = t] = AbstractCall(op, k, e, t)
  BY DEF AbstractCall
<1>3. [Calls[c] EXCEPT !.stage = t] = AbstractCall(op, k, e, t)
  BY <1>1, <1>2
<1>4. Calls' = [Calls EXCEPT ![c] = AbstractCall(op, k, e, t)]
  BY CallsMove
<1>5. [Calls EXCEPT ![c].stage = t] = [Calls EXCEPT ![c] = [Calls[c] EXCEPT !.stage = t]]
  OBVIOUS
<1>6. Calls' = [Calls EXCEPT ![c].stage = t]
  BY <1>3, <1>4, <1>5, Zenon
<1>7. /\ Calls[c].op = op /\ Calls[c].key = k
      /\ Calls[c].expected = e /\ Calls[c].stage = s
  BY <1>1 DEF AbstractCall
<1> QED BY <1>6, <1>7

\* SET NX is the moment of add.
LEMMA SetKeyMapped ==
  ASSUME IInv, NEW c \in Clients, SetKey(c)
  PROVE  Abstract!add(c)
<1> DEFINE k == client[c].key
           new == [client[c] EXCEPT !.pc = "sadd"]
<1>1. /\ client \in [Clients -> Client] /\ client[c] \in Client
      /\ CallOK(c) /\ client[c].pc = "set"
  BY DEF IInv, TypeOK, SetKey, At
<1>2. /\ k \in Keys /\ client[c].expected = 0 /\ store[k] = 0
      /\ \A d \in Clients \ {c} : client[d].key # k
  BY <1>1 DEF CallOK, IInv, StoreOK
<1>3. store' = [store EXCEPT ![k] = 1] /\ client' = Written(k, c, "sadd")
  BY <1>2 DEF SetKey
<1>4. client'[c] = new /\ \A d \in Clients \ {c} : client'[d] = client[d]
  BY <1>2, <1>3 DEF Written
<1>5. new.pc = "sadd" /\ new.key = k /\ new.expected = 0
  BY <1>1, <1>2 DEF Client
<1> HIDE DEF new
<1>6. \A d \in Clients \ {c} : Same(d)
  BY <1>4 DEF Same
<1>7. /\ Abstracted(c) = AbstractCall("add", k, 0, "pending")
      /\ Abstracted(c)' = AbstractCall("add", k, 0, "applied")
  <2>1. Abstracted(c) = AbstractCall("add", k, 0, "pending")
    BY <1>1, <1>2, CallAt
  <2> QED BY <1>4, <1>5, <2>1 DEF Abstracted, AbstractCall
<1> HIDE DEF k
<1>8. /\ Calls[c].key = k /\ Calls[c].op = "add" /\ Calls[c].stage = "pending"
      /\ Calls' = [Calls EXCEPT ![c].stage = "applied"]
  BY <1>6, <1>7, Staged
<1> QED BY <1>2, <1>3, <1>8 DEF Abstract!add, Abstract!Apply

\* SADD, WATCH and the commands of list() change no abstract call.
LEMMA InternalMapped ==
  ASSUME IInv, NEW c \in Clients,
         \/ AddToIndex(c) \/ WatchKey(c)
         \/ CallList(c) \/ ReadIndex(c) \/ Fetch(c) \/ DropFromIndex(c) \/ Listed(c)
  PROVE  UNCHANGED <<store, Calls>>
<1> DEFINE silent == {"idle", "smembers", "fetch", "srem", "listed"}
<1>1. client \in [Clients -> Client] /\ client[c] \in Client /\ CallOK(c)
  BY DEF IInv, TypeOK
<1>2. CASE AddToIndex(c)
  <2> DEFINE new == [client[c] EXCEPT !.pc = "applied"]
  <2>1. /\ client[c].pc = "sadd" /\ client[c].expected = 0
        /\ client' = [client EXCEPT ![c] = new] /\ store' = store
    BY <1>1, <1>2 DEF AddToIndex, At, Goto, CallOK
  <2>2. new.pc = "applied" /\ new.key = client[c].key /\ new.expected = 0
    BY <1>1, <2>1 DEF Client
  <2> HIDE DEF new
  <2>3. client'[c] = new /\ \A d \in Clients \ {c} : client'[d] = client[d]
    BY <1>1, <2>1
  <2>4. Abstracted(c)' = Abstracted(c)
    BY <2>1, <2>2, <2>3 DEF Abstracted
  <2> QED BY <2>1, <2>3, <2>4, Invisible DEF Same
<1>3. CASE WatchKey(c)
  <2> DEFINE new == [client[c] EXCEPT !.pc = "get", !.dirty = FALSE]
  <2>1. /\ client[c].pc = "watch" /\ store' = store
        /\ client' = [client EXCEPT ![c] = new]
    BY <1>3 DEF WatchKey, At
  <2>2. /\ new.pc = "get" /\ new.key = client[c].key
        /\ new.expected = client[c].expected
    BY <1>1 DEF Client
  <2> HIDE DEF new
  <2>3. client'[c] = new /\ \A d \in Clients \ {c} : client'[d] = client[d]
    BY <1>1, <2>1
  <2>4. Abstracted(c)' = Abstracted(c)
    BY <2>1, <2>2, <2>3 DEF Abstracted
  <2> QED BY <2>1, <2>3, <2>4, Invisible DEF Same
<1>4. CASE CallList(c) \/ ReadIndex(c) \/ Fetch(c) \/ DropFromIndex(c) \/ Listed(c)
  <2>1. client[c].pc \in silent /\ store' = store
    BY <1>4 DEF CallList, ReadIndex, Fetch, DropFromIndex, Listed, At
  <2>2. client'[c].pc \in silent /\ \A d \in Clients \ {c} : client'[d] = client[d]
    <3>1. CASE CallList(c)
      BY <1>1, <3>1 DEF CallList, Quiet
    <3>2. CASE ReadIndex(c)
      BY <1>1, <3>2 DEF ReadIndex, Client
    <3>3. CASE Fetch(c)
      <4>1. PICK k \in client[c].todo :
              client' = [client EXCEPT ![c] = Fetched(client[c], k)]
        BY <3>3 DEF Fetch
      <4>2. Fetched(client[c], k).pc \in {"srem", "fetch"}
        BY <1>1, <3>3 DEF Fetched, Client, Fetch, At
      <4> QED BY <1>1, <4>1, <4>2
    <3>4. CASE DropFromIndex(c)
      BY <1>1, <3>4 DEF DropFromIndex, Client
    <3>5. CASE Listed(c)
      BY <1>1, <3>5 DEF Listed, Goto, Client
    <3> QED BY <1>4, <3>1, <3>2, <3>3, <3>4, <3>5
  <2>3. Abstracted(c)' = Abstracted(c)
    BY <2>1, <2>2 DEF Abstracted
  <2> QED BY <2>1, <2>2, <2>3, Invisible DEF Same
<1> QED BY <1>2, <1>3, <1>4

\* The call is answered, or ends without an answer.
LEMMA EndMapped ==
  ASSUME IInv, NEW c \in Clients, Return(c) \/ Break(c)
  PROVE  Abstract!Answer(c) \/ UNCHANGED <<store, Calls>>
<1>1. /\ client \in [Clients -> Client] /\ client[c] \in Client
      /\ client' = [client EXCEPT ![c] = Quiet] /\ store' = store
  BY DEF IInv, TypeOK, Return, Break
<1>2. client'[c] = Quiet /\ \A d \in Clients \ {c} : Same(d)
  BY <1>1 DEF Same
<1>3. Abstracted(c)' = Abstract!NoCall
  BY <1>2 DEF Abstracted, Quiet, Abstract!NoCall
<1>4. Calls' = [Calls EXCEPT ![c] = Abstract!NoCall] /\ Calls[c] = Abstracted(c)
  BY <1>2, <1>3, CallsMove DEF Calls
<1>5. CASE Calls[c] # Abstract!NoCall
  BY <1>1, <1>4, <1>5 DEF Abstract!Answer
<1>6. CASE Calls[c] = Abstract!NoCall
  BY <1>1, <1>2, <1>3, <1>4, <1>6, Invisible
<1> QED BY <1>5, <1>6

\* Expiry marks calls, and changes none.
LEMMA ExpireMapped ==
  ASSUME IInv, NEW k \in Keys, Expire(k)
  PROVE  Abstract!Expire(k)
<1>1. client \in [Clients -> Client]
  BY DEF IInv, TypeOK
<1>2. \A d \in Clients : Same(d)
  BY <1>1 DEF Expire, Same, Client
<1>3. \A d \in Clients : Abstracted(d)' = Abstracted(d)
  BY <1>2, SameCall
<1>4. Calls' = Calls
  BY <1>3 DEF Calls
<1> QED BY <1>4 DEF Expire, Abstract!Expire

\* A save that is refused: at GET, or at EXEC because of the mark.
LEMMA RefusedMapped ==
  ASSUME IInv, NEW c \in Clients, client[c].pc \in {"get", "exec"},
         client' = [client EXCEPT ![c].pc = "refused"], store' = store,
         store[client[c].key] # client[c].expected
  PROVE  Abstract!save(c)
<1> DEFINE k == client[c].key
           e == client[c].expected
           new == [client[c] EXCEPT !.pc = "refused"]
<1>1. /\ client \in [Clients -> Client] /\ client[c] \in Client /\ CallOK(c)
  BY DEF IInv, TypeOK
<1>2. k \in Keys /\ e # 0
  BY <1>1 DEF CallOK
<1>3. new.pc = "refused" /\ new.key = k /\ new.expected = e
  BY <1>1 DEF Client
<1>4. client' = [client EXCEPT ![c] = new]
  OBVIOUS
<1> HIDE DEF new
<1>5. client'[c] = new /\ \A d \in Clients \ {c} : client'[d] = client[d]
  BY <1>1, <1>4
<1>6. \A d \in Clients \ {c} : Same(d)
  BY <1>5 DEF Same
<1>7. Abstracted(c) = AbstractCall("save", k, e, "pending")
  BY CallAt
<1>8. Abstracted(c)' = AbstractCall("save", k, e, "refused")
  BY <1>2, <1>3, <1>5 DEF Abstracted, AbstractCall
<1> HIDE DEF k, e
<1>9. /\ Calls[c].op = "save" /\ Calls[c].key = k /\ Calls[c].expected = e
      /\ Calls[c].stage = "pending" /\ Calls' = [Calls EXCEPT ![c].stage = "refused"]
  BY <1>6, <1>7, <1>8, Staged
<1>10. store[k] # e
  BY DEF k, e
<1> QED BY <1>9, <1>10 DEF Abstract!save, Abstract!Apply

\* GET decides a refusal, and nothing else.
LEMMA GetKeyMapped ==
  ASSUME IInv, NEW c \in Clients, GetKey(c)
  PROVE  Abstract!save(c) \/ UNCHANGED <<store, Calls>>
<1>1. /\ client \in [Clients -> Client] /\ client[c] \in Client
      /\ client[c].pc = "get" /\ store' = store
  BY DEF IInv, TypeOK, GetKey, At
<1>2. CASE store[client[c].key] # client[c].expected
  <2>1. client' = [client EXCEPT ![c].pc = "refused"]
    BY <1>2 DEF GetKey, Goto
  <2> QED BY <1>1, <1>2, <2>1, RefusedMapped
<1>3. CASE store[client[c].key] = client[c].expected
  <2> DEFINE new == [client[c] EXCEPT !.pc = "exec"]
  <2>1. client' = [client EXCEPT ![c] = new]
    BY <1>3 DEF GetKey, Goto
  <2>2. /\ new.pc = "exec" /\ new.key = client[c].key
        /\ new.expected = client[c].expected
    BY <1>1 DEF Client
  <2> HIDE DEF new
  <2>3. client'[c] = new /\ \A d \in Clients \ {c} : client'[d] = client[d]
    BY <1>1, <2>1
  <2>4. Abstracted(c)' = Abstracted(c)
    BY <1>1, <2>2, <2>3 DEF Abstracted
  <2> QED BY <1>1, <2>3, <2>4, Invisible DEF Same
<1> QED BY <1>2, <1>3

\* EXEC is the moment of a save: without a mark the record is still at the
\* revision the caller named, and with one it no longer is.
LEMMA ExecuteMapped ==
  ASSUME IInv, NEW c \in Clients, Execute(c)
  PROVE  Abstract!save(c)
<1> DEFINE k == client[c].key
           e == client[c].expected
           new == [client[c] EXCEPT !.pc = "applied"]
<1>1. /\ client \in [Clients -> Client] /\ client[c] \in Client /\ CallOK(c)
      /\ client[c].pc = "exec"
  BY DEF IInv, TypeOK, Execute, At
<1>2. /\ k \in Keys /\ e # 0 /\ e \in Nat
      /\ client[c].dirty => store[k] # e
      /\ ~client[c].dirty => store[k] = e
  <2>1. e \in Nat /\ store \in [Keys -> Nat]
    BY <1>1 DEF Client, IInv, TypeOK
  <2> QED BY <1>1, <2>1 DEF CallOK
<1>3. CASE client[c].dirty
  <2>1. client' = [client EXCEPT ![c].pc = "refused"] /\ store' = store
    BY <1>3 DEF Execute, Goto
  <2> QED BY <1>1, <1>2, <1>3, <2>1, RefusedMapped
<1>4. CASE ~client[c].dirty
  <2>1. store' = [store EXCEPT ![k] = e + 1] /\ client' = Written(k, c, "applied")
    BY <1>4 DEF Execute
  <2>2. client'[c] = new /\ \A d \in Clients \ {c} : Same(d)
    BY <1>1, <2>1 DEF Written, Same, Client
  <2>3. new.pc = "applied" /\ new.key = k /\ new.expected = e
    BY <1>1 DEF Client
  <2> HIDE DEF new
  <2>4. Abstracted(c) = AbstractCall("save", k, e, "pending")
    BY <1>1, CallAt
  <2>5. Abstracted(c)' = AbstractCall("save", k, e, "applied")
    BY <1>2, <2>2, <2>3 DEF Abstracted, AbstractCall
  <2>6. store[k] = e
    BY <1>2, <1>4
  <2> HIDE DEF k, e
  <2>7. /\ Calls[c].op = "save" /\ Calls[c].key = k /\ Calls[c].expected = e
        /\ Calls[c].stage = "pending" /\ Calls' = [Calls EXCEPT ![c].stage = "applied"]
    BY <2>2, <2>4, <2>5, Staged
  <2> QED BY <2>1, <2>6, <2>7 DEF Abstract!save, Abstract!Apply
<1> QED BY <1>3, <1>4

\* Every step is a step of the abstract repository, or invisible to it.
LEMMA StepMapped ==
  IInv /\ [Next]_vars => [Abstract!Next]_<<store, Calls>>
<1> SUFFICES ASSUME IInv, [Next]_vars
             PROVE  Abstract!Next \/ UNCHANGED <<store, Calls>>
  OBVIOUS
<1>1. ASSUME NEW c \in Clients, NEW k \in Keys,
             CallAdd(c, k) \/ \E e \in 1..MaxRevision : CallSave(c, k, e)
      PROVE  Abstract!Next
  <2>1. \/ Abstract!Ask(c, "add", k, 0)
        \/ \E e \in 1..MaxRevision : Abstract!Ask(c, "save", k, e)
    BY <1>1, AskMapped
  <2> QED BY <2>1 DEF Abstract!Next
<1>2. ASSUME NEW c \in Clients, SetKey(c) PROVE Abstract!Next
  BY <1>2, SetKeyMapped DEF Abstract!Next
<1>3. ASSUME NEW c \in Clients,
             \/ AddToIndex(c) \/ WatchKey(c) \/ CallList(c) \/ ReadIndex(c)
             \/ Fetch(c) \/ DropFromIndex(c) \/ Listed(c)
      PROVE  UNCHANGED <<store, Calls>>
  BY <1>3, InternalMapped
<1>4. ASSUME NEW c \in Clients, GetKey(c) \/ Execute(c)
      PROVE  Abstract!Next \/ UNCHANGED <<store, Calls>>
  BY <1>4, GetKeyMapped, ExecuteMapped DEF Abstract!Next
<1>5. ASSUME NEW c \in Clients, Return(c) \/ Break(c)
      PROVE  Abstract!Next \/ UNCHANGED <<store, Calls>>
  BY <1>5, EndMapped DEF Abstract!Next
<1>6. ASSUME NEW k \in Keys, Expire(k) PROVE Abstract!Next
  BY <1>6, ExpireMapped DEF Abstract!Next
<1>7. CASE UNCHANGED vars
  BY <1>7 DEF vars, Calls, Abstracted
<1> QED BY <1>1, <1>2, <1>3, <1>4, <1>5, <1>6, <1>7 DEF Next

\* The Valkey repository implements the in-memory one's promise: although a save
\* is five commands and an add is two, each takes effect at one moment or not
\* at all, and only on the revision its caller named.
THEOREM ContractIsKept == Spec => KeepsContract
<1>1. Init => Abstract!Init
  BY DEF Init, Abstract!Init, Abstract!NoCall, Calls, Abstracted, Quiet
<1>2. IInv /\ [Next]_vars => [Abstract!Next]_<<store, Calls>>
  BY StepMapped
<1> QED BY <1>1, <1>2, Inductive, PTL DEF Spec, KeepsContract, Abstract!Spec
=============================================================================

---------------------------- MODULE DevicesCache ----------------------------
(***************************************************************************)
(* The cache of device lists (devices-cache.service.ts): one load per key  *)
(* in the process (single flight), lists and their index in Redis, and a   *)
(* generation that keeps a load begun before an invalidation from storing  *)
(* what it read.                                                           *)
(*                                                                         *)
(* A list is the version of the catalogue it was read from.  Commands go   *)
(* to Redis over one connection, so that they take effect in the order     *)
(* they are sent; any of them may fail, which is logged and nothing else.  *)
(* Catalogue adds the requests that change devices and reviews.            *)
(***************************************************************************)
EXTENDS Naturals, FiniteSets

CONSTANTS
  Requests,    \* requests that can be in progress together
  Keys,        \* combinations of filter, sort and page
  Users,       \* customers, each with at most one review of the device
  Images,      \* images that may be uploaded
  Tickets,     \* maintenance tickets
  None

ASSUME NobodyIsNone == None \notin Requests \union Users \union Tickets

VARIABLES
  version,     \* changes committed to what the lists show
  lists,       \* Redis: the cached list of each key, by version
  index,       \* Redis: keys recorded as cached
  inFlight,    \* the request whose load answers a key
  generation,  \* number of invalidations of this process
  fence,       \* history: the version when the generation last moved
  req          \* what each request is doing

redis == <<lists, index>>
cacheVars == <<redis, inFlight, generation, fence>>

NoStats == [sum |-> 0, count |-> 0]
NoReview == [exists |-> FALSE, id |-> 0, rating |-> 0, hidden |-> FALSE, deleted |-> FALSE,
             editDay |-> 0, editCount |-> 0]
Idle == [op |-> "idle", pc |-> "idle", key |-> None, keys |-> {}, generation |-> 0, seen |-> 0,
         user |-> None, row |-> NoReview, stats |-> NoStats, ticket |-> None,
         device |-> None, images |-> {}, unused |-> {}]

At(w, op, pc) == req[w].op = op /\ req[w].pc = pc
Goto(w, pc) == req' = [req EXCEPT ![w].pc = pc]
Finish(w) == req' = [req EXCEPT ![w] = Idle]

CacheInit ==
  /\ version = 0
  /\ lists = [k \in Keys |-> None]
  /\ index = {}
  /\ inFlight = [k \in Keys |-> None]
  /\ generation = 0
  /\ fence = 0
  /\ req = [w \in Requests |-> Idle]

-----------------------------------------------------------------------------
(* getOrLoad.  A hit, and a request that joins a pending load, leave no     *)
(* trace.                                                                   *)

(* The list is not in Redis, or cannot be read. *)
MissList(w, k) ==
  /\ req[w] = Idle
  /\ inFlight[k] = None
  /\ req' = [req EXCEPT ![w] = [Idle EXCEPT !.op = "list", !.pc = "missed", !.key = k]]
  /\ UNCHANGED <<version, cacheVars>>

(* Mutant: a load begun during the wait for Redis is not noticed. *)
LoadAnyway(w) ==
  LET k == req[w].key IN
  /\ At(w, "list", "missed")
  /\ req' = [req EXCEPT ![w].pc = "load", ![w].generation = generation]
  /\ inFlight' = [inFlight EXCEPT ![k] = w]
  /\ UNCHANGED <<version, redis, generation, fence>>

StartLoad(w) ==
  LET k == req[w].key IN
  /\ At(w, "list", "missed")
  /\ IF inFlight[k] = None
       THEN /\ req' = [req EXCEPT ![w].pc = "load", ![w].generation = generation]
            /\ inFlight' = [inFlight EXCEPT ![k] = w]
       ELSE Finish(w) /\ UNCHANGED inFlight
  /\ UNCHANGED <<version, redis, generation, fence>>

(* queryList, or its failure, which every request that waits is told of. *)
QueryList(w) ==
  /\ At(w, "list", "load")
  /\ \/ req' = [req EXCEPT ![w].pc = "loaded", ![w].seen = version]
     \/ Goto(w, "settle")
  /\ UNCHANGED <<version, cacheVars>>

(* set: MULTI of the list and its place in the index *)
Cached(k, seen) ==
  /\ lists' = [lists EXCEPT ![k] = seen]
  /\ index' = index \union {k}

(* Mutant: the generation is not compared. *)
StoreAnyway(w) ==
  /\ At(w, "list", "loaded")
  /\ Cached(req[w].key, req[w].seen)
  /\ Goto(w, "settle")
  /\ UNCHANGED <<version, inFlight, generation, fence>>

StoreList(w) ==
  /\ At(w, "list", "loaded")
  /\ \/ req[w].generation = generation /\ Cached(req[w].key, req[w].seen)
     \/ UNCHANGED redis
  /\ Goto(w, "settle")
  /\ UNCHANGED <<version, inFlight, generation, fence>>

SettleLoad(w) ==
  LET k == req[w].key IN
  /\ At(w, "list", "settle")
  /\ inFlight' = [inFlight EXCEPT ![k] = IF @ = w THEN None ELSE @]
  /\ Finish(w)
  /\ UNCHANGED <<version, redis, generation, fence>>

(* The list's time to live, 35 to 55 seconds, is over; the index keeps it.  *)
Expire(k) ==
  /\ lists[k] # None
  /\ lists' = [lists EXCEPT ![k] = None]
  /\ UNCHANGED <<version, index, inFlight, generation, fence, req>>

-----------------------------------------------------------------------------
(* invalidateAll, by a request whose change is committed *)

(* The request is done, or goes on to delete the images it left unused. *)
Clean(w, unused) ==
  IF unused = {} THEN Finish(w)
  ELSE req' = [req EXCEPT ![w].unused = unused, ![w].pc = "clean"]

FlushLists(w) ==
  /\ req[w].pc = "changed"
  /\ generation' = generation + 1
  /\ inFlight' = [k \in Keys |-> None]
  /\ fence' = version
  /\ \/ req' = [req EXCEPT ![w].pc = "delete", ![w].keys = index]
     \/ Clean(w, req[w].unused)
  /\ UNCHANGED <<version, redis>>

DeleteLists(w) ==
  /\ req[w].pc = "delete"
  /\ \/ /\ lists' = [k \in Keys |-> IF k \in req[w].keys THEN None ELSE lists[k]]
        /\ index' = {}
     \/ UNCHANGED redis
  /\ Clean(w, req[w].unused)
  /\ UNCHANGED <<version, inFlight, generation, fence>>

CacheStep(w) ==
  \/ \E k \in Keys : MissList(w, k)
  \/ StartLoad(w) \/ QueryList(w) \/ StoreList(w) \/ SettleLoad(w)
  \/ FlushLists(w) \/ DeleteLists(w)

-----------------------------------------------------------------------------
(* A list that is stored was read after the last invalidation began: a load *)
(* that was under way may not put back what the invalidation removes.       *)
NoStaleListStored ==
  [][\A k \in Keys : lists'[k] \notin {None, lists[k]} => lists'[k] >= fence]_<<lists, fence>>

Loading(w) == req[w].op = "list" /\ req[w].pc \in {"load", "loaded", "settle"}

(* However many requests miss the same key together, one of them queries    *)
(* the database, until the lists are invalidated.                           *)
OneLoadPerKey ==
  \A v, w \in Requests :
    /\ Loading(v) /\ Loading(w)
    /\ req[v].key = req[w].key
    /\ req[v].generation = generation /\ req[w].generation = generation
    => v = w
=============================================================================

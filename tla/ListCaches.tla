------------------------------ MODULE ListCaches ------------------------------
(***************************************************************************)
(* The two public lists, the pool catalogue (`list_pools`) and one variant *)
(* of the leader board (`lp_leaders`): a local body served stale while a   *)
(* thread rebuilds it, a copy in Redis, and for the catalogue a lock that  *)
(* serialises rebuilds.  A behaviour follows one of them, `list`.          *)
(*                                                                         *)
(* A body is the version of the tables it was built from.  The two checks  *)
(* of the local body that precede a rebuild are one step.  Redis may fail  *)
(* at any call; the detached write of the catalogue lands within MaxLag    *)
(* ticks or never.                                                         *)
(***************************************************************************)
EXTENDS Values, FiniteSets

CONSTANTS
  Readers, Refreshers,        \* requests and warm-ups; threads that may be spawned
  ListTtl,                    \* POOL_LIST_CACHE_SECS, LEADER_LIST_CACHE_SECS and the Redis lifetimes
  MaxLag, MaxBuilds, MaxTime, MaxRestarts      \* bounds

Body == [version : 0 .. MaxBuilds, expires : Nat]

ASSUME ListAssumption ==
  /\ {ListTtl, MaxLag, MaxBuilds, MaxTime, MaxRestarts} \subseteq Nat /\ MaxLag <= ListTtl
  /\ None \notin Body /\ None \notin Readers \cup Refreshers
  /\ Readers \cap Refreshers = {}

VARIABLES
  list, now, tables,          \* the list followed, the clock, the version of its tables
  localBody, redisBody,       \* None or [version, expires]
  rebuildLock,                \* pool_list_refresh: None or who holds it
  rebuilding,                 \* pool_list_refreshing, leader_list_refreshing
  task,                       \* what each reader and thread is doing
  detached,                   \* the catalogue's spawned Redis writes: {[version, due]}
  feeRefresh,                 \* where refresh_leader_fee_snapshots is
  shown,                      \* the newest version this process has answered with
  restarts
listVars == <<list, now, tables, localBody, redisBody, rebuildLock, rebuilding, task, detached,
              feeRefresh, shown, restarts>>

Places  == {"idle", "lock", "redis", "found", "read", "built", "cached", "end"}
Resting == [at |-> "idle", version |-> 0]
ListTypeOK ==
  /\ list \in {"pools", "leaders"} /\ {now, shown, restarts} \subseteq Nat
  /\ tables \in 0 .. MaxBuilds
  /\ localBody \in Body \cup {None} /\ redisBody \in Body \cup {None}
  /\ rebuildLock \in Readers \cup Refreshers \cup {None} /\ rebuilding \in BOOLEAN
  /\ task \in [Readers \cup Refreshers -> [at : Places, version : 0 .. MaxBuilds]]
  /\ feeRefresh \in {"idle", "clear", "delete"}
  /\ detached \subseteq [version : 0 .. MaxBuilds, due : Nat] /\ \A d \in detached : d.due >= now

ProcessStart ==
  /\ localBody = None /\ rebuildLock = None /\ rebuilding = FALSE /\ detached = {}
  /\ task = [w \in Readers \cup Refreshers |-> Resting] /\ feeRefresh = "idle" /\ shown = 0
ListInit == ProcessStart /\ list \in {"pools", "leaders"} /\ now = 0 /\ tables = 0
            /\ redisBody = None /\ restarts = 0

Lives(body)   == body # None /\ body.expires > now
NewBody(v)    == [version |-> v, expires |-> now + ListTtl]
Answer(v)     == shown' = MaxOf(shown, v)
Unanswered    == UNCHANGED shown
Becomes(w, place, v) == task' = [task EXCEPT ![w] = [at |-> place, version |-> v]]
(* A handler returns, dropping its guard; a refresh thread has its flag yet *)
(* to clear.                                                               *)
Returns(w) ==
  /\ IF w \in Refreshers THEN Becomes(w, "end", 0) ELSE task' = [task EXCEPT ![w] = Resting]
  /\ rebuildLock' = IF rebuildLock = w THEN None ELSE rebuildLock

ListTick == /\ now < MaxTime /\ now' = now + 1 /\ \A d \in detached : d.due > now
            /\ UNCHANGED <<list, tables, localBody, redisBody, rebuildLock, rebuilding, task, detached,
                           feeRefresh, shown, restarts>>
TablesChange == /\ tables < MaxBuilds /\ tables' = tables + 1
                /\ UNCHANGED <<list, now, localBody, redisBody, rebuildLock, rebuilding, task, detached,
                               feeRefresh, shown, restarts>>

(* The first part of both handlers: a live body is answered at once, an     *)
(* expired one too, after the flag let one thread start.                   *)
Rebuild(w, force) ==
  Becomes(w, IF list = "pools" THEN "lock" ELSE IF force THEN "read" ELSE "redis", 0)
Ask(w) ==
  /\ task[w].at = "idle"
  /\ \/ /\ localBody # None /\ Answer(localBody.version)
        /\ IF Lives(localBody) \/ rebuilding THEN UNCHANGED <<rebuilding, task>>
           ELSE rebuilding' = TRUE /\ \E t \in Refreshers : task[t].at = "idle" /\ Rebuild(t, TRUE)
     \/ /\ localBody = None /\ Rebuild(w, FALSE) /\ Unanswered /\ UNCHANGED rebuilding
     \/ /\ Rebuild(w, TRUE) /\ Unanswered /\ UNCHANGED rebuilding       \* ?refresh=true
  /\ UNCHANGED <<list, now, tables, localBody, redisBody, rebuildLock, detached, feeRefresh, restarts>>

(* The catalogue's lock; another request may have filled the local body.    *)
LockFree(w) ==
  /\ task[w].at = "lock" /\ Becomes(w, "redis", 0) /\ Unanswered /\ UNCHANGED rebuildLock
  /\ UNCHANGED <<list, now, tables, localBody, redisBody, rebuilding, detached, feeRefresh, restarts>>
Lock(w) ==
  /\ task[w].at = "lock" /\ rebuildLock = None
  /\ IF Lives(localBody) THEN Returns(w) /\ Answer(localBody.version)
     ELSE rebuildLock' = w /\ Becomes(w, "redis", 0) /\ Unanswered
  /\ UNCHANGED <<list, now, tables, localBody, redisBody, rebuilding, detached, feeRefresh, restarts>>

(* Redis, asked even for a forced refresh of the catalogue; what it holds   *)
(* starts a local lifetime of its own.                                     *)
AskRedis(w) ==
  /\ task[w].at = "redis"
  /\ \/ Lives(redisBody) /\ Becomes(w, "found", redisBody.version)
     \/ Becomes(w, "read", 0)
  /\ UNCHANGED <<list, now, tables, localBody, redisBody, rebuildLock, rebuilding, detached, feeRefresh,
                 shown, restarts>>
KeepFound(w) ==
  /\ task[w].at = "found" /\ localBody' = NewBody(task[w].version)
  /\ Answer(task[w].version) /\ Returns(w)
  /\ UNCHANGED <<list, now, tables, redisBody, rebuilding, detached, feeRefresh, restarts>>

(* The tables are read under their locks, prices and metadata awaited.      *)
ReadTables(w) ==
  /\ task[w].at = "read"
  /\ \/ Becomes(w, "built", tables) /\ UNCHANGED rebuildLock
     \/ list = "pools" /\ Returns(w)                       \* db_error
  /\ UNCHANGED <<list, now, tables, localBody, redisBody, rebuilding, detached, feeRefresh, shown, restarts>>

(* The catalogue: local first, Redis from a detached task.                  *)
StoreCatalogue(w) ==
  /\ list = "pools" /\ task[w].at = "built"
  /\ localBody' = NewBody(task[w].version) /\ Answer(task[w].version) /\ Returns(w)
  /\ detached' = detached \cup {[version |-> task[w].version, due |-> now + MaxLag]}
  /\ UNCHANGED <<list, now, tables, redisBody, rebuilding, feeRefresh, restarts>>
DetachedWrite ==
  /\ \E d \in detached : detached' = detached \ {d} /\ redisBody' \in {redisBody, NewBody(d.version)}
  /\ UNCHANGED <<list, now, tables, localBody, rebuildLock, rebuilding, task, feeRefresh, shown, restarts>>

(* The board: Redis first, then the local body.                             *)
StoreBoard(w) ==
  /\ list = "leaders"
  /\ \/ /\ task[w].at = "built" /\ Becomes(w, "cached", task[w].version)
        /\ redisBody' \in {redisBody, NewBody(task[w].version)} /\ Unanswered
        /\ UNCHANGED <<localBody, rebuildLock>>
     \/ /\ task[w].at = "cached" /\ localBody' = NewBody(task[w].version)
        /\ Answer(task[w].version) /\ Returns(w) /\ UNCHANGED redisBody
  /\ UNCHANGED <<list, now, tables, rebuilding, detached, feeRefresh, restarts>>
(* Another variant of the board is stored: expired bodies go, or the oldest. *)
OtherBoard == /\ list = "leaders" /\ localBody # None /\ localBody' = None
              /\ UNCHANGED <<list, now, tables, redisBody, rebuildLock, rebuilding, task, detached,
                             feeRefresh, shown, restarts>>

ThreadReturns(t) ==
  /\ task[t].at = "end" /\ rebuilding' = FALSE /\ task' = [task EXCEPT ![t] = Resting]
  /\ UNCHANGED <<list, now, tables, localBody, redisBody, rebuildLock, detached, feeRefresh, shown, restarts>>

(* refresh_leader_fee_snapshots: new snapshots, then both caches emptied.   *)
RefreshFees ==
  /\ list = "leaders"
  /\ \/ feeRefresh = "idle" /\ tables < MaxBuilds /\ tables' = tables + 1 /\ feeRefresh' = "clear"
        /\ UNCHANGED <<localBody, redisBody>>
     \/ feeRefresh = "clear" /\ localBody' = None /\ feeRefresh' = "delete" /\ UNCHANGED <<tables, redisBody>>
     \/ feeRefresh = "delete" /\ redisBody' \in {redisBody, None} /\ feeRefresh' = "idle"
        /\ UNCHANGED <<tables, localBody>>
  /\ UNCHANGED <<list, now, rebuildLock, rebuilding, task, detached, shown, restarts>>

(* A client disconnects at an await; systemd restarts the process.          *)
Disconnect(w) ==
  /\ w \in Readers /\ task[w].at \in {"lock", "redis", "built"} /\ Returns(w)
  /\ UNCHANGED <<list, now, tables, localBody, redisBody, rebuilding, detached, feeRefresh, shown, restarts>>
RestartLists ==
  /\ restarts < MaxRestarts /\ restarts' = restarts + 1
  /\ localBody' = None /\ rebuildLock' = None /\ rebuilding' = FALSE /\ detached' = {}
  /\ task' = [w \in Readers \cup Refreshers |-> Resting] /\ feeRefresh' = "idle" /\ shown' = 0
  /\ UNCHANGED <<list, now, tables, redisBody>>

ListStep(w) == Lock(w) \/ AskRedis(w) \/ KeepFound(w) \/ ReadTables(w) \/ StoreCatalogue(w)
               \/ StoreBoard(w) \/ Disconnect(w)
ListNext == \/ ListTick \/ TablesChange \/ DetachedWrite \/ OtherBoard \/ RefreshFees \/ RestartLists
            \/ \E w \in Readers : Ask(w)
            \/ \E w \in Readers \cup Refreshers : ListStep(w)
            \/ \E t \in Refreshers : ThreadReturns(t)
ListSpec == ListInit /\ [][ListNext]_listVars

-----------------------------------------------------------------------------
(* One thread at a time rebuilds a stale list, and the flag that keeps the  *)
(* others out is set exactly as long as it runs (handlers.rs:1261-1285).    *)
OneRefresh == Cardinality({t \in Refreshers : task[t].at # "idle"}) = IF rebuilding THEN 1 ELSE 0

(* The catalogue never goes back: with slow and lost writes to Redis, an    *)
(* older copy is never taken over a body that was already answered, because *)
(* rebuilds are serialised and Redis forgets a copy no later than the next  *)
(* local body expires (handlers.rs:1301-1346, 1512-1530).                   *)
CatalogueNeverGoesBack == list = "pools" /\ localBody # None => localBody.version >= shown
=============================================================================

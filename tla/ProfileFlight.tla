---------------------------- MODULE ProfileFlight ----------------------------
(***************************************************************************)
(* The LP profile of one address (handlers.rs 2748-2895, 3207-3217): a     *)
(* local cache served stale while a thread refreshes it, a copy in Redis   *)
(* with a lifetime of its own, and a single flight that lets one request   *)
(* work while the others wait for its Notify.  A client may disconnect at  *)
(* any await, which drops its handler there.                               *)
(*                                                                         *)
(* A profile is the version of the positions it was computed from.  Time   *)
(* is what it does to the local entry: fresh for its lifetime, stale but   *)
(* refreshed within the grace period, old after it.                        *)
(***************************************************************************)
EXTENDS Naturals, FiniteSets

CONSTANTS Clients, MaxVersion, MaxDrops     \* bounds: position changes, disconnects

VARIABLES
  version,      \* of the positions on chain
  cached,       \* lp_profile_cache: {} or {[value, age]}
  redis,        \* {} or {value}
  inflight,     \* lp_profile_inflight holds the address
  refreshing,   \* lp_profile_refreshing holds the address
  at,           \* where each handler is
  held,         \* the profile it is about to answer with: {} or {value}
  served,       \* the last profile a client got
  drops
flightVars == <<version, cached, redis, inflight, refreshing, at, held, served, drops>>

Thread == "refresh thread"
Tasks  == Clients \cup {Thread}
ASSUME FlightAssumption == Thread \notin Clients /\ {MaxVersion, MaxDrops} \subseteq Nat
Awaiting == {"waiting", "lost", "redis", "computing", "storing"}

FlightTypeOK ==
  /\ version \in 0 .. MaxVersion /\ served \in 0 .. MaxVersion /\ drops \in 0 .. MaxDrops
  /\ cached \subseteq [value : 0 .. MaxVersion, age : {"fresh", "grace", "old"}]
  /\ redis \subseteq 0 .. MaxVersion /\ Cardinality(cached) <= 1 /\ Cardinality(redis) <= 1
  /\ inflight \in BOOLEAN /\ refreshing \in BOOLEAN
  /\ at \in [Tasks -> {"idle", "remove", "enter", "cloned", "work", "finish", "cleanup"} \cup Awaiting]
  /\ held \in [Tasks -> SUBSET (0 .. MaxVersion)]

FlightInit ==
  /\ version = 0 /\ cached = {} /\ redis = {}
  /\ inflight = FALSE /\ refreshing = FALSE /\ served = 0 /\ drops = 0
  /\ at = [t \in Tasks |-> "idle"] /\ held = [t \in Tasks |-> {}]

Go(t, place)   == at' = [at EXCEPT ![t] = place]
Hold(t, value) == held' = [held EXCEPT ![t] = {value}]
Moves(t, from, to) == at[t] = from /\ Go(t, to)

PositionsChange == /\ version < MaxVersion /\ version' = version + 1
                   /\ UNCHANGED <<cached, redis, inflight, refreshing, at, held, served, drops>>
Ages == /\ \E e \in cached : \/ e.age = "fresh" /\ cached' = {[e EXCEPT !.age = "grace"]}
                             \/ e.age = "grace" /\ cached' = {[e EXCEPT !.age = "old"]}
        /\ UNCHANGED <<version, redis, inflight, refreshing, at, held, served, drops>>
RedisExpires == /\ redis # {} /\ redis' = {}
                /\ UNCHANGED <<version, cached, inflight, refreshing, at, held, served, drops>>
(* Another address is cached: expired entries go, or the oldest one.        *)
Evicted == /\ cached # {} /\ cached' = {}
           /\ UNCHANGED <<version, redis, inflight, refreshing, at, held, served, drops>>

Request(c) == Moves(c, "idle", "enter")
              /\ UNCHANGED <<version, cached, redis, inflight, refreshing, held, served, drops>>

(* lp_profile: one lock decides who works; the others hold the Notify and   *)
(* register on it after the lock is gone.                                  *)
EnterUnheeded(t) ==
  /\ Moves(t, "enter", "work") /\ inflight' = TRUE
  /\ UNCHANGED <<version, cached, redis, refreshing, held, served, drops>>
Enter(t) ==
  /\ IF inflight THEN Moves(t, "enter", "cloned") ELSE Moves(t, "enter", "work")
  /\ inflight' = TRUE
  /\ UNCHANGED <<version, cached, redis, refreshing, held, served, drops>>
Register(t) == Moves(t, "cloned", "waiting")
               /\ UNCHANGED <<version, cached, redis, inflight, refreshing, held, served, drops>>

(* lp_profile_uncached, the local cache: an expired entry is served, and a  *)
(* refresh started while it is in its grace period.                        *)
LookUp(t) ==
  /\ at[t] = "work"
  /\ \/ \E e \in cached :
          LET spawns == e.age = "grace" /\ ~refreshing IN
          /\ Hold(t, e.value) /\ refreshing' = (refreshing \/ spawns)
          /\ at' = [at EXCEPT ![t] = "finish", ![Thread] = IF spawns THEN "remove" ELSE IF t = Thread THEN "finish" ELSE @]
     \/ cached = {} /\ Go(t, "redis") /\ UNCHANGED <<held, refreshing>>
  /\ UNCHANGED <<version, cached, redis, inflight, served, drops>>

cache_lp_profile(value) == cached' = {[value |-> value, age |-> "fresh"]}

(* Redis, or its miss or failure: then the positions are read.              *)
RedisGet(t) ==
  /\ at[t] = "redis"
  /\ \/ \E v \in redis : cache_lp_profile(v) /\ Hold(t, v) /\ Go(t, "finish")
     \/ Hold(t, version) /\ Go(t, "computing") /\ UNCHANGED cached
  /\ UNCHANGED <<version, redis, inflight, refreshing, served, drops>>
Compute(t) == /\ Moves(t, "computing", "storing") /\ \A v \in held[t] : cache_lp_profile(v)
              /\ UNCHANGED <<version, redis, inflight, refreshing, held, served, drops>>
(* The write to Redis may fail unnoticed.                                   *)
Store(t) == /\ Moves(t, "storing", "finish") /\ redis' \in {redis, held[t]}
            /\ UNCHANGED <<version, cached, inflight, refreshing, held, served, drops>>

(* The entry goes and notify_waiters wakes who is registered; a task that   *)
(* holds the Notify but has not registered will wait for nobody.           *)
Woken == [t \in Tasks |-> CASE at[t] = "waiting" -> "enter" [] at[t] = "cloned" -> "lost" [] OTHER -> at[t]]
Finish(t) ==
  /\ at[t] = "finish" /\ inflight' = FALSE
  /\ at' = [Woken EXCEPT ![t] = IF t = Thread THEN "cleanup" ELSE "idle"]
  /\ served' = (IF t = Thread THEN served ELSE CHOOSE v \in held[t] : TRUE)
  /\ held' = [held EXCEPT ![t] = {}]
  /\ UNCHANGED <<version, cached, redis, refreshing, drops>>

(* The refresh thread: the entry is removed, the profile asked for like a   *)
(* client would, and the address given back.                               *)
ThreadRemoves == /\ Moves(Thread, "remove", "enter") /\ cached' = {}
                 /\ UNCHANGED <<version, redis, inflight, refreshing, held, served, drops>>
ThreadEnds == /\ Moves(Thread, "cleanup", "idle") /\ refreshing' = FALSE
              /\ UNCHANGED <<version, cached, redis, inflight, held, served, drops>>

(* A disconnect drops the handler where it awaits, its entry stays.         *)
DropReleases(c) ==
  /\ at[c] \in Awaiting /\ drops < MaxDrops /\ drops' = drops + 1
  /\ Go(c, "idle") /\ held' = [held EXCEPT ![c] = {}] /\ inflight' = FALSE
  /\ UNCHANGED <<version, cached, redis, refreshing, served>>
Drop(c) ==
  /\ at[c] \in Awaiting /\ drops < MaxDrops /\ drops' = drops + 1
  /\ Go(c, "idle") /\ held' = [held EXCEPT ![c] = {}]
  /\ UNCHANGED <<version, cached, redis, inflight, refreshing, served>>

Step(t) == Enter(t) \/ Register(t) \/ LookUp(t) \/ RedisGet(t) \/ Compute(t) \/ Store(t) \/ Finish(t)
ThreadStep == ThreadRemoves \/ ThreadEnds
FlightNext == \/ PositionsChange \/ Ages \/ RedisExpires \/ Evicted \/ ThreadStep
              \/ \E t \in Tasks : Step(t)
              \/ \E c \in Clients : Request(c) \/ Drop(c)

(* Clients ask again and again, entries age and expire, and every handler   *)
(* and thread runs on.                                                     *)
FlightSpec ==
  /\ FlightInit /\ [][FlightNext]_flightVars
  /\ WF_flightVars(Ages) /\ WF_flightVars(RedisExpires) /\ WF_flightVars(ThreadStep)
  /\ \A t \in Tasks : WF_flightVars(Step(t))
  /\ \A c \in Clients : WF_flightVars(Request(c))

-----------------------------------------------------------------------------
(* handlers.rs:76, "Coalesces concurrent cold profile requests": at most    *)
(* one task reads the positions of an address, refresh thread included,    *)
(* whoever disconnects.                                                    *)
Working == {t \in Tasks : at[t] \in {"work", "redis", "computing", "storing", "finish"}}
SingleFlight == Cardinality(Working) <= 1 /\ (Working # {} => inflight)

(* handlers.rs:69-71, profiles "should still refresh frequently enough to   *)
(* show current LP state": clients who keep asking are shown a change.     *)
ProfileRefreshes == \A v \in 0 .. MaxVersion : (version = v) ~> (served >= v)
=============================================================================

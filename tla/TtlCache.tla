------------------------------ MODULE TtlCache ------------------------------
(***************************************************************************)
(* openvc.cache: the bounded, thread-safe TtlCache and the memoizing       *)
(* wrapper cached_resolve (CachingDidResolver and batch_resolvers are that *)
(* wrapper over a DID resolver and over one cache per callable).           *)
(*                                                                         *)
(* Threads share one cache.  A call of the wrapper is the steps the lock   *)
(* and the network divide it into: the clock read that TtlCache.get makes  *)
(* before it takes the lock, the locked lookup, the fetch that samples the *)
(* origin, and the locked set.  The origin (a DID document, a status list) *)
(* changes on its own: origin[k][v] is the time version v of k became      *)
(* current, so version v was superseded at origin[k][v + 1].               *)
(***************************************************************************)
EXTENDS Integers, Sequences, SequencesExt

CONSTANTS
  Threads,       \* the callers that share the cache
  Names,         \* DIDs, status list URLs
  Rotating,      \* those whose origin changes (a did:key never does)
  Ttl,           \* TtlCache._ttl
  MaxEntries,    \* TtlCache._max
  MaxResolve,    \* the longest a miss takes from lookup to set: fetch timeouts
  MaxClock,      \* bound on the clock
  MaxVersions,   \* bound on the versions an origin publishes
  Nil            \* no call in progress, nothing served yet

ASSUME CacheAssumption ==
  /\ Rotating \subseteq Names
  /\ Ttl \in Nat
  /\ MaxEntries \in Nat \ {0}
  /\ MaxResolve \in Nat
  /\ MaxClock \in Nat
  /\ MaxVersions \in Nat \ {0}

VARIABLES
  clock,         \* the injected monotonic clock
  origin,        \* per key, when each version became current
  data,          \* TtlCache._data: an OrderedDict, oldest write first
  place,         \* where each thread is in cached_resolve's resolve
  lookup,        \* the locals of that call
  served         \* the last answer that came from the cache

cacheVars == <<clock, origin, data, place, lookup, served>>

(***************************************************************************)
(* A call's locals: the key, a clock value (the one get read, and from the *)
(* miss on the time of the miss), the version fn returned.                 *)
(***************************************************************************)
Entry  == [key : Names, expires : Nat, ver : Nat]
Call   == [key : Names, at : Nat, ver : Nat]
Hit    == [key : Names, at : Nat, ver : Nat]

Current(k) == Len(origin[k])

Holds(k) == \E i \in DOMAIN data : data[i].key = k

\* The position of a key that is held.
At(k) == CHOOSE i \in DOMAIN data : data[i].key = k

\* An entry counted fresh one instant too long.
EntryExpiredLate(e, t) == e.expires + 1 < t

EntryExpired(e, t) == e.expires < t

(***************************************************************************)
(* TtlCache.set, whole: it runs under the lock, clock read included.       *)
(***************************************************************************)
\* A full cache that evicts its newest entry.
KeptOldest(k) ==
  IF Holds(k) THEN RemoveAt(data, At(k))
  ELSE IF Len(data) >= MaxEntries THEN Front(data)
  ELSE data

Kept(k) ==
  IF Holds(k) THEN RemoveAt(data, At(k))
  ELSE IF Len(data) >= MaxEntries THEN Tail(data)
  ELSE data

\* A set that forgets move_to_end: a rewritten key keeps its old place.
SetInPlace(k, v) ==
  LET e == [key |-> k, expires |-> clock + Ttl, ver |-> v]
  IN  data' = IF Holds(k) THEN [data EXCEPT ![At(k)] = e] ELSE Append(Kept(k), e)

SetEntry(k, v) ==
  data' = Append(Kept(k), [key |-> k, expires |-> clock + Ttl, ver |-> v])

Goto(t, from, to) == place[t] = from /\ place' = [place EXCEPT ![t] = to]

Done(t) == lookup' = [lookup EXCEPT ![t] = Nil]

----------------------------------------------------------------------------
CacheInit ==
  /\ clock = 0
  /\ origin = [k \in Names |-> <<0>>]
  /\ data = <<>>
  /\ place = [t \in Threads |-> "idle"]
  /\ lookup = [t \in Threads |-> Nil]
  /\ served = Nil

\* resolve(key) is called; get's first statement reads the clock, unlocked.
Begin(t, k) ==
  /\ Goto(t, "idle", "get")
  /\ lookup' = [lookup EXCEPT ![t] = [key |-> k, at |-> clock, ver |-> 0]]
  /\ UNCHANGED <<clock, origin, data, served>>

\* get, locked: the entry is fresh at the clock value read before the lock.
GetHit(t) ==
  LET k == lookup[t].key
      e == data[At(k)]
  IN  /\ Goto(t, "get", "idle")
      /\ Holds(k)
      /\ ~ EntryExpired(e, lookup[t].at)
      /\ served' = [key |-> k, at |-> lookup[t].at, ver |-> e.ver]
      /\ Done(t)
      /\ UNCHANGED <<clock, origin, data>>

\* get, locked: nothing there, or an expired entry, which it pops.
GetMiss(t) ==
  LET k == lookup[t].key
  IN  /\ Goto(t, "get", "fetch")
      /\ Holds(k) => EntryExpired(data[At(k)], lookup[t].at)
      /\ data' = IF Holds(k) THEN RemoveAt(data, At(k)) ELSE data
      /\ lookup' = [lookup EXCEPT ![t].at = clock]
      /\ UNCHANGED <<clock, origin, served>>

\* fn(key) reads what the origin publishes at this instant.
Sample(t) ==
  /\ Goto(t, "fetch", "set")
  /\ lookup' = [lookup EXCEPT ![t].ver = Current(lookup[t].key)]
  /\ UNCHANGED <<clock, origin, data, served>>

\* fn(key) raises: the exception leaves resolve and nothing is stored.
ResolveFails(t) ==
  /\ Goto(t, "fetch", "idle")
  /\ Done(t)
  /\ UNCHANGED <<clock, origin, data, served>>

\* c.set(key, value), then the value is returned.
Store(t) ==
  /\ Goto(t, "set", "idle")
  /\ SetEntry(lookup[t].key, lookup[t].ver)
  /\ Done(t)
  /\ UNCHANGED <<clock, origin, served>>

\* TtlCache.clear.
Clear ==
  /\ data' = <<>>
  /\ UNCHANGED <<clock, origin, place, lookup, served>>

(***************************************************************************)
(* The environment.  MaxResolve is what a fetch's own timeouts promise: a  *)
(* miss that is still on its way to set holds time back.                   *)
(***************************************************************************)
ClockTick ==
  /\ clock < MaxClock
  /\ \A t \in Threads : place[t] \in {"fetch", "set"} => clock < lookup[t].at + MaxResolve
  /\ clock' = clock + 1
  /\ UNCHANGED <<origin, data, place, lookup, served>>

\* A key rotation, a revocation: the origin publishes the next version.
Publish(k) ==
  /\ k \in Rotating
  /\ Current(k) < MaxVersions
  /\ origin' = [origin EXCEPT ![k] = Append(@, clock)]
  /\ UNCHANGED <<clock, data, place, lookup, served>>

ThreadStep(t) ==
  \/ \E k \in Names : Begin(t, k)
  \/ GetHit(t)
  \/ GetMiss(t)
  \/ Sample(t)
  \/ ResolveFails(t)
  \/ Store(t)

CacheNext ==
  \/ \E t \in Threads : ThreadStep(t)
  \/ Clear
  \/ ClockTick
  \/ \E k \in Names : Publish(k)

CacheSpec == CacheInit /\ [][CacheNext]_cacheVars

----------------------------------------------------------------------------
CacheTypeOK ==
  /\ clock \in Nat
  /\ origin \in [Names -> Seq(Nat)]
  /\ data \in Seq(Entry)
  /\ place \in [Threads -> {"idle", "get", "fetch", "set"}]
  /\ lookup \in [Threads -> Call \cup {Nil}]
  /\ served \in Hit \cup {Nil}

\* Two threads that miss one key both store it; the OrderedDict still has
\* one entry for it, and the cache is never larger than max_entries.
OneEntryPerKey == \A i, j \in DOMAIN data : data[i].key = data[j].key => i = j

Bounded == Len(data) <= MaxEntries

(***************************************************************************)
(* The comment on TtlCache: "oldest-inserted is also soonest-to-expire".   *)
(* It is what lets set evict in O(1), and it needs move_to_end and a clock *)
(* that is read under the lock.                                            *)
(***************************************************************************)
OldestExpiresFirst ==
  \A i, j \in DOMAIN data : i < j => data[i].expires <= data[j].expires

(***************************************************************************)
(* What the cache loses.  A live entry leaves only by clear, or as the     *)
(* soonest to expire of a full cache: a lookup that read the clock long    *)
(* before it got the lock never pops an entry somebody refreshed, and no   *)
(* write pushes out a fresher entry than one it leaves.                    *)
(***************************************************************************)
Lost(e) == \A j \in DOMAIN data' : data'[j].key # e.key

LosesOnlyTheOldest ==
  [][\A i \in DOMAIN data :
       Lost(data[i]) =>
         \/ data' = <<>>
         \/ data[i].expires < clock
         \/ /\ Len(data) = MaxEntries
            /\ \A j \in DOMAIN data : data[i].expires <= data[j].expires]_cacheVars

(***************************************************************************)
(* Only successes are cached, and under their own key: whatever a caller   *)
(* is served from the cache is a version the origin of that key published. *)
(***************************************************************************)
Published(k, v) == v \in 1..Current(k)

ServesPublished ==
  /\ \A i \in DOMAIN data : Published(data[i].key, data[i].ver)
  /\ served # Nil => Published(served.key, served.ver)

(***************************************************************************)
(* cached_resolve: "the TTL is exactly the window a revoked credential can *)
(* still verify as valid".                                                 *)
(***************************************************************************)
Superseded(k, v) == origin[k][v + 1]

StaleAtMostTtl ==
  served # Nil /\ served.ver < Current(served.key)
    => served.at <= Superseded(served.key, served.ver) + Ttl

(***************************************************************************)
(* The freshness bound the code does give.  A hit at clock value `at` was  *)
(* still the origin's current version at time at - Ttl - MaxResolve: the   *)
(* entry lives Ttl from the set, and the set comes up to one whole resolve *)
(* after the origin was read.                                              *)
(***************************************************************************)
StaleAtMostTtlPlusResolve ==
  served # Nil /\ served.ver < Current(served.key)
    => served.at <= Superseded(served.key, served.ver) + Ttl + MaxResolve
=============================================================================

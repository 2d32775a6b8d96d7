----------------------------- MODULE CacheOnce -----------------------------
(***************************************************************************)
(* CacheManagerService: once() with the calls of any number of requests    *)
(* interleaved at its awaits, the write of the cache that it does not      *)
(* await, and the clear-cache endpoint.  Time runs in half seconds, so     *)
(* that a ttl can be a fraction of a second.                               *)
(***************************************************************************)
EXTENDS Integers

CONSTANTS
  Keys,        \* cache keys
  Callers,     \* calls of once() at a time; a caller may call again
  Ttls,        \* ttls that a TTLResolver may state, in half seconds
  Default,     \* CACHE_TTL, in half seconds
  Redis,       \* whether a Redis host is configured
  Faults,      \* whether the cache and the resolvers may fail
  MaxVersion,  \* bound: how often the data behind a key change
  CacheAll,    \* CACHE_KEY_ALL
  Undefined,   \* the ttl of a resolver that states none
  None         \* no cache entry, no write under way

ASSUME TtlAssumption ==
  /\ Ttls \subseteq Int
  /\ Undefined \notin Int
  /\ Default \in Nat \ {0}

ASSUME CacheAssumption ==
  /\ CacheAll \notin Keys
  /\ MaxVersion \in Nat
  /\ Redis \in BOOLEAN
  /\ Faults \in BOOLEAN

VARIABLES
  source,  \* the version of the data that the resolver of a key reads
  cache,   \* the entry of each key
  call,    \* each call of once(): before which await, and what it has read
  sets,    \* the write each caller has under way, at most one each
  clean    \* history: the version that the last undisturbed clear found

cacheVars == <<source, cache, call, sets, clean>>

Version == 0..MaxVersion
Ttl     == Ttls \cup {Undefined}
\* What JavaScript and the store make of a value: 0, false and '' are falsy,
\* undefined and null are refused.
Kinds   == {"truthy", "falsy", "refused"}

\* Of a call, began and floor are history: the version of the data when it
\* began, and the one that the last undisturbed clear had found.
Entry == [version : Version, kind : {"truthy", "falsy"}, stated : Ttl, age : Nat]
Write == [key : Keys, version : Version, kind : Kinds, stated : Ttl]
Call  == [pc : {"idle", "lookup", "resolve", "resolved", "returned", "failed"},
          key : Keys, ignore : BOOLEAN, began : Version, floor : Version,
          version : Version]

CacheTypeOK ==
  /\ source \in [Keys -> Version]
  /\ cache \in [Keys -> Entry \cup {None}]
  /\ call \in [Callers -> Call]
  /\ sets \in [Callers -> Write \cup {None}]
  /\ clean \in [Keys -> Version]

\* Mutated: the ttl is rounded up.
RoundedUp(t) == t + (t % 2)

\* Math.floor of a ttl in seconds.
Floored(t) == t - (t % 2)

\* `ttl || defaultTime`: NaN and 0 are replaced.
Life(ttl) == IF ttl = Undefined \/ Floored(ttl) = 0 THEN Default ELSE Floored(ttl)

\* Mutated: CACHE_ALL is deleted as a key like any other.
DeletedAsKey(key) == {key}

\* CACHE_ALL resets the store, another key is deleted.
Cleared(key) == IF key = CacheAll THEN Keys ELSE {key}

\* Mutated: the option is not looked at.
AlwaysLookup(ignore) == "lookup"

\* ignoreCache neglects the cache query.
FirstStep(ignore) == IF ignore THEN "resolve" ELSE "lookup"

Init ==
  /\ source = [k \in Keys |-> 0]
  /\ cache = [k \in Keys |-> None]
  /\ \E k \in Keys : call = [c \in Callers |->
       [pc |-> "idle", key |-> k, ignore |-> FALSE, began |-> 0, floor |-> 0,
        version |-> 0]]
  /\ sets = [c \in Callers |-> None]
  /\ clean = [k \in Keys |-> 0]

\* A caller calls once(); the bound on Callers is also one on the writes that
\* are under way.
Begin(c) ==
  /\ call[c].pc \in {"idle", "returned", "failed"}
  /\ sets[c] = None
  /\ \E k \in Keys, i \in BOOLEAN :
       call' = [call EXCEPT ![c] =
         [pc |-> FirstStep(i), key |-> k, ignore |-> i,
          began |-> source[k], floor |-> clean[k], version |-> 0]]
  /\ UNCHANGED <<source, cache, sets, clean>>

\* Mutated: a hit starts the life of the entry again.
HitRefreshes(c) ==
  LET e == cache[call[c].key] IN
  /\ call[c].pc = "lookup"
  /\ e # None
  /\ e.kind = "truthy"
  /\ call' = [call EXCEPT ![c].pc = "returned", ![c].version = e.version]
  /\ cache' = [cache EXCEPT ![call[c].key].age = 0]
  /\ UNCHANGED <<source, sets, clean>>

\* getData finds a value that is truthy: it is returned.
Hit(c) ==
  LET e == cache[call[c].key] IN
  /\ call[c].pc = "lookup"
  /\ e # None
  /\ e.kind = "truthy"
  /\ call' = [call EXCEPT ![c].pc = "returned", ![c].version = e.version]
  /\ UNCHANGED <<source, cache, sets, clean>>

\* It finds nothing, or a value that is falsy.
Miss(c) ==
  LET e == cache[call[c].key] IN
  /\ call[c].pc = "lookup"
  /\ e # None => e.kind = "falsy"
  /\ call' = [call EXCEPT ![c].pc = "resolve"]
  /\ UNCHANGED <<source, cache, sets, clean>>

\* The moment at which the resolver reads the data.
Resolve(c) ==
  /\ call[c].pc = "resolve"
  /\ call' = [call EXCEPT ![c].pc = "resolved", ![c].version = source[call[c].key]]
  /\ UNCHANGED <<source, cache, sets, clean>>

\* What follows the await of the resolver: the ttl is computed, the write is
\* begun and the value returned without waiting for it.
Store(c) ==
  /\ call[c].pc = "resolved"
  /\ \E kind \in Kinds, ttl \in Ttl :
       sets' = [sets EXCEPT ![c] =
         [key |-> call[c].key, version |-> call[c].version,
          kind |-> kind, stated |-> ttl]]
  /\ call' = [call EXCEPT ![c].pc = "returned"]
  /\ UNCHANGED <<source, cache, clean>>

\* The cache, the resolver or the ttl function throws.
Fail(c) ==
  /\ Faults
  /\ call[c].pc \in {"lookup", "resolve", "resolved"}
  /\ call' = [call EXCEPT ![c].pc = "failed"]
  /\ UNCHANGED <<source, cache, sets, clean>>

\* Mutated: a value that is undefined is stored.
NothingRefused(w) == Redis /\ Life(w.stated) < 0

\* A write that the store refuses: it has no value, or Redis no such expiry.
Refused(w) == w.kind = "refused" \/ (Redis /\ Life(w.stated) < 0)

\* The write takes effect.  The memory store takes a negative ttl for one
\* that is over.
SetLands(c) ==
  LET w == sets[c] IN
  /\ w # None
  /\ ~Refused(w)
  /\ cache' = [cache EXCEPT ![w.key] =
       IF Life(w.stated) < 0 THEN None
       ELSE [version |-> w.version, kind |-> w.kind, stated |-> w.stated, age |-> 0]]
  /\ sets' = [sets EXCEPT ![c] = None]
  /\ UNCHANGED <<source, call, clean>>

\* It fails.  Nobody awaits it, so the rejection ends the process with all of
\* its calls; their other writes may have been sent or not.  What is in Redis
\* stays, and other processes go on.
SetFails(c) ==
  /\ sets[c] # None
  /\ Faults \/ Refused(sets[c])
  /\ \E dead \in SUBSET Callers, lost \in SUBSET Callers :
       /\ c \in lost
       /\ lost \subseteq dead
       /\ Redis \/ lost = Callers
       /\ call' = [d \in Callers |->
            IF d \in dead /\ call[d].pc \in {"lookup", "resolve", "resolved"}
            THEN [call[d] EXCEPT !.pc = "failed"] ELSE call[d]]
       /\ sets' = [d \in Callers |-> IF d \in lost THEN None ELSE sets[d]]
  /\ cache' = IF Redis THEN cache ELSE [k \in Keys |-> None]
  /\ UNCHANGED <<source, clean>>

\* A value of k has been read and is not yet in the cache.
InFlight(k) ==
  \E c \in Callers : \/ call[c].pc = "resolved" /\ call[c].key = k
                     \/ sets[c] # None /\ sets[c].key = k

\* GET clear-cache/:key.
ClearRedisCache ==
  \E key \in Keys \cup {CacheAll} :
    /\ cache' = [k \in Keys |-> IF k \in Cleared(key) THEN None ELSE cache[k]]
    /\ clean' = [k \in Keys |->
         IF (key = k \/ key = CacheAll) /\ ~InFlight(k) THEN source[k] ELSE clean[k]]
    /\ UNCHANGED <<source, call, sets>>

\* The data behind a key change.
Change ==
  \E k \in Keys :
    /\ source[k] < MaxVersion
    /\ source' = [source EXCEPT ![k] = @ + 1]
    /\ UNCHANGED <<cache, call, sets, clean>>

\* Half a second passes; the store drops what is over.
Tick ==
  /\ cache' = [k \in Keys |->
       IF cache[k] = None THEN None
       ELSE IF cache[k].age + 1 >= Life(cache[k].stated) THEN None
       ELSE [cache[k] EXCEPT !.age = @ + 1]]
  /\ UNCHANGED <<source, call, sets, clean>>

Step(c) == Hit(c) \/ Miss(c) \/ Resolve(c) \/ Store(c)

Next ==
  \/ \E c \in Callers : Begin(c) \/ Step(c) \/ Fail(c) \/ SetLands(c) \/ SetFails(c)
  \/ ClearRedisCache \/ Change \/ Tick

Spec == Init /\ [][Next]_cacheVars

\* The event loop runs what is ready, the store answers, and time passes.
FairSpec ==
  /\ Spec
  /\ \A c \in Callers : WF_cacheVars(Step(c)) /\ WF_cacheVars(SetLands(c) \/ SetFails(c))
  /\ WF_cacheVars(Tick)

----------------------------------------------------------------------------
\* A value whose ttl is a second or more leaves the cache before the ttl is
\* over, any other before the default time is: rounding and replacing the ttl
\* never prolongs it.
KeptWithinTtl ==
  \A k \in Keys : cache[k] # None =>
    IF cache[k].stated # Undefined /\ cache[k].stated \notin {0, 1}
    THEN cache[k].age < cache[k].stated
    ELSE cache[k].age < Default

\* What clear-cache removed does not come back, if at the time no value of the
\* key was on its way from a resolver to the cache.  Having returned is not
\* enough for a call: its write may still be under way.
ClearedStaysCleared ==
  \A k \in Keys : cache[k] # None => cache[k].version >= clean[k]

\* A call with ignoreCache returns data that are at least as new as the call.
IgnoreCacheIsCurrent ==
  \A c \in Callers : call[c].pc = "returned" /\ call[c].ignore =>
    call[c].version >= call[c].began

\* A call as its caller sees it.
Seen(c) ==
  [state  |-> CASE call[c].pc \in {"lookup", "resolve", "resolved"} -> "open"
                [] call[c].pc = "returned" -> "answered"
                [] OTHER -> call[c].pc,
   key    |-> call[c].key,
   floor  |-> IF call[c].ignore THEN call[c].began ELSE call[c].floor,
   answer |-> IF call[c].pc = "returned" THEN call[c].version ELSE 0]

Contract == INSTANCE CacheContract WITH calls <- [c \in Callers |-> Seen(c)]

\* The cache implements the contract: whatever entries, writes and expiries do,
\* no call is answered with data from before the last clear that preceded it,
\* unless a value was on its way to the cache when it was cleared.
ImplementsContract == Contract!ContractSpec

\* Two resolvers of a key may finish in either order, and the older value
\* overwrite the newer.  When the data change no more it is gone in the end,
\* even from a key that is read all the time.
FreshInTheEnd ==
  \A k \in Keys : <>[](cache[k] # None => cache[k].version = source[k])
=============================================================================

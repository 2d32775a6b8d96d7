---------------------------- MODULE CacheProofs ----------------------------
(***************************************************************************)
(* What CacheOnce guarantees for any keys, callers and ttls.               *)
(***************************************************************************)
EXTENDS CacheOnce, TLAPS

\* No entry is as old as its life.
YoungerThanLife ==
  \A k \in Keys : cache[k] # None => cache[k].age < Life(cache[k].stated)

\* What is on its way to the cache is no older than what a clear found.
NothingOldUnderWay ==
  /\ \A k \in Keys : clean[k] <= source[k]
  /\ \A c \in Callers : call[c].pc = "resolved" => call[c].version >= clean[call[c].key]
  /\ \A c \in Callers : sets[c] # None => sets[c].version >= clean[sets[c].key]

\* A call with ignoreCache reads the data after it began, and not the cache.
IgnoringResolves ==
  \A c \in Callers :
    /\ call[c].began <= source[call[c].key]
    /\ call[c].ignore => call[c].pc # "lookup"
    /\ call[c].pc = "resolved" /\ call[c].ignore => call[c].version >= call[c].began

\* No value is newer than the data, and no call's floor than the last clear.
Bounded ==
  /\ \A k \in Keys : cache[k] # None => cache[k].version <= source[k]
  /\ \A c \in Callers : sets[c] # None => sets[c].version <= source[sets[c].key]
  /\ \A c \in Callers : /\ call[c].version <= source[call[c].key]
                        /\ call[c].floor <= clean[call[c].key]

CacheInv == /\ CacheTypeOK /\ YoungerThanLife
            /\ NothingOldUnderWay /\ ClearedStaysCleared
            /\ IgnoringResolves /\ IgnoreCacheIsCurrent /\ Bounded

LEMMA FlooredIsLess ==
  ASSUME NEW t \in Int
  PROVE  /\ Floored(t) \in Int
         /\ Floored(t) <= t
         /\ Floored(t) = 0 => t \in {0, 1}
  BY DEF Floored

LEMMA LifeType ==
  ASSUME NEW ttl \in Ttl
  PROVE  Life(ttl) \in Int /\ Life(ttl) # 0
  <1>1. ttl = Undefined => Life(ttl) = Default
    BY DEF Life
  <1>2. ttl # Undefined => ttl \in Int /\ Floored(ttl) \in Int
    BY FlooredIsLess, TtlAssumption DEF Ttl
  <1> QED BY <1>1, <1>2, TtlAssumption DEF Life

LEMMA CacheInit == Init => CacheInv
  <1> SUFFICES ASSUME Init PROVE CacheInv
    OBVIOUS
  <1> USE CacheAssumption DEF Init
  <1>1. CacheTypeOK
    BY DEF CacheTypeOK, Version, Call
  <1>2. YoungerThanLife /\ ClearedStaysCleared
    BY DEF YoungerThanLife, ClearedStaysCleared
  <1>3. NothingOldUnderWay /\ IgnoringResolves /\ IgnoreCacheIsCurrent /\ Bounded
    BY DEF NothingOldUnderWay, IgnoringResolves, IgnoreCacheIsCurrent, Bounded
  <1> QED BY <1>1, <1>2, <1>3 DEF CacheInv

\* The steps of a call of once() that leave the cache alone.
LEMMA CallKeeps ==
  ASSUME CacheInv, NEW c \in Callers,
         Begin(c) \/ Hit(c) \/ Miss(c) \/ Resolve(c) \/ Store(c) \/ Fail(c)
  PROVE  CacheInv'
  <1> USE CacheAssumption DEF CacheInv, CacheTypeOK, Version
  <1>1. YoungerThanLife' /\ ClearedStaysCleared'
    BY DEF Begin, Hit, Miss, Resolve, Store, Fail, YoungerThanLife, ClearedStaysCleared
  <1>2. CASE Begin(c)
    BY <1>1, <1>2 DEF Begin, FirstStep, NothingOldUnderWay, IgnoringResolves,
       IgnoreCacheIsCurrent, Bounded, Call
  <1>3. CASE Hit(c)
    BY <1>1, <1>3 DEF Hit, NothingOldUnderWay, IgnoringResolves,
       IgnoreCacheIsCurrent, Bounded, Call, Entry
  <1>4. CASE Miss(c)
    BY <1>1, <1>4 DEF Miss, NothingOldUnderWay, IgnoringResolves,
       IgnoreCacheIsCurrent, Bounded, Call
  <1>5. CASE Resolve(c)
    <2>1. /\ CacheTypeOK' /\ UNCHANGED <<source, cache, sets, clean>>
          /\ call'[c].pc = "resolved" /\ call'[c].version = source[call[c].key]
          /\ call'[c].key = call[c].key /\ call'[c].ignore = call[c].ignore
          /\ call'[c].began = call[c].began /\ call'[c].floor = call[c].floor
          /\ \A d \in Callers \ {c} : call'[d] = call[d]
      BY <1>5 DEF Resolve, Call
    <2>2. NothingOldUnderWay' /\ Bounded'
      BY <2>1 DEF NothingOldUnderWay, Bounded, Call
    <2>3. IgnoringResolves' /\ IgnoreCacheIsCurrent'
      BY <2>1 DEF IgnoringResolves, IgnoreCacheIsCurrent, Call
    <2> QED BY <1>1, <2>1, <2>2, <2>3
  <1>6. CASE Store(c)
    <2>1. /\ sets' \in [Callers -> Write \cup {None}]
          /\ \A d \in Callers \ {c} : sets'[d] = sets[d]
          /\ sets'[c].version = call[c].version /\ sets'[c].key = call[c].key
      BY <1>6 DEF Store, Write, Call
    <2>2. CacheTypeOK' /\ NothingOldUnderWay' /\ Bounded'
      BY <1>6, <2>1 DEF Store, NothingOldUnderWay, Bounded, Call
    <2>3. IgnoringResolves' /\ IgnoreCacheIsCurrent'
      BY <1>6 DEF Store, IgnoringResolves, IgnoreCacheIsCurrent, Call
    <2> QED BY <1>1, <2>2, <2>3
  <1>7. CASE Fail(c)
    BY <1>1, <1>7 DEF Fail, NothingOldUnderWay, IgnoringResolves,
       IgnoreCacheIsCurrent, Bounded, Call
  <1> QED BY <1>2, <1>3, <1>4, <1>5, <1>6, <1>7

LEMMA SetLandsKeeps ==
  ASSUME CacheInv, NEW c \in Callers, SetLands(c)
  PROVE  CacheInv'
  <1> USE DEF CacheInv, CacheTypeOK
  <1> DEFINE w == sets[c]
  <1>1. w \in Write /\ w.kind # "refused"
    BY DEF SetLands, Refused
  <1>2. /\ \A k \in Keys \ {w.key} : cache'[k] = cache[k]
        /\ cache'[w.key] # None =>
             /\ cache'[w.key] \in Entry
             /\ Life(w.stated) >= 0
             /\ cache'[w.key] = [version |-> w.version, kind |-> w.kind,
                                 stated |-> w.stated, age |-> 0]
        /\ cache' \in [Keys -> Entry \cup {None}]
    <2>1. Life(w.stated) \in Int
      BY <1>1, LifeType DEF Write
    <2>2. [version |-> w.version, kind |-> w.kind, stated |-> w.stated, age |-> 0] \in Entry
      BY <1>1 DEF Write, Entry, Kinds
    <2> QED BY <1>1, <2>1, <2>2 DEF SetLands, Write
  <1>3. cache'[w.key] # None => Life(w.stated) > 0
    <2>1. Life(w.stated) \in Int /\ Life(w.stated) # 0
      BY <1>1, LifeType DEF Write
    <2> QED BY <1>2, <2>1
  <1>4. CacheTypeOK'
    BY <1>2 DEF SetLands
  <1>5. YoungerThanLife'
    BY <1>1, <1>2, <1>3 DEF YoungerThanLife, Write
  <1>6. NothingOldUnderWay' /\ ClearedStaysCleared' /\ Bounded'
    BY <1>1, <1>2 DEF SetLands, NothingOldUnderWay, ClearedStaysCleared, Bounded, Write
  <1>7. IgnoringResolves' /\ IgnoreCacheIsCurrent'
    BY DEF SetLands, IgnoringResolves, IgnoreCacheIsCurrent
  <1> QED BY <1>4, <1>5, <1>6, <1>7

LEMMA SetFailsKeeps ==
  ASSUME CacheInv, NEW c \in Callers, SetFails(c)
  PROVE  CacheInv'
  <1> USE DEF CacheInv, CacheTypeOK
  <1>1. /\ call' \in [Callers -> Call]
        /\ \A d \in Callers :
             /\ call'[d].pc \in {call[d].pc, "failed"}
             /\ call'[d].key = call[d].key /\ call'[d].ignore = call[d].ignore
             /\ call'[d].began = call[d].began /\ call'[d].version = call[d].version
             /\ call'[d].floor = call[d].floor
    BY DEF SetFails, Call
  <1>2. /\ sets' \in [Callers -> Write \cup {None}]
        /\ \A d \in Callers : sets'[d] \in {None, sets[d]}
    BY DEF SetFails
  <1>3. /\ cache' \in [Keys -> Entry \cup {None}]
        /\ \A k \in Keys : cache'[k] \in {None, cache[k]}
    BY DEF SetFails
  <1>4. source' = source /\ clean' = clean
    BY DEF SetFails
  <1>5. YoungerThanLife' /\ ClearedStaysCleared'
    BY <1>3, <1>4 DEF YoungerThanLife, ClearedStaysCleared
  <1>6. NothingOldUnderWay' /\ Bounded'
    BY <1>1, <1>2, <1>3, <1>4 DEF NothingOldUnderWay, Bounded
  <1>7. IgnoringResolves' /\ IgnoreCacheIsCurrent'
    BY <1>1, <1>4 DEF IgnoringResolves, IgnoreCacheIsCurrent
  <1> QED BY <1>1, <1>2, <1>3, <1>4, <1>5, <1>6, <1>7

LEMMA ClearKeeps ==
  ASSUME CacheInv, ClearRedisCache
  PROVE  CacheInv'
  <1> USE DEF CacheInv, CacheTypeOK
  <1>1. /\ cache' \in [Keys -> Entry \cup {None}]
        /\ clean' \in [Keys -> Version]
        /\ \A k \in Keys :
             /\ cache'[k] \in {None, cache[k]}
             /\ \/ clean'[k] = clean[k]
                \/ clean'[k] = source[k] /\ ~InFlight(k) /\ cache'[k] = None
    BY DEF ClearRedisCache, Cleared
  <1>2. UNCHANGED <<source, call, sets>>
    BY DEF ClearRedisCache
  <1>3. YoungerThanLife' /\ ClearedStaysCleared'
    BY <1>1 DEF YoungerThanLife, ClearedStaysCleared
  <1>4. NothingOldUnderWay' /\ Bounded'
    BY <1>1, <1>2, CacheAssumption
       DEF NothingOldUnderWay, Bounded, InFlight, Call, Write, Version
  <1>5. IgnoringResolves' /\ IgnoreCacheIsCurrent'
    BY <1>2 DEF IgnoringResolves, IgnoreCacheIsCurrent
  <1> QED BY <1>1, <1>2, <1>3, <1>4, <1>5

LEMMA ChangeKeeps ==
  ASSUME CacheInv, Change
  PROVE  CacheInv'
  <1> USE CacheAssumption DEF CacheInv, CacheTypeOK, Change
  <1>1. /\ source' \in [Keys -> Version]
        /\ \A k \in Keys : source'[k] >= source[k]
    BY DEF Version
  <1>2. NothingOldUnderWay' /\ IgnoringResolves' /\ Bounded'
    BY <1>1 DEF NothingOldUnderWay, IgnoringResolves, Bounded, Version, Call, Entry, Write
  <1>3. YoungerThanLife' /\ ClearedStaysCleared' /\ IgnoreCacheIsCurrent'
    BY DEF YoungerThanLife, ClearedStaysCleared, IgnoreCacheIsCurrent
  <1> QED BY <1>1, <1>2, <1>3

LEMMA TickKeeps ==
  ASSUME CacheInv, Tick
  PROVE  CacheInv'
  <1> USE DEF CacheInv, CacheTypeOK
  <1>1. \A k \in Keys : cache'[k] # None =>
          /\ cache[k] # None
          /\ ~(cache[k].age + 1 >= Life(cache[k].stated))
          /\ cache'[k] = [cache[k] EXCEPT !.age = @ + 1]
    BY DEF Tick
  <1>2. ASSUME NEW k \in Keys, cache'[k] # None
        PROVE  /\ cache'[k] \in Entry
               /\ cache'[k].version = cache[k].version
               /\ cache'[k].age < Life(cache'[k].stated)
    <2> DEFINE e == cache[k]
               f == cache'[k]
               L == Life(e.stated)
    <2>1. e \in Entry /\ ~(e.age + 1 >= L) /\ f = [e EXCEPT !.age = @ + 1]
      BY <1>1, <1>2
    <2>2. L \in Int
      BY <2>1, LifeType DEF Entry
    <2> HIDE DEF e, L
    <2>3. /\ f \in Entry
          /\ f.version = e.version /\ f.stated = e.stated /\ f.age = e.age + 1
      <3> HIDE DEF f, CacheInv, CacheTypeOK
      <3> QED BY <2>1 DEF Entry
    <2>4. e.age \in Nat
      BY <2>1 DEF Entry
    <2>5. f.age < L
      <3> HIDE DEF f, CacheInv, CacheTypeOK
      <3> QED BY <2>1, <2>2, <2>3, <2>4
    <2> QED BY <2>3, <2>5 DEF e, L
  <1>3. CacheTypeOK'
    BY <1>2 DEF Tick
  <1>4. YoungerThanLife' /\ ClearedStaysCleared'
    BY <1>1, <1>2 DEF YoungerThanLife, ClearedStaysCleared, Tick
  <1>5. NothingOldUnderWay' /\ IgnoringResolves' /\ IgnoreCacheIsCurrent' /\ Bounded'
    BY <1>1, <1>2 DEF Tick, NothingOldUnderWay, IgnoringResolves, IgnoreCacheIsCurrent,
       Bounded
  <1> QED BY <1>3, <1>4, <1>5

LEMMA CacheNext == CacheInv /\ [Next]_cacheVars => CacheInv'
  <1> SUFFICES ASSUME CacheInv, [Next]_cacheVars PROVE CacheInv'
    OBVIOUS
  <1>1. CASE UNCHANGED cacheVars
    BY <1>1 DEF cacheVars, CacheInv, CacheTypeOK, YoungerThanLife, NothingOldUnderWay,
       ClearedStaysCleared, IgnoringResolves, IgnoreCacheIsCurrent, Bounded
  <1>2. CASE Next
    BY <1>2, CallKeeps, SetLandsKeeps, SetFailsKeeps, ClearKeeps, ChangeKeeps, TickKeeps
       DEF Next, Step
  <1> QED BY <1>1, <1>2

LEMMA CacheInvariant == Spec => []CacheInv
  BY CacheInit, CacheNext, PTL DEF Spec

\* The values of the variables are always those the code can have there.
THEOREM CacheTypeCorrect == Spec => []CacheTypeOK
  BY CacheInvariant, PTL DEF CacheInv

\* However calls and clears interleave, and whatever writes are lost, no value
\* comes back that was cleared while nothing was on its way to the cache.
THEOREM ClearsLast == Spec => []ClearedStaysCleared
  BY CacheInvariant, PTL DEF CacheInv

\* With ignoreCache, data older than the call are never the answer.
THEOREM IgnoringIsCurrent == Spec => []IgnoreCacheIsCurrent
  BY CacheInvariant, PTL DEF CacheInv

\* A ttl of a second or more is never exceeded, nor is the default by others.
THEOREM TtlIsKept == Spec => []KeptWithinTtl
  <1>1. CacheInv => KeptWithinTtl
    <2> SUFFICES ASSUME CacheInv, NEW k \in Keys, cache[k] # None
                 PROVE  IF cache[k].stated # Undefined /\ cache[k].stated \notin {0, 1}
                        THEN cache[k].age < cache[k].stated
                        ELSE cache[k].age < Default
      BY DEF KeptWithinTtl
    <2> DEFINE t == cache[k].stated
    <2>1. t \in Ttl /\ cache[k].age \in Nat /\ cache[k].age < Life(t)
      BY DEF CacheInv, CacheTypeOK, YoungerThanLife, Entry
    <2>2. CASE t = Undefined
      BY <2>1, <2>2 DEF Life
    <2>3. CASE t # Undefined
      <3>1. t \in Int
        BY <2>1, <2>3, TtlAssumption DEF Ttl
      <3>2. t \in {0, 1} => Floored(t) = 0
        BY DEF Floored
      <3> QED BY <2>1, <2>3, <3>1, <3>2, FlooredIsLess DEF Life
    <2> QED BY <2>2, <2>3
  <1> QED BY <1>1, CacheInvariant, PTL

----------------------------------------------------------------------------
(* The cache implements the contract: what a caller sees changes by a step  *)
(* of the contract, or not at all.                                          *)

AllSeen == [c \in Callers |-> Seen(c)]

\* A step that leaves the data, the clears and what is seen of the calls as
\* they are, but for one call.
LEMMA SeenElsewhere ==
  ASSUME CacheInv, NEW c \in Callers, NEW r, call' = [call EXCEPT ![c] = r]
  PROVE  AllSeen' = [AllSeen EXCEPT ![c] = Seen(c)']
  BY DEF AllSeen, Seen, CacheInv, CacheTypeOK

LEMMA InitContract == Init => Contract!ContractInit
  BY DEF Init, Contract!ContractInit, Seen

LEMMA BeginIsAsk ==
  ASSUME CacheInv, NEW c \in Callers, Begin(c)
  PROVE  \E k \in Keys : Contract!Ask(c, k)
  <1>1. PICK k \in Keys, i \in BOOLEAN :
          call' = [call EXCEPT ![c] =
            [pc |-> FirstStep(i), key |-> k, ignore |-> i,
             began |-> source[k], floor |-> clean[k], version |-> 0]]
    BY DEF Begin
  <1>2. /\ call[c].pc \in {"idle", "returned", "failed"}
        /\ UNCHANGED <<source, clean>>
    BY DEF Begin
  <1>3. call'[c] = [pc |-> FirstStep(i), key |-> k, ignore |-> i,
                    began |-> source[k], floor |-> clean[k], version |-> 0]
    BY <1>1 DEF CacheInv, CacheTypeOK
  <1>4. Seen(c)' = [state |-> "open", key |-> k,
                    floor |-> IF i THEN source[k] ELSE clean[k], answer |-> 0]
    BY <1>3 DEF Seen, FirstStep
  <1>5. AllSeen' = [AllSeen EXCEPT ![c] = Seen(c)']
    BY <1>1, SeenElsewhere
  <1>6. AllSeen[c].state # "open"
    BY <1>2 DEF AllSeen, Seen
  <1> QED BY <1>2, <1>4, <1>5, <1>6 DEF AllSeen, Contract!Ask, Contract!Open

\* A hit or the end of a resolver's call answers with a version in its bounds.
LEMMA ReturnIsAnswer ==
  ASSUME CacheInv, NEW c \in Callers, Hit(c) \/ Store(c)
  PROVE  Contract!Answer(c)
  <1> DEFINE k == call[c].key
  <1> USE DEF CacheInv, CacheTypeOK
  <1>1. PICK v \in Version :
          /\ call' = [call EXCEPT ![c].pc = "returned", ![c].version = v]
          /\ call[c].pc \in {"lookup", "resolved"}
          /\ clean[k] <= v /\ v <= source[k]
          /\ call[c].ignore => call[c].began <= v
    <2>1. CASE Hit(c)
      BY <2>1 DEF Hit, Call, Entry, ClearedStaysCleared, Bounded, IgnoringResolves
    <2>2. CASE Store(c)
      <3>1. call[c].pc = "resolved" /\ call' = [call EXCEPT ![c].pc = "returned"]
        BY <2>2 DEF Store
      <3>2. call' = [call EXCEPT ![c].pc = "returned", ![c].version = call[c].version]
        BY <3>1 DEF Call
      <3> QED BY <3>1, <3>2 DEF Call, NothingOldUnderWay, Bounded, IgnoringResolves
    <2> QED BY <2>1, <2>2
  <1>2. UNCHANGED <<source, clean>>
    BY DEF Hit, Store
  <1>3. Seen(c).state = "open" /\ Seen(c).key = k /\ Seen(c).floor <= v
        /\ Seen(c).floor \in Int
    BY <1>1 DEF Seen, Call, Version, Bounded
  <1>4. Seen(c)' = [state |-> "answered", key |-> Seen(c).key,
                    floor |-> Seen(c).floor, answer |-> v]
    <2>1. /\ call'[c].pc = "returned" /\ call'[c].version = v /\ call'[c].key = k
          /\ call'[c].ignore = call[c].ignore /\ call'[c].began = call[c].began
          /\ call'[c].floor = call[c].floor
      BY <1>1 DEF Call
    <2> HIDE DEF CacheInv, CacheTypeOK
    <2> QED BY <2>1 DEF Seen
  <1>5. AllSeen' = [AllSeen EXCEPT ![c] = Seen(c)']
    <2> DEFINE r == [call[c] EXCEPT !.pc = "returned", !.version = v]
    <2>1. call' = [call EXCEPT ![c] = r]
      BY <1>1
    <2> HIDE DEF r
    <2> QED BY <2>1, SeenElsewhere
  <1>6. v \in Seen(c).floor..source[k]
    BY <1>1, <1>3 DEF Version
  <1>7. AllSeen[c] = Seen(c)
    BY DEF AllSeen
  <1>8. AllSeen' = [AllSeen EXCEPT ![c] =
          [state |-> "answered", key |-> @.key, floor |-> @.floor, answer |-> v]]
    BY <1>4, <1>5, <1>7
  <1> QED BY <1>2, <1>3, <1>6, <1>7, <1>8 DEF AllSeen, Contract!Answer, Contract!Open

\* A lookup that finds nothing, and the resolver's reading, are not seen.
LEMMA WaitIsUnseen ==
  ASSUME CacheInv, NEW c \in Callers, Miss(c) \/ Resolve(c)
  PROVE  UNCHANGED <<source, clean>> /\ AllSeen' = AllSeen
  <1>1. /\ UNCHANGED <<source, clean>> /\ call[c].pc \in {"lookup", "resolve"}
        /\ \E pc \in {"resolve", "resolved"}, v \in Version :
             call' = [call EXCEPT ![c] = [@ EXCEPT !.pc = pc, !.version = v]]
    <2>1. CASE Miss(c)
      <3>1. call' = [call EXCEPT ![c] = [@ EXCEPT !.pc = "resolve", !.version = call[c].version]]
        BY <2>1 DEF Miss, CacheInv, CacheTypeOK, Call
      <3> QED BY <2>1, <3>1 DEF Miss, CacheInv, CacheTypeOK, Call
    <2>2. CASE Resolve(c)
      BY <2>2 DEF Resolve, CacheInv, CacheTypeOK, Call
    <2> QED BY <2>1, <2>2
  <1>2. \A d \in Callers : Seen(d)' = Seen(d)
    BY <1>1 DEF Seen, CacheInv, CacheTypeOK, Call
  <1> QED BY <1>1, <1>2 DEF AllSeen

\* A call that fails, and the end of a process with calls that were waiting.
LEMMA FailuresBreak ==
  ASSUME CacheInv, NEW c \in Callers, Fail(c) \/ SetFails(c)
  PROVE  \E D \in SUBSET Callers : Contract!Break(D)
  <1>1. PICK D \in SUBSET Callers :
          /\ \A d \in D : call[d].pc \in {"lookup", "resolve", "resolved"}
          /\ \A d \in Callers : call'[d] = IF d \in D THEN [call[d] EXCEPT !.pc = "failed"]
                                           ELSE call[d]
          /\ UNCHANGED <<source, clean>>
    <2>1. CASE Fail(c)
      <3>1. /\ \A d \in {c} : call[d].pc \in {"lookup", "resolve", "resolved"}
            /\ \A d \in Callers : call'[d] = IF d \in {c} THEN [call[d] EXCEPT !.pc = "failed"]
                                             ELSE call[d]
            /\ UNCHANGED <<source, clean>>
        BY <2>1 DEF Fail, CacheInv, CacheTypeOK
      <3> QED BY <3>1
    <2>2. CASE SetFails(c)
      <3>1. PICK dead \in SUBSET Callers :
              call' = [d \in Callers |->
                IF d \in dead /\ call[d].pc \in {"lookup", "resolve", "resolved"}
                THEN [call[d] EXCEPT !.pc = "failed"] ELSE call[d]]
        BY <2>2 DEF SetFails
      <3> DEFINE D == {d \in dead : call[d].pc \in {"lookup", "resolve", "resolved"}}
      <3>2. D \in SUBSET Callers /\ UNCHANGED <<source, clean>>
        BY <2>2 DEF SetFails
      <3> QED BY <3>1, <3>2
    <2> QED BY <2>1, <2>2
  <1>2. \A d \in D : Seen(d).state = "open"
    BY <1>1 DEF Seen
  <1>3. ASSUME NEW d \in D
        PROVE  Seen(d)' = [Seen(d) EXCEPT !.state = "failed"]
    <2>1. /\ call'[d].pc = "failed" /\ call'[d].key = call[d].key
          /\ call'[d].ignore = call[d].ignore /\ call'[d].began = call[d].began
          /\ call'[d].floor = call[d].floor /\ call[d].pc # "returned"
      BY <1>1 DEF CacheInv, CacheTypeOK, Call
    <2> QED BY <2>1 DEF Seen
  <1>4. \A d \in Callers \ D : Seen(d)' = Seen(d)
    BY <1>1 DEF Seen
  <1> QED BY <1>1, <1>2, <1>3, <1>4 DEF Contract!Break, Contract!Open

\* What a clear has its effect on is what it cleared undisturbed.
LEMMA ClearIsClear ==
  ASSUME ClearRedisCache
  PROVE  \E K \in SUBSET Keys : Contract!Clear(K)
  <1>1. PICK key \in Keys \cup {CacheAll} :
          clean' = [k \in Keys |->
            IF (key = k \/ key = CacheAll) /\ ~InFlight(k) THEN source[k] ELSE clean[k]]
    BY DEF ClearRedisCache
  <1>2. UNCHANGED <<source, call>>
    BY DEF ClearRedisCache
  <1> DEFINE K == {k \in Keys : (key = k \/ key = CacheAll) /\ ~InFlight(k)}
  <1>3. clean' = [k \in Keys |-> IF k \in K THEN source[k] ELSE clean[k]]
    BY <1>1
  <1>4. K \in SUBSET Keys
    OBVIOUS
  <1> HIDE DEF K
  <1> QED BY <1>2, <1>3, <1>4 DEF Contract!Clear, Seen

LEMMA StepContract ==
  ASSUME CacheInv, [Next]_cacheVars
  PROVE  [Contract!ContractNext]_(Contract!contractVars)
  <1> USE DEF Contract!ContractNext
  <1>1. CASE UNCHANGED cacheVars
    BY <1>1 DEF cacheVars, Contract!contractVars, Seen
  <1>2. ASSUME NEW c \in Callers, Begin(c) PROVE Contract!ContractNext
    BY <1>2, BeginIsAsk
  <1>3. ASSUME NEW c \in Callers, Hit(c) \/ Store(c) PROVE Contract!ContractNext
    BY <1>3, ReturnIsAnswer
  <1>4. ASSUME NEW c \in Callers, Miss(c) \/ Resolve(c)
        PROVE  UNCHANGED Contract!contractVars
    BY <1>4, WaitIsUnseen DEF Contract!contractVars, AllSeen
  <1>5. ASSUME NEW c \in Callers, Fail(c) \/ SetFails(c) PROVE Contract!ContractNext
    BY <1>5, FailuresBreak
  <1>6. ASSUME NEW c \in Callers, SetLands(c) PROVE UNCHANGED Contract!contractVars
    BY <1>6 DEF SetLands, Contract!contractVars, Seen
  <1>7. CASE ClearRedisCache
    BY <1>7, ClearIsClear
  <1>8. CASE Change
    BY <1>8 DEF Change, Contract!Change, Seen
  <1>9. CASE Tick
    BY <1>9 DEF Tick, Contract!contractVars, Seen
  <1> QED BY <1>1, <1>2, <1>3, <1>4, <1>5, <1>6, <1>7, <1>8, <1>9 DEF Next, Step

\* Every behaviour of the cache is one of the contract: what is answered was
\* current since the last clear that preceded the call, or since the call.
THEOREM CacheImplementsContract == Spec => ImplementsContract
  <1>1. Init => Contract!ContractInit
    BY InitContract
  <1>2. CacheInv /\ [Next]_cacheVars => [Contract!ContractNext]_(Contract!contractVars)
    BY StepContract
  <1> QED
    BY <1>1, <1>2, CacheInvariant, PTL
    DEF Spec, ImplementsContract, Contract!ContractSpec
=============================================================================

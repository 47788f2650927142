------------------------- MODULE ReadUrlCacheProofs -------------------------
(***************************************************************************)
(* Proofs about ReadUrlCache, for any keys, processes, calls in progress   *)
(* and times to live.                                                      *)
(***************************************************************************)
EXTENDS ReadUrlCache, SequenceTheorems, TLAPS

(***************************************************************************)
(* The inductive invariant: an entry that has `ttl' left of its CacheTtl   *)
(* holds a URL that is no older than the time the entry has spent, and in  *)
(* Redis the time its SET has waited as well.                              *)
(***************************************************************************)

FreshLocal(e) == e.ttl > 0 => e.left + CacheTtl >= UrlTtl + e.ttl
FreshRedis(e) == e.ttl > 0 => e.left + CacheTtl + e.waited >= UrlTtl + e.ttl
FreshSet(m) == m.left + m.waited >= UrlTtl

\* A Map holds a key once.
OneEntryPerKey(cache) == \A i, j \in DOMAIN cache : cache[i].key = cache[j].key => i = j

MapOK(cache) ==
    /\ cache \in Seq(LocalEntry)
    /\ OneEntryPerKey(cache)
    /\ \A i \in DOMAIN cache : FreshLocal(cache[i])

MapsOK == \A p \in Processes : MapOK(local[p]) /\ Len(local[p]) <= MaxEntries

CallOK(q) ==
    /\ q.pc # "idle" => q.key \in Keys
    /\ q.pc = "answered" => q.left + CacheTtl + q.waited >= UrlTtl

CacheInv ==
    /\ CacheTypeOK /\ MapsOK
    /\ \A k \in Keys : FreshRedis(redis[k])
    /\ \A m \in sets : FreshSet(m)
    /\ \A c \in Calls : CallOK(calls[c])

-----------------------------------------------------------------------------
(* The operations of the Map.                                              *)

\* What a Map is, index by index.
LEMMA MapEntries ==
  ASSUME NEW cache, MapOK(cache)
  PROVE  /\ Len(cache) \in Nat /\ DOMAIN cache = 1..Len(cache)
         /\ \A i \in 1..Len(cache) : cache[i] \in LocalEntry /\ FreshLocal(cache[i])
  BY LenProperties, ElementOfSeq DEF MapOK

\* A function on 1..n into the entries is a sequence of length n.
LEMMA EntriesMap ==
  ASSUME NEW n \in Nat, NEW f \in [1..n -> LocalEntry]
  PROVE  f \in Seq(LocalEntry) /\ Len(f) = n
  OBVIOUS

\* The Map gives up at most its oldest entry, and has room for one more then.
LEMMA EvictOldestMap ==
  ASSUME NEW cache, MapOK(cache), Len(cache) <= MaxEntries
  PROVE  MapOK(EvictOldest(cache)) /\ Len(EvictOldest(cache)) < MaxEntries
<1>1. MaxEntries \in Nat \ {0} /\ Len(cache) \in Nat
  BY CacheAssumption, MapEntries
<1>2. CASE Len(cache) >= MaxEntries
  <2>1. cache \in Seq(LocalEntry) /\ cache # <<>>
    BY <1>1, <1>2, EmptySeq DEF MapOK
  <2>2. /\ Tail(cache) \in Seq(LocalEntry) /\ Len(Tail(cache)) = Len(cache) - 1
        /\ \A i \in 1..Len(Tail(cache)) : Tail(cache)[i] = cache[i + 1]
    BY <2>1, HeadTailProperties
  <2>3. DOMAIN Tail(cache) = 1..(Len(cache) - 1)
    BY <2>2, LenProperties
  <2>4. OneEntryPerKey(Tail(cache))
    <3> SUFFICES ASSUME NEW i \in 1..(Len(cache) - 1), NEW j \in 1..(Len(cache) - 1),
                        Tail(cache)[i].key = Tail(cache)[j].key
                 PROVE  i = j
        BY <2>3 DEF OneEntryPerKey
    <3>1. cache[i + 1].key = cache[j + 1].key
      BY <2>2
    <3>2. i + 1 \in DOMAIN cache /\ j + 1 \in DOMAIN cache
      BY <1>1, MapEntries
    <3>3. i + 1 = j + 1
      BY <3>1, <3>2 DEF MapOK, OneEntryPerKey
    <3>4. QED BY <3>3
  <2>5. \A i \in DOMAIN Tail(cache) : FreshLocal(Tail(cache)[i])
    BY <1>1, <2>2, <2>3, MapEntries
  <2>6. EvictOldest(cache) = Tail(cache)
    BY <1>2 DEF EvictOldest
  <2>7. QED BY <1>1, <2>2, <2>4, <2>5, <2>6 DEF MapOK
<1>3. CASE ~(Len(cache) >= MaxEntries)
  BY <1>1, <1>3 DEF EvictOldest
<1>4. QED BY <1>2, <1>3

\* Setting a key puts at most one entry more, and no key twice.
LEMMA PutMap ==
  ASSUME NEW cache, MapOK(cache), NEW entry \in LocalEntry, FreshLocal(entry)
  PROVE  MapOK(Put(cache, entry)) /\ Len(Put(cache, entry)) <= Len(cache) + 1
<1>1. /\ Len(cache) \in Nat /\ DOMAIN cache = 1..Len(cache)
      /\ \A i \in 1..Len(cache) : cache[i] \in LocalEntry /\ FreshLocal(cache[i])
  BY MapEntries
<1>2. CASE \E i \in DOMAIN cache : cache[i].key = entry.key
  <2> DEFINE f == [i \in DOMAIN cache |-> IF cache[i].key = entry.key THEN entry ELSE cache[i]]
  <2>1. Put(cache, entry) = f
    BY <1>2 DEF Put
  <2>2. f \in [1..Len(cache) -> LocalEntry]
    BY <1>1
  <2>3. \A i \in 1..Len(cache) : f[i].key = cache[i].key /\ FreshLocal(f[i])
    BY <1>1
  <2>4. DOMAIN f = 1..Len(cache)
    BY <1>1
  <2> HIDE DEF f
  <2>5. f \in Seq(LocalEntry) /\ Len(f) = Len(cache)
    BY <1>1, <2>2, EntriesMap
  <2>6. OneEntryPerKey(f)
    BY <1>1, <2>3, <2>4 DEF MapOK, OneEntryPerKey
  <2>7. QED BY <1>1, <2>1, <2>3, <2>4, <2>5, <2>6 DEF MapOK
<1>3. CASE ~\E i \in DOMAIN cache : cache[i].key = entry.key
  <2> DEFINE f == Append(cache, entry)
  <2>1. Put(cache, entry) = f
    BY <1>3 DEF Put
  <2>2. cache \in Seq(LocalEntry)
    BY DEF MapOK
  <2>3. /\ f \in Seq(LocalEntry) /\ Len(f) = Len(cache) + 1
        /\ \A i \in 1..Len(cache) : f[i] = cache[i]
        /\ f[Len(cache) + 1] = entry
    BY <2>2, AppendProperties
  <2>4. DOMAIN f = 1..(Len(cache) + 1)
    BY <2>3, LenProperties
  <2> HIDE DEF f
  <2>5. \A i \in 1..(Len(cache) + 1) : i \in 1..Len(cache) \/ i = Len(cache) + 1
    BY <1>1
  <2>6. OneEntryPerKey(f)
    <3> SUFFICES ASSUME NEW i \in 1..(Len(cache) + 1), NEW j \in 1..(Len(cache) + 1),
                        f[i].key = f[j].key
                 PROVE  i = j
        BY <2>4 DEF OneEntryPerKey
    <3>1. CASE i \in 1..Len(cache) /\ j \in 1..Len(cache)
      BY <1>1, <2>3, <3>1 DEF MapOK, OneEntryPerKey
    <3>2. CASE i \in 1..Len(cache) /\ j = Len(cache) + 1
      BY <1>1, <1>3, <2>3, <3>2
    <3>3. CASE j \in 1..Len(cache) /\ i = Len(cache) + 1
      BY <1>1, <1>3, <2>3, <3>3
    <3>4. QED BY <2>5, <3>1, <3>2, <3>3
  <2>7. \A i \in DOMAIN f : FreshLocal(f[i])
    BY <1>1, <2>3, <2>4, <2>5
  <2>8. QED BY <1>1, <2>1, <2>3, <2>6, <2>7 DEF MapOK
<1>4. QED BY <1>2, <1>3

\* Time ages the entries of a Map where they are.
LEMMA AgesMap ==
  ASSUME NEW cache, MapOK(cache)
  PROVE  /\ MapOK([i \in DOMAIN cache |-> LocalAges(cache[i])])
         /\ Len([i \in DOMAIN cache |-> LocalAges(cache[i])]) = Len(cache)
<1> DEFINE f == [i \in DOMAIN cache |-> LocalAges(cache[i])]
<1>1. /\ Len(cache) \in Nat /\ DOMAIN cache = 1..Len(cache)
      /\ \A i \in 1..Len(cache) : cache[i] \in LocalEntry /\ FreshLocal(cache[i])
  BY MapEntries
<1>2. ASSUME NEW e \in LocalEntry, FreshLocal(e)
      PROVE  LocalAges(e) \in LocalEntry /\ LocalAges(e).key = e.key /\ FreshLocal(LocalAges(e))
  <2>1. e.key \in Keys /\ e.left \in 0..UrlTtl /\ e.ttl \in 0..CacheTtl
    BY DEF LocalEntry
  <2>2. ASSUME NEW a \in 0..UrlTtl, NEW b \in 0..CacheTtl
        PROVE  /\ [e EXCEPT !.left = a, !.ttl = b] \in LocalEntry
               /\ [e EXCEPT !.left = a, !.ttl = b].key = e.key
               /\ [e EXCEPT !.left = a, !.ttl = b].left = a
               /\ [e EXCEPT !.left = a, !.ttl = b].ttl = b
    BY DEF LocalEntry
  <2>3. /\ Less(e.left) \in 0..UrlTtl /\ Less(e.ttl) \in 0..CacheTtl
        /\ Less(e.ttl) > 0 => Less(e.left) + CacheTtl >= UrlTtl + Less(e.ttl)
    BY <1>2, <2>1, CacheAssumption DEF Less, FreshLocal
  <2>4. /\ LocalAges(e) \in LocalEntry /\ LocalAges(e).key = e.key
        /\ LocalAges(e).left = Less(e.left) /\ LocalAges(e).ttl = Less(e.ttl)
    BY <2>2, <2>3 DEF LocalAges
  <2>5. QED BY <2>3, <2>4 DEF FreshLocal
<1>3. f \in [1..Len(cache) -> LocalEntry] /\ DOMAIN f = 1..Len(cache)
  BY <1>1, <1>2
<1>4. \A i \in 1..Len(cache) : f[i].key = cache[i].key /\ FreshLocal(f[i])
  BY <1>1, <1>2
<1> HIDE DEF f
<1>5. f \in Seq(LocalEntry) /\ Len(f) = Len(cache)
  BY <1>1, <1>3, EntriesMap
<1>6. OneEntryPerKey(f)
  BY <1>1, <1>3, <1>4 DEF MapOK, OneEntryPerKey
<1>7. MapOK(f) /\ Len(f) = Len(cache)
  BY <1>3, <1>4, <1>5, <1>6 DEF MapOK
<1>8. QED BY <1>7 DEF f

-----------------------------------------------------------------------------
(* The steps of a call.                                                    *)

\* What the invariant says of one call.
LEMMA CallType ==
  ASSUME CacheInv, NEW c \in Calls
  PROVE  calls[c] \in Call /\ CallOK(calls[c])
  BY DEF CacheInv, CacheTypeOK

\* One call moves to a well-formed state: all calls are well formed.
LEMMA CallMoves ==
  ASSUME CacheInv, NEW c \in Calls, NEW q \in Call, CallOK(q), calls' = [calls EXCEPT ![c] = q]
  PROVE  calls' \in [Calls -> Call] /\ \A d \in Calls : CallOK(calls'[d])
  BY CallType DEF CacheInv, CacheTypeOK

\* When only the calls move, the caches stay as they are.
LEMMA CachesStay ==
  ASSUME CacheInv, UNCHANGED <<redis, local, sets>>,
         calls' \in [Calls -> Call], \A c \in Calls : CallOK(calls'[c])
  PROVE  CacheInv'
  BY DEF CacheInv, CacheTypeOK, MapsOK

\* A call may be answered with a URL that is valid for long enough.
LEMMA AnswerMoves ==
  ASSUME CacheInv, NEW c \in Calls, calls[c].pc \in {"get", "sign"},
         NEW left \in 0..UrlTtl, NEW waited \in 0..UrlTtl, left + CacheTtl + waited >= UrlTtl,
         AnswerUrl(c, left, waited)
  PROVE  calls' \in [Calls -> Call] /\ \A d \in Calls : CallOK(calls'[d])
<1> DEFINE q == [[[calls[c] EXCEPT !.pc = "answered"] EXCEPT !.left = left] EXCEPT !.waited = waited]
<1>1. calls[c] \in Call /\ calls[c].key \in Keys
  BY CallType DEF CallOK
<1>2. q \in Call /\ q.pc = "answered" /\ q.key = calls[c].key /\ q.left = left /\ q.waited = waited
  BY <1>1 DEF Call
<1>3. calls' = [calls EXCEPT ![c] = q]
  BY <1>1 DEF AnswerUrl, CacheInv, CacheTypeOK, Call
<1> HIDE DEF q
<1>4. CallOK(q)
  BY <1>1, <1>2 DEF CallOK
<1>5. QED BY <1>2, <1>3, <1>4, CallMoves

\* A call of a client begins.
LEMMA StartReadStep ==
  ASSUME CacheInv, NEW c \in Calls, NEW k \in Keys, StartRead(c, k)
  PROVE  CacheInv'
<1> DEFINE q == [NoCall EXCEPT !.pc = "get", !.key = k]
<1>1. q \in Call /\ CallOK(q)
  <2>1. NoCall \in Call
    BY CacheAssumption DEF NoCall, Call
  <2>2. q \in Call /\ q.pc = "get" /\ q.key = k
    BY <2>1 DEF Call
  <2>3. QED BY <2>2 DEF CallOK
<1>2. calls' = [calls EXCEPT ![c] = q]
  BY DEF StartRead
<1>3. calls' \in [Calls -> Call] /\ \A d \in Calls : CallOK(calls'[d])
  BY <1>1, <1>2, CallMoves
<1>4. QED BY <1>3, CachesStay DEF StartRead

\* What Redis still has is valid for long enough.
LEMMA RedisHitStep ==
  ASSUME CacheInv, NEW c \in Calls, RedisHit(c)
  PROVE  CacheInv'
<1> DEFINE e == redis[calls[c].key]
<1>1. calls[c].key \in Keys /\ calls[c].pc = "get"
  BY CallType DEF RedisHit, CallOK
<1>2. e \in Entry /\ FreshRedis(e) /\ e.ttl > 0 /\ AnswerUrl(c, e.left, e.waited)
  BY <1>1 DEF RedisHit, CacheInv, CacheTypeOK
<1> HIDE DEF e
<1>3. e.left \in 0..UrlTtl /\ e.waited \in 0..UrlTtl /\ e.left + CacheTtl + e.waited >= UrlTtl
  BY <1>2, CacheAssumption DEF Entry, FreshRedis
<1>4. calls' \in [Calls -> Call] /\ \A d \in Calls : CallOK(calls'[d])
  BY <1>1, <1>2, <1>3, AnswerMoves
<1>5. QED BY <1>4, CachesStay DEF RedisHit

\* So is what the Map of the process still uses.
LEMMA LocalHitStep ==
  ASSUME CacheInv, NEW c \in Calls, LocalHit(c)
  PROVE  CacheInv'
<1> DEFINE cache == local[ProcessOf[c]]
<1>1. ProcessOf[c] \in Processes
  BY CacheAssumption
<1>2. MapOK(cache)
  BY <1>1 DEF CacheInv, MapsOK
<1>3. PICK i \in DOMAIN cache : cache[i].ttl > 0 /\ AnswerUrl(c, cache[i].left, 0)
  BY DEF LocalHit, LocalHits
<1>4. cache[i] \in LocalEntry /\ FreshLocal(cache[i])
  BY <1>2, <1>3, MapEntries
<1> HIDE DEF cache
<1>5. cache[i].left \in 0..UrlTtl /\ cache[i].left + CacheTtl + 0 >= UrlTtl /\ 0 \in 0..UrlTtl
  BY <1>3, <1>4, CacheAssumption DEF LocalEntry, FreshLocal
<1>6. calls[c].pc = "get"
  BY DEF LocalHit
<1>7. calls' \in [Calls -> Call] /\ \A d \in Calls : CallOK(calls'[d])
  BY <1>3, <1>5, <1>6, AnswerMoves
<1>8. QED BY <1>7, CachesStay DEF LocalHit

\* A miss goes on to sign.
LEMMA MissStep ==
  ASSUME CacheInv, NEW c \in Calls, Miss(c)
  PROVE  CacheInv'
<1> DEFINE q == [calls[c] EXCEPT !.pc = "sign"]
<1>1. q \in Call /\ CallOK(q)
  BY CallType DEF Miss, Call, CallOK
<1>2. calls' = [calls EXCEPT ![c] = q]
  BY CallType DEF Miss, CacheInv, CacheTypeOK
<1>3. calls' \in [Calls -> Call] /\ \A d \in Calls : CallOK(calls'[d])
  BY <1>1, <1>2, CallMoves
<1>4. QED BY <1>3, CachesStay DEF Miss

\* A call that has its answer is over.
LEMMA FinishStep ==
  ASSUME CacheInv, NEW c \in Calls, Finish(c)
  PROVE  CacheInv'
<1>1. NoCall \in Call /\ CallOK(NoCall)
  BY CacheAssumption DEF NoCall, Call, CallOK
<1>2. calls' \in [Calls -> Call] /\ \A d \in Calls : CallOK(calls'[d])
  BY <1>1, CallMoves DEF Finish
<1>3. QED BY <1>2, CachesStay DEF Finish

\* A signed URL is new; the Map makes room for it first.
LEMMA SignAndCacheStep ==
  ASSUME CacheInv, NEW c \in Calls, SignAndCache(c)
  PROVE  CacheInv'
<1> DEFINE p == ProcessOf[c]
           entry == [key |-> calls[c].key, left |-> UrlTtl, ttl |-> CacheTtl]
           m == [key |-> calls[c].key, left |-> UrlTtl, waited |-> 0]
<1>1. p \in Processes /\ calls[c].key \in Keys /\ calls[c].pc = "sign"
  BY CacheAssumption, CallType DEF SignAndCache, CallOK
<1>2. entry \in LocalEntry /\ FreshLocal(entry)
  BY <1>1, CacheAssumption DEF LocalEntry, FreshLocal
<1>3. m \in PendingSet /\ FreshSet(m)
  BY <1>1, CacheAssumption DEF PendingSet, FreshSet
<1>4. /\ local' = [local EXCEPT ![p] = Put(EvictOldest(local[p]), entry)]
      /\ sets' = sets \cup {m} /\ UNCHANGED redis /\ AnswerUrl(c, UrlTtl, 0)
  BY DEF SignAndCache
<1> HIDE DEF p, entry, m
<1>5. /\ MapOK(local[p]) /\ Len(local[p]) <= MaxEntries
      /\ local \in [Processes -> Seq(LocalEntry)]
  BY <1>1 DEF CacheInv, MapsOK, CacheTypeOK
<1>6. MapOK(EvictOldest(local[p])) /\ Len(EvictOldest(local[p])) < MaxEntries
  BY <1>5, EvictOldestMap
<1> DEFINE after == Put(EvictOldest(local[p]), entry)
<1>7. MapOK(after) /\ Len(after) <= Len(EvictOldest(local[p])) + 1
  BY <1>2, <1>6, PutMap
<1>8. Len(EvictOldest(local[p])) \in Nat /\ Len(after) \in Nat
  BY <1>6, <1>7, MapEntries
<1>9. Len(after) <= MaxEntries
  BY <1>6, <1>7, <1>8, CacheAssumption
<1>10. local' = [local EXCEPT ![p] = after]
  BY <1>4
<1> HIDE DEF after
<1>11. MapsOK' /\ local' \in [Processes -> Seq(LocalEntry)]
  BY <1>1, <1>5, <1>7, <1>9, <1>10 DEF CacheInv, MapsOK, MapOK
<1>12. calls' \in [Calls -> Call] /\ \A d \in Calls : CallOK(calls'[d])
  BY <1>1, <1>4, AnswerMoves, CacheAssumption
<1>13. QED BY <1>3, <1>4, <1>11, <1>12 DEF CacheInv, CacheTypeOK

-----------------------------------------------------------------------------
(* The steps of Redis, of a restart and of time.                           *)

\* A SET that arrives, however late, brings a URL that is valid for long enough.
LEMMA RedisSetStep ==
  ASSUME CacheInv, NEW m \in sets, RedisSet(m)
  PROVE  CacheInv'
<1> DEFINE e == [left |-> m.left, ttl |-> CacheTtl, waited |-> m.waited]
<1>1. m \in PendingSet /\ FreshSet(m)
  BY DEF CacheInv, CacheTypeOK
<1>2. e \in Entry /\ m.key \in Keys
  BY <1>1, CacheAssumption DEF PendingSet, Entry
<1>3. FreshRedis(e)
  BY <1>1, CacheAssumption DEF PendingSet, FreshSet, FreshRedis
<1>4. redis' = [redis EXCEPT ![m.key] = e] /\ sets' = sets \ {m} /\ UNCHANGED <<local, calls>>
  BY DEF RedisSet
<1> HIDE DEF e
<1>5. redis' \in [Keys -> Entry] /\ \A k \in Keys : FreshRedis(redis'[k])
  BY <1>2, <1>3, <1>4 DEF CacheInv, CacheTypeOK
<1>6. QED BY <1>4, <1>5 DEF CacheInv, CacheTypeOK, MapsOK

\* Losing a SET, an entry of Redis, or a whole process loses no bound.
LEMMA LossStep ==
  ASSUME CacheInv, \/ \E m \in sets : RedisSetFails(m)
                   \/ \E k \in Keys : RedisEvict(k)
  PROVE  CacheInv'
<1>1. ASSUME NEW m \in sets, RedisSetFails(m) PROVE CacheInv'
  BY <1>1 DEF RedisSetFails, CacheInv, CacheTypeOK, MapsOK
<1>2. ASSUME NEW k \in Keys, RedisEvict(k) PROVE CacheInv'
  <2>1. NoEntry \in Entry /\ FreshRedis(NoEntry)
    BY CacheAssumption DEF NoEntry, Entry, FreshRedis
  <2>2. redis' \in [Keys -> Entry] /\ \A j \in Keys : FreshRedis(redis'[j])
    BY <1>2, <2>1 DEF RedisEvict, CacheInv, CacheTypeOK
  <2>3. QED BY <1>2, <2>2 DEF RedisEvict, CacheInv, CacheTypeOK, MapsOK
<1>3. QED BY <1>1, <1>2

\* A process that starts again has an empty Map and no calls.
LEMMA RestartStep ==
  ASSUME CacheInv, NEW p \in Processes, Restart(p)
  PROVE  CacheInv'
<1>1. MapOK(<<>>) /\ Len(<<>>) <= MaxEntries
  BY EmptySeq, CacheAssumption DEF MapOK, OneEntryPerKey
<1>2. local' = [local EXCEPT ![p] = <<>>] /\ local \in [Processes -> Seq(LocalEntry)]
  BY DEF Restart, CacheInv, CacheTypeOK
<1>3. MapsOK' /\ local' \in [Processes -> Seq(LocalEntry)]
  BY <1>1, <1>2, EmptySeq DEF CacheInv, MapsOK
<1>4. NoCall \in Call /\ CallOK(NoCall)
  BY CacheAssumption DEF NoCall, Call, CallOK
<1>5. calls' \in [Calls -> Call] /\ \A c \in Calls : CallOK(calls'[c])
  BY <1>4 DEF Restart, CacheInv, CacheTypeOK
<1>6. sets' \subseteq sets /\ UNCHANGED redis
  BY DEF Restart
<1>7. QED BY <1>3, <1>5, <1>6 DEF CacheInv, CacheTypeOK

\* Time takes from a URL no more than from the entry that holds it.
LEMMA TickStep ==
  ASSUME CacheInv, Tick
  PROVE  CacheInv'
<1>1. ASSUME NEW e \in Entry, FreshRedis(e) PROVE RedisAges(e) \in Entry /\ FreshRedis(RedisAges(e))
  <2>1. e.left \in 0..UrlTtl /\ e.ttl \in 0..CacheTtl /\ e.waited \in 0..UrlTtl
    BY DEF Entry
  <2>2. CASE e.ttl > 1
    <3> DEFINE a == RedisAges(e)
    <3>1. a = [e EXCEPT !.left = Less(e.left), !.ttl = e.ttl - 1]
      BY <2>2 DEF RedisAges
    <3>2. /\ Less(e.left) \in 0..UrlTtl /\ e.ttl - 1 \in 0..CacheTtl
          /\ Less(e.left) + CacheTtl + e.waited >= UrlTtl + (e.ttl - 1)
      BY <1>1, <2>1, <2>2, CacheAssumption DEF Less, FreshRedis
    <3>3. a \in Entry /\ a.left = Less(e.left) /\ a.ttl = e.ttl - 1 /\ a.waited = e.waited
      BY <3>1, <3>2 DEF Entry
    <3> HIDE DEF a
    <3>4. a \in Entry /\ FreshRedis(a)
      BY <3>2, <3>3 DEF FreshRedis
    <3>5. QED BY <3>4 DEF a
  <2>3. CASE ~(e.ttl > 1)
    BY <2>3, CacheAssumption DEF RedisAges, NoEntry, Entry, FreshRedis
  <2>4. QED BY <2>2, <2>3
<1>2. redis' \in [Keys -> Entry] /\ \A k \in Keys : FreshRedis(redis'[k])
  BY <1>1 DEF Tick, CacheInv, CacheTypeOK
<1>3. ASSUME NEW p \in Processes PROVE MapOK(local'[p]) /\ Len(local'[p]) <= MaxEntries
  <2>1. MapOK(local[p]) /\ Len(local[p]) <= MaxEntries
    BY DEF CacheInv, MapsOK
  <2>2. local'[p] = [i \in DOMAIN local[p] |-> LocalAges(local[p][i])]
    BY DEF Tick
  <2>3. MapOK(local'[p]) /\ Len(local'[p]) = Len(local[p])
    BY <2>1, <2>2, AgesMap
  <2>4. QED BY <2>1, <2>3
<1>4. MapsOK' /\ local' \in [Processes -> Seq(LocalEntry)]
  BY <1>3 DEF Tick, MapsOK, MapOK
<1>5. ASSUME NEW m \in sets PROVE SetAges(m) \in PendingSet /\ FreshSet(SetAges(m))
  <2> DEFINE l == Less(m.left)
             w == IF m.waited < UrlTtl THEN m.waited + 1 ELSE m.waited
  <2>1. m.left \in 0..UrlTtl /\ m.waited \in 0..UrlTtl /\ m.left + m.waited >= UrlTtl
    BY DEF CacheInv, CacheTypeOK, PendingSet, FreshSet
  <2>2. ASSUME NEW a \in 0..UrlTtl, NEW b \in 0..UrlTtl
        PROVE  /\ [m EXCEPT !.left = a, !.waited = b] \in PendingSet
               /\ [m EXCEPT !.left = a, !.waited = b].left = a
               /\ [m EXCEPT !.left = a, !.waited = b].waited = b
    BY DEF CacheInv, CacheTypeOK, PendingSet
  <2>3. l \in 0..UrlTtl /\ w \in 0..UrlTtl /\ l + w >= UrlTtl
    BY <2>1, CacheAssumption DEF Less
  <2>4. SetAges(m) = [m EXCEPT !.left = l, !.waited = w]
    BY DEF SetAges
  <2> HIDE DEF l, w
  <2>5. SetAges(m) \in PendingSet /\ SetAges(m).left = l /\ SetAges(m).waited = w
    BY <2>2, <2>3, <2>4
  <2>6. QED BY <2>3, <2>5 DEF FreshSet
<1>6. sets' \subseteq PendingSet /\ \A m \in sets' : FreshSet(m)
  BY <1>5 DEF Tick
<1>7. UNCHANGED calls
  BY DEF Tick
<1>8. QED BY <1>2, <1>4, <1>6, <1>7 DEF CacheInv, CacheTypeOK

-----------------------------------------------------------------------------
(* The invariant and the theorems.                                         *)

\* Empty caches are well formed.
LEMMA InitCacheInv == CacheInit => CacheInv
<1> SUFFICES ASSUME CacheInit PROVE CacheInv
    OBVIOUS
<1>1. NoEntry \in Entry /\ FreshRedis(NoEntry)
  BY CacheAssumption DEF NoEntry, Entry, FreshRedis
<1>2. NoCall \in Call /\ CallOK(NoCall)
  BY CacheAssumption DEF NoCall, Call, CallOK
<1>3. MapOK(<<>>) /\ Len(<<>>) <= MaxEntries /\ <<>> \in Seq(LocalEntry)
  BY EmptySeq, CacheAssumption DEF MapOK, OneEntryPerKey
<1>4. CacheTypeOK
  BY <1>1, <1>2, <1>3 DEF CacheInit, CacheTypeOK
<1>5. MapsOK
  BY <1>3 DEF CacheInit, MapsOK
<1>6. QED BY <1>1, <1>2, <1>4, <1>5 DEF CacheInit, CacheInv

\* Every step keeps the invariant.
LEMMA NextCacheInv == CacheInv /\ [CacheNext]_cacheVars => CacheInv'
<1> SUFFICES ASSUME CacheInv, [CacheNext]_cacheVars PROVE CacheInv'
    OBVIOUS
<1>1. CASE UNCHANGED cacheVars
  BY <1>1 DEF cacheVars, CacheInv, CacheTypeOK, MapsOK
<1>2. CASE CacheNext
  BY <1>2, StartReadStep, RedisHitStep, LocalHitStep, MissStep, SignAndCacheStep, FinishStep,
     RedisSetStep, LossStep, RestartStep, TickStep DEF CacheNext
<1>3. QED BY <1>1, <1>2

\* The caches stay well formed.
THEOREM CacheInvariance == CacheSpec => []CacheInv
<1>1. QED BY InitCacheInv, NextCacheInv, PTL DEF CacheSpec

\* The caches keep their types.
THEOREM CacheTypeCorrect == CacheSpec => []CacheTypeOK
<1>1. CacheInv => CacheTypeOK
  BY DEF CacheInv
<1>2. QED BY <1>1, CacheInvariance, PTL

\* The Map of a process never outgrows its limit and holds a key once, however
\* many of its calls miss at the same time.
THEOREM LocalCacheIsBounded == CacheSpec => []LocalCacheBounded
<1>1. CacheInv => LocalCacheBounded
  BY DEF CacheInv, MapsOK, MapOK, OneEntryPerKey, LocalCacheBounded
<1>2. QED BY <1>1, CacheInvariance, PTL

\* A URL is never served from a cache when it is about to expire: it stays valid
\* for its lifetime less the cache's and less what its own SET has waited.
THEOREM ServedUrlIsUsable == CacheSpec => []ServedUrlUsable
<1>1. CacheInv => ServedUrlUsable
  BY CallType DEF CallOK, ServedUrlUsable
<1>2. QED BY <1>1, CacheInvariance, PTL
=============================================================================

---------------------------- MODULE ReadUrlCache ----------------------------
(***************************************************************************)
(* createStoryReadUrl of StorageService: signed GET URLs of story images,  *)
(* cached in Redis for all API processes and in a bounded Map of each.     *)
(*                                                                         *)
(* A URL is known by its key and by `left', the time it is still valid.    *)
(* Redis reads are awaited, so calls interleave between a miss and the     *)
(* URL they sign; Redis writes are not, so that a SET issued while Redis   *)
(* is away waits in the client's queue (maxRetriesPerRequest: null) and    *)
(* starts its EX only when it arrives.  Nothing bounds that wait; how long *)
(* it was is recorded with what Redis has, and with what is answered.      *)
(***************************************************************************)
EXTENDS Naturals, Sequences

CONSTANTS
    Keys,
    Processes,   \* API processes, each with a StorageService
    Calls,       \* createStoryReadUrl calls that may be in progress at once
    ProcessOf,   \* the process a call runs in
    UrlTtl,      \* STORY_READ_URL_TTL_SECONDS (60 min), in ticks
    CacheTtl,    \* STORY_READ_URL_CACHE_TTL_SECONDS (5 min), in ticks
    MaxEntries,  \* STORY_READ_URL_CACHE_MAX_ENTRIES
    None

ASSUME CacheAssumption ==
    /\ ProcessOf \in [Calls -> Processes]
    /\ UrlTtl \in Nat /\ CacheTtl \in Nat \ {0}
    /\ MaxEntries \in Nat \ {0}
    /\ None \notin Keys

VARIABLES
    redis,  \* per key: the URL Redis has, with its remaining EX, or none
    local,  \* per process: readUrlCache, oldest insertion first
    sets,   \* SETs issued and not applied yet
    calls   \* progress of each call, and the URL it was answered with

cacheVars == <<redis, local, sets, calls>>

\* `waited' is counted up to UrlTtl, when the URL has expired on its way to Redis.
Entry == [left : 0..UrlTtl, ttl : 0..CacheTtl, waited : 0..UrlTtl]
NoEntry == [left |-> 0, ttl |-> 0, waited |-> 0]
LocalEntry == [key : Keys, left : 0..UrlTtl, ttl : 0..CacheTtl]
PendingSet == [key : Keys, left : 0..UrlTtl, waited : 0..UrlTtl]
Call == [pc : {"idle", "get", "sign", "answered"}, key : Keys \cup {None},
         left : 0..UrlTtl, waited : 0..UrlTtl]
NoCall == [pc |-> "idle", key |-> None, left |-> 0, waited |-> 0]

CacheTypeOK ==
    /\ redis \in [Keys -> Entry]
    /\ local \in [Processes -> Seq(LocalEntry)]
    /\ sets \subseteq PendingSet
    /\ calls \in [Calls -> Call]

CacheInit ==
    /\ redis = [k \in Keys |-> NoEntry]
    /\ local = [p \in Processes |-> <<>>]
    /\ sets = {}
    /\ calls = [c \in Calls |-> NoCall]

-----------------------------------------------------------------------------
(* readUrlCache is a Map: setting a key that is there keeps its place. *)

Put(cache, entry) ==
    IF \E i \in DOMAIN cache : cache[i].key = entry.key
    THEN [i \in DOMAIN cache |-> IF cache[i].key = entry.key THEN entry ELSE cache[i]]
    ELSE Append(cache, entry)

\* Mutant: the Map is emptied only once it has outgrown its limit.
EvictOldestLate(cache) == IF Len(cache) > MaxEntries THEN Tail(cache) ELSE cache

\* A full cache gives up its oldest entry, whatever key is going to be set.
EvictOldest(cache) == IF Len(cache) >= MaxEntries THEN Tail(cache) ELSE cache

\* Mutant: an entry is used whether it has expired or not.
LocalHitsExpired(p, k) ==
    {local[p][i].left : i \in {j \in DOMAIN local[p] : local[p][j].key = k}}

\* Entries that have expired stay in the Map, but are not used.
LocalHits(p, k) ==
    {local[p][i].left : i \in {j \in DOMAIN local[p] : local[p][j].key = k /\ local[p][j].ttl > 0}}

-----------------------------------------------------------------------------

StartRead(c, k) ==
    /\ calls[c].pc = "idle"
    /\ calls' = [calls EXCEPT ![c] = [NoCall EXCEPT !.pc = "get", !.key = k]]
    /\ UNCHANGED <<redis, local, sets>>

AnswerUrl(c, left, waited) ==
    calls' = [calls EXCEPT ![c].pc = "answered", ![c].left = left, ![c].waited = waited]

\* The GET finds a URL: it is served, and not copied to the Map.
RedisHit(c) ==
    /\ calls[c].pc = "get" /\ redis[calls[c].key].ttl > 0
    /\ AnswerUrl(c, redis[calls[c].key].left, redis[calls[c].key].waited)
    /\ UNCHANGED <<redis, local, sets>>

\* The GET finds nothing, or fails: the Map next.
LocalHit(c) ==
    /\ calls[c].pc = "get"
    /\ \E left \in LocalHits(ProcessOf[c], calls[c].key) : AnswerUrl(c, left, 0)
    /\ UNCHANGED <<redis, local, sets>>

Miss(c) ==
    /\ calls[c].pc = "get" /\ LocalHits(ProcessOf[c], calls[c].key) = {}
    /\ calls' = [calls EXCEPT ![c].pc = "sign"]
    /\ UNCHANGED <<redis, local, sets>>

\* getSignedUrl has answered: cacheReadUrl fills the Map and sends the SET.
SignAndCache(c) ==
    /\ calls[c].pc = "sign"
    /\ local' = [local EXCEPT ![ProcessOf[c]] =
           Put(EvictOldest(@), [key |-> calls[c].key, left |-> UrlTtl, ttl |-> CacheTtl])]
    /\ sets' = sets \cup {[key |-> calls[c].key, left |-> UrlTtl, waited |-> 0]}
    /\ AnswerUrl(c, UrlTtl, 0)
    /\ UNCHANGED redis

Finish(c) ==
    /\ calls[c].pc = "answered"
    /\ calls' = [calls EXCEPT ![c] = NoCall]
    /\ UNCHANGED <<redis, local, sets>>

-----------------------------------------------------------------------------
(* Redis, and time. *)

\* Mutant: Redis keeps a URL for the lifetime of the URL.
RedisSetForUrlTtl(m) ==
    /\ m \in sets
    /\ redis' = [redis EXCEPT ![m.key] = [left |-> m.left, ttl |-> UrlTtl, waited |-> m.waited]]
    /\ sets' = sets \ {m}
    /\ UNCHANGED <<local, calls>>

\* A SET arrives: EX counts from now, however long the SET has waited.
RedisSet(m) ==
    /\ m \in sets
    /\ redis' = [redis EXCEPT ![m.key] = [left |-> m.left, ttl |-> CacheTtl, waited |-> m.waited]]
    /\ sets' = sets \ {m}
    /\ UNCHANGED <<local, calls>>

\* A SET fails: cacheReadUrl logs it.
RedisSetFails(m) ==
    /\ m \in sets
    /\ sets' = sets \ {m}
    /\ UNCHANGED <<redis, local, calls>>

\* Redis evicts a key to make room, or restarts empty.
RedisEvict(k) ==
    /\ redis[k].ttl > 0
    /\ redis' = [redis EXCEPT ![k] = NoEntry]
    /\ UNCHANGED <<local, sets, calls>>

\* The process is restarted: its Map and its queue are gone.
Restart(p) ==
    /\ local' = [local EXCEPT ![p] = <<>>]
    /\ \E lost \in SUBSET sets : sets' = sets \ lost
    /\ calls' = [c \in Calls |-> IF ProcessOf[c] = p THEN NoCall ELSE calls[c]]
    /\ UNCHANGED redis

Less(n) == IF n > 0 THEN n - 1 ELSE 0

RedisAges(e) == IF e.ttl > 1 THEN [e EXCEPT !.left = Less(@), !.ttl = @ - 1] ELSE NoEntry
LocalAges(e) == [e EXCEPT !.left = Less(@), !.ttl = Less(@)]
SetAges(m) == [m EXCEPT !.left = Less(@), !.waited = IF @ < UrlTtl THEN @ + 1 ELSE @]

Tick ==
    /\ redis' = [k \in Keys |-> RedisAges(redis[k])]
    /\ local' = [p \in Processes |-> [i \in DOMAIN local[p] |-> LocalAges(local[p][i])]]
    /\ sets' = {SetAges(m) : m \in sets}
    /\ UNCHANGED calls

CacheNext ==
    \/ \E c \in Calls :
           \/ \E k \in Keys : StartRead(c, k)
           \/ RedisHit(c) \/ LocalHit(c) \/ Miss(c) \/ SignAndCache(c) \/ Finish(c)
    \/ \E m \in sets : RedisSet(m) \/ RedisSetFails(m)
    \/ \E k \in Keys : RedisEvict(k)
    \/ \E p \in Processes : Restart(p)
    \/ Tick

CacheSpec == CacheInit /\ [][CacheNext]_cacheVars

-----------------------------------------------------------------------------

\* Whichever cache it comes from, and in whatever order SETs, evictions and
\* concurrent misses happened, the URL a call is answered with is valid for at
\* least its lifetime less the cache's and less what its own SET has waited: no
\* other delay adds up, and from the Map nothing is taken off but the cache's.
ServedUrlUsable ==
    \A c \in Calls : calls[c].pc = "answered" =>
        calls[c].left + CacheTtl + calls[c].waited >= UrlTtl

\* The Map never outgrows its limit and holds a key once, however many calls
\* miss at the same time.
LocalCacheBounded ==
    \A p \in Processes :
        /\ Len(local[p]) <= MaxEntries
        /\ \A i, j \in DOMAIN local[p] : local[p][i].key = local[p][j].key => i = j
=============================================================================

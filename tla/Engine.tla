-------------------------------- MODULE Engine --------------------------------
(***************************************************************************)
(* The engine over its two stores: the SQLite rows (redis_keys joined with *)
(* the type's table) and the LRU cache in front of them, with lazy         *)
(* expiration in the handlers and the background sweeper.                  *)
(*                                                                         *)
(* Every handler is synchronous on Node's single thread and every SQLite   *)
(* write of a handler is one transaction, so a handler is one action.  The *)
(* clock is read once per handler.                                         *)
(*                                                                         *)
(* Which entries the LRU drops when one is inserted, and whether the new   *)
(* one fits, is left open: any subset of the entries survives an insertion.*)
(* A cache entry has the shape of a row; Nothing stands for no row and for *)
(* no entry.                                                               *)
(***************************************************************************)
EXTENDS Entries

VARIABLES
    rows,    \* key -> its row in redis_keys with its contents, or Nothing
    cache,   \* key -> its cache entry (kind, value, expiresAt), or Nothing
    now,     \* clock()
    reply    \* the reply of the last command

vars == <<rows, cache, now, reply>>

Init ==
    /\ rows = [k \in Keys |-> Nothing]
    /\ cache = [k \in Keys |-> Nothing]
    /\ now = 0
    /\ reply = Nil

-----------------------------------------------------------------------------
(* Building blocks of the handlers.                                        *)

Dead(e) == Expired(e, now)
Live(k) == rows[k] # Nothing /\ ~Dead(rows[k])
LiveRow(k) == IF Dead(rows[k]) THEN Nothing ELSE rows[k]

\* getKeyMeta on each of ks: an expired row is deleted and its entry invalidated.
TouchRows(ks)  == [k \in Keys |-> IF k \in ks THEN LiveRow(k) ELSE rows[k]]
TouchCache(ks) == [k \in Keys |-> IF k \in ks /\ Dead(rows[k]) THEN Nothing ELSE cache[k]]
Touch(ks) == rows' = TouchRows(ks) /\ cache' = TouchCache(ks) /\ UNCHANGED now

\* cache.set for the entries of new: the LRU keeps any subset of them.
Insert(new) ==
    \E kept \in SUBSET Keys :
        cache' = [k \in Keys |-> IF k \in kept THEN new[k] ELSE Nothing]

\* readCachedString, readCachedHash, readCachedCollection: a hit of the wanted kind answers
\* for the row, and an expired hit deletes the row and the entry.
Hit(k, t) == cache[k].type = t
HitDeletesRow(k, t) == Hit(k, t) /\ Dead(cache[k])

\* What a read of type t on key k answers from, what it leaves of the row, and what
\* it leaves in the cache when it does not populate it.
ReadFrom(k, t) ==
    IF Hit(k, t) THEN (IF Dead(cache[k]) THEN Nothing ELSE cache[k]) ELSE LiveRow(k)
ReadRow(k, t) ==
    IF Hit(k, t) THEN (IF Dead(cache[k]) THEN Nothing ELSE rows[k]) ELSE LiveRow(k)
ReadCache(k, t) ==
    IF HitDeletesRow(k, t) \/ (~Hit(k, t) /\ Dead(rows[k])) THEN Nothing ELSE cache[k]
\* A read that misses and finds a row of its type inserts it.
Populates(k, t) == ~Hit(k, t) /\ LiveRow(k).type = t

\* Mutant: a write-through that caches the value without the new expiry.
CachedWithoutExpiry(k, p, x) == StringEntry(p, NoExp)
CachedString(k, p, x) == StringEntry(p, x)

-----------------------------------------------------------------------------
(* Reads.                                                                  *)

\* GET, STRLEN, HGETALL, SMEMBERS, LRANGE 0 -1, ZRANGE 0 -1: a whole-value read.
ReadWhole(k, t) ==
    /\ rows' = [rows EXCEPT ![k] = ReadRow(k, t)]
    /\ IF Populates(k, t)
         THEN Insert([cache EXCEPT ![k] = LiveRow(k)])
         ELSE cache' = [cache EXCEPT ![k] = ReadCache(k, t)]
    /\ reply' = ReplyOf(ReadFrom(k, t), t)
    /\ UNCHANGED now

\* HGET, HLEN, SISMEMBER, SCARD, LLEN, LINDEX, ZSCORE, ZCARD, partial ranges: answered
\* from the entry when there is one, never populating it.
ReadPart(k, t) ==
    /\ rows' = [rows EXCEPT ![k] = ReadRow(k, t)]
    /\ cache' = [cache EXCEPT ![k] = ReadCache(k, t)]
    /\ reply' = ReplyOf(ReadFrom(k, t), t)
    /\ UNCHANGED now

MGet(ks) ==
    LET found == {k \in ks : ReadFrom(k, "string").type = "string"}
        filled == {k \in ks : Populates(k, "string")}
        after == [k \in Keys |-> IF k \in filled THEN LiveRow(k)
                                 ELSE IF k \in ks THEN ReadCache(k, "string") ELSE cache[k]]
    IN  /\ rows' = [k \in Keys |-> IF k \in ks THEN ReadRow(k, "string") ELSE rows[k]]
        /\ IF filled = {} THEN cache' = after ELSE Insert(after)
        /\ reply' = <<"array", {<<k, ReadFrom(k, "string").data>> : k \in found}>>
        /\ UNCHANGED now

Exists(ks) == Touch(ks) /\ reply' = Num(Cardinality({k \in ks : Live(k)}))
Type(k) == Touch({k}) /\ reply' = <<LiveRow(k).type, {}>>
PTtl(k) ==
    /\ Touch({k})
    /\ reply' = Num(IF ~Live(k) THEN -2
                    ELSE IF rows[k].exp = NoExp THEN -1 ELSE rows[k].exp - now)

DbSize ==
    /\ reply' = Num(Cardinality({k \in Keys : Live(k)}))
    /\ UNCHANGED <<rows, cache, now>>

\* The page of keys comes from redis_keys without a look at expires_at.
Scan ==
    /\ reply' = <<"keys", {k \in Keys : rows[k] # Nothing}>>
    /\ UNCHANGED <<rows, cache, now>>

-----------------------------------------------------------------------------
(* String writes: storage in a transaction, then write-through.            *)

Fails(ks, r) == Touch(ks) /\ reply' = r

Set(k, p, x) ==
    IF LiveRow(k).type \notin {"none", "string"} THEN Fails({k}, WrongType)
    ELSE /\ rows' = [rows EXCEPT ![k] = StringEntry(p, x)]
         /\ Insert([TouchCache({k}) EXCEPT ![k] = CachedString(k, p, x)])
         /\ reply' = Ok
         /\ UNCHANGED now

WrittenTo(m, f) == [k \in Keys |-> IF k \in DOMAIN f THEN StringEntry(f[k], NoExp) ELSE m[k]]

\* One transaction for all pairs: a key of another type fails the whole MSET.
MSet(f) ==
    IF \E k \in DOMAIN f : LiveRow(k).type \notin {"none", "string"}
      THEN Fails(DOMAIN f, WrongType)
      ELSE /\ rows' = WrittenTo(rows, f)
           /\ Insert(WrittenTo(cache, f))
           /\ reply' = Ok
           /\ UNCHANGED now

\* The existence checks stop at the first live key: the expired ones before it are purged.
MSetNx(f) ==
    IF \E k \in DOMAIN f : Live(k)
      THEN \E seen \in SUBSET {k \in DOMAIN f : ~Live(k)} : Fails(seen, Num(0))
      ELSE /\ rows' = WrittenTo(rows, f)
           /\ Insert(WrittenTo(cache, f))
           /\ reply' = Num(1)
           /\ UNCHANGED now

\* _incrBy: the cached value is read first, then the row's metadata; the sum is stored and
\* cached with no expiry.
IncrBy(k, d) ==
    LET row  == IF HitDeletesRow(k, "string") THEN Nothing ELSE LiveRow(k)
        text == IF Hit(k, "string") /\ ~Dead(cache[k]) THEN cache[k].data ELSE row.data
        purge(r) ==
            /\ rows' = [rows EXCEPT ![k] = row]
            /\ cache' = [cache EXCEPT ![k] =
                   IF HitDeletesRow(k, "string") \/ Dead(rows[k]) THEN Nothing ELSE @]
            /\ reply' = r
            /\ UNCHANGED now
    IN  IF row.type \notin {"none", "string"} THEN purge(WrongType)
        ELSE IF row # Nothing /\ text = {Text} THEN purge(NotAnInt)
        ELSE LET n == (IF row = Nothing THEN 0 ELSE CHOOSE p \in Payloads : text = {p}) + d
             IN  /\ n \in 0..MaxInt
                 /\ rows' = [rows EXCEPT ![k] = StringEntry(n, NoExp)]
                 /\ Insert([cache EXCEPT ![k] = CachedString(k, n, NoExp)])
                 /\ reply' = Num(n)
                 /\ UNCHANGED now

-----------------------------------------------------------------------------
(* Key commands.                                                           *)

\* Mutant: a write that forgets to invalidate.
NotInvalidated(ks) == cache
\* Invalidation after a write.
Invalidated(ks) == [k \in Keys |-> IF k \in ks THEN Nothing ELSE cache[k]]

\* No expiry check: a row that has expired is deleted and counted like any other.
Del(ks) ==
    /\ rows' = [k \in Keys |-> IF k \in ks THEN Nothing ELSE rows[k]]
    /\ cache' = Invalidated(ks)
    /\ reply' = Num(Cardinality({k \in ks : rows[k] # Nothing}))
    /\ UNCHANGED now

SetExpires(k, x) ==
    IF ~Live(k) THEN Fails({k}, Num(0))
    ELSE /\ rows' = [rows EXCEPT ![k].exp = x]
         /\ cache' = Invalidated({k})
         /\ reply' = Num(1)
         /\ UNCHANGED now
Expire(k, t) == SetExpires(k, now + t)
Persist(k) == SetExpires(k, NoExp)

Rename(k, nk) ==
    IF ~Live(k) THEN Fails({k}, NoSuchKey)
    ELSE IF k = nk THEN Fails({k}, Ok)
    ELSE /\ rows' = [rows EXCEPT ![nk] = rows[k], ![k] = Nothing]
         /\ cache' = Invalidated({k, nk})
         /\ reply' = Ok
         /\ UNCHANGED now

FlushDb ==
    /\ rows' = [k \in Keys |-> Nothing]
    /\ cache' = [k \in Keys |-> Nothing]
    /\ reply' = Ok
    /\ UNCHANGED now

-----------------------------------------------------------------------------
(* Collection writes: storage in a transaction, then invalidation.         *)

\* HSET, HINCRBY, SADD, LPUSH, RPUSH, LSET, ZADD, ZINCRBY.
CollPut(k, t, d) ==
    IF LiveRow(k).type \notin {"none", t} THEN Fails({k}, WrongType)
    ELSE /\ rows' = [rows EXCEPT ![k] = CollEntry(t, d, LiveRow(k).exp)]
         /\ cache' = Invalidated({k})
         /\ reply' = Ok
         /\ UNCHANGED now

\* Removing the last cell deletes the key; the mutant leaves an empty collection.
ShrunkToEmpty(e, d) == [e EXCEPT !.data = d]
Shrunk(e, d) == IF d = {} THEN Nothing ELSE [e EXCEPT !.data = d]

\* HDEL, SREM, SPOP, LPOP, RPOP, LREM, LTRIM, ZREM, ZREMRANGEBY*.
CollShrink(k, t, d) ==
    IF ~Live(k) THEN Fails({k}, Nil)
    ELSE IF rows[k].type # t THEN Fails({k}, WrongType)
    ELSE /\ d \subseteq rows[k].data
         /\ rows' = [rows EXCEPT ![k] = Shrunk(@, d)]
         /\ cache' = Invalidated({k})
         /\ reply' = Ok
         /\ UNCHANGED now

-----------------------------------------------------------------------------
(* The sweeper and the clock.                                              *)

Due == {k \in Keys : Dead(rows[k])}

\* DELETE ... LIMIT maxKeysPerSweep: some batch of the due rows goes; the cache is not told.
Sweep ==
    /\ Due # {}
    /\ \E batch \in SUBSET Due :
         /\ batch = Due \/ Cardinality(batch) = MaxSweep
         /\ Cardinality(batch) <= MaxSweep
         /\ rows' = [k \in Keys |-> IF k \in batch THEN Nothing ELSE rows[k]]
    /\ UNCHANGED <<cache, now, reply>>

Tick ==
    /\ now < MaxTime
    /\ now' = now + 1
    /\ UNCHANGED <<rows, cache, reply>>

-----------------------------------------------------------------------------
SetExpiries == {NoExp} \cup {now + t : t \in TTLs \ {0}}
PairLists == UNION {[ks -> Payloads] : ks \in (SUBSET Keys) \ {{}}}
KeyLists == (SUBSET Keys) \ {{}}

Reads ==
    \/ \E k \in Keys, t \in CollTypes \cup {"string"} : ReadWhole(k, t) \/ ReadPart(k, t)
    \/ \E ks \in KeyLists : MGet(ks) \/ Exists(ks)
    \/ \E k \in Keys : Type(k) \/ PTtl(k)
    \/ DbSize \/ Scan

Writes ==
    \/ \E k \in Keys, p \in Payloads, x \in SetExpiries : Set(k, p, x)
    \/ \E f \in PairLists : MSet(f) \/ MSetNx(f)
    \/ \E k \in Keys, d \in Deltas : IncrBy(k, d)
    \/ \E ks \in KeyLists : Del(ks)
    \/ \E k \in Keys, t \in TTLs : Expire(k, t)
    \/ \E k \in Keys : Persist(k)
    \/ \E k, nk \in Keys : Rename(k, nk)
    \/ \E k \in Keys, t \in CollTypes, d \in SUBSET Cells :
           \/ d # {} /\ CollPut(k, t, d)
           \/ CollShrink(k, t, d)
    \/ FlushDb

Next == Reads \/ Writes \/ Sweep \/ Tick

Spec == Init /\ [][Next]_vars

-----------------------------------------------------------------------------
(* Properties.                                                             *)

TypeOK ==
    /\ rows \in [Keys -> Stored \cup {Nothing}]
    /\ cache \in [Keys -> Stored \cup {Nothing}]
    /\ now \in Nat

\* A cache entry c speaks for row r at time t: it is the row, or it has expired and the row
\* is gone.
Agrees(c, r, t) == c = Nothing \/ c = r \/ (r = Nothing /\ Expired(c, t))

\* The cache never contradicts SQLite (spec/04, 12: "SQLite remains the source of truth"):
\* an entry equals its row, except that an entry whose expiry has passed may outlive a row
\* that the sweeper took.
CacheCoherent == \A k \in Keys : Agrees(cache[k], rows[k], now)

\* The client's view: rows that have expired are not there.
Abs == INSTANCE Keyspace WITH store <- [k \in Keys |-> LiveRow(k)]

\* The engine implements Keyspace: cached and uncached replies, lazy deletion, sweeping and
\* the race between a sweep and a cached entry are invisible (spec/03, 11.2).
ImplementsKeyspace == Abs!Spec
=============================================================================

-------------------------------- MODULE Hashes --------------------------------
(***************************************************************************)
(* Hashes with per-field expiry: the rows of redis_keys, redis_hashes and  *)
(* redis_hash_field_ttl, the counter hash_count kept beside the rows, the  *)
(* cached whole hash, lazy expiration of keys and of fields, and the       *)
(* sweeper that expires both without telling the cache.                    *)
(*                                                                         *)
(* A table is a function on the primary keys that have a row.  A handler   *)
(* is synchronous and its writes are one transaction, so it is one action. *)
(* A handler that names several fields visits them in turn; what it does   *)
(* to one does not depend on the others, so an action does them together.  *)
(***************************************************************************)
EXTENDS Integers, FiniteSets

CONSTANTS
    Keys,       \* the keys, all of them hashes or absent
    Fields,     \* the fields of a hash
    Values,     \* the values of a field
    LegacyKeys, \* the keys that a database of an older version may hold
    Conditions, \* the conditions in use, from {"always", "NX", "XX", "GT", "LT"}
    TTLs,       \* relative expiries, in clock ticks, of EXPIRE and HEXPIRE
    MaxTime,    \* bound: the clock stops here
    MaxSweep    \* maxKeysPerSweep, the limit of both queries of the sweeper

ASSUME HashesAssumption ==
    /\ IsFiniteSet(Fields)
    /\ LegacyKeys \subseteq Keys
    /\ Conditions \subseteq {"always", "NX", "XX", "GT", "LT"}
    /\ TTLs \subseteq Nat
    /\ MaxTime \in Nat
    /\ MaxSweep \in Nat \ {0}

VARIABLES
    db,      \* meta: key -> [exp, count]; cells: <<key, field>> -> value; ttls: <<key, field>> -> time
    cache,   \* key -> [exp, hash], for the keys with a cached hash
    now      \* clock()

vars == <<db, cache, now>>

NoExp == -1
NoCount == -1   \* hash_count IS NULL, in a database from before the column existed
NoRows == [x \in {} |-> x]
Without(f, S) == [x \in DOMAIN f \ S |-> f[x]]

\* A new database, or one with hashes written before hash_count and field expiry existed.
Init ==
    /\ \E S \in SUBSET (LegacyKeys \X Fields) : \E c \in [S -> Values] :
         db = [meta |-> [k \in {x[1] : x \in S} |-> [exp |-> NoExp, count |-> NoCount]],
               cells |-> c, ttls |-> NoRows]
    /\ cache = NoRows
    /\ now = 0

-----------------------------------------------------------------------------
(* The tables.                                                             *)

RowsOf(d, k) == {f \in Fields : <<k, f>> \in DOMAIN d.cells}
TtlsOf(d, k) == {f \in Fields : <<k, f>> \in DOMAIN d.ttls}
Row(k, fs) == {<<k, f>> : f \in fs}

\* The count a handler goes by: the column, or the rows when it is NULL.
Count(d, k) ==
    IF d.meta[k].count = NoCount THEN Cardinality(RowsOf(d, k)) ELSE d.meta[k].count

\* ON DELETE CASCADE takes the fields and their expiries with the key.
DeleteKey(d, k) ==
    [meta  |-> Without(d.meta, {k}),
     cells |-> Without(d.cells, Row(k, Fields)),
     ttls  |-> Without(d.ttls, Row(k, Fields))]

KeyDue(d, k) == k \in DOMAIN d.meta /\ d.meta[k].exp # NoExp /\ d.meta[k].exp <= now
FieldsDue(d, k) == {f \in TtlsOf(d, k) : d.ttls[<<k, f>>] <= now}

\* Mutant: fields deleted without their rows in redis_hash_field_ttl.
DropFieldsKeepsTtl(d, k, fs) ==
    LET gone == fs \cap RowsOf(d, k)
        left == Count(d, k) - Cardinality(gone)
    IN  IF left <= 0 THEN DeleteKey(d, k)
        ELSE [d EXCEPT !.meta[k].count = left, !.cells = Without(@, Row(k, gone))]

\* Deletes fields of k with their expiries; the count that remains decides whether the key
\* goes (expireFieldIfDue, delete, and setFieldExpire in the past).
DropFields(d, k, fs) ==
    LET gone == fs \cap RowsOf(d, k)
        left == Count(d, k) - Cardinality(gone)
    IN  IF left <= 0 THEN DeleteKey(d, k)
        ELSE [meta  |-> [d.meta EXCEPT ![k].count = IF gone = {} THEN @ ELSE left],
              cells |-> Without(d.cells, Row(k, gone)),
              ttls  |-> Without(d.ttls, Row(k, fs))]

\* expireFieldIfDue on each of fs.
ExpireFields(d, k, fs) ==
    LET due == fs \cap FieldsDue(d, k)
    IN  IF due = {} THEN d ELSE DropFields(d, k, due)

\* Upserts the fields of g, adding n to the count, and creating the key without expiry if
\* it has no row.
Upsert(d, k, g, n) ==
    [d EXCEPT
       !.meta = [j \in DOMAIN d.meta \cup {k} |->
                   IF j # k THEN d.meta[j]
                   ELSE IF k \in DOMAIN d.meta THEN [d.meta[k] EXCEPT !.count = Count(d, k) + n]
                   ELSE [exp |-> NoExp, count |-> n]],
       !.cells = [x \in DOMAIN d.cells \cup Row(k, DOMAIN g) |->
                   IF x \in Row(k, DOMAIN g) THEN g[x[2]] ELSE d.cells[x]]]

-----------------------------------------------------------------------------
(* The engine's view of a key.                                             *)

\* getKeyMeta: an expired key is deleted and its entry invalidated.
Touched(k) == IF KeyDue(db, k) THEN DeleteKey(db, k) ELSE db
TouchedCache(k) == IF KeyDue(db, k) THEN Without(cache, {k}) ELSE cache

LiveKey(k) == k \in DOMAIN db.meta /\ ~KeyDue(db, k)
LiveFields(k) == IF LiveKey(k) THEN RowsOf(db, k) \ FieldsDue(db, k) ELSE {}

Hit(k) == k \in DOMAIN cache
DeadHit(k) == Hit(k) /\ cache[k].exp # NoExp /\ cache[k].exp <= now

Invalidated(k) == Without(cache, {k})

\* Every command that only looks the key up: EXISTS, TYPE, TTL, HSCAN, and the commands that
\* reply an error after getKeyMeta.
Touch(k) ==
    /\ db' = Touched(k)
    /\ cache' = TouchedCache(k)
    /\ UNCHANGED now

-----------------------------------------------------------------------------
(* Hash reads.                                                             *)

\* HGET, HMGET, HSTRLEN, HEXISTS: a missing entry reads the fields and expires the due ones;
\* the cache is not invalidated for them.
HGet(k, fs) ==
    /\ IF Hit(k)
         THEN /\ db' = IF DeadHit(k) THEN DeleteKey(db, k) ELSE db
              /\ cache' = IF DeadHit(k) THEN Invalidated(k) ELSE cache
         ELSE /\ db' = IF LiveKey(k) THEN ExpireFields(db, k, fs) ELSE Touched(k)
              /\ cache' = TouchedCache(k)
    /\ UNCHANGED now

\* Mutant: caching a hash whose fields can expire.
CacheableWithTtl(k) == LiveKey(k)
Cacheable(k) == LiveKey(k) /\ TtlsOf(db, k) = {}

\* cacheHash: the live fields, unless the hash is over maxHashFields or maxHashBytes, when the
\* entry is invalidated.
Populated(k) ==
    {Invalidated(k),
     [j \in DOMAIN cache \cup {k} |->
        IF j # k THEN cache[j]
        ELSE [exp |-> db.meta[k].exp, hash |-> [f \in LiveFields(k) |-> db.cells[<<k, f>>]]]]}

\* HGETALL, HKEYS, HVALS.
HGetAll(k) ==
    /\ IF Hit(k)
         THEN /\ db' = IF DeadHit(k) THEN DeleteKey(db, k) ELSE db
              /\ cache' = IF DeadHit(k) THEN Invalidated(k) ELSE cache
         ELSE /\ db' = Touched(k)
              /\ IF Cacheable(k) THEN cache' \in Populated(k) ELSE cache' = TouchedCache(k)
    /\ UNCHANGED now

\* HRANDFIELD looks at the row before the entry.
HRandField(k) == IF LiveKey(k) THEN HGetAll(k) ELSE Touch(k)

\* HLEN stores the count of a hash that has none and whose fields have no expiry.
HLen(k) ==
    IF ~Hit(k) /\ Cacheable(k)
      THEN /\ db' = [db EXCEPT !.meta[k].count = Count(db, k)]
           /\ UNCHANGED <<cache, now>>
      ELSE HGet(k, {})

-----------------------------------------------------------------------------
(* Hash writes.                                                            *)

\* Mutant: an expired field that is written again counted as a new row.
GrowthCountsDue(d, k, fs) == Cardinality((fs \ RowsOf(d, k)) \cup (fs \cap FieldsDue(d, k)))
\* added - expired: a field past its expiry still has its row.
Growth(d, k, fs) ==
    LET added == (fs \ RowsOf(d, k)) \cup (fs \cap FieldsDue(d, k))
    IN  Cardinality(added) - Cardinality(fs \cap FieldsDue(d, k))

\* HSET, HMSET: one upsert; the expiries of the fields written go.
HSet(k, g) ==
    LET d == Touched(k)
        w == Upsert(d, k, g, Growth(d, k, DOMAIN g))
    IN  /\ db' = [w EXCEPT !.ttls = Without(@, Row(k, DOMAIN g))]
        /\ cache' = Invalidated(k)
        /\ UNCHANGED now

One(f, v) == [x \in {f} |-> v]

\* HSETNX: a live field stays; a due one is expired first, which may delete the key, and the
\* key's metadata is read again.
HSetNx(k, f, v) ==
    LET d == ExpireFields(Touched(k), k, {f})
    IN  IF f \in LiveFields(k) THEN Touch(k)
        ELSE /\ db' = Upsert(d, k, One(f, v), 1)
             /\ cache' = Invalidated(k)
             /\ UNCHANGED now

\* HINCRBY, HINCRBYFLOAT: a live field keeps its expiry, a due one starts again without.
HIncrBy(k, f, v) ==
    LET d == ExpireFields(Touched(k), k, {f})
    IN  /\ db' = Upsert(d, k, One(f, v), IF f \in LiveFields(k) THEN 0 ELSE 1)
        /\ cache' = Invalidated(k)
        /\ UNCHANGED now

\* HDEL takes the fields whether or not they have expired.
HDel(k, fs) ==
    IF ~LiveKey(k) THEN Touch(k)
    ELSE /\ db' = DropFields(db, k, fs)
         /\ cache' = Invalidated(k)
         /\ UNCHANGED now

\* NX, XX, GT and LT compare with the expiry the field has; a field without one is LT
\* and never GT.
Meets(k, f, x, cond) ==
    LET has == <<k, f>> \in DOMAIN db.ttls
    IN  CASE cond = "always" -> TRUE
          [] cond = "NX" -> ~has
          [] cond = "XX" -> has
          [] cond = "GT" -> has /\ x > db.ttls[<<k, f>>]
          [] cond = "LT" -> ~has \/ x < db.ttls[<<k, f>>]

\* HEXPIRE, HPEXPIRE, HEXPIREAT, HPEXPIREAT: an expiry that is not in the future deletes.
HExpire(k, x, fs, cond) ==
    LET set == {f \in fs \cap LiveFields(k) : Meets(k, f, x, cond)}
        due == fs \cap FieldsDue(db, k)
    IN  IF ~LiveKey(k) THEN Touch(k)
        ELSE /\ db' = IF x <= now
                        THEN IF set \cup due = {} THEN db ELSE DropFields(db, k, set \cup due)
                        ELSE LET d == ExpireFields(db, k, fs)
                             IN  [d EXCEPT !.ttls = [y \in DOMAIN d.ttls \cup Row(k, set) |->
                                     IF y \in Row(k, set) THEN x ELSE d.ttls[y]]]
             /\ cache' = Invalidated(k)
             /\ UNCHANGED now

\* Mutant: HPERSIST without the look at the field's expiry.
PersistedUnchecked(d, k, fs) == [d EXCEPT !.ttls = Without(@, Row(k, fs))]
Persisted(d, k, fs) ==
    LET e == ExpireFields(d, k, fs) IN [e EXCEPT !.ttls = Without(@, Row(k, fs))]

HPersist(k, fs) ==
    IF ~LiveKey(k) THEN Touch(k)
    ELSE /\ db' = Persisted(db, k, fs)
         /\ cache' = Invalidated(k)
         /\ UNCHANGED now

\* HTTL, HPTTL, HEXPIRETIME, HPEXPIRETIME: due fields are expired, and only then is the entry
\* invalidated.
HTtl(k, fs) ==
    IF ~LiveKey(k) THEN Touch(k)
    ELSE /\ db' = ExpireFields(db, k, fs)
         /\ cache' = IF fs \cap FieldsDue(db, k) = {} THEN cache ELSE Invalidated(k)
         /\ UNCHANGED now

-----------------------------------------------------------------------------
(* Key commands on hashes.                                                 *)

Expire(k, x) ==
    IF ~LiveKey(k) THEN Touch(k)
    ELSE /\ db' = [db EXCEPT !.meta[k].exp = x]
         /\ cache' = Invalidated(k)
         /\ UNCHANGED now

Del(k) ==
    /\ db' = DeleteKey(db, k)
    /\ cache' = Invalidated(k)
    /\ UNCHANGED now

\* copyKey: every field of redis_hashes, due or not, and the source's count; the rows of
\* redis_hash_field_ttl are not copied.
Copied(d, k, nk) ==
    [meta  |-> [j \in DOMAIN d.meta \cup {nk} |-> IF j = nk THEN [d.meta[k] EXCEPT !.count = Count(d, k)] ELSE d.meta[j]],
     cells |-> [x \in DOMAIN d.cells \cup Row(nk, RowsOf(d, k)) |->
                  IF x[1] = nk THEN d.cells[<<k, x[2]>>] ELSE d.cells[x]],
     ttls  |-> d.ttls]

Rename(k, nk) ==
    IF ~LiveKey(k) \/ k = nk THEN Touch(k)
    ELSE /\ db' = DeleteKey(Copied(DeleteKey(db, nk), k, nk), k)
         /\ cache' = Without(cache, {k, nk})
         /\ UNCHANGED now

-----------------------------------------------------------------------------
(* The sweeper, the LRU, a restart and the clock.                          *)

\* Mutant: a sweeper that takes only the keys that expired before this instant.
KeysDueStrict(d) == {k \in DOMAIN d.meta : d.meta[k].exp # NoExp /\ d.meta[k].exp < now}
KeysDue(d) == {k \in DOMAIN d.meta : KeyDue(d, k)}
AllFieldsDue(d) == {x \in DOMAIN d.ttls : d.ttls[x] <= now}
Batches(S) == {B \in SUBSET S : Cardinality(B) = MaxSweep \/ (B = S /\ Cardinality(S) < MaxSweep)}

\* DELETE FROM redis_keys ... LIMIT, with its cascade.
SweptKeys(d, B) ==
    [meta  |-> Without(d.meta, B),
     cells |-> Without(d.cells, B \X Fields),
     ttls  |-> Without(d.ttls, B \X Fields)]

\* Mutant: the sweeper takes what it deleted off the count, which there may not be.
SweptFieldsDecrement(d, B) ==
    LET cells == Without(d.cells, B)
        gone(k) == Cardinality({x \in B : x[1] = k})
        empty == {k \in Keys : \A x \in DOMAIN cells : x[1] # k}
    IN  [meta  |-> [k \in DOMAIN d.meta \ empty |-> [d.meta[k] EXCEPT !.count = @ - gone(k)]],
         cells |-> cells,
         ttls  |-> Without(d.ttls, B)]

\* sweepFieldsTxn: the fields go, then each key they were of is recounted, or deleted when
\* it has no field left.
SweptFields(d, B) ==
    LET cells == Without(d.cells, B)
        left(k) == {x \in DOMAIN cells : x[1] = k}
        affected == {x[1] : x \in B}
        empty == {k \in affected : left(k) = {}}
    IN  [meta  |-> [k \in DOMAIN d.meta \ empty |->
                      IF k \in affected THEN [d.meta[k] EXCEPT !.count = Cardinality(left(k))]
                      ELSE d.meta[k]],
         cells |-> cells,
         ttls  |-> Without(d.ttls, B)]

Sweep ==
    /\ KeysDue(db) # {} \/ AllFieldsDue(db) # {}
    /\ \E B \in Batches(KeysDue(db)) :
         LET d == SweptKeys(db, B)
         IN  \E F \in Batches(AllFieldsDue(d)) : db' = SweptFields(d, F)
    /\ UNCHANGED <<cache, now>>

\* Insertions under other keys push the entry out of the LRU.
Evict(k) ==
    /\ Hit(k)
    /\ cache' = Invalidated(k)
    /\ UNCHANGED <<db, now>>

\* The process stops, between two transactions, and starts again on the same file.
Restart ==
    /\ cache' = NoRows
    /\ UNCHANGED <<db, now>>

Tick ==
    /\ now < MaxTime
    /\ now' = now + 1
    /\ UNCHANGED <<db, cache>>

-----------------------------------------------------------------------------
FieldLists == (SUBSET Fields) \ {{}}
Times == {now + t : t \in TTLs}

Writes(k) ==
    \/ \E fs \in FieldLists :
         \/ \E g \in [fs -> Values] : HSet(k, g)
         \/ HDel(k, fs)
         \/ \E x \in Times, cond \in Conditions : HExpire(k, x, fs, cond)
         \/ HPersist(k, fs)
    \/ \E f \in Fields, v \in Values : HSetNx(k, f, v) \/ HIncrBy(k, f, v)
    \/ \E x \in Times \cup {NoExp} : Expire(k, x)
    \/ Del(k)
    \/ \E nk \in Keys : Rename(k, nk)

Reads(k) ==
    \/ \E fs \in FieldLists : HGet(k, fs) \/ HTtl(k, fs)
    \/ HGetAll(k) \/ HRandField(k) \/ HLen(k) \/ Touch(k)

Client == \E k \in Keys : Reads(k) \/ Writes(k)

Background == Sweep \/ (\E k \in Keys : Evict(k)) \/ Restart \/ Tick

Next == Client \/ Background

Spec == Init /\ [][Next]_vars

\* setInterval runs the sweeper again and again while the server is up.
FairSpec == Spec /\ WF_vars(Sweep)

-----------------------------------------------------------------------------
(* Properties.                                                             *)

Expiries == Nat \cup {NoExp}

TypeOK ==
    /\ DOMAIN db = {"meta", "cells", "ttls"}
    /\ DOMAIN db.meta \subseteq Keys
    /\ \A k \in DOMAIN db.meta : db.meta[k] \in [exp : Expiries, count : Nat \cup {NoCount}]
    /\ DOMAIN db.cells \subseteq Keys \X Fields
    /\ \A x \in DOMAIN db.cells : db.cells[x] \in Values
    /\ DOMAIN db.ttls \subseteq Keys \X Fields
    /\ \A x \in DOMAIN db.ttls : db.ttls[x] \in Nat
    /\ DOMAIN cache \subseteq Keys
    /\ now \in Nat

\* hash_count, once there is one, kept by increments in every handler and by recounts in the
\* sweeper, is the number of rows of the key; and a hash has rows (hashes.js:3, an empty hash
\* removes the key).
CountIsExact ==
    \A k \in DOMAIN db.meta :
        /\ db.meta[k].count \in {NoCount, Cardinality(RowsOf(db, k))}
        /\ RowsOf(db, k) # {}

\* No row of redis_hash_field_ttl outlives its field, to expire a later field of that name,
\* and no field outlives its key.
NoOrphans ==
    /\ DOMAIN db.ttls \subseteq DOMAIN db.cells
    /\ \A x \in DOMAIN db.cells : x[1] \in DOMAIN db.meta

\* The three tables and the counter agree, through every order of writes, expiries, sweeps and
\* restarts, also for a hash that an older version wrote.
TablesAgree == CountIsExact /\ NoOrphans

\* What HGETALL answers, and what HLEN answers: from the entry, from the live rows when a
\* field has an expiry, from the counter otherwise.
Seen(k) ==
    IF Hit(k) THEN (IF DeadHit(k) THEN NoRows ELSE cache[k].hash)
    ELSE [f \in LiveFields(k) |-> db.cells[<<k, f>>]]
LenSeen(k) ==
    IF Hit(k) THEN (IF DeadHit(k) THEN 0 ELSE Cardinality(DOMAIN cache[k].hash))
    ELSE IF ~LiveKey(k) THEN 0
    ELSE IF TtlsOf(db, k) # {} THEN Cardinality(LiveFields(k))
    ELSE Count(db, k)

\* Cached or not, swept or not, HGETALL answers the fields that have not expired and HLEN
\* their number (spec/04:11: the cache changes no logical behaviour).
ReadsAreLive ==
    \A k \in Keys :
        /\ Seen(k) = [f \in LiveFields(k) |-> db.cells[<<k, f>>]]
        /\ LenSeen(k) = Cardinality(LiveFields(k))

\* A field that is not there, because it expired or for another reason, comes back only by a
\* command that writes a value to it.
RevivedOnlyByWrite ==
    [][ \A k \in Keys : \A f \in LiveFields(k)' \ LiveFields(k) :
          \/ \E fs \in FieldLists : f \in fs /\ \E g \in [fs -> Values] : HSet(k, g)
          \/ \E v \in Values : HSetNx(k, f, v) \/ HIncrBy(k, f, v)
          \/ \E j \in Keys \ {k} : Rename(j, k) ]_vars

\* README:869 and hashes.js:5: an expired field is gone.  RENAME moves the fields of the
\* source; a field that has expired under the old name must not be there under the new one.
\* The code copies the row and drops its expiry.
RenameMovesLiveFields ==
    [][ \A k, nk \in Keys :
          (k # nk /\ LiveKey(k) /\ Rename(k, nk)) => LiveFields(nk)' \subseteq LiveFields(k) ]_vars

\* Rows that have expired, keys or fields.
Backlog ==
    \/ \E k \in DOMAIN db.meta : KeyDue(db, k)
    \/ \E x \in DOMAIN db.ttls : db.ttls[x] <= now

\* Once clients leave the hashes alone, everything that has expired is deleted, also when
\* more is due than one sweep takes (expiration.js; spec/03, 11.2).
BacklogIsSwept == <>[][Background]_vars => <>[]~Backlog
=============================================================================

----------------------------- MODULE Collections -----------------------------
(***************************************************************************)
(* Lists, sets and sorted sets as stored (the modules Lists, Sets and      *)
(* Zsets) with the cache of whole values that the engine keeps of them:    *)
(* rows with sequence numbers, counters beside the rows, and three ways to *)
(* answer a read - from the cache, from the counter, from the rows.  A key *)
(* has a row in one of the three tables at most.  Keys do not expire here: *)
(* expiry, other types and the replies of WRONGTYPE are in Engine.         *)
(***************************************************************************)
EXTENDS Ordering, SequencesExt

CONSTANTS
    Keys,
    LegacyKeys,        \* keys that may come with a counter that is NULL
    Null,              \* that counter
    Values,            \* of lists
    Members, Scores,   \* integers
    Increments,        \* of ZINCRBY
    SpopCounts,
    MaxCached,         \* maxListItems, maxSetMembers, maxZsetMembers
    MaxBatch,          \* bound: values of a push, members or pairs of an addition
    MaxElements,       \* bound: elements in all keys together
    MaxSeq             \* bound: sequence numbers up and down

ASSUME CollectionsAssumption ==
    /\ IsFiniteSet(Keys) /\ LegacyKeys \subseteq Keys /\ IsFiniteSet(Members)
    /\ Null \notin Int
    /\ Members \cup Scores \cup Increments \cup SpopCounts \subseteq Int
    /\ {MaxCached, MaxBatch, MaxElements, MaxSeq} \subseteq Nat

L == INSTANCE Lists
S == INSTANCE Sets
Z == INSTANCE Zsets

VARIABLES
    lists, sets, zsets,   \* key -> what the tables hold for it
    cache                 \* key -> a whole value, or NoEntry

tables == <<lists, sets, zsets>>
vars == <<tables, cache>>

NoEntry == [kind |-> "none", value |-> <<>>]

\* The type in redis_keys: a key is there as long as its collection has a row or a counter.
Kind(k) == CASE lists[k] # L!NoList -> "list"
             [] sets[k] # S!NoSet   -> "set"
             [] zsets[k] # Z!NoZset -> "zset"
             [] OTHER               -> "none"

Init ==
    /\ lists = [k \in Keys |-> L!NoList]
    /\ \E old \in [LegacyKeys -> SUBSET Members], ranked \in SUBSET LegacyKeys, score \in Scores :
         LET has(k) == k \in LegacyKeys /\ old[k] # {}
         IN  /\ sets = [k \in Keys |-> IF has(k) /\ k \notin ranked
                          THEN [members |-> old[k], count |-> Null] ELSE S!NoSet]
             /\ zsets = [k \in Keys |-> IF has(k) /\ k \in ranked
                          THEN [scores |-> [m \in old[k] |-> score], count |-> Null] ELSE Z!NoZset]
    /\ cache = [k \in Keys |-> NoEntry]

-----------------------------------------------------------------------------
(* Writes.  Each ends with the invalidation of its key.                    *)

Elements(k) == L!Length(lists'[k]) + Cardinality(sets'[k].members) + Cardinality(DOMAIN zsets'[k].scores)
Bounded ==
    /\ MapThenSumSet(Elements, Keys) <= MaxElements
    /\ \A k \in Keys : {lists'[k].head, lists'[k].tail} \subseteq -MaxSeq..MaxSeq

Invalidate(ks) == cache' = [k \in Keys |-> IF k \in ks THEN NoEntry ELSE cache[k]]

PutList(k, l) ==
    /\ lists' = [lists EXCEPT ![k] = l]
    /\ Invalidate({k})
    /\ UNCHANGED <<sets, zsets>>
    /\ Bounded
PutSet(k, s) ==
    /\ sets' = [sets EXCEPT ![k] = s]
    /\ Invalidate({k})
    /\ UNCHANGED <<lists, zsets>>
    /\ Bounded
PutZset(k, z) ==
    /\ zsets' = [zsets EXCEPT ![k] = z]
    /\ Invalidate({k})
    /\ UNCHANGED <<lists, sets>>
    /\ Bounded

Batches(T) == UNION {[1..n -> T] : n \in 1..MaxBatch}
Counts == 1..MaxElements
Indices == -(MaxElements + 1)..(MaxElements + 1)

LPush(k) ==
    /\ Kind(k) \in {"none", "list"}
    /\ \E values \in Batches(Values) : PutList(k, L!LPush(lists[k], values).list)
RPush(k) ==
    /\ Kind(k) \in {"none", "list"}
    /\ \E values \in Batches(Values) : PutList(k, L!RPush(lists[k], values).list)
LPop(k) == Kind(k) = "list" /\ \E count \in Counts : PutList(k, L!LPop(lists[k], count).list)
RPop(k) == Kind(k) = "list" /\ \E count \in Counts : PutList(k, L!RPop(lists[k], count).list)
LRem(k) ==
    /\ Kind(k) = "list"
    /\ \E count \in Indices, v \in Values : PutList(k, L!LRem(lists[k], count, v).list)
LSet(k) ==
    /\ Kind(k) = "list"
    /\ \E index \in Indices, v \in Values :
         L!Has(L!Length(lists[k]), index) /\ PutList(k, L!LSet(lists[k], index, v))
LTrim(k) ==
    /\ Kind(k) = "list"
    /\ \E start, stop \in Indices : PutList(k, L!LTrim(lists[k], start, stop))

SAdd(k) ==
    /\ Kind(k) \in {"none", "set"}
    /\ \E members \in (SUBSET Members) \ {{}} : PutSet(k, S!Add(sets[k], members).set)
SRem(k) ==
    /\ Kind(k) = "set"
    /\ \E members \in (SUBSET Members) \ {{}} : PutSet(k, S!RemoveMembers(sets[k], members).set)
\* A set without members, with a counter all the same, has nothing to draw from.
SPop(k) ==
    /\ Kind(k) = "set"
    /\ sets[k].members # {}
    /\ \E count \in SpopCounts : \E drawn \in S!Draws(sets[k].members, count) :
         PutSet(k, S!PopRandom(sets[k], drawn))

ZAdd(k) ==
    /\ Kind(k) \in {"none", "zset"}
    /\ \E pairs \in Batches(Members \X Scores) : PutZset(k, Z!Add(zsets[k], pairs).zset)
ZIncrBy(k) ==
    /\ Kind(k) \in {"none", "zset"}
    /\ \E m \in Members, increment \in Increments :
         LET z == Z!Incr(zsets[k], m, increment).zset
         IN  z.scores[m] \in Scores /\ PutZset(k, z)
ZRem(k) ==
    /\ Kind(k) = "zset"
    /\ \E members \in (SUBSET Members) \ {{}} : PutZset(k, Z!RemoveMembers(zsets[k], members).zset)
ZRemRangeByRank(k) ==
    /\ Kind(k) = "zset"
    /\ \E start, stop \in Indices : PutZset(k, Z!RemoveRangeByRank(zsets[k], start, stop).zset)
ZRemRangeByScore(k) ==
    /\ Kind(k) = "zset"
    /\ \E min, max \in Scores : PutZset(k, Z!RemoveRangeByScore(zsets[k], min, max).zset)

\* LMPOP and ZMPOP: from the first of the keys named that is there, if it has the type.
First(ks) == ks[Min({i \in DOMAIN ks : Kind(ks[i]) # "none"})]
Named == {ks \in SetToSeqs(Keys) : \E i \in DOMAIN ks : Kind(ks[i]) # "none"}
LMPop == \E ks \in Named : LPop(First(ks)) \/ RPop(First(ks))
\* The members that ZMPOP takes: the first by rank, from either end.
Lowest(z, count) == Z!RangeByRank(z, 0, count - 1)
Highest(z, count) == Z!RangeByRankReverse(z, 0, count - 1)
ZMPop ==
    \E ks \in Named, count \in Counts :
      LET k == First(ks)
      IN  /\ Kind(k) = "zset"
          /\ \E entries \in {Lowest(zsets[k], count), Highest(zsets[k], count)} :
               PutZset(k, Z!RemoveMembers(zsets[k], ToSet(Z!MembersOf(entries))).zset)

\* Mutant: a NULL counter of the source becomes 0, as keys.set has it.
CarriedAsZero(c) == IF c.count = Null THEN [c EXCEPT !.count = 0] ELSE c
\* copyKey of a set or sorted set: a NULL counter of the source is replaced by the rows.
Carried(c) == IF "members" \in DOMAIN c THEN S!Hydrated(c) ELSE Z!Hydrated(c)
Rename(k, nk) ==
    /\ k # nk
    /\ Kind(k) # "none"
    /\ lists' = [lists EXCEPT ![nk] = lists[k], ![k] = L!NoList]
    /\ sets' = [sets EXCEPT ![nk] = Carried(sets[k]), ![k] = S!NoSet]
    /\ zsets' = [zsets EXCEPT ![nk] = Carried(zsets[k]), ![k] = Z!NoZset]
    /\ Invalidate({k, nk})

-----------------------------------------------------------------------------
(* Reads that change something, for the cache has no entry.                *)

\* Mutant: whatever its size.
InsertAny(k, kind, value, size) ==
    \E kept \in SUBSET Keys :
      cache' = [j \in Keys |-> IF j \notin kept THEN NoEntry
                               ELSE IF j = k THEN [kind |-> kind, value |-> value]
                               ELSE cache[j]]
\* Into the cache, unless it is too large; the LRU may let go of any entry for it.
Insert(k, kind, value, size) ==
    IF size > MaxCached THEN Invalidate({k})
    ELSE \E kept \in SUBSET Keys :
           cache' = [j \in Keys |-> IF j \notin kept THEN NoEntry
                                    ELSE IF j = k THEN [kind |-> kind, value |-> value]
                                    ELSE cache[j]]

\* Mutant: in the order of the reply to ZREVRANGE.
WholeZsetReversed(z) == Z!RangeByRankReverse(z, 0, -1)
\* What is cached, of either command: members and scores in ascending order.
WholeZset(z) == Z!RangeByRank(z, 0, -1)

LRangeAll(k) ==
    /\ Kind(k) = "list" /\ cache[k] = NoEntry
    /\ LET l == lists[k]
       IN  Insert(k, "list", L!LRange(l, 0, -1), L!Length(l))
    /\ UNCHANGED tables
SMembers(k) ==
    /\ Kind(k) = "set" /\ cache[k] = NoEntry
    /\ Insert(k, "set", sets[k].members, Cardinality(sets[k].members))
    /\ UNCHANGED tables
\* ZRANGE and ZREVRANGE from 0 to -1 look at the counter, and store it if it was NULL.
ZRangeAll(k) ==
    /\ Kind(k) = "zset" /\ cache[k] = NoEntry
    /\ LET whole == WholeZset(zsets[k])
       IN  Insert(k, "zset", whole, Len(whole))
    /\ zsets' = [zsets EXCEPT ![k] = Z!Hydrated(@)]
    /\ UNCHANGED <<lists, sets>>
\* SCARD; ZCARD, ZREVRANGE, ZRANGE with an index from the end, ZCOUNT without bounds.
Hydrate(k) ==
    /\ cache[k] = NoEntry
    /\ sets' = [sets EXCEPT ![k] = S!Hydrated(@)]
    /\ zsets' = [zsets EXCEPT ![k] = Z!Hydrated(@)]
    /\ UNCHANGED <<lists, cache>>

Next ==
    \/ \E k \in Keys :
         \/ LPush(k) \/ RPush(k) \/ LPop(k) \/ RPop(k) \/ LRem(k) \/ LSet(k) \/ LTrim(k)
         \/ SAdd(k) \/ SRem(k) \/ SPop(k)
         \/ ZAdd(k) \/ ZIncrBy(k) \/ ZRem(k) \/ ZRemRangeByRank(k) \/ ZRemRangeByScore(k)
         \/ LRangeAll(k) \/ SMembers(k) \/ ZRangeAll(k) \/ Hydrate(k)
         \/ \E nk \in Keys : Rename(k, nk)
    \/ LMPop \/ ZMPop

Spec == Init /\ [][Next]_vars

-----------------------------------------------------------------------------
(* Properties.                                                             *)

Entries(T) == {<<m, Z!FormatScore(x)>> : m \in Members, x \in T}
TypedEntry(e) ==
    CASE e.kind = "none" -> e = NoEntry
      [] e.kind = "list" -> e.value \in Seq(Values) /\ Len(e.value) \in 1..MaxCached
      [] e.kind = "set"  -> e.value \subseteq Members /\ Cardinality(e.value) <= MaxCached
      [] e.kind = "zset" -> e.value \in Seq(Entries(Scores)) /\ Len(e.value) \in 1..MaxCached

\* Every table has rows of its type, a key is in one of them at most, and what is cached is of
\* the type of its key and within the limits.
TypeOK ==
    /\ \A k \in Keys :
         /\ {lists[k].head, lists[k].tail} \cup DOMAIN lists[k].items \subseteq Int
         /\ Range(lists[k].items) \subseteq Values
         /\ sets[k] \in [members : SUBSET Members, count : Int \cup {Null}]
         /\ DOMAIN zsets[k].scores \subseteq Members /\ Range(zsets[k].scores) \subseteq Scores
         /\ zsets[k].count \in Int \cup {Null}
         /\ Kind(k) # "list" => lists[k] = L!NoList
         /\ Kind(k) # "zset" => zsets[k] = Z!NoZset
         /\ TypedEntry(cache[k]) /\ cache[k].kind \in {"none", Kind(k)}
    /\ DOMAIN lists = Keys /\ DOMAIN sets = Keys /\ DOMAIN zsets = Keys /\ DOMAIN cache = Keys

\* spec/07, B.4.1: there is no empty list, and the rows of a list have exactly the sequence
\* numbers from head_seq to tail_seq, whatever pushes, pops, trims and removals there were; every
\* read that computes a sequence number from an index depends on it.
ListsContiguous ==
    \A k \in Keys : lists[k] # L!NoList =>
        lists[k].head <= lists[k].tail /\ DOMAIN lists[k].items = lists[k].head..lists[k].tail

\* set_count and zset_count are NULL, as they were found, or the number of rows: by whichever
\* path, increment, recount or rename, they came about; and no collection is empty.
CountsExact ==
    \A k \in Keys :
      /\ sets[k] # S!NoSet =>
           sets[k].members # {} /\ sets[k].count \in {Null, Cardinality(sets[k].members)}
      /\ zsets[k] # Z!NoZset =>
           LET n == Cardinality(DOMAIN zsets[k].scores)
           IN  n > 0 /\ zsets[k].count \in {Null, n}

\* The rows of the three types agree with the ends and counters kept beside them.
RowsConsistent == ListsContiguous /\ CountsExact

\* engine.js:185: cache hits and misses have identical behavior.  Whatever is cached, every read
\* that the cache answers has the answer the rows and the counter would give.
HitsAnswerAsMisses ==
    \A k \in Keys :
      LET v == cache[k].value
          l == lists[k]
          z == zsets[k]
      IN  CASE cache[k].kind = "none" -> TRUE
            [] cache[k].kind = "list" ->
                 /\ Len(v) = L!Length(l)
                 /\ \A i \in Indices : L!CachedIndex(v, i) = L!LIndex(l, i)
                 /\ \A i, j \in Indices : L!CachedRange(v, i, j) = L!LRange(l, i, j)
            [] cache[k].kind = "set" -> v = sets[k].members /\ Cardinality(v) = S!Count(sets[k])
            [] cache[k].kind = "zset" ->
                 /\ Len(v) = Z!Count(z)
                 /\ \A m \in Members : /\ Z!CachedRank(v, m) = Z!Rank(z, m)
                                       /\ Z!CachedRankReverse(v, m) = Z!RankReverse(z, m)
                 /\ \A i, j \in Indices :
                      /\ Z!CachedRange(v, i, j) = Z!RangeByRank(z, i, j)
                      /\ Z!CachedRangeReverse(v, i, j) = Z!RangeByRankReverse(z, i, j)
                 /\ \A min, max \in Scores :
                      /\ Len(Z!CachedWithin(v, min, max)) = Z!CountByScore(z, min, max)
                      /\ \A limit, offset \in -1..2 :
                           /\ Z!CachedRangeByScore(v, min, max, limit, offset)
                                = Z!RangeByScore(z, min, max, limit, offset)
                           /\ Z!CachedRangeByScoreReverse(v, max, min, limit, offset)
                                = Z!RangeByScoreReverse(z, max, min, limit, offset)

\* The elements of a list in order, and a sequence without some of its positions.
Value(l) == L!Select(l, l.head, l.tail)
Dropping(v, P) == Picked(v, DOMAIN v \ P)

\* A range that Redis and the code agree on: the code takes a start behind the last element for
\* the last, and a stop before the first for the first.
Proper(n, start, stop) == start < n /\ stop >= -n
InRange(n, start, stop) == {i \in 1..n : L!Position(n, start) < i /\ i <= L!Position(n, stop) + 1}

\* The positions LREM drops: all the matches, the first of them, or the last.
Matches(v, count, e) ==
    LET matches == {i \in DOMAIN v : v[i] = e}
    IN  {i \in matches : \/ count = 0
                         \/ count > 0 /\ Cardinality({j \in matches : j <= i}) <= count
                         \/ count < 0 /\ Cardinality({j \in matches : j >= i}) <= -count}

PushesJoin(l) ==
    \A values \in Batches(Values) :
      LET v == Value(l)
          left == L!LPush(l, values)
          right == L!RPush(l, values)
      IN  /\ Value(left.list) = Reverse(values) \o v
          /\ Value(right.list) = v \o values
          /\ {left.reply, right.reply} = {Len(v) + Len(values)}
PopsSplit(l) ==
    \A count \in Counts :
      LET v == Value(l)
          left == L!LPop(l, count)
          right == L!RPop(l, count)
      IN  /\ v = left.reply \o Value(left.list)
          /\ v = Value(right.list) \o Reverse(right.reply)
          /\ {Len(left.reply), Len(right.reply)} = {Min({Len(v), count})}
RemovalsDrop(l) ==
    \A count \in Indices, e \in Values :
      LET v == Value(l)
          gone == Matches(v, count, e)
          left == L!LRem(l, count, e)
      IN  /\ Value(left.list) = Dropping(v, gone)
          /\ left.reply = Cardinality(gone)
RangesCut(l) ==
    \A i, j \in Indices :
      LET v == Value(l)
          n == Len(v)
      IN  n > 0 =>
            /\ Value(L!LTrim(l, i, j)) = L!LRange(l, i, j)
            /\ Proper(n, i, j) => L!LRange(l, i, j) = Dropping(v, 1..n \ InRange(n, i, j))
IndicesHold(l) ==
    \A i \in Indices, e \in Values :
      L!Has(Len(Value(l)), i) =>
        L!LIndex(L!LSet(l, i, e), i) = <<e>> /\ L!LIndex(l, i) = L!LRange(l, i, i)

\* List commands on rows do what they would do to a sequence: pushes join, pops split, LREM drops
\* the first or the last of the matches, LTRIM keeps what LRANGE gives, which is the positions
\* from start to stop, and LINDEX gives what LSET wrote.
ListsBehave ==
    \A k \in Keys : Kind(k) \in {"none", "list"} =>
      LET l == lists[k]
      IN  PushesJoin(l) /\ PopsSplit(l) /\ RemovalsDrop(l) /\ RangesCut(l) /\ IndicesHold(l)

RanksAgree(z) ==
    LET f == z.scores
        n == Cardinality(DOMAIN f)
    IN  \A m \in DOMAIN f :
          LET r == Z!Rank(z, m)
          IN  /\ Z!RangeByRank(z, r, r) = Z!Shown(f, <<m>>)
              /\ Z!RankReverse(z, m) = n - 1 - r
              /\ \A o \in DOMAIN f : f[o] < f[m] => Z!Rank(z, o) < r
RankRangesAgree(z) ==
    LET f == z.scores
        n == Cardinality(DOMAIN f)
        mirrored(i) == n - 1 - L!Position(n, i)
    IN  \A i, j \in Indices : Proper(n, i, j) =>
          LET range == Z!RangeByRank(z, i, j)
              cut == Z!RemoveRangeByRank(z, i, j)
          IN  /\ Len(range) = Cardinality(InRange(n, i, j))
              /\ L!Has(n, i) /\ L!Has(n, j) =>
                   Z!RangeByRankReverse(z, i, j) = Reverse(Z!RangeByRank(z, mirrored(j), mirrored(i)))
              /\ DOMAIN cut.zset.scores = DOMAIN f \ ToSet(Z!MembersOf(range))
              /\ cut.reply = Len(range)
\* The members with scores within bounds, and what a range has of some members.
Scored(f, min, max) == {m \in DOMAIN f : f[m] \in min..max}
EntriesOf(range, members) == Picked(range, {i \in DOMAIN range : range[i][1] \in members})
ScoreRangesAgree(z) ==
    LET f == z.scores
        whole == Z!RangeByRank(z, 0, Cardinality(DOMAIN f))
    IN  \A min, max \in Scores :
          LET range == Z!RangeByScore(z, min, max, -1, 0)
              cut == Z!RemoveRangeByScore(z, min, max)
          IN  /\ range = EntriesOf(whole, Scored(f, min, max))
              /\ Len(range) = Z!CountByScore(z, min, max)
              /\ DOMAIN cut.zset.scores = DOMAIN f \ Scored(f, min, max)
              /\ \A offset, limit \in 0..2 :
                   Z!RangeByScoreReverse(z, max, min, limit, offset)
                     = SubSeq(Reverse(range), offset + 1, Min({offset + limit, Len(range)}))
AdditionsCount(z) ==
    \A pairs \in Batches(Members \X Scores) :
      LET f == z.scores
          added == Z!Add(z, pairs)
          g == added.zset.scores
      IN  /\ added.reply = Cardinality(DOMAIN g) - Cardinality(DOMAIN f)
          /\ \A m \in DOMAIN g :
               LET given == {i \in DOMAIN pairs : pairs[i][1] = m}
               IN  g[m] = IF given = {} THEN f[m] ELSE pairs[Max(given)][2]

\* Sorted set commands agree with each other and with the order by score and member: a rank is
\* where ZRANGE has the member, ZREVRANGE is ZRANGE from the other end, a range by score is a
\* stretch of the order, removals by rank or score remove what the ranges give, and ZADD counts
\* the new members and leaves each with the last of its scores.
SortedSetsBehave ==
    \A k \in Keys : Kind(k) \in {"none", "zset"} =>
      LET z == zsets[k]
      IN  RanksAgree(z) /\ RankRangesAgree(z) /\ ScoreRangesAgree(z) /\ AdditionsCount(z)
=============================================================================

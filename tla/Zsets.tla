-------------------------------- MODULE Zsets --------------------------------
(***************************************************************************)
(* Sorted set storage (storage/sqlite/zsets.js) and the reads of a cached  *)
(* sorted set (engine/engine.js) as operators.  A stored one is its rows   *)
(* of redis_zsets, a function from members to scores, with the counter     *)
(* zset_count of its key; a cached one is a sequence of members with their *)
(* scores as formatted.  Members and scores are integers; the unit of a    *)
(* score is 10^-7.  A range is a sequence of members with formatted scores.*)
(***************************************************************************)
EXTENDS Ordering, SequencesExt

CONSTANT Null    \* zset_count of a row from before the column existed

NoZset == [scores |-> <<>>, count |-> 0]

\* A score that String() would write with an exponent is written to six decimals.
FormatScore(s) ==
    CASE s \in 1..9   -> IF s >= 5 THEN 10 ELSE 0
      [] s \in -9..-1 -> IF s <= -5 THEN -10 ELSE 0
      [] OTHER        -> s

\* ORDER BY score, member.
Before(f, m, o) == f[m] < f[o] \/ (f[m] = f[o] /\ m < o)
Ordered(f) ==
    [i \in 1..Cardinality(DOMAIN f) |->
        CHOOSE m \in DOMAIN f : Cardinality({o \in DOMAIN f : Before(f, o, m)}) = i - 1]
Shown(f, members) == [i \in DOMAIN members |-> <<members[i], FormatScore(f[members[i]])>>]

\* LIMIT and OFFSET: no limit when it is negative, offset 0 when that is.
Page(seq, limit, offset) ==
    LET first == Max({0, offset}) + 1
    IN  SubSeq(seq, first, IF limit < 0 THEN Len(seq) ELSE Min({Len(seq), first + limit - 1}))

\* zset_count, or the rows when it is NULL; storing that is the caller's part.
Count(z) == IF z.count = Null THEN Cardinality(DOMAIN z.scores) ELSE z.count
Hydrated(z) == [z EXCEPT !.count = Count(z)]

\* ZADD: pairs of a member and a score, in turn.
Upserted(scores, pairs) ==
    LET f[n \in 0..Len(pairs)] ==
          IF n = 0 THEN scores
          ELSE [m \in DOMAIN f[n - 1] \cup {pairs[n][1]} |->
                   IF m = pairs[n][1] THEN pairs[n][2] ELSE f[n - 1][m]]
    IN  f[Len(pairs)]
Add(z, pairs) ==
    LET f == Upserted(z.scores, pairs)
        new == Cardinality(DOMAIN f \ DOMAIN z.scores)
    IN  [zset |-> [scores |-> f, count |-> Count(z) + new], reply |-> new]

Incr(z, m, increment) ==
    LET next == (IF m \in DOMAIN z.scores THEN z.scores[m] ELSE 0) + increment
    IN  [zset |-> Add(z, <<<<m, next>>>>).zset, reply |-> FormatScore(next)]

Less(z, members) == Restrict(z.scores, DOMAIN z.scores \ members)
\* The rows f are left: none, or of that number when any went.
Left(z, f, count) ==
    IF count = 0 THEN NoZset
    ELSE IF f = z.scores THEN z ELSE [scores |-> f, count |-> count]

\* ZREM: what is left is the counter less the rows deleted, or counted when that was NULL.
RemoveMembers(z, members) ==
    LET n == Cardinality(members \cap DOMAIN z.scores)
        f == Less(z, members)
    IN  [zset |-> Left(z, f, IF z.count = Null THEN Cardinality(DOMAIN f) ELSE Max({0, z.count - n})),
         reply |-> n]

\* The ends of a range by rank: from the end when negative, then into the set; empty when the
\* start is behind the stop before that.
RankPage(seq, n, start, stop) ==
    LET s == IF start < 0 THEN Max({0, n + start}) ELSE start
        e == IF stop < 0 THEN Max({0, n + stop}) ELSE stop
    IN  IF n = 0 \/ s > e THEN <<>>
        ELSE Page(seq, Min({e, n - 1}) - Min({s, n - 1}) + 1, Min({s, n - 1}))

\* Two ranks from the front are not brought into the set.
RankPageAsc(seq, n, start, stop) ==
    CASE start >= 0 /\ stop >= 0 /\ start > stop  -> <<>>
      [] start >= 0 /\ stop >= 0 /\ start <= stop -> Page(seq, stop - start + 1, start)
      [] OTHER                                    -> RankPage(seq, n, start, stop)

RangeByRank(z, start, stop) ==
    Shown(z.scores, RankPageAsc(Ordered(z.scores), Count(z), start, stop))
RangeByRankReverse(z, start, stop) ==
    Shown(z.scores, RankPage(Reverse(Ordered(z.scores)), Count(z), start, stop))

Within(z, min, max) ==
    Ordered(Restrict(z.scores, {m \in DOMAIN z.scores : min <= z.scores[m] /\ z.scores[m] <= max}))
RangeByScore(z, min, max, limit, offset) == Shown(z.scores, Page(Within(z, min, max), limit, offset))
RangeByScoreReverse(z, max, min, limit, offset) ==
    Shown(z.scores, Page(Reverse(Within(z, min, max)), limit, offset))
CountByScore(z, min, max) == Len(Within(z, min, max))

\* Mutant: the member counts itself.
RankFromOne(z, m) ==
    IF m \in DOMAIN z.scores THEN 1 + Cardinality({o \in DOMAIN z.scores : Before(z.scores, o, m)})
                             ELSE -1
\* The number of rows before the member; -1 stands for nil.
Rank(z, m) ==
    IF m \in DOMAIN z.scores THEN Cardinality({o \in DOMAIN z.scores : Before(z.scores, o, m)}) ELSE -1
RankReverse(z, m) ==
    IF m \in DOMAIN z.scores THEN Cardinality({o \in DOMAIN z.scores : Before(z.scores, m, o)}) ELSE -1

\* Both recount what is left.
RemoveRangeByRank(z, start, stop) ==
    LET gone == ToSet(RankPage(Ordered(z.scores), Count(z), start, stop))
        f == Less(z, gone)
    IN  [zset |-> Left(Hydrated(z), f, Cardinality(DOMAIN f)), reply |-> Cardinality(gone)]
RemoveRangeByScore(z, min, max) ==
    LET gone == ToSet(Within(z, min, max))
        f == Less(z, gone)
    IN  [zset |-> Left(z, f, Cardinality(DOMAIN f)), reply |-> Cardinality(gone)]

-----------------------------------------------------------------------------
(* Reads of a cached sorted set.                                           *)

MembersOf(entries) == [i \in DOMAIN entries |-> entries[i][1]]
CachedRange(entries, start, stop) ==
    LET n == Len(entries)
    IN  CASE start >= 0 /\ stop >= 0 /\ start > stop  -> <<>>
          [] start >= 0 /\ stop >= 0 /\ start <= stop -> SubSeq(entries, start + 1, Min({stop + 1, n}))
          [] OTHER                                    -> RankPage(entries, n, start, stop)
CachedRangeReverse(entries, start, stop) == RankPage(Reverse(entries), Len(entries), start, stop)

\* The scores compared are the formatted ones, read back.
CachedWithin(entries, min, max) ==
    Picked(entries, {i \in DOMAIN entries : min <= entries[i][2] /\ entries[i][2] <= max})
CachedRangeByScore(entries, min, max, limit, offset) ==
    Page(CachedWithin(entries, min, max), limit, offset)
CachedRangeByScoreReverse(entries, max, min, limit, offset) ==
    Page(Reverse(CachedWithin(entries, min, max)), limit, offset)
CachedRank(entries, m) ==
    LET at == {i \in DOMAIN entries : entries[i][1] = m}
    IN  IF at = {} THEN -1 ELSE Min(at) - 1
CachedRankReverse(entries, m) ==
    LET r == CachedRank(entries, m) IN IF r = -1 THEN -1 ELSE Len(entries) - r - 1
=============================================================================

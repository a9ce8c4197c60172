---------------------------- MODULE EngineProofs ----------------------------
(***************************************************************************)
(* TypeOK and CacheCoherent hold in every reachable state of Engine, and   *)
(* Engine implements Keyspace, for every set of keys, cells, expiries and  *)
(* every sweep limit.  The two invariants together are inductive.          *)
(***************************************************************************)
EXTENDS Engine, FiniteSetTheorems, TLAPS

Slots == [Keys -> Stored \cup {Nothing}]

IInv == TypeOK /\ CacheCoherent

-----------------------------------------------------------------------------
(* Entries.                                                                *)

\* The stored entries are the entries of the right shape: a string entry and a nonempty
\* collection entry are stored entries, and no stored entry is Nothing.
LEMMA StoredFacts ==
    /\ \A p \in Payloads, x \in Expiries : StringEntry(p, x) \in Stored
    /\ \A t \in CollTypes, d \in (SUBSET Cells) \ {{}}, x \in Expiries :
          CollEntry(t, d, x) \in Stored
    /\ \A e \in Stored : e # Nothing /\ e.type # "none" /\ e.exp \in Expiries
    /\ Nothing.type = "none" /\ Nothing.exp = NoExp
    /\ \A e \in Stored \cup {Nothing} : e.exp \in Expiries
<1>1. \A p \in Payloads, x \in Expiries : StringEntry(p, x) \in Stored
  BY EntriesAssumption DEF StringEntry, Stored, Payloads, Text, Expiries
<1>2. \A t \in CollTypes, d \in (SUBSET Cells) \ {{}}, x \in Expiries :
          CollEntry(t, d, x) \in Stored
  BY EntriesAssumption DEF CollEntry, Stored, Expiries
<1>3. \A e \in Stored : e # Nothing /\ e.type # "none" /\ e.exp \in Expiries
  BY EntriesAssumption DEF Stored, Nothing
<1>4. Nothing.type = "none" /\ Nothing.exp = NoExp
  BY DEF Nothing
<1>5. \A e \in Stored \cup {Nothing} : e.exp \in Expiries
  BY <1>3, <1>4 DEF Expiries
<1>. QED  BY <1>1, <1>2, <1>3, <1>4, <1>5

\* An expiry once passed stays passed.
LEMMA ExpiredStays ==
    ASSUME NEW e \in Stored \cup {Nothing}, NEW t \in Nat, Expired(e, t)
    PROVE  Expired(e, t + 1)
BY StoredFacts DEF Expired, Expiries, NoExp

\* A stored entry with another expiry is a stored entry.
LEMMA StoredWithExpiry ==
    ASSUME NEW e \in Stored, NEW x \in Expiries
    PROVE  [e EXCEPT !.exp = x] \in Stored
BY DEF Stored

\* A collection whose cells are reduced to a nonempty subset is a stored entry.
LEMMA StoredWithCells ==
    ASSUME NEW e \in Stored, e.type \in CollTypes, NEW d \in SUBSET e.data, d # {}
    PROVE  [e EXCEPT !.data = d] \in Stored
BY EntriesAssumption DEF Stored

-----------------------------------------------------------------------------
(* The ways a handler leaves rows and cache.                               *)

\* Nothing in the cache speaks for anything; an entry equal to its row does.
LEMMA AgreesNothing == \A r, t : Agrees(Nothing, r, t)
BY DEF Agrees

LEMMA AgreesSelf == \A r, t : Agrees(r, r, t)
BY DEF Agrees

\* An insertion into the LRU keeps a subset of entries that agree with their rows.
LEMMA InsertAgrees ==
    ASSUME NEW new \in Slots, Insert(new),
           \A k \in Keys : Agrees(new[k], rows'[k], now')
    PROVE  cache' \in Slots /\ CacheCoherent'
<1>1. PICK kept \in SUBSET Keys :
          cache' = [k \in Keys |-> IF k \in kept THEN new[k] ELSE Nothing]
  BY DEF Insert
<1>2. cache' \in Slots
  BY <1>1 DEF Slots
<1>3. ASSUME NEW k \in Keys PROVE Agrees(cache'[k], rows'[k], now')
  BY <1>1, <1>3, AgreesNothing
<1>. QED  BY <1>2, <1>3 DEF CacheCoherent

\* Lazy expiration of any keys keeps the invariant.
LEMMA TouchKeeps ==
    ASSUME IInv, NEW ks, Touch(ks)
    PROVE  IInv'
<1>. USE DEF IInv, TypeOK
<1>1. rows' = TouchRows(ks) /\ cache' = TouchCache(ks) /\ now' = now
  BY DEF Touch
<1>2. rows' \in Slots /\ cache' \in Slots
  BY <1>1 DEF TouchRows, TouchCache, LiveRow, Slots
<1>3. ASSUME NEW k \in Keys PROVE Agrees(cache'[k], rows'[k], now')
  <2>1. Agrees(cache[k], rows[k], now)
    BY DEF CacheCoherent
  <2>2. rows'[k] = (IF k \in ks /\ Dead(rows[k]) THEN Nothing ELSE rows[k])
    BY <1>1 DEF TouchRows, LiveRow
  <2>3. cache'[k] = (IF k \in ks /\ Dead(rows[k]) THEN Nothing ELSE cache[k])
    BY <1>1 DEF TouchCache
  <2>. QED  BY <1>1, <2>1, <2>2, <2>3, AgreesNothing
<1>. QED  BY <1>1, <1>2, <1>3 DEF CacheCoherent, Slots

\* A write that changes the rows of ks and invalidates their entries keeps the invariant.
LEMMA InvalidateKeeps ==
    ASSUME IInv, NEW ks, rows' \in Slots,
           \A k \in Keys \ ks : rows'[k] = rows[k],
           cache' = Invalidated(ks), now' = now
    PROVE  IInv'
<1>. USE DEF IInv, TypeOK
<1>1. cache' \in Slots
  BY DEF Invalidated, Slots
<1>2. ASSUME NEW k \in Keys PROVE Agrees(cache'[k], rows'[k], now')
  <2>1. Agrees(cache[k], rows[k], now)
    BY DEF CacheCoherent
  <2>2. cache'[k] = (IF k \in ks THEN Nothing ELSE cache[k])
    BY DEF Invalidated
  <2>. QED  BY <2>1, <2>2, AgreesNothing
<1>. QED  BY <1>1, <1>2 DEF CacheCoherent, Slots

-----------------------------------------------------------------------------
(* Reads.                                                                  *)

\* What a typed read leaves of a key's row and entry: the row and entry as they were, or
\* neither; and what it inserts is the live row.
LEMMA ReadLeaves ==
    ASSUME IInv, NEW k \in Keys, NEW t
    PROVE  /\ ReadRow(k, t) \in Stored \cup {Nothing}
           /\ ReadCache(k, t) \in Stored \cup {Nothing}
           /\ Agrees(ReadCache(k, t), ReadRow(k, t), now)
           /\ LiveRow(k) \in Stored \cup {Nothing}
           /\ Populates(k, t) => ReadRow(k, t) = LiveRow(k)
<1>. USE DEF IInv, TypeOK
<1>1. Agrees(cache[k], rows[k], now)
  BY DEF CacheCoherent
<1>2. rows[k] \in Stored \cup {Nothing} /\ cache[k] \in Stored \cup {Nothing}
  OBVIOUS
<1>3. CASE Hit(k, t)
  BY <1>1, <1>2, <1>3, AgreesNothing
  DEF ReadRow, ReadCache, LiveRow, Populates, HitDeletesRow, Hit
<1>4. CASE ~Hit(k, t)
  BY <1>1, <1>2, <1>4, AgreesNothing
  DEF ReadRow, ReadCache, LiveRow, Populates, HitDeletesRow
<1>. QED  BY <1>3, <1>4

LEMMA ReadPartKeeps ==
    ASSUME IInv, NEW k \in Keys, NEW t, ReadPart(k, t)
    PROVE  IInv'
<1>. USE DEF IInv, TypeOK
<1>1. /\ rows' = [rows EXCEPT ![k] = ReadRow(k, t)]
      /\ cache' = [cache EXCEPT ![k] = ReadCache(k, t)]
      /\ now' = now
  BY DEF ReadPart
<1>2. rows' \in Slots /\ cache' \in Slots
  BY <1>1, ReadLeaves DEF Slots
<1>3. ASSUME NEW j \in Keys PROVE Agrees(cache'[j], rows'[j], now')
  BY <1>1, ReadLeaves DEF CacheCoherent
<1>. QED  BY <1>1, <1>2, <1>3 DEF CacheCoherent, Slots

LEMMA ReadWholeKeeps ==
    ASSUME IInv, NEW k \in Keys, NEW t, ReadWhole(k, t)
    PROVE  IInv'
<1>. USE DEF IInv, TypeOK
<1>1. CASE ~Populates(k, t)
  <2>. ReadPart(k, t)
    BY <1>1 DEF ReadWhole, ReadPart
  <2>. QED  BY ReadPartKeeps
<1>2. CASE Populates(k, t)
  <2>. DEFINE new == [cache EXCEPT ![k] = LiveRow(k)]
  <2>1. rows' = [rows EXCEPT ![k] = ReadRow(k, t)] /\ Insert(new) /\ now' = now
    BY <1>2 DEF ReadWhole
  <2>2. new \in Slots /\ rows' \in Slots
    BY <2>1, ReadLeaves DEF Slots
  <2>3. ASSUME NEW j \in Keys PROVE Agrees(new[j], rows'[j], now')
    BY <1>2, <2>1, ReadLeaves, AgreesSelf DEF CacheCoherent
  <2>. HIDE DEF new
  <2>4. cache' \in Slots /\ CacheCoherent'
    BY <2>1, <2>2, <2>3, InsertAgrees
  <2>. QED  BY <2>1, <2>2, <2>4 DEF Slots
<1>. QED  BY <1>1, <1>2

LEMMA MGetKeeps ==
    ASSUME IInv, NEW ks \in SUBSET Keys, MGet(ks)
    PROVE  IInv'
<1>. USE DEF IInv, TypeOK
<1>. DEFINE filled == {k \in ks : Populates(k, "string")}
            after == [k \in Keys |-> IF k \in filled THEN LiveRow(k)
                                     ELSE IF k \in ks THEN ReadCache(k, "string") ELSE cache[k]]
<1>1. /\ rows' = [k \in Keys |-> IF k \in ks THEN ReadRow(k, "string") ELSE rows[k]]
      /\ IF filled = {} THEN cache' = after ELSE Insert(after)
      /\ now' = now
  BY DEF MGet
<1>2. rows' \in Slots /\ after \in Slots
  BY <1>1, ReadLeaves DEF Slots
<1>3. ASSUME NEW k \in Keys PROVE Agrees(after[k], rows'[k], now')
  <2>1. CASE k \in filled
    BY <1>1, <2>1, ReadLeaves, AgreesSelf
  <2>2. CASE k \in ks \ filled
    BY <1>1, <2>2, ReadLeaves
  <2>3. CASE k \notin ks
    BY <1>1, <2>3 DEF CacheCoherent
  <2>. QED  BY <2>1, <2>2, <2>3
<1>. HIDE DEF after, filled
<1>4. CASE filled = {}
  BY <1>1, <1>2, <1>3, <1>4 DEF CacheCoherent, Slots
<1>5. CASE filled # {}
  <2>1. cache' \in Slots /\ CacheCoherent'
    BY <1>1, <1>2, <1>3, <1>5, InsertAgrees
  <2>. QED  BY <1>1, <1>2, <2>1 DEF Slots
<1>. QED  BY <1>4, <1>5

-----------------------------------------------------------------------------
(* String writes.                                                          *)

\* A row of a string, with any payload and any expiry the code computes.
LEMMA SetKeeps ==
    ASSUME IInv, NEW k \in Keys, NEW p \in Payloads, NEW x \in Expiries, Set(k, p, x)
    PROVE  IInv'
<1>. USE DEF IInv, TypeOK
<1>1. CASE LiveRow(k).type \notin {"none", "string"}
  BY <1>1, TouchKeeps DEF Set, Fails
<1>2. CASE LiveRow(k).type \in {"none", "string"}
  <2>. DEFINE new == [TouchCache({k}) EXCEPT ![k] = CachedString(k, p, x)]
  <2>1. rows' = [rows EXCEPT ![k] = StringEntry(p, x)] /\ Insert(new) /\ now' = now
    BY <1>2 DEF Set
  <2>2. StringEntry(p, x) \in Stored /\ CachedString(k, p, x) = StringEntry(p, x)
    BY StoredFacts DEF CachedString
  <2>3. rows' \in Slots /\ new \in Slots
    BY <2>1, <2>2 DEF Slots, TouchCache
  <2>4. ASSUME NEW j \in Keys PROVE Agrees(new[j], rows'[j], now')
    <3>1. CASE j = k
      BY <2>1, <2>2, <3>1, AgreesSelf DEF TouchCache
    <3>2. CASE j # k
      BY <2>1, <3>2 DEF CacheCoherent, TouchCache
    <3>. QED  BY <3>1, <3>2
  <2>. HIDE DEF new
  <2>5. cache' \in Slots /\ CacheCoherent'
    BY <2>1, <2>3, <2>4, InsertAgrees
  <2>. QED  BY <2>1, <2>3, <2>5 DEF Slots
<1>. QED  BY <1>1, <1>2

\* What MSET and MSETNX do when they write.
LEMMA PairsKeep ==
    ASSUME IInv, NEW f \in PairLists,
           rows' = WrittenTo(rows, f), Insert(WrittenTo(cache, f)), now' = now
    PROVE  IInv'
<1>. USE DEF IInv, TypeOK
<1>1. ASSUME NEW k \in Keys, k \in DOMAIN f PROVE StringEntry(f[k], NoExp) \in Stored
  BY <1>1, StoredFacts DEF PairLists, Expiries
<1>2. rows' \in Slots /\ WrittenTo(cache, f) \in Slots
  BY <1>1 DEF Slots, WrittenTo
<1>3. ASSUME NEW k \in Keys PROVE Agrees(WrittenTo(cache, f)[k], rows'[k], now')
  BY AgreesSelf DEF WrittenTo, CacheCoherent
<1>4. cache' \in Slots /\ CacheCoherent'
  BY <1>2, <1>3, InsertAgrees
<1>. QED  BY <1>2, <1>4 DEF Slots

LEMMA MSetKeeps ==
    ASSUME IInv, NEW f \in PairLists, MSet(f) \/ MSetNx(f)
    PROVE  IInv'
<1>1. CASE MSet(f)
  BY <1>1, TouchKeeps, PairsKeep DEF MSet, Fails
<1>2. CASE MSetNx(f)
  BY <1>2, TouchKeeps, PairsKeep DEF MSetNx, Fails
<1>. QED  BY <1>1, <1>2

LEMMA IncrByKeeps ==
    ASSUME IInv, NEW k \in Keys, NEW d, IncrBy(k, d)
    PROVE  IInv'
<1>. USE DEF IInv, TypeOK
<1>. DEFINE gone == HitDeletesRow(k, "string") \/ Dead(rows[k])
            row  == IF HitDeletesRow(k, "string") THEN Nothing ELSE LiveRow(k)
            purged == [cache EXCEPT ![k] = IF gone THEN Nothing ELSE @]
<1>1. row \in Stored \cup {Nothing} /\ (gone => row = Nothing) /\ (~gone => row = rows[k])
  BY DEF LiveRow
<1>2. CASE /\ rows' = [rows EXCEPT ![k] = row]
           /\ cache' = purged
           /\ now' = now
  <2>1. rows' \in Slots /\ cache' \in Slots
    BY <1>1, <1>2 DEF Slots
  <2>2. ASSUME NEW j \in Keys PROVE Agrees(cache'[j], rows'[j], now')
    BY <1>1, <1>2, AgreesNothing DEF CacheCoherent
  <2>. QED  BY <1>2, <2>1, <2>2 DEF Slots, CacheCoherent
<1>3. CASE \E n \in 0..MaxInt :
             /\ rows' = [rows EXCEPT ![k] = StringEntry(n, NoExp)]
             /\ Insert([cache EXCEPT ![k] = CachedString(k, n, NoExp)])
             /\ now' = now
  <2>1. PICK n \in 0..MaxInt :
             /\ rows' = [rows EXCEPT ![k] = StringEntry(n, NoExp)]
             /\ Insert([cache EXCEPT ![k] = CachedString(k, n, NoExp)])
             /\ now' = now
    BY <1>3
  <2>. DEFINE new == [cache EXCEPT ![k] = CachedString(k, n, NoExp)]
  <2>2. n \in Payloads /\ NoExp \in Expiries
    BY EntriesAssumption DEF Payloads, Text, Expiries
  <2>3. StringEntry(n, NoExp) \in Stored /\ CachedString(k, n, NoExp) = StringEntry(n, NoExp)
    BY <2>2, StoredFacts DEF CachedString
  <2>4. rows' \in Slots /\ new \in Slots
    BY <2>1, <2>3 DEF Slots
  <2>5. ASSUME NEW j \in Keys PROVE Agrees(new[j], rows'[j], now')
    BY <2>1, <2>3, AgreesSelf DEF CacheCoherent
  <2>. HIDE DEF new
  <2>6. cache' \in Slots /\ CacheCoherent'
    BY <2>1, <2>4, <2>5, InsertAgrees DEF new
  <2>. QED  BY <2>1, <2>4, <2>6 DEF Slots
<1>. QED  BY <1>2, <1>3 DEF IncrBy

-----------------------------------------------------------------------------
(* Key commands and collection writes.                                     *)

LEMMA DelKeeps ==
    ASSUME IInv, NEW ks \in SUBSET Keys, Del(ks)
    PROVE  IInv'
<1>1. rows' \in Slots /\ \A k \in Keys \ ks : rows'[k] = rows[k]
  BY DEF Del, Slots, IInv, TypeOK
<1>. QED  BY <1>1, InvalidateKeeps DEF Del

LEMMA SetExpiresKeeps ==
    ASSUME IInv, NEW k \in Keys, NEW x \in Expiries, SetExpires(k, x)
    PROVE  IInv'
<1>1. CASE ~Live(k)
  BY <1>1, TouchKeeps DEF SetExpires, Fails
<1>2. CASE Live(k)
  <2>1. rows[k] \in Stored /\ [rows[k] EXCEPT !.exp = x] \in Stored
    BY <1>2, StoredWithExpiry DEF Live, IInv, TypeOK
  <2>2. rows' = [rows EXCEPT ![k] = [rows[k] EXCEPT !.exp = x]]
    BY <1>2 DEF SetExpires
  <2>3. rows' \in Slots /\ \A j \in Keys \ {k} : rows'[j] = rows[j]
    BY <2>1, <2>2 DEF Slots, IInv, TypeOK
  <2>. QED  BY <1>2, <2>3, InvalidateKeeps DEF SetExpires
<1>. QED  BY <1>1, <1>2

LEMMA RenameKeeps ==
    ASSUME IInv, NEW k \in Keys, NEW nk \in Keys, Rename(k, nk)
    PROVE  IInv'
<1>1. CASE ~Live(k) \/ k = nk
  BY <1>1, TouchKeeps DEF Rename, Fails
<1>2. CASE Live(k) /\ k # nk
  <2>1. rows' \in Slots /\ \A j \in Keys \ {k, nk} : rows'[j] = rows[j]
    BY <1>2 DEF Rename, Slots, IInv, TypeOK
  <2>. QED  BY <1>2, <2>1, InvalidateKeeps DEF Rename
<1>. QED  BY <1>1, <1>2

LEMMA CollPutKeeps ==
    ASSUME IInv, NEW k \in Keys, NEW t \in CollTypes, NEW d \in SUBSET Cells, d # {},
           CollPut(k, t, d)
    PROVE  IInv'
<1>1. CASE LiveRow(k).type \notin {"none", t}
  BY <1>1, TouchKeeps DEF CollPut, Fails
<1>2. CASE LiveRow(k).type \in {"none", t}
  <2>1. LiveRow(k).exp \in Expiries
    BY StoredFacts DEF LiveRow, IInv, TypeOK
  <2>2. CollEntry(t, d, LiveRow(k).exp) \in Stored
    BY <2>1, StoredFacts
  <2>3. rows' \in Slots /\ \A j \in Keys \ {k} : rows'[j] = rows[j]
    BY <1>2, <2>2 DEF CollPut, Slots, IInv, TypeOK
  <2>. QED  BY <1>2, <2>3, InvalidateKeeps DEF CollPut
<1>. QED  BY <1>1, <1>2

LEMMA CollShrinkKeeps ==
    ASSUME IInv, NEW k \in Keys, NEW t \in CollTypes, NEW d, CollShrink(k, t, d)
    PROVE  IInv'
<1>1. CASE ~Live(k) \/ rows[k].type # t
  BY <1>1, TouchKeeps DEF CollShrink, Fails
<1>2. CASE Live(k) /\ rows[k].type = t
  <2>1. rows[k] \in Stored /\ d \subseteq rows[k].data
    BY <1>2 DEF Live, CollShrink, IInv, TypeOK
  <2>2. d # {} => [rows[k] EXCEPT !.data = d] \in Stored
    BY <1>2, <2>1, StoredWithCells
  <2>3. rows' = [rows EXCEPT ![k] = IF d = {} THEN Nothing ELSE [rows[k] EXCEPT !.data = d]]
    BY <1>2 DEF CollShrink, Shrunk
  <2>4. rows' \in Slots /\ \A j \in Keys \ {k} : rows'[j] = rows[j]
    BY <2>2, <2>3 DEF Slots, IInv, TypeOK
  <2>. QED  BY <1>2, <2>4, InvalidateKeeps DEF CollShrink
<1>. QED  BY <1>1, <1>2

LEMMA FlushDbKeeps ==
    ASSUME IInv, FlushDb
    PROVE  IInv'
BY AgreesNothing DEF FlushDb, IInv, TypeOK, CacheCoherent

-----------------------------------------------------------------------------
(* The sweeper and the clock.                                              *)

\* The sweeper takes rows without telling the cache: only rows that have expired, so the
\* entry, equal to the row, has expired too.
LEMMA SweepKeeps ==
    ASSUME IInv, Sweep
    PROVE  IInv'
<1>. USE DEF IInv, TypeOK
<1>1. PICK batch \in SUBSET Due :
          rows' = [k \in Keys |-> IF k \in batch THEN Nothing ELSE rows[k]]
  BY DEF Sweep
<1>2. cache' = cache /\ now' = now
  BY DEF Sweep
<1>3. rows' \in Slots
  BY <1>1 DEF Slots
<1>4. ASSUME NEW k \in Keys PROVE Agrees(cache'[k], rows'[k], now')
  <2>1. Agrees(cache[k], rows[k], now)
    BY DEF CacheCoherent
  <2>2. k \in batch => Expired(rows[k], now)
    BY DEF Due, Dead
  <2>. QED  BY <1>1, <1>2, <2>1, <2>2 DEF Agrees
<1>. QED  BY <1>2, <1>3, <1>4 DEF CacheCoherent, Slots

LEMMA TickKeeps ==
    ASSUME IInv, Tick
    PROVE  IInv'
<1>. USE DEF IInv, TypeOK
<1>1. rows' = rows /\ cache' = cache /\ now' = now + 1
  BY DEF Tick
<1>2. ASSUME NEW k \in Keys PROVE Agrees(cache[k], rows[k], now + 1)
  <2>1. Agrees(cache[k], rows[k], now)
    BY DEF CacheCoherent
  <2>2. Expired(cache[k], now) => Expired(cache[k], now + 1)
    BY ExpiredStays
  <2>. QED  BY <2>1, <2>2 DEF Agrees
<1>. QED  BY <1>1, <1>2 DEF CacheCoherent

-----------------------------------------------------------------------------

LEMMA InitIInv == Init => IInv
BY AgreesNothing DEF Init, IInv, TypeOK, CacheCoherent

LEMMA NextIInv == IInv /\ [Next]_vars => IInv'
<1>. SUFFICES ASSUME IInv, [Next]_vars PROVE IInv'
  OBVIOUS
<1>1. CASE Reads
  <2>1. ASSUME NEW k \in Keys, NEW t, ReadWhole(k, t) \/ ReadPart(k, t) PROVE IInv'
    BY <2>1, ReadWholeKeeps, ReadPartKeeps
  <2>2. ASSUME NEW ks \in KeyLists, MGet(ks) \/ Exists(ks) PROVE IInv'
    BY <2>2, MGetKeeps, TouchKeeps DEF KeyLists, Exists
  <2>3. ASSUME NEW k \in Keys, Type(k) \/ PTtl(k) PROVE IInv'
    BY <2>3, TouchKeeps DEF Type, PTtl
  <2>4. CASE DbSize \/ Scan
    BY <2>4 DEF DbSize, Scan, IInv, TypeOK, CacheCoherent
  <2>. QED  BY <1>1, <2>1, <2>2, <2>3, <2>4 DEF Reads
<1>2. CASE Writes
  <2>1. now \in Nat /\ NoExp \in Expiries /\ \A t \in TTLs : now + t \in Expiries
    BY EntriesAssumption DEF IInv, TypeOK, Expiries
  <2>2. SetExpiries \subseteq Expiries
    BY <2>1 DEF SetExpiries
  <2>3. ASSUME NEW k \in Keys, NEW p \in Payloads, NEW x \in SetExpiries, Set(k, p, x)
        PROVE  IInv'
    BY <2>2, <2>3, SetKeeps
  <2>4. ASSUME NEW f \in PairLists, MSet(f) \/ MSetNx(f) PROVE IInv'
    BY <2>4, MSetKeeps
  <2>5. ASSUME NEW k \in Keys, NEW d \in Deltas, IncrBy(k, d) PROVE IInv'
    BY <2>5, IncrByKeeps
  <2>6. ASSUME NEW ks \in KeyLists, Del(ks) PROVE IInv'
    BY <2>6, DelKeeps DEF KeyLists
  <2>7. ASSUME NEW k \in Keys, NEW t \in TTLs, Expire(k, t) PROVE IInv'
    BY <2>1, <2>7, SetExpiresKeeps DEF Expire
  <2>8. ASSUME NEW k \in Keys, Persist(k) PROVE IInv'
    BY <2>1, <2>8, SetExpiresKeeps DEF Persist
  <2>9. ASSUME NEW k \in Keys, NEW nk \in Keys, Rename(k, nk) PROVE IInv'
    BY <2>9, RenameKeeps
  <2>10. ASSUME NEW k \in Keys, NEW t \in CollTypes, NEW d \in SUBSET Cells,
                (d # {} /\ CollPut(k, t, d)) \/ CollShrink(k, t, d)
         PROVE  IInv'
    BY <2>10, CollPutKeeps, CollShrinkKeeps
  <2>11. CASE FlushDb
    BY <2>11, FlushDbKeeps
  <2>. QED  BY <1>2, <2>3, <2>4, <2>5, <2>6, <2>7, <2>8, <2>9, <2>10, <2>11 DEF Writes
<1>3. CASE Sweep
  BY <1>3, SweepKeeps
<1>4. CASE Tick
  BY <1>4, TickKeeps
<1>5. CASE UNCHANGED vars
  BY <1>5 DEF vars, IInv, TypeOK, CacheCoherent
<1>. QED  BY <1>1, <1>2, <1>3, <1>4, <1>5 DEF Next

\* In every reachable state each key has at most one row, of one logical type with contents
\* of that type, and the cache holds entries of the same kind (engine.js, keys.js).
THEOREM TypeCorrect == Spec => []TypeOK
<1>1. IInv => TypeOK
  BY DEF IInv
<1>. QED  BY <1>1, InitIInv, NextIInv, PTL DEF Spec

\* In every reachable state, whatever the LRU has dropped, whatever lazy expiration and the
\* sweeper have deleted, a cache entry equals its row, or has expired and its row is gone.
THEOREM CacheNeverContradictsRows == Spec => []CacheCoherent
<1>1. IInv => CacheCoherent
  BY DEF IInv
<1>. QED  BY <1>1, InitIInv, NextIInv, PTL DEF Spec

-----------------------------------------------------------------------------
(* Engine implements Keyspace: each step of a handler over rows and cache  *)
(* is the command of Keyspace on the rows that have not expired, with the  *)
(* same reply; a sweep is a stutter.  The steps are taken from states of   *)
(* IInv: a reply from the cache is the reply from the row only because the *)
(* cache agrees with it.                                                   *)

\* The entry e as a client sees it at time t.
Alive(e, t) == IF Expired(e, t) THEN Nothing ELSE e

\* The state of Keyspace that a state of Engine stands for.
View == [k \in Keys |-> LiveRow(k)]

-----------------------------------------------------------------------------
(* Keyspace speaks of the same entries and replies as Engine.              *)

LEMMA SameEntries ==
    /\ Abs!Nothing = Nothing /\ Abs!NoExp = NoExp /\ Abs!Text = Text
    /\ Abs!Payloads = Payloads
    /\ \A p, x : Abs!StringEntry(p, x) = StringEntry(p, x)
    /\ \A t, d, x : Abs!CollEntry(t, d, x) = CollEntry(t, d, x)
    /\ \A e, t : Abs!Expired(e, t) = Expired(e, t)
<1>1. Abs!NoExp = NoExp /\ Abs!Text = Text
  BY DEF Abs!NoExp, NoExp, Abs!Text, Text
<1>2. Abs!Nothing = Nothing
  BY <1>1 DEF Abs!Nothing, Nothing
<1>3. Abs!Payloads = Payloads
  BY <1>1 DEF Abs!Payloads, Payloads
<1>4. \A p, x : Abs!StringEntry(p, x) = StringEntry(p, x)
  BY DEF Abs!StringEntry, StringEntry
<1>5. \A t, d, x : Abs!CollEntry(t, d, x) = CollEntry(t, d, x)
  BY DEF Abs!CollEntry, CollEntry
<1>6. \A e, t : Abs!Expired(e, t) = Expired(e, t)
  BY <1>1 DEF Abs!Expired, Expired
<1>. QED  BY <1>1, <1>2, <1>3, <1>4, <1>5, <1>6

LEMMA SameCount == \A S : Abs!Cardinality(S) = Cardinality(S)
BY DEF Abs!Cardinality, Cardinality

LEMMA SameReplies ==
    /\ Abs!Nil = Nil /\ Abs!Ok = Ok /\ Abs!WrongType = WrongType
    /\ Abs!NotAnInt = NotAnInt /\ Abs!NoSuchKey = NoSuchKey
    /\ \A n : Abs!Num(n) = Num(n)
    /\ \A e, t : Abs!ReplyOf(e, t) = ReplyOf(e, t)
<1>1. Abs!Nil = Nil /\ Abs!WrongType = WrongType
  BY DEF Abs!Nil, Nil, Abs!WrongType, WrongType
<1>2. Abs!NotAnInt = NotAnInt /\ Abs!NoSuchKey = NoSuchKey
  BY DEF Abs!NotAnInt, NotAnInt, Abs!NoSuchKey, NoSuchKey
<1>3. Abs!Ok = Ok /\ \A n : Abs!Num(n) = Num(n)
  BY DEF Abs!Ok, Ok, Abs!Num, Num
<1>4. \A d : Abs!Data(d) = Data(d)
  BY DEF Abs!Data, Data
<1>5. \A e, t : Abs!ReplyOf(e, t) = ReplyOf(e, t)
  BY <1>1, <1>4, SameEntries DEF Abs!ReplyOf, ReplyOf
<1>. QED  BY <1>1, <1>2, <1>3, <1>5

-----------------------------------------------------------------------------
(* The view.                                                               *)

\* The view shows each row unless it has expired; Nothing never expires.
LEMMA ViewShows ==
    /\ \A k : LiveRow(k) = Alive(rows[k], now)
    /\ \A k : Live(k) <=> LiveRow(k) # Nothing
    /\ \A t : Alive(Nothing, t) = Nothing
<1>1. \A t : ~Expired(Nothing, t)
  BY DEF Expired, Nothing
<1>. QED  BY <1>1 DEF LiveRow, Alive, Dead, Live

\* Deleting rows that have expired does not show.
LEMMA ViewStays ==
    ASSUME now' = now,
           \A k \in Keys : rows'[k] = rows[k] \/ rows'[k] = LiveRow(k)
    PROVE  View' = View
<1>1. ASSUME NEW k \in Keys PROVE LiveRow(k)' = LiveRow(k)
  <2>1. LiveRow(k)' = Alive(rows'[k], now)
    BY DEF LiveRow, Alive, Dead
  <2>2. LiveRow(k) = Alive(rows[k], now) /\ Alive(Nothing, now) = Nothing
    BY ViewShows
  <2>. QED  BY <2>1, <2>2 DEF Alive
<1>. QED  BY <1>1 DEF View

\* The view after a write is s when each row is what s says of its key, and due if s says nothing.
LEMMA ViewBecomes ==
    ASSUME NEW s, s = [k \in Keys |-> s[k]], now' = now,
           \A k \in Keys : Alive(rows'[k], now) = s[k]
    PROVE  View' = s
<1>1. ASSUME NEW k \in Keys PROVE LiveRow(k)' = s[k]
  BY DEF LiveRow, Alive, Dead
<1>2. View' = [k \in Keys |-> s[k]]
  BY <1>1 DEF View
<1>. QED  BY <1>2

\* A view is unchanged by Touch.
LEMMA TouchStays ==
    ASSUME NEW ks, Touch(ks)
    PROVE  View' = View /\ now' = now
<1>1. rows' = TouchRows(ks) /\ now' = now
  BY DEF Touch
<1>2. \A k \in Keys : rows'[k] = rows[k] \/ rows'[k] = LiveRow(k)
  BY <1>1 DEF TouchRows
<1>. QED  BY <1>1, <1>2, ViewStays

\* A typed read answers from the live row and leaves it, whether or not it hits the cache.
LEMMA ReadAnswers ==
    ASSUME IInv, NEW k \in Keys, NEW t \in CollTypes \cup {"string"}
    PROVE  /\ ReadFrom(k, t) = LiveRow(k)
           /\ ReadRow(k, t) = rows[k] \/ ReadRow(k, t) = LiveRow(k)
<1>1. Agrees(cache[k], rows[k], now)
  BY DEF IInv, CacheCoherent
<1>2. CASE ~Hit(k, t)
  BY <1>2 DEF ReadFrom, ReadRow
<1>3. CASE Hit(k, t)
  <2>1. cache[k] # Nothing
    BY <1>3, EntriesAssumption DEF Hit, Nothing
  <2>2. CASE cache[k] = rows[k]
    BY <1>3, <2>2 DEF ReadFrom, ReadRow, LiveRow, Dead
  <2>3. CASE rows[k] = Nothing /\ Dead(cache[k])
    BY <1>3, <2>3, ViewShows DEF ReadFrom, ReadRow, LiveRow, Dead
  <2>. QED  BY <1>1, <2>1, <2>2, <2>3 DEF Agrees, Dead
<1>. QED  BY <1>2, <1>3

-----------------------------------------------------------------------------
(* Reads.                                                                  *)

LEMMA ReadImplements ==
    ASSUME IInv, NEW k \in Keys, NEW t \in CollTypes \cup {"string"},
           ReadWhole(k, t) \/ ReadPart(k, t)
    PROVE  Abs!Read(k, t)
<1>1. /\ rows' = [rows EXCEPT ![k] = ReadRow(k, t)]
      /\ reply' = ReplyOf(ReadFrom(k, t), t)
      /\ now' = now
  BY DEF ReadWhole, ReadPart
<1>2. rows \in Slots
  BY DEF IInv, TypeOK, Slots
<1>3. \A j \in Keys : rows'[j] = rows[j] \/ rows'[j] = LiveRow(j)
  BY <1>1, <1>2, ReadAnswers DEF Slots
<1>4. View' = View
  BY <1>1, <1>3, ViewStays
<1>5. reply' = ReplyOf(View[k], t)
  BY <1>1, ReadAnswers DEF View
<1>. QED  BY <1>1, <1>4, <1>5, SameReplies DEF Abs!Read, Abs!Replies, View

\* What the handlers that only purge expired rows leave to show: their reply.
LEMMA TouchReplies ==
    ASSUME NEW ks, Touch(ks), NEW r, reply' = r
    PROVE  Abs!Replies(r)
BY TouchStays DEF Abs!Replies, View

\* The keys that exist are those of the live rows.
LEMMA LiveOfShows ==
    ASSUME NEW ks \in SUBSET Keys
    PROVE  Abs!LiveOf(ks) = {k \in ks : Live(k)}
BY ViewShows, SameEntries DEF Abs!LiveOf

LEMMA MGetImplements ==
    ASSUME IInv, NEW ks \in SUBSET Keys, MGet(ks)
    PROVE  Abs!MGet(ks)
<1>. DEFINE found == {k \in ks : ReadFrom(k, "string").type = "string"}
            values == {<<k, ReadFrom(k, "string").data>> : k \in found}
<1>1. /\ rows' = [k \in Keys |-> IF k \in ks THEN ReadRow(k, "string") ELSE rows[k]]
      /\ reply' = <<"array", values>>
      /\ now' = now
  BY DEF MGet
<1>2. \A k \in Keys : rows'[k] = rows[k] \/ rows'[k] = LiveRow(k)
  BY <1>1, ReadAnswers
<1>3. View' = View
  BY <1>1, <1>2, ViewStays
<1>4. \A k \in ks : ReadFrom(k, "string") = View[k]
  BY ReadAnswers DEF View
<1>5. found = Abs!StringsOf(ks)
  BY <1>4 DEF Abs!StringsOf, View
<1>6. found \subseteq ks
  OBVIOUS
<1>. HIDE DEF found
<1>7. values = {<<k, View[k].data>> : k \in found}
  BY <1>4, <1>6
<1>. QED  BY <1>1, <1>3, <1>5, <1>7 DEF Abs!MGet, Abs!Replies, View

LEMMA ExistsImplements ==
    ASSUME NEW ks \in SUBSET Keys, Exists(ks)
    PROVE  Abs!Exists(ks)
<1>1. Touch(ks) /\ reply' = Num(Cardinality(Abs!LiveOf(ks)))
  BY LiveOfShows DEF Exists
<1>. QED  BY <1>1, TouchReplies, SameReplies, SameCount DEF Abs!Exists

LEMMA TypeImplements ==
    ASSUME NEW k \in Keys, Type(k)
    PROVE  Abs!Type(k)
<1>1. Touch({k}) /\ reply' = <<View[k].type, {}>>
  BY DEF Type, View
<1>. QED  BY <1>1, TouchReplies DEF Abs!Type, View

LEMMA PTtlImplements ==
    ASSUME NEW k \in Keys, PTtl(k)
    PROVE  Abs!PTtl(k)
<1>. DEFINE left(e) == Num(IF e = Nothing THEN -2
                           ELSE IF e.exp = NoExp THEN -1 ELSE e.exp - now)
<1>1. Touch({k})
  BY DEF PTtl
<1>2. reply' = left(View[k])
  <2>1. CASE ~Live(k)
    BY <2>1, ViewShows DEF PTtl, View
  <2>2. CASE Live(k)
    <3>1. View[k] = rows[k] /\ rows[k] # Nothing
      BY <2>2, ViewShows DEF View, Live, LiveRow
    <3>. QED  BY <2>2, <3>1 DEF PTtl
  <2>. QED  BY <2>1, <2>2
<1>3. Abs!Replies(left(View[k]))
  BY <1>1, <1>2, TouchReplies
<1>. QED  BY <1>3, SameReplies, SameEntries DEF Abs!PTtl, View

LEMMA DbSizeImplements ==
    ASSUME DbSize
    PROVE  Abs!DbSize
<1>1. reply' = Num(Cardinality(Abs!LiveOf(Keys)))
  BY LiveOfShows DEF DbSize
<1>2. View' = View /\ now' = now
  BY ViewStays DEF DbSize
<1>. QED  BY <1>1, <1>2, SameReplies, SameCount DEF Abs!DbSize, Abs!Replies, View

LEMMA ScanImplements ==
    ASSUME Scan
    PROVE  Abs!Scan
<1>. DEFINE listed == {k \in Keys : rows[k] # Nothing}
<1>1. listed = Abs!LiveOf(Keys) \cup listed
  BY LiveOfShows DEF Live
<1>2. View' = View /\ now' = now
  BY ViewStays DEF Scan
<1>3. reply' = <<"keys", Abs!LiveOf(Keys) \cup listed>>
  BY <1>1 DEF Scan
<1>4. Abs!Replies(<<"keys", Abs!LiveOf(Keys) \cup listed>>)
  BY <1>2, <1>3 DEF Abs!Replies, View
<1>. HIDE DEF listed
<1>5. listed \in SUBSET Keys
  BY DEF listed
<1>. QED  BY <1>4, <1>5 DEF Abs!Scan

-----------------------------------------------------------------------------
(* Writes.                                                                 *)

\* The expiries that SET writes are not due yet, nor is a key without one.
LEMMA NotDueYet ==
    ASSUME IInv, NEW x \in SetExpiries
    PROVE  x = NoExp \/ ~(x <= now)
BY EntriesAssumption DEF IInv, TypeOK, SetExpiries

\* An entry without an expiry, or with one that is not due, is alive.
LEMMA AliveEntry ==
    ASSUME NEW e, e.exp = NoExp \/ ~(e.exp <= now)
    PROVE  Alive(e, now) = e
BY DEF Alive, Expired

\* A handler that fails purges what it looked at and replies.
LEMMA FailsReplies ==
    ASSUME NEW ks, NEW r, Fails(ks, r)
    PROVE  Abs!Replies(r)
BY TouchReplies DEF Fails

\* One row written, the others as they were: the view changes there and only there.
LEMMA WriteShows ==
    ASSUME IInv, NEW k \in Keys, NEW e, now' = now, rows' = [rows EXCEPT ![k] = e]
    PROVE  View' = [View EXCEPT ![k] = Alive(e, now)]
<1>. DEFINE s == [View EXCEPT ![k] = Alive(e, now)]
<1>1. rows \in Slots
  BY DEF IInv, TypeOK, Slots
<1>2. s = [j \in Keys |-> s[j]]
  BY DEF View
<1>3. \A j \in Keys : Alive(rows'[j], now) = s[j]
  BY <1>1, ViewShows DEF View, Slots
<1>. HIDE DEF s
<1>. QED  BY <1>2, <1>3, ViewBecomes DEF s

LEMMA SetImplements ==
    ASSUME IInv, NEW k \in Keys, NEW p \in Payloads, NEW x \in SetExpiries, Set(k, p, x)
    PROVE  Abs!Set(k, p, x)
<1>1. View[k] = LiveRow(k)
  BY DEF View
<1>2. CASE LiveRow(k).type \notin {"none", "string"}
  <2>1. Abs!Replies(WrongType)
    BY <1>2, FailsReplies DEF Set
  <2>. QED  BY <1>1, <1>2, <2>1, SameReplies DEF Abs!Set, View
<1>3. CASE LiveRow(k).type \in {"none", "string"}
  <2>1. rows' = [rows EXCEPT ![k] = StringEntry(p, x)] /\ now' = now /\ reply' = Ok
    BY <1>3 DEF Set
  <2>2. Alive(StringEntry(p, x), now) = StringEntry(p, x)
    BY NotDueYet, AliveEntry DEF StringEntry
  <2>3. View' = [View EXCEPT ![k] = StringEntry(p, x)]
    BY <2>1, <2>2, WriteShows
  <2>. QED  BY <1>1, <1>3, <2>1, <2>3, SameReplies, SameEntries DEF Abs!Set, Abs!Becomes, View
<1>. QED  BY <1>2, <1>3

\* What MSET and MSETNX write shows as written.
LEMMA PairsShow ==
    ASSUME IInv, NEW f \in PairLists, rows' = WrittenTo(rows, f), now' = now
    PROVE  View' = Abs!Written(f)
<1>. DEFINE s == [k \in Keys |-> IF k \in DOMAIN f THEN StringEntry(f[k], NoExp) ELSE View[k]]
<1>1. \A p : Alive(StringEntry(p, NoExp), now) = StringEntry(p, NoExp)
  BY AliveEntry DEF StringEntry
<1>2. \A k \in Keys : Alive(rows'[k], now) = s[k]
  BY <1>1, ViewShows DEF WrittenTo, View
<1>3. s = [k \in Keys |-> s[k]]
  OBVIOUS
<1>4. s = Abs!Written(f)
  BY SameEntries DEF Abs!Written, View
<1>. HIDE DEF s
<1>. QED  BY <1>2, <1>3, <1>4, ViewBecomes

LEMMA MSetImplements ==
    ASSUME IInv, NEW f \in PairLists, MSet(f)
    PROVE  Abs!MSet(f)
<1>1. DOMAIN f \subseteq Keys
  BY DEF PairLists
<1>2. \A k \in DOMAIN f : View[k] = LiveRow(k)
  BY <1>1 DEF View
<1>3. CASE \E k \in DOMAIN f : LiveRow(k).type \notin {"none", "string"}
  <2>1. Abs!Replies(WrongType)
    BY <1>3, FailsReplies DEF MSet
  <2>2. ~ \A k \in DOMAIN f : View[k].type \in {"none", "string"}
    BY <1>2, <1>3
  <2>. QED  BY <2>1, <2>2, SameReplies DEF Abs!MSet, View
<1>4. CASE ~ \E k \in DOMAIN f : LiveRow(k).type \notin {"none", "string"}
  <2>1. rows' = WrittenTo(rows, f) /\ now' = now /\ reply' = Ok
    BY <1>4 DEF MSet
  <2>2. \A k \in DOMAIN f : View[k].type \in {"none", "string"}
    BY <1>2, <1>4
  <2>3. View' = Abs!Written(f)
    BY <2>1, PairsShow
  <2>. QED  BY <2>1, <2>2, <2>3, SameReplies DEF Abs!MSet, Abs!Becomes, View
<1>. QED  BY <1>3, <1>4

LEMMA MSetNxImplements ==
    ASSUME IInv, NEW f \in PairLists, MSetNx(f)
    PROVE  Abs!MSetNx(f)
<1>1. DOMAIN f \in SUBSET Keys
  BY DEF PairLists
<1>2. Abs!LiveOf(DOMAIN f) = {k \in DOMAIN f : Live(k)}
  BY <1>1, LiveOfShows
<1>3. CASE \E k \in DOMAIN f : Live(k)
  <2>1. Abs!Replies(Num(0))
    BY <1>3, FailsReplies DEF MSetNx
  <2>. QED  BY <1>2, <1>3, <2>1, SameReplies DEF Abs!MSetNx
<1>4. CASE ~ \E k \in DOMAIN f : Live(k)
  <2>1. rows' = WrittenTo(rows, f) /\ now' = now /\ reply' = Num(1)
    BY <1>4 DEF MSetNx
  <2>2. Abs!LiveOf(DOMAIN f) = {}
    BY <1>2, <1>4
  <2>3. View' = Abs!Written(f)
    BY <2>1, PairsShow
  <2>. QED  BY <2>1, <2>2, <2>3, SameReplies DEF Abs!MSetNx, Abs!Becomes, View
<1>. QED  BY <1>3, <1>4

\* The number that the contents s of a string row parse as.
Parsed(s) == CHOOSE p \in Payloads : s = {p}

\* _incrBy takes its number from the entry when there is one and its metadata from the row:
\* both are what the client sees of the key.
LEMMA IncrByImplements ==
    ASSUME IInv, NEW k \in Keys, NEW d \in Deltas, IncrBy(k, d)
    PROVE  Abs!IncrBy(k, d)
<1>. DEFINE row  == IF HitDeletesRow(k, "string") THEN Nothing ELSE LiveRow(k)
            text == IF Hit(k, "string") /\ ~Dead(cache[k]) THEN cache[k].data ELSE row.data
            n == (IF row = Nothing THEN 0 ELSE Parsed(text)) + d
            purge(r) == /\ rows' = [rows EXCEPT ![k] = row]
                        /\ reply' = r
                        /\ now' = now
            write == /\ n \in 0..MaxInt
                     /\ rows' = [rows EXCEPT ![k] = StringEntry(n, NoExp)]
                     /\ reply' = Num(n)
                     /\ now' = now
<1>1. IF row.type \notin {"none", "string"} THEN purge(WrongType)
      ELSE IF row # Nothing /\ text = {Text} THEN purge(NotAnInt)
      ELSE write
  BY DEF IncrBy, Parsed
<1>2. View[k] = LiveRow(k) /\ ReadFrom(k, "string") = LiveRow(k)
  BY ReadAnswers DEF View
<1>3. row = View[k] /\ text = View[k].data
  BY <1>2 DEF ReadFrom, HitDeletesRow
<1>4. ASSUME NEW r, purge(r) PROVE Abs!Replies(r)
  <2>1. rows \in Slots
    BY DEF IInv, TypeOK, Slots
  <2>2. \A j \in Keys : rows'[j] = rows[j] \/ rows'[j] = LiveRow(j)
    BY <1>2, <1>3, <1>4, <2>1 DEF Slots
  <2>3. View' = View
    BY <1>4, <2>2, ViewStays
  <2>. QED  BY <1>4, <2>3 DEF Abs!Replies, View
<1>5. ASSUME write
      PROVE  n \in 0..MaxInt /\ Abs!Becomes([View EXCEPT ![k] = StringEntry(n, NoExp)], Num(n))
  <2>. HIDE DEF n
  <2>1. Alive(StringEntry(n, NoExp), now) = StringEntry(n, NoExp)
    BY AliveEntry DEF StringEntry
  <2>2. View' = [View EXCEPT ![k] = StringEntry(n, NoExp)]
    BY <1>5, <2>1, WriteShows
  <2>. QED  BY <1>5, <2>2 DEF Abs!Becomes, View
<1>6. Nothing.data # {Text}
  BY DEF Nothing
<1>7. n = (IF View[k] = Nothing THEN 0 ELSE Parsed(View[k].data)) + d
  <2>. HIDE DEF row, text
  <2>. QED  BY <1>3
<1>. HIDE DEF row, text, n, purge, write
<1>8. IF View[k].type \notin {"none", "string"} THEN Abs!Replies(WrongType)
      ELSE IF View[k].data = {Text} THEN Abs!Replies(NotAnInt)
      ELSE n \in 0..MaxInt /\ Abs!Becomes([View EXCEPT ![k] = StringEntry(n, NoExp)], Num(n))
  BY <1>1, <1>3, <1>4, <1>5, <1>6
<1>. DEFINE m == (IF View[k] = Nothing THEN 0
                  ELSE CHOOSE p \in Payloads : View[k].data = {p}) + d
<1>9. n = m
  BY <1>7 DEF Parsed
<1>. HIDE DEF m
<1>10. IF View[k].type \notin {"none", "string"} THEN Abs!Replies(Abs!WrongType)
       ELSE IF View[k].data = {Abs!Text} THEN Abs!Replies(Abs!NotAnInt)
       ELSE m \in 0..MaxInt
            /\ Abs!Becomes([View EXCEPT ![k] = Abs!StringEntry(m, Abs!NoExp)], Abs!Num(m))
  BY <1>8, <1>9, SameEntries, SameReplies
<1>. QED  BY <1>10, SameEntries DEF Abs!IncrBy, View, m

\* DEL counts the expired rows it finds too: between the keys that exist and the keys named.
LEMMA DelImplements ==
    ASSUME IInv, NEW ks \in SUBSET Keys, Del(ks)
    PROVE  Abs!Del(ks)
<1>. DEFINE counted == {k \in ks : rows[k] # Nothing}
            s == [k \in Keys |-> IF k \in ks THEN Nothing ELSE View[k]]
<1>1. reply' = Num(Cardinality(counted)) /\ now' = now
  BY DEF Del
<1>2. \A k \in Keys : Alive(rows'[k], now) = s[k]
  BY ViewShows DEF Del, View
<1>3. View' = s
  <2>1. s = [k \in Keys |-> s[k]]
    OBVIOUS
  <2>. HIDE DEF s
  <2>. QED  BY <1>1, <1>2, <2>1, ViewBecomes
<1>4. s = [k \in Keys |-> IF k \in ks THEN Abs!Nothing ELSE View[k]]
  BY SameEntries
<1>5. Abs!LiveOf(ks) \subseteq counted /\ counted \subseteq ks
  BY LiveOfShows DEF Live
<1>. HIDE DEF counted, s
<1>6. IsFiniteSet(ks) /\ IsFiniteSet(counted)
  BY <1>5, EntriesAssumption, FS_Subset
<1>7. /\ Cardinality(Abs!LiveOf(ks)) <= Cardinality(counted)
      /\ Cardinality(counted) <= Cardinality(ks)
  BY <1>5, <1>6, FS_Subset
<1>8. /\ Cardinality(counted) \in Nat /\ Cardinality(ks) \in Nat
      /\ Cardinality(Abs!LiveOf(ks)) \in Nat
  BY <1>5, <1>6, FS_Subset, FS_CardinalityType
<1>9. Cardinality(counted) \in Cardinality(Abs!LiveOf(ks))..Cardinality(ks)
  BY <1>7, <1>8
<1>10. Abs!Becomes(s, Abs!Num(Cardinality(counted)))
  BY <1>1, <1>3, SameReplies DEF Abs!Becomes, View
<1>. DEFINE t == [k \in Keys |-> IF k \in ks THEN Abs!Nothing ELSE View[k]]
            c == Cardinality(counted)
<1>11. s = t
  BY <1>4
<1>12. c \in Abs!Cardinality(Abs!LiveOf(ks))..Abs!Cardinality(ks) /\ Abs!Becomes(t, Abs!Num(c))
  BY <1>9, <1>10, <1>11, SameCount
<1>. HIDE DEF c
<1>. QED  BY <1>12 DEF Abs!Del, View

\* EXPIRE with a time to live of 0 and a deadline that is now: the key is gone at once.
LEMMA ExpireImplements ==
    ASSUME IInv, NEW k \in Keys, NEW t \in TTLs, Expire(k, t)
    PROVE  Abs!Expire(k, t)
<1>1. CASE ~Live(k)
  <2>1. View[k] = Nothing
    BY <1>1, ViewShows DEF View
  <2>2. Abs!Replies(Num(0))
    BY <1>1, FailsReplies DEF Expire, SetExpires
  <2>. QED  BY <2>1, <2>2, SameReplies, SameEntries DEF Abs!Expire, View
<1>2. CASE Live(k)
  <2>. DEFINE e == [rows[k] EXCEPT !.exp = now + t]
  <2>1. rows' = [rows EXCEPT ![k] = e] /\ now' = now /\ reply' = Num(1)
    BY <1>2 DEF Expire, SetExpires
  <2>2. View[k] = rows[k] /\ rows[k] # Nothing /\ rows[k] \in Stored
    BY <1>2 DEF View, Live, LiveRow, IInv, TypeOK
  <2>3. e.exp = now + t
    BY <2>2 DEF Stored
  <2>4. now \in Nat /\ t \in Nat
    BY EntriesAssumption DEF IInv, TypeOK
  <2>5. Alive(e, now) = IF t = 0 THEN Nothing ELSE e
    <3>. HIDE DEF e
    <3>. QED  BY <2>3, <2>4 DEF Alive, Expired, NoExp
  <2>6. View' = [View EXCEPT ![k] = IF t = 0 THEN Nothing ELSE e]
    <3>. HIDE DEF e
    <3>. QED  BY <2>1, <2>5, WriteShows
  <2>7. View' = [View EXCEPT ![k] = IF t = 0 THEN Nothing ELSE [@ EXCEPT !.exp = now + t]]
    BY <2>2, <2>6
  <2>. QED  BY <2>1, <2>2, <2>7, SameReplies, SameEntries DEF Abs!Expire, Abs!Becomes, View
<1>. QED  BY <1>1, <1>2

LEMMA PersistImplements ==
    ASSUME IInv, NEW k \in Keys, Persist(k)
    PROVE  Abs!Persist(k)
<1>1. CASE ~Live(k)
  <2>1. View[k] = Nothing
    BY <1>1, ViewShows DEF View
  <2>2. Abs!Replies(Num(0))
    BY <1>1, FailsReplies DEF Persist, SetExpires
  <2>. QED  BY <2>1, <2>2, SameReplies, SameEntries DEF Abs!Persist, View
<1>2. CASE Live(k)
  <2>. DEFINE e == [rows[k] EXCEPT !.exp = NoExp]
  <2>1. rows' = [rows EXCEPT ![k] = e] /\ now' = now /\ reply' = Num(1)
    BY <1>2 DEF Persist, SetExpires
  <2>2. View[k] = rows[k] /\ rows[k] # Nothing /\ rows[k] \in Stored
    BY <1>2 DEF View, Live, LiveRow, IInv, TypeOK
  <2>3. e.exp = NoExp
    BY <2>2 DEF Stored
  <2>4. Alive(e, now) = e
    <3>. HIDE DEF e
    <3>. QED  BY <2>3, AliveEntry
  <2>5. View' = [View EXCEPT ![k] = e]
    <3>. HIDE DEF e
    <3>. QED  BY <2>1, <2>4, WriteShows
  <2>6. View' = [View EXCEPT ![k].exp = NoExp]
    BY <2>2, <2>5
  <2>. QED  BY <2>1, <2>2, <2>6, SameReplies, SameEntries DEF Abs!Persist, Abs!Becomes, View
<1>. QED  BY <1>1, <1>2

LEMMA RenameImplements ==
    ASSUME IInv, NEW k \in Keys, NEW nk \in Keys, Rename(k, nk)
    PROVE  Abs!Rename(k, nk)
<1>1. CASE ~Live(k)
  <2>1. View[k] = Nothing
    BY <1>1, ViewShows DEF View
  <2>2. Abs!Replies(NoSuchKey)
    BY <1>1, FailsReplies DEF Rename
  <2>. QED  BY <2>1, <2>2, SameReplies, SameEntries DEF Abs!Rename, View
<1>2. CASE Live(k)
  <2>1. View[k] = rows[k] /\ rows[k] # Nothing
    BY <1>2 DEF View, Live, LiveRow
  <2>2. CASE k = nk
    <3>1. Abs!Replies(Ok)
      BY <1>2, <2>2, FailsReplies DEF Rename
    <3>. QED  BY <2>1, <2>2, <3>1, SameReplies, SameEntries DEF Abs!Rename, View
  <2>3. CASE k # nk
    <3>. DEFINE s == [View EXCEPT ![nk] = View[k], ![k] = Nothing]
    <3>1. rows' = [rows EXCEPT ![nk] = rows[k], ![k] = Nothing] /\ now' = now /\ reply' = Ok
      BY <1>2, <2>3 DEF Rename
    <3>2. rows \in Slots /\ Alive(rows[k], now) = rows[k] /\ Alive(Nothing, now) = Nothing
      BY <1>2, ViewShows DEF IInv, TypeOK, Slots, Live, Alive, Dead
    <3>3. s = [j \in Keys |-> s[j]]
      BY DEF View
    <3>4. \A j \in Keys : Alive(rows'[j], now) = s[j]
      BY <2>1, <2>3, <3>1, <3>2, ViewShows DEF View, Slots
    <3>5. View' = s
      <4>. HIDE DEF s
      <4>. QED  BY <3>1, <3>3, <3>4, ViewBecomes
    <3>. QED
      BY <2>1, <2>3, <3>1, <3>5, SameReplies, SameEntries DEF Abs!Rename, Abs!Becomes, View
  <2>. QED  BY <2>2, <2>3
<1>. QED  BY <1>1, <1>2

LEMMA FlushDbImplements ==
    ASSUME FlushDb
    PROVE  Abs!FlushDb
<1>. DEFINE s == [k \in Keys |-> Nothing]
<1>1. rows' = s /\ now' = now /\ reply' = Ok
  BY DEF FlushDb
<1>2. \A k \in Keys : Alive(rows'[k], now) = s[k]
  BY <1>1, ViewShows
<1>3. s = [k \in Keys |-> s[k]]
  OBVIOUS
<1>4. View' = s
  <2>. HIDE DEF s
  <2>. QED  BY <1>1, <1>2, <1>3, ViewBecomes
<1>. QED  BY <1>1, <1>4, SameReplies, SameEntries DEF Abs!FlushDb, Abs!Becomes, View

LEMMA CollPutImplements ==
    ASSUME IInv, NEW k \in Keys, NEW t \in CollTypes, NEW d \in SUBSET Cells, CollPut(k, t, d)
    PROVE  Abs!CollPut(k, t, d)
<1>1. View[k] = LiveRow(k)
  BY DEF View
<1>2. CASE LiveRow(k).type \notin {"none", t}
  <2>1. Abs!Replies(WrongType)
    BY <1>2, FailsReplies DEF CollPut
  <2>. QED  BY <1>1, <1>2, <2>1, SameReplies DEF Abs!CollPut, View
<1>3. CASE LiveRow(k).type \in {"none", t}
  <2>. DEFINE x == LiveRow(k).exp
  <2>1. rows' = [rows EXCEPT ![k] = CollEntry(t, d, x)] /\ now' = now /\ reply' = Ok
    BY <1>3 DEF CollPut
  <2>2. x = NoExp \/ ~(x <= now)
    BY DEF LiveRow, Dead, Expired, Nothing
  <2>3. Alive(CollEntry(t, d, x), now) = CollEntry(t, d, x)
    BY <2>2, AliveEntry DEF CollEntry
  <2>4. View' = [View EXCEPT ![k] = CollEntry(t, d, x)]
    <3>. HIDE DEF x
    <3>. QED  BY <2>1, <2>3, WriteShows
  <2>. QED  BY <1>1, <1>3, <2>1, <2>4, SameReplies, SameEntries
            DEF Abs!CollPut, Abs!Becomes, View
<1>. QED  BY <1>2, <1>3

LEMMA CollShrinkImplements ==
    ASSUME IInv, NEW k \in Keys, NEW t \in CollTypes, NEW d, CollShrink(k, t, d)
    PROVE  Abs!CollShrink(k, t, d)
<1>1. CASE ~Live(k)
  <2>1. View[k] = Nothing
    BY <1>1, ViewShows DEF View
  <2>2. Abs!Replies(Nil)
    BY <1>1, FailsReplies DEF CollShrink
  <2>. QED  BY <2>1, <2>2, SameReplies, SameEntries DEF Abs!CollShrink, View
<1>2. CASE Live(k)
  <2>1. View[k] = rows[k] /\ rows[k] # Nothing /\ rows[k] \in Stored
    BY <1>2 DEF View, Live, LiveRow, IInv, TypeOK
  <2>2. CASE rows[k].type # t
    <3>1. Abs!Replies(WrongType)
      BY <1>2, <2>2, FailsReplies DEF CollShrink
    <3>. QED  BY <2>1, <2>2, <3>1, SameReplies, SameEntries DEF Abs!CollShrink, View
  <2>3. CASE rows[k].type = t
    <3>. DEFINE e == Shrunk(rows[k], d)
    <3>1. /\ d \subseteq rows[k].data
          /\ rows' = [rows EXCEPT ![k] = e] /\ now' = now /\ reply' = Ok
      BY <1>2, <2>3 DEF CollShrink
    <3>2. e = Nothing \/ e.exp = rows[k].exp
      BY <2>1 DEF Shrunk, Stored
    <3>3. Alive(e, now) = e
      <4>. HIDE DEF e
      <4>. QED  BY <1>2, <3>2, ViewShows DEF Alive, Expired, Live, Dead
    <3>4. View' = [View EXCEPT ![k] = e]
      <4>. HIDE DEF e
      <4>. QED  BY <3>1, <3>3, WriteShows
    <3>5. View' = [View EXCEPT ![k] = IF d = {} THEN Nothing ELSE [@ EXCEPT !.data = d]]
      BY <2>1, <3>4 DEF Shrunk
    <3>. QED  BY <2>1, <2>3, <3>1, <3>5, SameReplies, SameEntries
              DEF Abs!CollShrink, Abs!Becomes, View
  <2>. QED  BY <2>2, <2>3
<1>. QED  BY <1>1, <1>2

-----------------------------------------------------------------------------
(* The sweeper and the clock.                                              *)

\* A sweep takes rows that have expired: clients see nothing of it.
LEMMA SweepStutters ==
    ASSUME Sweep
    PROVE  UNCHANGED Abs!kvars
<1>1. PICK batch \in SUBSET Due :
          rows' = [k \in Keys |-> IF k \in batch THEN Nothing ELSE rows[k]]
  BY DEF Sweep
<1>2. now' = now /\ reply' = reply
  BY DEF Sweep
<1>3. \A k \in Keys : rows'[k] = rows[k] \/ rows'[k] = LiveRow(k)
  BY <1>1 DEF Due, LiveRow
<1>4. View' = View
  BY <1>2, <1>3, ViewStays
<1>. QED  BY <1>2, <1>4 DEF Abs!kvars, View

\* When the clock ticks, the keys whose expiry it reaches vanish from the view, and those that
\* had vanished do not come back.
LEMMA TickImplements ==
    ASSUME IInv, Tick
    PROVE  Abs!Tick
<1>1. rows' = rows /\ now' = now + 1 /\ reply' = reply /\ now < MaxTime /\ now \in Nat
  BY DEF Tick, IInv, TypeOK
<1>2. ASSUME NEW k \in Keys
      PROVE  LiveRow(k)' = IF Expired(View[k], now + 1) THEN Nothing ELSE View[k]
  <2>1. LiveRow(k)' = IF Expired(rows[k], now + 1) THEN Nothing ELSE rows[k]
    BY <1>1 DEF LiveRow, Dead
  <2>2. CASE Expired(rows[k], now)
    <3>1. rows[k] \in Stored \cup {Nothing}
      BY DEF IInv, TypeOK
    <3>2. Expired(rows[k], now + 1)
      BY <1>1, <2>2, <3>1, ExpiredStays
    <3>3. View[k] = Nothing
      BY <2>2 DEF View, LiveRow, Dead
    <3>. QED  BY <2>1, <3>2, <3>3
  <2>3. CASE ~Expired(rows[k], now)
    <3>1. View[k] = rows[k]
      BY <2>3 DEF View, LiveRow, Dead
    <3>. QED  BY <2>1, <3>1
  <2>. QED  BY <2>2, <2>3
<1>3. View' = [k \in Keys |-> IF Expired(View[k], now + 1) THEN Nothing ELSE View[k]]
  BY <1>2 DEF View
<1>4. View' = [k \in Keys |-> IF Abs!Expired(View[k], now') THEN Abs!Nothing ELSE View[k]]
  BY <1>1, <1>3, SameEntries
<1>. QED  BY <1>1, <1>4 DEF Abs!Tick, View

-----------------------------------------------------------------------------

LEMMA InitImplements == Init => Abs!Init
<1>. SUFFICES ASSUME Init PROVE Abs!Init
  OBVIOUS
<1>1. now = 0 /\ reply = Abs!Nil
  BY SameReplies DEF Init
<1>2. View = [k \in Keys |-> Abs!Nothing]
  BY SameEntries DEF Init, View, LiveRow
<1>. QED  BY <1>1, <1>2 DEF Abs!Init, View

\* From a state of IInv every step of the engine is a step of Keyspace, or is not seen there.
LEMMA NextImplements == IInv /\ [Next]_vars => [Abs!Next]_Abs!kvars
<1>. SUFFICES ASSUME IInv, [Next]_vars PROVE [Abs!Next]_Abs!kvars
  OBVIOUS
<1>0. /\ Abs!SetExpiries = SetExpiries /\ Abs!PairLists = PairLists
      /\ Abs!KeyLists = KeyLists /\ Abs!Payloads = Payloads
  BY SameEntries DEF Abs!SetExpiries, SetExpiries, Abs!PairLists, PairLists,
                     Abs!KeyLists, KeyLists
<1>1. CASE Reads
  <2>1. ASSUME NEW k \in Keys, NEW t \in CollTypes \cup {"string"},
               ReadWhole(k, t) \/ ReadPart(k, t)
        PROVE  Abs!Next
    BY <2>1, ReadImplements DEF Abs!Next
  <2>2. ASSUME NEW ks \in KeyLists, MGet(ks) \/ Exists(ks) PROVE Abs!Next
    <3>1. Abs!MGet(ks) \/ Abs!Exists(ks)
      BY <2>2, MGetImplements, ExistsImplements DEF KeyLists
    <3>. QED  BY <1>0, <3>1 DEF Abs!Next
  <2>3. ASSUME NEW k \in Keys, Type(k) \/ PTtl(k) PROVE Abs!Next
    BY <2>3, TypeImplements, PTtlImplements DEF Abs!Next
  <2>4. CASE DbSize \/ Scan
    BY <2>4, DbSizeImplements, ScanImplements DEF Abs!Next
  <2>. QED  BY <1>1, <2>1, <2>2, <2>3, <2>4 DEF Reads
<1>2. CASE Writes
  <2>1. ASSUME NEW k \in Keys, NEW p \in Payloads, NEW x \in SetExpiries, Set(k, p, x)
        PROVE  Abs!Next
    <3>1. Abs!Set(k, p, x)
      BY <2>1, SetImplements
    <3>. QED  BY <1>0, <3>1 DEF Abs!Next
  <2>2. ASSUME NEW f \in PairLists, MSet(f) \/ MSetNx(f) PROVE Abs!Next
    <3>1. Abs!MSet(f) \/ Abs!MSetNx(f)
      BY <2>2, MSetImplements, MSetNxImplements
    <3>. QED  BY <1>0, <3>1 DEF Abs!Next
  <2>3. ASSUME NEW k \in Keys, NEW d \in Deltas, IncrBy(k, d) PROVE Abs!Next
    BY <2>3, IncrByImplements DEF Abs!Next
  <2>4. ASSUME NEW ks \in KeyLists, Del(ks) PROVE Abs!Next
    <3>1. Abs!Del(ks)
      BY <2>4, DelImplements DEF KeyLists
    <3>. QED  BY <1>0, <3>1 DEF Abs!Next
  <2>5. ASSUME NEW k \in Keys, NEW t \in TTLs, Expire(k, t) PROVE Abs!Next
    BY <2>5, ExpireImplements DEF Abs!Next
  <2>6. ASSUME NEW k \in Keys, Persist(k) PROVE Abs!Next
    BY <2>6, PersistImplements DEF Abs!Next
  <2>7. ASSUME NEW k \in Keys, NEW nk \in Keys, Rename(k, nk) PROVE Abs!Next
    BY <2>7, RenameImplements DEF Abs!Next
  <2>8. ASSUME NEW k \in Keys, NEW t \in CollTypes, NEW d \in SUBSET Cells,
               (d # {} /\ CollPut(k, t, d)) \/ CollShrink(k, t, d)
        PROVE  Abs!Next
    <3>1. (d # {} /\ Abs!CollPut(k, t, d)) \/ Abs!CollShrink(k, t, d)
      BY <2>8, CollPutImplements, CollShrinkImplements
    <3>. QED  BY <3>1 DEF Abs!Next
  <2>9. CASE FlushDb
    BY <2>9, FlushDbImplements DEF Abs!Next
  <2>. QED  BY <1>2, <2>1, <2>2, <2>3, <2>4, <2>5, <2>6, <2>7, <2>8, <2>9 DEF Writes
<1>3. CASE Sweep
  BY <1>3, SweepStutters
<1>4. CASE Tick
  BY <1>4, TickImplements DEF Abs!Next
<1>5. CASE UNCHANGED vars
  <2>1. View' = View
    BY <1>5, ViewStays DEF vars
  <2>. QED  BY <1>5, <2>1 DEF vars, Abs!kvars, View
<1>. QED  BY <1>1, <1>2, <1>3, <1>4, <1>5 DEF Next

\* The engine implements the key space its clients are promised: whatever the cache holds or has
\* dropped, whatever lazy expiration and the sweeper have deleted, every command replies and
\* writes as it would on a map in which an expired key does not exist.
THEOREM EngineImplementsKeyspace == Spec => ImplementsKeyspace
<1>. QED  BY InitIInv, NextIInv, InitImplements, NextImplements, PTL
          DEF Spec, ImplementsKeyspace, Abs!Spec
=============================================================================

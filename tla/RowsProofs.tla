------------------------------ MODULE RowsProofs ------------------------------
(***************************************************************************)
(* Rows that expire, and walks over rows by offset.                        *)
(* The tables of Hashes agree and its reads are live in every reachable    *)
(* state, for any keys, fields and values, any clock and any sweep limit.  *)
(* The lemmas are about the helpers that the handlers are built from; each *)
(* says what a helper does to the rows and that the tables still agree.    *)
(* The second half is about Cursors: what a walk by offsets misses,        *)
(* repeats and removes, for any number of names, any pages and any changes *)
(* of the rows between two calls.                                          *)
(***************************************************************************)
EXTENDS Hashes, Cursors, FiniteSetTheorems, FunctionTheorems, NaturalsInduction, TLAPS

Meta == [exp : Expiries, count : Nat \cup {NoCount}]

\* Three tables of the right types: TypeOK's conjuncts about db, for any tables d.
Typed(d) ==
    /\ d = [meta |-> d.meta, cells |-> d.cells, ttls |-> d.ttls]
    /\ d.meta \in [DOMAIN d.meta -> Meta] /\ DOMAIN d.meta \subseteq Keys
    /\ d.cells \in [DOMAIN d.cells -> Values] /\ DOMAIN d.cells \subseteq Keys \X Fields
    /\ d.ttls \in [DOMAIN d.ttls -> Nat] /\ DOMAIN d.ttls \subseteq Keys \X Fields

\* TablesAgree, for any tables d.
Agree(d) ==
    /\ \A k \in DOMAIN d.meta :
         d.meta[k].count \in {NoCount, Cardinality(RowsOf(d, k))} /\ RowsOf(d, k) # {}
    /\ DOMAIN d.ttls \subseteq DOMAIN d.cells
    /\ \A x \in DOMAIN d.cells : x[1] \in DOMAIN d.meta

Good(d) == Typed(d) /\ Agree(d)

-----------------------------------------------------------------------------
(* Finite sets of fields.                                                  *)

\* A set of fields has a size.
LEMMA FieldsFinite ==
    ASSUME NEW S \in SUBSET Fields
    PROVE  /\ IsFiniteSet(S) /\ Cardinality(S) \in Nat
           /\ Cardinality(S) = 0 <=> S = {}
BY HashesAssumption, FS_Subset, FS_CardinalityType, FS_EmptySet

\* Sizes add up over disjoint sets of fields.
LEMMA SizesAdd ==
    ASSUME NEW A \in SUBSET Fields, NEW B \in SUBSET Fields, A \cap B = {}
    PROVE  Cardinality(A \cup B) = Cardinality(A) + Cardinality(B)
<1>1. IsFiniteSet(A) /\ IsFiniteSet(B)  BY FieldsFinite
<1>2. Cardinality(A \cup B) = Cardinality(A) + Cardinality(B) - Cardinality(A \cap B)
  BY <1>1, FS_Union
<1>. QED  BY <1>2, FS_EmptySet, FieldsFinite

\* What is left of a set of fields when some of them go.
LEMMA SizesSubtract ==
    ASSUME NEW A \in SUBSET Fields, NEW B \in SUBSET A
    PROVE  Cardinality(A \ B) = Cardinality(A) - Cardinality(B)
<1>1. A = (A \ B) \cup B  OBVIOUS
<1>2. Cardinality(A) = Cardinality(A \ B) + Cardinality(B)  BY <1>1, SizesAdd
<1>. QED  BY <1>2, FieldsFinite

-----------------------------------------------------------------------------
(* The tables.                                                             *)

\* The rows of a key are fields.
LEMMA RowsAreFields == \A d, k : RowsOf(d, k) \in SUBSET Fields /\ TtlsOf(d, k) \in SUBSET Fields
BY DEF RowsOf, TtlsOf

\* Fields of a key are rows of the tables.
LEMMA RowIsPairs ==
    ASSUME NEW k \in Keys, NEW S \in SUBSET Fields
    PROVE  Row(k, S) \subseteq Keys \X Fields
BY DEF Row

\* The count a handler goes by is the number of rows.
LEMMA CountIsRows ==
    ASSUME NEW d, Good(d), NEW k \in DOMAIN d.meta
    PROVE  Count(d, k) = Cardinality(RowsOf(d, k))
BY DEF Good, Agree, Count

\* DELETE FROM redis_keys, with its cascade, leaves nothing of the key and all of the others.
LEMMA DeleteKeeps ==
    ASSUME NEW d, Good(d), NEW k \in Keys
    PROVE  /\ Good(DeleteKey(d, k))
           /\ DOMAIN DeleteKey(d, k).meta = DOMAIN d.meta \ {k}
           /\ \A j : RowsOf(DeleteKey(d, k), j) = IF j = k THEN {} ELSE RowsOf(d, j)
<1>. DEFINE e == DeleteKey(d, k)
<1>1. Typed(e)
  BY DEF Good, Typed, DeleteKey, Without
<1>2. \A j : RowsOf(e, j) = IF j = k THEN {} ELSE RowsOf(d, j)
  BY DEF DeleteKey, Without, RowsOf, Row
<1>3. DOMAIN e.meta = DOMAIN d.meta \ {k}
  BY DEF DeleteKey, Without
<1>4. \A j \in DOMAIN e.meta : e.meta[j] = d.meta[j]
  BY DEF DeleteKey, Without
<1>5. DOMAIN e.ttls \subseteq DOMAIN e.cells
  BY DEF Good, Agree, DeleteKey, Without
<1>6. ASSUME NEW x \in DOMAIN e.cells PROVE x[1] \in DOMAIN e.meta
  BY <1>6 DEF Good, Agree, Typed, DeleteKey, Without, Row
<1>7. Agree(e)
  BY <1>2, <1>3, <1>4, <1>5, <1>6 DEF Good, Agree
<1>. QED  BY <1>1, <1>2, <1>3, <1>7 DEF Good

\* Fields are deleted with their expiries, and the key with its last field.
LEMMA DropKeeps ==
    ASSUME NEW d, Good(d), NEW k \in DOMAIN d.meta, NEW fs \in SUBSET Fields
    PROVE  /\ Good(DropFields(d, k, fs))
           /\ \A j : RowsOf(DropFields(d, k, fs), j) =
                       IF j = k THEN RowsOf(d, k) \ fs ELSE RowsOf(d, j)
<1>. DEFINE gone == fs \cap RowsOf(d, k)
            left == Count(d, k) - Cardinality(gone)
            e == [meta  |-> [d.meta EXCEPT ![k].count = IF gone = {} THEN @ ELSE left],
                  cells |-> Without(d.cells, Row(k, gone)),
                  ttls  |-> Without(d.ttls, Row(k, fs))]
<1>0. k \in Keys  BY DEF Good, Typed
<1>1. left = Cardinality(RowsOf(d, k) \ fs)
  <2>1. gone \in SUBSET RowsOf(d, k) /\ RowsOf(d, k) \ fs = RowsOf(d, k) \ gone
    OBVIOUS
  <2>. QED  BY <2>1, CountIsRows, RowsAreFields, SizesSubtract
<1>2. left \in Nat /\ (left <= 0 <=> RowsOf(d, k) \ fs = {})
  <2>1. RowsOf(d, k) \ fs \in SUBSET Fields  BY RowsAreFields
  <2>. QED  BY <1>1, <2>1, FieldsFinite
<1>3. CASE left <= 0
  BY <1>0, <1>2, <1>3, DeleteKeeps DEF DropFields
<1>4. CASE ~(left <= 0)
  <2>1. DropFields(d, k, fs) = e
    BY <1>4 DEF DropFields
  <2>2. \A j : RowsOf(e, j) = IF j = k THEN RowsOf(d, k) \ fs ELSE RowsOf(d, j)
    BY DEF Without, RowsOf, Row
  <2>3. Typed(e)
    BY <1>2 DEF Good, Typed, Without, Meta
  <2>4. DOMAIN e.meta = DOMAIN d.meta
    OBVIOUS
  <2>5. ASSUME NEW j \in DOMAIN e.meta
        PROVE  e.meta[j].count \in {NoCount, Cardinality(RowsOf(e, j))} /\ RowsOf(e, j) # {}
    <3>1. CASE j = k
      <4>1. RowsOf(e, k) = RowsOf(d, k) \ fs /\ RowsOf(e, k) # {}  BY <2>2, <1>2, <1>4
      <4>2. CASE gone = {}
        BY <3>1, <4>1, <4>2 DEF Good, Typed, Agree, Meta
      <4>3. CASE gone # {}
        BY <3>1, <4>1, <4>3, <1>1 DEF Good, Typed, Meta
      <4>. QED  BY <4>2, <4>3
    <3>2. CASE j # k
      BY <3>2, <2>2, <2>4, <2>5 DEF Good, Typed, Agree
    <3>. QED  BY <3>1, <3>2
  <2>6. DOMAIN e.ttls \subseteq DOMAIN e.cells
    BY DEF Good, Agree, Without, Row
  <2>7. \A x \in DOMAIN e.cells : x[1] \in DOMAIN e.meta
    BY <2>4 DEF Good, Agree, Without
  <2>8. Agree(e)
    BY <2>5, <2>6, <2>7 DEF Agree
  <2>. QED  BY <2>1, <2>2, <2>3, <2>8 DEF Good
<1>. QED  BY <1>3, <1>4, <1>2

\* Fields that are due are the only ones expiring takes.
LEMMA ExpireKeeps ==
    ASSUME NEW d, Good(d), NEW k \in DOMAIN d.meta, NEW fs \in SUBSET Fields
    PROVE  /\ Good(ExpireFields(d, k, fs))
           /\ \A j : RowsOf(ExpireFields(d, k, fs), j) =
                       IF j = k THEN RowsOf(d, k) \ (fs \cap FieldsDue(d, k)) ELSE RowsOf(d, j)
<1>1. CASE fs \cap FieldsDue(d, k) = {}
  BY <1>1 DEF ExpireFields
<1>2. CASE fs \cap FieldsDue(d, k) # {}
  BY <1>2, DropKeeps DEF ExpireFields
<1>. QED  BY <1>1, <1>2

\* A due field has a row, so writing it again is no growth: the rows grow by the fields written
\* that have none.
LEMMA GrowthIsNewRows ==
    ASSUME NEW d, Good(d), NEW k \in Keys, NEW fs \in SUBSET Fields
    PROVE  Growth(d, k, fs) = Cardinality(fs \ RowsOf(d, k))
<1>. DEFINE new == fs \ RowsOf(d, k)
            due == fs \cap FieldsDue(d, k)
<1>1. FieldsDue(d, k) \subseteq RowsOf(d, k)
  BY DEF Good, Agree, FieldsDue, TtlsOf, RowsOf
<1>2. Cardinality(new \cup due) = Cardinality(new) + Cardinality(due)
  <2>1. new \in SUBSET Fields /\ due \in SUBSET Fields /\ new \cap due = {}
    BY <1>1
  <2>. QED  BY <2>1, SizesAdd
<1>3. Growth(d, k, fs) = Cardinality(new \cup due) - Cardinality(due)
  BY DEF Growth
<1>. QED  BY <1>2, <1>3, FieldsFinite

\* Expiries can go without the rows.
LEMMA WithoutTtlsKeeps ==
    ASSUME NEW d, Good(d), NEW X
    PROVE  /\ Good([d EXCEPT !.ttls = Without(@, X)])
           /\ \A j : RowsOf([d EXCEPT !.ttls = Without(@, X)], j) = RowsOf(d, j)
<1>. DEFINE e == [d EXCEPT !.ttls = Without(@, X)]
<1>1. e.meta = d.meta /\ e.cells = d.cells /\ e.ttls = Without(d.ttls, X)
  BY DEF Good, Typed
<1>2. e = [meta |-> e.meta, cells |-> e.cells, ttls |-> e.ttls]
  BY DEF Good, Typed
<1>3. \A j : RowsOf(e, j) = RowsOf(d, j)
  BY <1>1 DEF RowsOf
<1>4. Typed(e)
  BY <1>1, <1>2 DEF Good, Typed, Without
<1>5. Agree(e)
  BY <1>1, <1>3 DEF Good, Agree, Without
<1>. QED  BY <1>3, <1>4, <1>5 DEF Good

\* An upsert that adds the number of new fields to the count keeps the count.
LEMMA UpsertKeeps ==
    ASSUME NEW d, Good(d), NEW k \in Keys, NEW fs \in SUBSET Fields, fs # {},
           NEW g \in [fs -> Values], NEW n, n = Cardinality(fs \ RowsOf(d, k))
    PROVE  /\ Good(Upsert(d, k, g, n))
           /\ \A j : RowsOf(Upsert(d, k, g, n), j) =
                       IF j = k THEN RowsOf(d, k) \cup fs ELSE RowsOf(d, j)
<1>. DEFINE e == Upsert(d, k, g, n)
            M == [j \in DOMAIN d.meta \cup {k} |->
                    IF j # k THEN d.meta[j]
                    ELSE IF k \in DOMAIN d.meta THEN [d.meta[k] EXCEPT !.count = Count(d, k) + n]
                    ELSE [exp |-> NoExp, count |-> n]]
            C == [x \in DOMAIN d.cells \cup Row(k, fs) |->
                    IF x \in Row(k, fs) THEN g[x[2]] ELSE d.cells[x]]
            stored == RowsOf(d, k)
<1>1. e = [meta |-> M, cells |-> C, ttls |-> d.ttls]
  <2>1. e = [d EXCEPT !.meta = M, !.cells = C]
    BY DOMAIN g = fs DEF Upsert
  <2>. HIDE DEF M, C, e
  <2>2. d = [meta |-> d.meta, cells |-> d.cells, ttls |-> d.ttls]
    BY DEF Good, Typed
  <2>. QED  BY <2>1, <2>2
<1>. HIDE DEF e
<1>2. \A j : RowsOf(e, j) = IF j = k THEN stored \cup fs ELSE RowsOf(d, j)
  <2>1. DOMAIN C = DOMAIN d.cells \cup Row(k, fs)
    OBVIOUS
  <2>2. e.cells = C
    BY <1>1
  <2>. HIDE DEF C
  <2>. QED  BY <2>1, <2>2 DEF RowsOf, Row
<1>3. n \in Nat
  BY FieldsFinite
<1>4. k \in DOMAIN d.meta => Count(d, k) + n = Cardinality(stored \cup fs)
  <2>1. stored \cup (fs \ stored) = stored \cup fs /\ stored \cap (fs \ stored) = {}
    OBVIOUS
  <2>2. Cardinality(stored \cup fs) = Cardinality(stored) + n
    BY <2>1, SizesAdd, RowsAreFields
  <2>. QED  BY <2>2, CountIsRows
<1>5. k \notin DOMAIN d.meta => stored = {}
  BY DEF Good, Agree, RowsOf
<1>6. M[k].count = Cardinality(stored \cup fs) /\ Cardinality(stored \cup fs) \in Nat
  <2>1. stored \cup fs \in SUBSET Fields  BY RowsAreFields
  <2>2. CASE k \in DOMAIN d.meta
    BY <2>1, <2>2, <1>4, FieldsFinite DEF Good, Typed, Meta
  <2>3. CASE k \notin DOMAIN d.meta
    BY <2>1, <2>3, <1>5, FieldsFinite
  <2>. QED  BY <2>2, <2>3
<1>7. Typed(e)
  <2>1. M \in [DOMAIN M -> Meta] /\ DOMAIN M \subseteq Keys
    BY <1>3, <1>6 DEF Good, Typed, Meta, Expiries, NoExp
  <2>2. C \in [DOMAIN C -> Values] /\ DOMAIN C \subseteq Keys \X Fields
    BY DEF Good, Typed, Row
  <2>. HIDE DEF M, C
  <2>. QED  BY <1>1, <2>1, <2>2 DEF Good, Typed
<1>8. ASSUME NEW j \in DOMAIN M
      PROVE  M[j].count \in {NoCount, Cardinality(RowsOf(e, j))} /\ RowsOf(e, j) # {}
  <2>1. CASE j = k
    BY <2>1, <1>2, <1>6
  <2>2. CASE j # k
    BY <2>2, <1>2, <1>8 DEF Good, Agree
  <2>. QED  BY <2>1, <2>2
<1>9. DOMAIN d.ttls \subseteq DOMAIN C
  BY DEF Good, Agree
<1>10. \A x \in DOMAIN C : x[1] \in DOMAIN M
  BY DEF Good, Agree, Row
<1>11. Agree(e)
  <2>. HIDE DEF M, C
  <2>. QED  BY <1>1, <1>8, <1>9, <1>10 DEF Agree
<1>. QED  BY <1>2, <1>7, <1>11 DEF Good, e

\* HEXPIRE's write: an expiry for each of S.
WithTtls(d, k, S, x) ==
    [d EXCEPT !.ttls = [y \in DOMAIN d.ttls \cup Row(k, S) |->
                          IF y \in Row(k, S) THEN x ELSE d.ttls[y]]]

\* Expiries can be set on fields that are there.
LEMMA SetTtlsKeeps ==
    ASSUME NEW d, Good(d), NEW k \in Keys, NEW S \in SUBSET RowsOf(d, k), NEW x \in Nat
    PROVE  /\ Good(WithTtls(d, k, S, x))
           /\ \A j : RowsOf(WithTtls(d, k, S, x), j) = RowsOf(d, j)
<1>. DEFINE T == [y \in DOMAIN d.ttls \cup Row(k, S) |-> IF y \in Row(k, S) THEN x ELSE d.ttls[y]]
            e == [d EXCEPT !.ttls = T]
<1>0. WithTtls(d, k, S, x) = e
  BY DEF WithTtls
<1>1. Row(k, S) \subseteq DOMAIN d.cells
  BY DEF RowsOf, Row
<1>2. T \in [DOMAIN T -> Nat] /\ DOMAIN T \subseteq DOMAIN d.cells
  BY <1>1 DEF Good, Typed, Agree
<1>. HIDE DEF T
<1>3. e.meta = d.meta /\ e.cells = d.cells /\ e.ttls = T
  BY DEF Good, Typed
<1>4. e = [meta |-> e.meta, cells |-> e.cells, ttls |-> e.ttls]
  BY DEF Good, Typed
<1>. HIDE DEF e
<1>5. \A j : RowsOf(e, j) = RowsOf(d, j)
  BY <1>3 DEF RowsOf
<1>6. Typed(e)
  BY <1>2, <1>3, <1>4 DEF Good, Typed
<1>7. Agree(e)
  BY <1>2, <1>3, <1>5 DEF Good, Agree
<1>. QED  BY <1>0, <1>5, <1>6, <1>7 DEF Good

\* copyKey onto a name that is free takes the rows and their number.
LEMMA CopiedKeeps ==
    ASSUME NEW d, Good(d), NEW k \in DOMAIN d.meta, NEW nk \in Keys \ DOMAIN d.meta
    PROVE  /\ Good(Copied(d, k, nk))
           /\ \A j : RowsOf(Copied(d, k, nk), j) = IF j = nk THEN RowsOf(d, k) ELSE RowsOf(d, j)
<1>. DEFINE e == Copied(d, k, nk)
            M == [j \in DOMAIN d.meta \cup {nk} |->
                    IF j = nk THEN [d.meta[k] EXCEPT !.count = Count(d, k)] ELSE d.meta[j]]
            C == [x \in DOMAIN d.cells \cup Row(nk, RowsOf(d, k)) |->
                    IF x[1] = nk THEN d.cells[<<k, x[2]>>] ELSE d.cells[x]]
<1>1. e = [meta |-> M, cells |-> C, ttls |-> d.ttls]
  BY DEF Copied
<1>2. \A f : <<nk, f>> \notin DOMAIN d.cells
  BY DEF Good, Agree
<1>3. DOMAIN C = DOMAIN d.cells \cup Row(nk, RowsOf(d, k))
  OBVIOUS
<1>4. C \in [DOMAIN C -> Values] /\ DOMAIN C \subseteq Keys \X Fields
  <2>1. DOMAIN C \subseteq Keys \X Fields
    <3>1. Row(nk, RowsOf(d, k)) \subseteq Keys \X Fields  BY RowIsPairs, RowsAreFields
    <3>. QED  BY <1>3, <3>1 DEF Good, Typed
  <2>2. ASSUME NEW x \in DOMAIN C PROVE C[x] \in Values
    <3>1. x = <<x[1], x[2]>>  BY <2>1
    <3>2. CASE x[1] = nk
      <4>1. x[2] \in RowsOf(d, k)  BY <1>2, <3>1, <3>2 DEF Row
      <4>2. C[x] = d.cells[<<k, x[2]>>]  BY <3>2
      <4>. QED  BY <4>1, <4>2 DEF Good, Typed, RowsOf
    <3>3. CASE x[1] # nk
      <4>1. x \in DOMAIN d.cells  BY <3>3 DEF Row
      <4>. QED  BY <3>3, <4>1 DEF Good, Typed
    <3>. QED  BY <3>2, <3>3
  <2>. QED  BY <2>1, <2>2
<1>5. Count(d, k) = Cardinality(RowsOf(d, k)) /\ Count(d, k) \in Nat
  BY CountIsRows, RowsAreFields, FieldsFinite
<1>6. M \in [DOMAIN M -> Meta] /\ DOMAIN M \subseteq Keys
  BY <1>5 DEF Good, Typed, Meta
<1>. HIDE DEF e, C
<1>7. \A j : RowsOf(e, j) = IF j = nk THEN RowsOf(d, k) ELSE RowsOf(d, j)
  <2>1. e.cells = C  BY <1>1
  <2>. QED  BY <1>2, <1>3, <2>1 DEF RowsOf, Row
<1>8. \A j \in DOMAIN M :
        M[j].count \in {NoCount, Cardinality(RowsOf(e, j))} /\ RowsOf(e, j) # {}
  BY <1>5, <1>7 DEF Good, Typed, Meta, Agree
<1>9. DOMAIN d.ttls \subseteq DOMAIN C /\ (\A x \in DOMAIN C : x[1] \in DOMAIN M)
  BY <1>3 DEF Good, Agree, Row
<1>. HIDE DEF M
<1>10. e.meta = M /\ e.cells = C /\ e.ttls = d.ttls /\ e = [meta |-> e.meta, cells |-> e.cells, ttls |-> e.ttls]
  BY <1>1
<1>11. Typed(e)
  BY <1>4, <1>6, <1>10 DEF Good, Typed
<1>12. Agree(e)
  BY <1>8, <1>9, <1>10 DEF Agree
<1>. QED  BY <1>7, <1>11, <1>12 DEF Good, e

\* The sweeper's first statement: keys go with their fields.
LEMMA SweptKeysKeeps ==
    ASSUME NEW d, Good(d), NEW B \in SUBSET DOMAIN d.meta
    PROVE  /\ Good(SweptKeys(d, B))
           /\ \A j : RowsOf(SweptKeys(d, B), j) = IF j \in B THEN {} ELSE RowsOf(d, j)
<1>. DEFINE e == SweptKeys(d, B)
<1>1. e.meta = Without(d.meta, B) /\ e.cells = Without(d.cells, B \X Fields)
      /\ e.ttls = Without(d.ttls, B \X Fields)
      /\ e = [meta |-> e.meta, cells |-> e.cells, ttls |-> e.ttls]
  BY DEF SweptKeys
<1>. HIDE DEF e
<1>2. \A j : RowsOf(e, j) = IF j \in B THEN {} ELSE RowsOf(d, j)
  BY <1>1 DEF Without, RowsOf
<1>3. Typed(e)
  BY <1>1 DEF Good, Typed, Without
<1>4. Agree(e)
  BY <1>1, <1>2 DEF Good, Typed, Agree, Without
<1>. QED  BY <1>2, <1>3, <1>4 DEF Good, e

\* The sweeper's transaction on fields: each key that lost fields is recounted from the rows
\* that are left, or deleted when none is.
LEMMA SweptFieldsKeeps ==
    ASSUME NEW d, Good(d), NEW B \in SUBSET DOMAIN d.ttls
    PROVE  /\ Good(SweptFields(d, B))
           /\ \A j : RowsOf(SweptFields(d, B), j) = {f \in RowsOf(d, j) : <<j, f>> \notin B}
<1>. DEFINE e == SweptFields(d, B)
            cells == Without(d.cells, B)
            left(k) == {x \in DOMAIN cells : x[1] = k}
            affected == {x[1] : x \in B}
            empty == {k \in affected : left(k) = {}}
            M == [k \in DOMAIN d.meta \ empty |->
                    IF k \in affected THEN [d.meta[k] EXCEPT !.count = Cardinality(left(k))]
                    ELSE d.meta[k]]
            stored(k) == {f \in RowsOf(d, k) : <<k, f>> \notin B}
<1>1. e = [meta |-> M, cells |-> cells, ttls |-> Without(d.ttls, B)]
  BY DEF SweptFields
<1>2. \A j : RowsOf(e, j) = stored(j)
  BY <1>1 DEF Without, RowsOf
<1>3. ASSUME NEW k
      PROVE  Cardinality(left(k)) = Cardinality(stored(k)) /\ (left(k) = {} <=> stored(k) = {})
  <2>1. left(k) = {<<k, f>> : f \in stored(k)}
    <3>1. DOMAIN cells = DOMAIN d.cells \ B /\ DOMAIN d.cells \subseteq Keys \X Fields
      BY DEF Good, Typed, Without
    <3>. HIDE DEF cells
    <3>2. ASSUME NEW x \in left(k) PROVE x \in {<<k, f>> : f \in stored(k)}
      <4>1. x = <<k, x[2]>> /\ x[2] \in Fields  BY <3>1
      <4>2. x[2] \in stored(k)  BY <4>1, <3>1 DEF RowsOf
      <4>. QED  BY <4>1, <4>2
    <3>3. ASSUME NEW f \in stored(k) PROVE <<k, f>> \in left(k)
      BY <3>1 DEF RowsOf
    <3>. QED  BY <3>2, <3>3
  <2>2. stored(k) \in SUBSET Fields
    BY DEF RowsOf
  <2>. DEFINE pair == [f \in stored(k) |-> <<k, f>>]
  <2>. HIDE DEF left, stored
  <2>3. pair \in Bijection(stored(k), left(k))
    <3>1. pair \in [stored(k) -> left(k)]  BY <2>1
    <3>2. \A f, g \in stored(k) : pair[f] = pair[g] => f = g  OBVIOUS
    <3>3. \A x \in left(k) : \E f \in stored(k) : pair[f] = x  BY <2>1
    <3>. QED  BY <3>1, <3>2, <3>3, Fun_IsBij
  <2>4. Cardinality(left(k)) = Cardinality(stored(k))
    BY <2>2, <2>3, FieldsFinite, FS_Bijection DEF ExistsBijection
  <2>. QED  BY <2>1, <2>4
<1>4. ASSUME NEW k PROVE Cardinality(stored(k)) \in Nat
  BY FieldsFinite DEF RowsOf
<1>5. ASSUME NEW k \in DOMAIN d.meta, k \notin affected PROVE stored(k) = RowsOf(d, k)
  <2>1. \A f : <<k, f>> \notin B
    BY <1>5
  <2>. QED  BY <2>1
<1>6. \A x \in DOMAIN cells : x[1] \in DOMAIN M
  BY DEF Good, Agree, Without
<1>7. DOMAIN Without(d.ttls, B) \subseteq DOMAIN cells
  BY DEF Good, Agree, Without
<1>8. M \in [DOMAIN M -> Meta] /\ DOMAIN M \subseteq Keys
  <2>. HIDE DEF left, stored, affected, empty
  <2>. QED  BY <1>3, <1>4 DEF Good, Typed, Meta
<1>9. ASSUME NEW k \in DOMAIN M
      PROVE  M[k].count \in {NoCount, Cardinality(stored(k))} /\ stored(k) # {}
  <2>1. CASE k \in affected
    <3>1. left(k) # {}  BY <2>1, <1>9
    <3>. HIDE DEF left, stored, affected, empty
    <3>. QED  BY <2>1, <3>1, <1>9, <1>3 DEF Good, Typed, Meta
  <2>2. CASE k \notin affected
    <3>. HIDE DEF left, stored, affected, empty
    <3>. QED  BY <2>2, <1>5, <1>9 DEF Good, Agree
  <2>. QED  BY <2>1, <2>2
<1>. HIDE DEF e, M, cells, stored
<1>10. e.meta = M /\ e.cells = cells /\ e.ttls = Without(d.ttls, B)
       /\ e = [meta |-> e.meta, cells |-> e.cells, ttls |-> e.ttls]
  BY <1>1
<1>11. Typed(e)
  <2>1. cells \in [DOMAIN cells -> Values] /\ DOMAIN cells \subseteq Keys \X Fields
    BY DEF Good, Typed, Without, cells
  <2>2. Without(d.ttls, B) \in [DOMAIN Without(d.ttls, B) -> Nat] /\ DOMAIN Without(d.ttls, B) \subseteq Keys \X Fields
    BY DEF Good, Typed, Without
  <2>. QED  BY <2>1, <2>2, <1>8, <1>10 DEF Typed
<1>12. Agree(e)
  BY <1>2, <1>6, <1>7, <1>9, <1>10 DEF Agree
<1>. QED  BY <1>2, <1>11, <1>12 DEF Good, e, stored

\* HLEN's write: storing the number of rows as the count.
LEMMA CountSetKeeps ==
    ASSUME NEW d, Good(d), NEW k \in DOMAIN d.meta
    PROVE  /\ Good([d EXCEPT !.meta[k].count = Count(d, k)])
           /\ \A j : RowsOf([d EXCEPT !.meta[k].count = Count(d, k)], j) = RowsOf(d, j)
<1>. DEFINE M == [d.meta EXCEPT ![k].count = Count(d, k)]
            e == [d EXCEPT !.meta[k].count = Count(d, k)]
<1>1. Count(d, k) = Cardinality(RowsOf(d, k)) /\ Count(d, k) \in Nat
  BY CountIsRows, RowsAreFields, FieldsFinite
<1>2. e.meta = M /\ e.cells = d.cells /\ e.ttls = d.ttls
      /\ e = [meta |-> e.meta, cells |-> e.cells, ttls |-> e.ttls]
  BY DEF Good, Typed
<1>3. M \in [DOMAIN d.meta -> Meta]
  BY <1>1 DEF Good, Typed, Meta
<1>4. \A j \in DOMAIN d.meta : M[j].count \in {NoCount, Cardinality(RowsOf(d, j))}
  BY <1>1 DEF Good, Typed, Agree, Meta
<1>. HIDE DEF e, M
<1>5. \A j : RowsOf(e, j) = RowsOf(d, j)
  BY <1>2 DEF RowsOf
<1>6. Typed(e)
  BY <1>2, <1>3 DEF Good, Typed
<1>7. Agree(e)
  BY <1>2, <1>3, <1>4, <1>5 DEF Good, Agree
<1>. QED  BY <1>5, <1>6, <1>7 DEF Good, e

\* EXPIRE and PERSIST on a key.
LEMMA ExpSetKeeps ==
    ASSUME NEW d, Good(d), NEW k \in DOMAIN d.meta, NEW x \in Expiries
    PROVE  /\ Good([d EXCEPT !.meta[k].exp = x])
           /\ \A j : RowsOf([d EXCEPT !.meta[k].exp = x], j) = RowsOf(d, j)
<1>. DEFINE M == [d.meta EXCEPT ![k].exp = x]
            e == [d EXCEPT !.meta[k].exp = x]
<1>2. e.meta = M /\ e.cells = d.cells /\ e.ttls = d.ttls
      /\ e = [meta |-> e.meta, cells |-> e.cells, ttls |-> e.ttls]
  BY DEF Good, Typed
<1>3. M \in [DOMAIN d.meta -> Meta]
  BY DEF Good, Typed, Meta
<1>4. \A j \in DOMAIN d.meta : M[j].count = d.meta[j].count
  BY DEF Good, Typed, Meta
<1>. HIDE DEF e, M
<1>5. \A j : RowsOf(e, j) = RowsOf(d, j)
  BY <1>2 DEF RowsOf
<1>6. Typed(e)
  BY <1>2, <1>3 DEF Good, Typed
<1>7. Agree(e)
  BY <1>2, <1>3, <1>4, <1>5 DEF Good, Agree
<1>. QED  BY <1>5, <1>6, <1>7 DEF Good, e

\* An upsert of one field counts it when it has no row.
LEMMA UpsertOneKeeps ==
    ASSUME NEW d, Good(d), NEW k \in Keys, NEW f \in Fields, NEW v \in Values
    PROVE  Good(Upsert(d, k, One(f, v), IF f \in RowsOf(d, k) THEN 0 ELSE 1))
<1>1. One(f, v) \in [{f} -> Values]  BY DEF One
<1>2. CASE f \in RowsOf(d, k)
  <2>1. {f} \ RowsOf(d, k) = {}  BY <1>2
  <2>2. 0 = Cardinality({f} \ RowsOf(d, k))  BY <2>1, FS_EmptySet
  <2>. QED  BY <1>1, <1>2, <2>2, UpsertKeeps
<1>3. CASE f \notin RowsOf(d, k)
  <2>1. {f} \ RowsOf(d, k) = {f}  BY <1>3
  <2>2. 1 = Cardinality({f} \ RowsOf(d, k))  BY <2>1, FS_Singleton
  <2>. QED  BY <1>1, <1>3, <2>2, UpsertKeeps
<1>. QED  BY <1>2, <1>3

\* After expireFieldIfDue a field has a row only if it is live.
LEMMA ClearedKeeps ==
    ASSUME Good(db), NEW k \in Keys, NEW f \in Fields
    PROVE  LET d == ExpireFields(Touched(k), k, {f})
           IN  Good(d) /\ (f \in LiveFields(k) <=> f \in RowsOf(d, k))
<1>. DEFINE t == Touched(k)
            d == ExpireFields(t, k, {f})
<1>1. Good(t)  BY DeleteKeeps DEF Touched
<1>2. CASE LiveKey(k)
  <2>1. t = db  BY <1>2 DEF Touched, LiveKey
  <2>2. Good(d) /\ RowsOf(d, k) = RowsOf(db, k) \ ({f} \cap FieldsDue(db, k))
    BY <1>2, <2>1, ExpireKeeps DEF LiveKey
  <2>. QED  BY <1>2, <2>2 DEF LiveFields
<1>3. CASE ~LiveKey(k)
  <2>1. k \notin DOMAIN t.meta
    BY <1>3, DeleteKeeps DEF Touched, LiveKey, KeyDue
  <2>2. RowsOf(t, k) = {} /\ FieldsDue(t, k) = {}
    BY <1>1, <2>1 DEF Good, Agree, RowsOf, FieldsDue, TtlsOf
  <2>3. d = t  BY <2>2 DEF ExpireFields
  <2>. QED  BY <1>1, <1>3, <2>2, <2>3 DEF LiveFields
<1>. QED  BY <1>2, <1>3

-----------------------------------------------------------------------------
(* The handlers.                                                           *)

TypeInv == Good(db) /\ DOMAIN cache \subseteq Keys /\ now \in Nat

\* getKeyMeta keeps the tables.
LEMMA TouchedKeeps ==
    ASSUME Good(db), NEW k \in Keys
    PROVE  Good(Touched(k))
BY DeleteKeeps DEF Touched

\* A command that only looks the key up keeps the types.
LEMMA TouchTypes == ASSUME TypeInv, NEW k \in Keys, Touch(k) PROVE TypeInv'
<1>1. Good(db')  BY TouchedKeeps DEF Touch, TypeInv
<1>2. DOMAIN cache' \subseteq Keys  BY DEF Touch, TouchedCache, Without, TypeInv
<1>. QED  BY <1>1, <1>2 DEF Touch, TypeInv, Good, Typed, Agree, RowsOf

\* An entry that is invalidated or populated is an entry of a key.
LEMMA CacheTypes ==
    ASSUME TypeInv, NEW k \in Keys
    PROVE  /\ DOMAIN TouchedCache(k) \subseteq Keys
           /\ DOMAIN Invalidated(k) \subseteq Keys
           /\ \A c \in Populated(k) : DOMAIN c \subseteq Keys
BY DEF TypeInv, TouchedCache, Invalidated, Without, Populated

\* HGET and its like keep the types.
LEMMA GetTypes ==
    ASSUME TypeInv, NEW k \in Keys, NEW fs \in SUBSET Fields, HGet(k, fs)
    PROVE  TypeInv'
<1>1. Good(db')
  <2>1. CASE Hit(k)
    BY <2>1, DeleteKeeps DEF HGet, TypeInv
  <2>2. CASE ~Hit(k)
    <3>1. LiveKey(k) => k \in DOMAIN db.meta  BY DEF LiveKey
    <3>. QED  BY <2>2, <3>1, ExpireKeeps, TouchedKeeps DEF HGet, TypeInv
  <2>. QED  BY <2>1, <2>2
<1>2. DOMAIN cache' \subseteq Keys
  BY CacheTypes DEF HGet, TypeInv
<1>. QED  BY <1>1, <1>2 DEF HGet, TypeInv

\* The other reads do too.
LEMMA ReadTypes == ASSUME TypeInv, NEW k \in Keys, Reads(k) PROVE TypeInv'
<1>1. ASSUME NEW fs \in FieldLists, HGet(k, fs) PROVE TypeInv'
  BY <1>1, GetTypes DEF FieldLists
<1>2. ASSUME NEW fs \in FieldLists, HTtl(k, fs) PROVE TypeInv'
  <2>1. CASE LiveKey(k)
    BY <1>2, <2>1, ExpireKeeps, CacheTypes DEF HTtl, LiveKey, FieldLists, TypeInv
  <2>2. CASE ~LiveKey(k)
    BY <1>2, <2>2, TouchTypes DEF HTtl
  <2>. QED  BY <2>1, <2>2
<1>3. ASSUME HGetAll(k) PROVE TypeInv'
  <2>1. Good(db')
    BY <1>3, DeleteKeeps, TouchedKeeps DEF HGetAll, TypeInv
  <2>. QED  BY <1>3, <2>1, CacheTypes DEF HGetAll, TypeInv
<1>4. ASSUME HRandField(k) PROVE TypeInv'
  BY <1>3, <1>4, TouchTypes DEF HRandField
<1>5. ASSUME HLen(k) PROVE TypeInv'
  <2>1. CASE ~Hit(k) /\ Cacheable(k)
    <3>1. k \in DOMAIN db.meta  BY <2>1 DEF Cacheable, LiveKey
    <3>2. db' = [db EXCEPT !.meta[k].count = Count(db, k)] /\ UNCHANGED <<cache, now>>
      BY <1>5, <2>1 DEF HLen
    <3>. QED  BY <3>1, <3>2, CountSetKeeps DEF TypeInv
  <2>2. CASE ~(~Hit(k) /\ Cacheable(k))
    BY <1>5, <2>2, GetTypes DEF HLen
  <2>. QED  BY <2>1, <2>2
<1>6. ASSUME Touch(k) PROVE TypeInv'
  BY <1>6, TouchTypes
<1>. QED  BY <1>1, <1>2, <1>3, <1>4, <1>5, <1>6 DEF Reads

\* The writes do.
LEMMA WriteTypes == ASSUME TypeInv, NEW k \in Keys, Writes(k) PROVE TypeInv'
<1>. USE DEF TypeInv
<1>0. \A fs \in FieldLists : fs \in SUBSET Fields /\ fs # {}
  BY DEF FieldLists
<1>1. ASSUME NEW fs \in FieldLists, NEW g \in [fs -> Values], HSet(k, g) PROVE TypeInv'
  <2>. DEFINE d == Touched(k)
              n == Growth(d, k, fs)
              w == Upsert(d, k, g, n)
  <2>1. Good(d)  BY TouchedKeeps
  <2>2. n = Cardinality(fs \ RowsOf(d, k))  BY <1>0, <2>1, GrowthIsNewRows
  <2>3. Good(w)  BY <1>0, <2>1, <2>2, UpsertKeeps
  <2>4. db' = [w EXCEPT !.ttls = Without(@, Row(k, fs))]  BY <1>1, DOMAIN g = fs DEF HSet
  <2>. HIDE DEF w
  <2>5. Good(db')  BY <2>3, <2>4, WithoutTtlsKeeps
  <2>. QED  BY <1>1, <2>5, CacheTypes DEF HSet
<1>2. ASSUME NEW fs \in FieldLists, HDel(k, fs) PROVE TypeInv'
  <2>1. CASE LiveKey(k)
    BY <1>0, <1>2, <2>1, DropKeeps, CacheTypes DEF HDel, LiveKey
  <2>2. CASE ~LiveKey(k)
    BY <1>2, <2>2, TouchTypes DEF HDel
  <2>. QED  BY <2>1, <2>2
<1>3. ASSUME NEW fs \in FieldLists, NEW x \in Times, NEW cond \in Conditions, HExpire(k, x, fs, cond)
      PROVE  TypeInv'
  <2>1. CASE LiveKey(k)
    <3>. DEFINE set == {f \in fs \cap LiveFields(k) : Meets(k, f, x, cond)}
                due == fs \cap FieldsDue(db, k)
                d == ExpireFields(db, k, fs)
    <3>0. k \in DOMAIN db.meta /\ set \in SUBSET Fields /\ due \in SUBSET Fields
      BY <1>0, <2>1 DEF LiveKey
    <3>1. CASE x <= now
      <4>1. db' = IF set \cup due = {} THEN db ELSE DropFields(db, k, set \cup due)
        BY <1>3, <2>1, <3>1 DEF HExpire
      <4>. HIDE DEF set, due
      <4>2. Good(db')  BY <3>0, <4>1, DropKeeps
      <4>. QED  BY <1>3, <2>1, <4>2, CacheTypes DEF HExpire
    <3>2. CASE ~(x <= now)
      <4>1. db' = WithTtls(d, k, set, x)
        BY <1>3, <2>1, <3>2 DEF HExpire, WithTtls
      <4>2. Good(d) /\ RowsOf(d, k) = RowsOf(db, k) \ due
        BY <1>0, <3>0, ExpireKeeps
      <4>3. set \in SUBSET RowsOf(d, k)
        BY <4>2 DEF LiveFields
      <4>4. x \in Nat
        BY HashesAssumption DEF Times
      <4>. HIDE DEF set, d
      <4>5. Good(db')  BY <4>1, <4>2, <4>3, <4>4, SetTtlsKeeps
      <4>. QED  BY <1>3, <2>1, <4>5, CacheTypes DEF HExpire
    <3>. QED  BY <3>1, <3>2
  <2>2. CASE ~LiveKey(k)
    BY <1>3, <2>2, TouchTypes DEF HExpire
  <2>. QED  BY <2>1, <2>2
<1>4. ASSUME NEW fs \in FieldLists, HPersist(k, fs) PROVE TypeInv'
  <2>1. CASE LiveKey(k)
    <3>1. Good(ExpireFields(db, k, fs))  BY <1>0, <2>1, ExpireKeeps DEF LiveKey
    <3>2. Good(db')  BY <1>4, <2>1, <3>1, WithoutTtlsKeeps DEF HPersist, Persisted
    <3>. QED  BY <1>4, <2>1, <3>2, CacheTypes DEF HPersist
  <2>2. CASE ~LiveKey(k)
    BY <1>4, <2>2, TouchTypes DEF HPersist
  <2>. QED  BY <2>1, <2>2
<1>5. ASSUME NEW f \in Fields, NEW v \in Values, HSetNx(k, f, v) PROVE TypeInv'
  <2>1. CASE f \in LiveFields(k)
    BY <1>5, <2>1, TouchTypes DEF HSetNx
  <2>2. CASE f \notin LiveFields(k)
    <3>. DEFINE d == ExpireFields(Touched(k), k, {f})
    <3>1. Good(d) /\ f \notin RowsOf(d, k)
      BY <2>2, ClearedKeeps
    <3>2. db' = Upsert(d, k, One(f, v), 1) /\ cache' = Invalidated(k) /\ now' = now
      BY <1>5, <2>2 DEF HSetNx
    <3>. HIDE DEF d
    <3>3. Good(db')  BY <3>1, <3>2, UpsertOneKeeps
    <3>. QED  BY <3>2, <3>3, CacheTypes
  <2>. QED  BY <2>1, <2>2
<1>6. ASSUME NEW f \in Fields, NEW v \in Values, HIncrBy(k, f, v) PROVE TypeInv'
  <2>. DEFINE d == ExpireFields(Touched(k), k, {f})
  <2>1. Good(d) /\ (f \in LiveFields(k) <=> f \in RowsOf(d, k))
    BY ClearedKeeps
  <2>2. db' = Upsert(d, k, One(f, v), IF f \in LiveFields(k) THEN 0 ELSE 1)
        /\ cache' = Invalidated(k) /\ now' = now
    BY <1>6 DEF HIncrBy
  <2>. HIDE DEF d
  <2>3. Good(db')  BY <2>1, <2>2, UpsertOneKeeps
  <2>. QED  BY <2>2, <2>3, CacheTypes
<1>7. ASSUME NEW x \in Times \cup {NoExp}, Expire(k, x) PROVE TypeInv'
  <2>1. CASE LiveKey(k)
    <3>1. x \in Expiries  BY HashesAssumption DEF Times, Expiries
    <3>2. Good(db')  BY <1>7, <2>1, <3>1, ExpSetKeeps DEF Expire, LiveKey
    <3>. QED  BY <1>7, <2>1, <3>2, CacheTypes DEF Expire
  <2>2. CASE ~LiveKey(k)
    BY <1>7, <2>2, TouchTypes DEF Expire
  <2>. QED  BY <2>1, <2>2
<1>8. CASE Del(k)
  BY <1>8, DeleteKeeps, CacheTypes DEF Del
<1>9. ASSUME NEW nk \in Keys, Rename(k, nk) PROVE TypeInv'
  <2>1. CASE ~LiveKey(k) \/ k = nk
    BY <1>9, <2>1, TouchTypes DEF Rename
  <2>2. CASE ~(~LiveKey(k) \/ k = nk)
    <3>1. db' = DeleteKey(Copied(DeleteKey(db, nk), k, nk), k)
          /\ cache' = Without(cache, {k, nk}) /\ now' = now
      BY <1>9, <2>2 DEF Rename
    <3>2. Good(DeleteKey(db, nk)) /\ k \in DOMAIN DeleteKey(db, nk).meta
          /\ nk \in Keys \ DOMAIN DeleteKey(db, nk).meta
      BY <2>2, DeleteKeeps DEF LiveKey
    <3>3. Good(Copied(DeleteKey(db, nk), k, nk))  BY <3>2, CopiedKeeps
    <3>4. Good(db')  BY <3>1, <3>3, DeleteKeeps
    <3>. QED  BY <3>1, <3>4 DEF Without
  <2>. QED  BY <2>1, <2>2
<1>. QED  BY <1>1, <1>2, <1>3, <1>4, <1>5, <1>6, <1>7, <1>8, <1>9 DEF Writes

\* The sweeper, the LRU, a restart and the clock do.
LEMMA BackgroundTypes == ASSUME TypeInv, Background PROVE TypeInv'
<1>1. CASE Sweep
  <2>1. PICK B \in Batches(KeysDue(db)) :
          \E F \in Batches(AllFieldsDue(SweptKeys(db, B))) :
             db' = SweptFields(SweptKeys(db, B), F)
    BY <1>1 DEF Sweep
  <2>2. PICK F \in Batches(AllFieldsDue(SweptKeys(db, B))) :
          db' = SweptFields(SweptKeys(db, B), F)
    BY <2>1
  <2>3. B \in SUBSET DOMAIN db.meta  BY DEF Batches, KeysDue
  <2>4. Good(SweptKeys(db, B))  BY <2>3, SweptKeysKeeps DEF TypeInv
  <2>5. F \in SUBSET DOMAIN SweptKeys(db, B).ttls  BY DEF Batches, AllFieldsDue
  <2>6. Good(db')  BY <2>2, <2>4, <2>5, SweptFieldsKeeps
  <2>. QED  BY <1>1, <2>6 DEF Sweep, TypeInv
<1>2. ASSUME NEW k \in Keys, Evict(k) PROVE TypeInv'
  BY <1>2, CacheTypes DEF Evict, TypeInv
<1>3. CASE Restart
  BY <1>3 DEF Restart, NoRows, TypeInv
<1>4. CASE Tick
  BY <1>4 DEF Tick, TypeInv
<1>. QED  BY <1>1, <1>2, <1>3, <1>4 DEF Background

\* Every step keeps the types and the agreement of the tables.
LEMMA TypeStep == TypeInv /\ [Next]_vars => TypeInv'
<1>1. TypeInv /\ UNCHANGED vars => TypeInv'
  BY DEF TypeInv, vars
<1>. QED  BY <1>1, ReadTypes, WriteTypes, BackgroundTypes DEF Next, Client

\* At first they hold: a hash of an older version has no count yet.
LEMMA TypeInit == Init => TypeInv
<1>. SUFFICES ASSUME Init PROVE TypeInv
  OBVIOUS
<1>1. PICK S \in SUBSET (LegacyKeys \X Fields) : \E c \in [S -> Values] :
        db = [meta |-> [k \in {x[1] : x \in S} |-> [exp |-> NoExp, count |-> NoCount]],
              cells |-> c, ttls |-> NoRows]
  BY DEF Init
<1>2. PICK c \in [S -> Values] :
        db = [meta |-> [k \in {x[1] : x \in S} |-> [exp |-> NoExp, count |-> NoCount]],
              cells |-> c, ttls |-> NoRows]
  BY <1>1
<1>3. S \subseteq Keys \X Fields  BY HashesAssumption
<1>4. Typed(db)
  BY <1>2, <1>3 DEF Typed, Meta, Expiries, NoRows
<1>5. \A k \in DOMAIN db.meta : RowsOf(db, k) # {}
  BY <1>2, <1>3 DEF RowsOf
<1>6. Agree(db)
  BY <1>2, <1>5 DEF Agree, NoRows
<1>. QED  BY <1>4, <1>6 DEF Good, TypeInv, Init, NoRows

\* The rows, the counters and the expiries agree in every reachable state: TablesAgree, with the
\* types of the variables.
THEOREM TypeCorrect == Spec => []TypeOK
<1>1. Spec => []TypeInv
  BY TypeInit, TypeStep, PTL DEF Spec
<1>2. TypeInv => TypeOK
  BY DEF TypeInv, Good, Typed, TypeOK, Meta
<1>. QED  BY <1>1, <1>2, PTL

\* hash_count is the number of rows, a key has rows, no expiry outlives its field and no field
\* its key: across HSET and HDEL of fields that are due, conditional expiries, RENAME, COPY of
\* the count, sweeps of any batch, and hashes that had no counter.
THEOREM TablesAlwaysAgree == Spec => []TablesAgree
<1>1. Spec => []TypeInv
  BY TypeInit, TypeStep, PTL DEF Spec
<1>2. TypeInv => TablesAgree
  BY DEF TypeInv, Good, Agree, TablesAgree, CountIsExact, NoOrphans
<1>. QED  BY <1>1, <1>2, PTL

-----------------------------------------------------------------------------
(* What a handler leaves alone.                                            *)

\* The rows of key j, its expiry and its fields' expiries are the same in d and e; its count
\* need not be.
Same(d, e, j) ==
    /\ j \in DOMAIN e.meta <=> j \in DOMAIN d.meta
    /\ j \in DOMAIN d.meta => e.meta[j].exp = d.meta[j].exp
    /\ RowsOf(e, j) = RowsOf(d, j)
    /\ TtlsOf(e, j) = TtlsOf(d, j)
    /\ \A f \in RowsOf(d, j) : e.cells[<<j, f>>] = d.cells[<<j, f>>]
    /\ \A f \in TtlsOf(d, j) : e.ttls[<<j, f>>] = d.ttls[<<j, f>>]

OthersSame(d, e, k) == \A j \in Keys \ {k} : Same(d, e, j)

\* The fields of k that are live in the tables d: LiveFields, for any tables.
Live(d, k) ==
    IF k \in DOMAIN d.meta /\ ~KeyDue(d, k) THEN RowsOf(d, k) \ FieldsDue(d, k) ELSE {}

\* The model's live fields are those of its tables.
LEMMA LiveIsLiveFields == \A k : LiveFields(k) = Live(db, k)
BY DEF LiveFields, LiveKey, Live

\* Agreement on a key is reflexive and transitive, and makes the same fields live.
LEMMA SameIsEquivalence ==
    /\ \A d, j : Same(d, d, j)
    /\ \A a, b, c, j : Same(a, b, j) /\ Same(b, c, j) => Same(a, c, j)
    /\ \A a, b, j : Same(a, b, j) => Live(b, j) = Live(a, j)
<1>1. \A d, j : Same(d, d, j)
  BY DEF Same
<1>2. \A a, b, c, j : Same(a, b, j) /\ Same(b, c, j) => Same(a, c, j)
  BY DEF Same
<1>3. \A a, b, j : Same(a, b, j) => Live(b, j) = Live(a, j)
  <2>. SUFFICES ASSUME NEW a, NEW b, NEW j, Same(a, b, j) PROVE Live(b, j) = Live(a, j)
    OBVIOUS
  <2>1. FieldsDue(b, j) = FieldsDue(a, j)  BY DEF Same, FieldsDue
  <2>2. KeyDue(b, j) <=> KeyDue(a, j)  BY DEF Same, KeyDue
  <2>. QED  BY <2>1, <2>2 DEF Same, Live
<1>. QED  BY <1>1, <1>2, <1>3

\* So is agreement on all keys but one.
LEMMA OthersSameIsEquivalence ==
    /\ \A d, k : OthersSame(d, d, k)
    /\ \A a, b, c, k : OthersSame(a, b, k) /\ OthersSame(b, c, k) => OthersSame(a, c, k)
BY SameIsEquivalence DEF OthersSame

\* Deleting a key touches no other, and leaves it no live field.
LEMMA DeleteLocal ==
    ASSUME NEW d, NEW k \in Keys
    PROVE  OthersSame(d, DeleteKey(d, k), k) /\ Live(DeleteKey(d, k), k) = {}
<1>1. OthersSame(d, DeleteKey(d, k), k)
  BY DEF OthersSame, Same, DeleteKey, Without, RowsOf, TtlsOf, Row
<1>2. Live(DeleteKey(d, k), k) = {}
  BY DEF Live, DeleteKey, Without
<1>. QED  BY <1>1, <1>2

\* getKeyMeta deletes only what is not live.
LEMMA TouchedLocal ==
    ASSUME NEW k \in Keys
    PROVE  OthersSame(db, Touched(k), k) /\ Live(Touched(k), k) = Live(db, k)
<1>1. CASE KeyDue(db, k)
  BY <1>1, DeleteLocal DEF Touched, Live
<1>2. CASE ~KeyDue(db, k)
  BY <1>2, OthersSameIsEquivalence DEF Touched
<1>. QED  BY <1>1, <1>2

\* Deleting fields of a key makes no field live, there or elsewhere.
LEMMA DropLocal ==
    ASSUME NEW d, Good(d), NEW k \in DOMAIN d.meta, NEW fs \in SUBSET Fields
    PROVE  /\ OthersSame(d, DropFields(d, k, fs), k)
           /\ Live(DropFields(d, k, fs), k) \subseteq Live(d, k) \ fs
<1>. DEFINE gone == fs \cap RowsOf(d, k)
            left == Count(d, k) - Cardinality(gone)
            M == [d.meta EXCEPT ![k].count = IF gone = {} THEN @ ELSE left]
            e == [meta  |-> M,
                  cells |-> Without(d.cells, Row(k, gone)),
                  ttls  |-> Without(d.ttls, Row(k, fs))]
<1>0. k \in Keys  BY DEF Good, Typed
<1>1. CASE left <= 0
  BY <1>0, <1>1, DeleteLocal DEF DropFields
<1>2. CASE ~(left <= 0)
  <2>1. DropFields(d, k, fs) = e
    BY <1>2 DEF DropFields
  <2>2. \A j \in DOMAIN d.meta : M[j].exp = d.meta[j].exp
    BY DEF Good, Typed, Meta
  <2>3. DOMAIN M = DOMAIN d.meta
    OBVIOUS
  <2>. HIDE DEF M, gone
  <2>4. OthersSame(d, e, k)
    BY <2>2, <2>3 DEF OthersSame, Same, Without, RowsOf, TtlsOf, Row
  <2>5. RowsOf(e, k) = RowsOf(d, k) \ fs
    BY DEF RowsOf, Without, Row, gone
  <2>6. \A f \in Fields \ fs : f \in TtlsOf(d, k) => f \in TtlsOf(e, k) /\ e.ttls[<<k, f>>] = d.ttls[<<k, f>>]
    BY DEF TtlsOf, Without, Row
  <2>7. Live(e, k) \subseteq Live(d, k) \ fs
    <3>. HIDE DEF e
    <3>1. e.meta = M  BY DEF e
    <3>. QED  BY <2>2, <2>3, <2>5, <2>6, <3>1, RowsAreFields DEF Live, KeyDue, FieldsDue
  <2>. QED  BY <2>1, <2>4, <2>7
<1>. QED  BY <1>1, <1>2

\* Nor does deleting the due ones.
LEMMA ExpireLocal ==
    ASSUME NEW d, Good(d), NEW k \in DOMAIN d.meta, NEW fs \in SUBSET Fields
    PROVE  /\ OthersSame(d, ExpireFields(d, k, fs), k)
           /\ Live(ExpireFields(d, k, fs), k) \subseteq Live(d, k)
<1>1. CASE fs \cap FieldsDue(d, k) = {}
  BY <1>1, OthersSameIsEquivalence DEF ExpireFields
<1>2. CASE fs \cap FieldsDue(d, k) # {}
  BY <1>2, DropLocal DEF ExpireFields
<1>. QED  BY <1>1, <1>2

\* Taking expiries of k away revives at most the fields they were of.
LEMMA WithoutTtlsLocal ==
    ASSUME NEW d, Good(d), NEW k \in Keys, NEW fs \in SUBSET Fields
    PROVE  LET e == [d EXCEPT !.ttls = Without(@, Row(k, fs))]
           IN  OthersSame(d, e, k) /\ Live(e, k) \subseteq Live(d, k) \cup (RowsOf(d, k) \cap fs)
<1>. DEFINE e == [d EXCEPT !.ttls = Without(@, Row(k, fs))]
<1>1. e.meta = d.meta /\ e.cells = d.cells /\ e.ttls = Without(d.ttls, Row(k, fs))
  BY DEF Good, Typed
<1>. HIDE DEF e
<1>2. OthersSame(d, e, k)
  BY <1>1 DEF OthersSame, Same, Without, RowsOf, TtlsOf, Row
<1>3. RowsOf(e, k) = RowsOf(d, k)
  BY <1>1 DEF RowsOf
<1>4. \A f \in Fields \ fs : f \in TtlsOf(d, k) => f \in TtlsOf(e, k) /\ e.ttls[<<k, f>>] = d.ttls[<<k, f>>]
  BY <1>1 DEF TtlsOf, Without, Row
<1>5. Live(e, k) \subseteq Live(d, k) \cup (RowsOf(d, k) \cap fs)
  BY <1>1, <1>3, <1>4, RowsAreFields DEF Live, KeyDue, FieldsDue
<1>. QED  BY <1>2, <1>5 DEF e

\* An upsert revives at most the fields it writes.
LEMMA UpsertLocal ==
    ASSUME NEW d, Good(d), NEW k \in Keys, NEW fs \in SUBSET Fields,
           NEW g \in [fs -> Values], NEW n
    PROVE  /\ OthersSame(d, Upsert(d, k, g, n), k)
           /\ Live(Upsert(d, k, g, n), k) \subseteq Live(d, k) \cup fs
<1>. DEFINE e == Upsert(d, k, g, n)
            M == [j \in DOMAIN d.meta \cup {k} |->
                    IF j # k THEN d.meta[j]
                    ELSE IF k \in DOMAIN d.meta THEN [d.meta[k] EXCEPT !.count = Count(d, k) + n]
                    ELSE [exp |-> NoExp, count |-> n]]
            C == [x \in DOMAIN d.cells \cup Row(k, fs) |->
                    IF x \in Row(k, fs) THEN g[x[2]] ELSE d.cells[x]]
<1>1. e = [meta |-> M, cells |-> C, ttls |-> d.ttls]
  <2>1. e = [d EXCEPT !.meta = M, !.cells = C]
    BY DOMAIN g = fs DEF Upsert
  <2>. HIDE DEF M, C, e
  <2>2. d = [meta |-> d.meta, cells |-> d.cells, ttls |-> d.ttls]
    BY DEF Good, Typed
  <2>. QED  BY <2>1, <2>2
<1>2. DOMAIN M = DOMAIN d.meta \cup {k} /\ (\A j \in DOMAIN d.meta : M[j].exp = d.meta[j].exp)
  BY DEF Good, Typed, Meta
<1>3. DOMAIN C = DOMAIN d.cells \cup Row(k, fs) /\ (\A x \in DOMAIN d.cells \ Row(k, fs) : C[x] = d.cells[x])
  OBVIOUS
<1>. HIDE DEF e, M, C
<1>4. e.meta = M /\ e.cells = C /\ e.ttls = d.ttls
  BY <1>1
<1>5. OthersSame(d, e, k)
  BY <1>2, <1>3, <1>4 DEF OthersSame, Same, RowsOf, TtlsOf, Row
<1>6. RowsOf(e, k) = RowsOf(d, k) \cup fs
  BY <1>3, <1>4 DEF RowsOf, Row
<1>7. k \notin DOMAIN d.meta => RowsOf(d, k) = {}
  BY DEF Good, Agree, RowsOf
<1>8. Live(e, k) \subseteq Live(d, k) \cup fs
  BY <1>2, <1>4, <1>6, <1>7 DEF Live, KeyDue, FieldsDue, TtlsOf
<1>. QED  BY <1>5, <1>8 DEF e

\* An expiry set on live fields revives nothing.
LEMMA SetTtlsLocal ==
    ASSUME NEW d, Good(d), NEW k \in Keys, NEW S \in SUBSET Live(d, k), NEW x
    PROVE  /\ OthersSame(d, WithTtls(d, k, S, x), k)
           /\ Live(WithTtls(d, k, S, x), k) \subseteq Live(d, k)
<1>. DEFINE T == [y \in DOMAIN d.ttls \cup Row(k, S) |-> IF y \in Row(k, S) THEN x ELSE d.ttls[y]]
            e == WithTtls(d, k, S, x)
<1>1. e.meta = d.meta /\ e.cells = d.cells /\ e.ttls = T
  BY DEF Good, Typed, WithTtls
<1>2. DOMAIN T = DOMAIN d.ttls \cup Row(k, S) /\ (\A y \in DOMAIN d.ttls \ Row(k, S) : T[y] = d.ttls[y])
  OBVIOUS
<1>. HIDE DEF e, T
<1>3. OthersSame(d, e, k)
  BY <1>1, <1>2 DEF OthersSame, Same, RowsOf, TtlsOf, Row
<1>4. RowsOf(e, k) = RowsOf(d, k)
  BY <1>1 DEF RowsOf
<1>5. \A f \in Fields \ S : f \in TtlsOf(d, k) => f \in TtlsOf(e, k) /\ e.ttls[<<k, f>>] = d.ttls[<<k, f>>]
  BY <1>1, <1>2 DEF TtlsOf, Row
<1>6. Live(e, k) \subseteq Live(d, k)
  BY <1>1, <1>4, <1>5, RowsAreFields DEF Live, KeyDue, FieldsDue
<1>. QED  BY <1>3, <1>6 DEF e

\* Storing the count changes no row; setting the expiry of a live key revives nothing.
LEMMA MetaLocal ==
    ASSUME NEW d, Good(d), NEW k \in DOMAIN d.meta, NEW n, NEW x
    PROVE  /\ OthersSame(d, [d EXCEPT !.meta[k].count = n], k)
           /\ Same(d, [d EXCEPT !.meta[k].count = n], k)
           /\ OthersSame(d, [d EXCEPT !.meta[k].exp = x], k)
           /\ ~KeyDue(d, k) => Live([d EXCEPT !.meta[k].exp = x], k) \subseteq Live(d, k)
<1>. DEFINE e == [d EXCEPT !.meta[k].count = n]
            h == [d EXCEPT !.meta[k].exp = x]
<1>1. e.meta = [d.meta EXCEPT ![k].count = n] /\ e.cells = d.cells /\ e.ttls = d.ttls
  BY DEF Good, Typed
<1>2. h.meta = [d.meta EXCEPT ![k].exp = x] /\ h.cells = d.cells /\ h.ttls = d.ttls
  BY DEF Good, Typed
<1>3. DOMAIN e.meta = DOMAIN d.meta /\ (\A j \in DOMAIN d.meta : e.meta[j].exp = d.meta[j].exp)
  BY <1>1 DEF Good, Typed, Meta
<1>4. DOMAIN h.meta = DOMAIN d.meta /\ (\A j \in DOMAIN d.meta \ {k} : h.meta[j].exp = d.meta[j].exp)
  BY <1>2 DEF Good, Typed, Meta
<1>. HIDE DEF e, h
<1>5. OthersSame(d, e, k) /\ Same(d, e, k)
  BY <1>1, <1>3 DEF OthersSame, Same, RowsOf, TtlsOf
<1>6. OthersSame(d, h, k)
  BY <1>2, <1>4 DEF OthersSame, Same, RowsOf, TtlsOf
<1>7. ~KeyDue(d, k) => Live(h, k) \subseteq Live(d, k)
  <2>1. RowsOf(h, k) = RowsOf(d, k) /\ FieldsDue(h, k) = FieldsDue(d, k)
    BY <1>2 DEF RowsOf, FieldsDue, TtlsOf
  <2>. QED  BY <2>1 DEF Live
<1>. QED  BY <1>5, <1>6, <1>7 DEF e, h

\* A copy touches only the new name.
LEMMA CopiedLocal ==
    ASSUME NEW d, NEW k \in DOMAIN d.meta, NEW nk \in Keys
    PROVE  OthersSame(d, Copied(d, k, nk), nk)
<1>. DEFINE e == Copied(d, k, nk)
            M == [j \in DOMAIN d.meta \cup {nk} |->
                    IF j = nk THEN [d.meta[k] EXCEPT !.count = Count(d, k)] ELSE d.meta[j]]
            C == [x \in DOMAIN d.cells \cup Row(nk, RowsOf(d, k)) |->
                    IF x[1] = nk THEN d.cells[<<k, x[2]>>] ELSE d.cells[x]]
<1>1. e.meta = M /\ e.cells = C /\ e.ttls = d.ttls
  BY DEF Copied
<1>2. DOMAIN M = DOMAIN d.meta \cup {nk} /\ (\A j \in DOMAIN d.meta \ {nk} : M[j] = d.meta[j])
  OBVIOUS
<1>3. DOMAIN C = DOMAIN d.cells \cup Row(nk, RowsOf(d, k))
      /\ (\A x \in DOMAIN d.cells : x[1] # nk => C[x] = d.cells[x])
  OBVIOUS
<1>. HIDE DEF e, M, C
<1>. QED  BY <1>1, <1>2, <1>3 DEF OthersSame, Same, RowsOf, TtlsOf, Row, e

\* The sweeper's first statement takes whole keys and touches no other.
LEMMA SweptKeysLocal ==
    ASSUME NEW d, NEW B \in SUBSET Keys
    PROVE  /\ \A j \in B : j \notin DOMAIN SweptKeys(d, B).meta
           /\ \A j \in Keys \ B : Same(d, SweptKeys(d, B), j)
<1>1. \A j \in B : j \notin DOMAIN SweptKeys(d, B).meta
  BY DEF SweptKeys, Without
<1>2. \A j \in Keys \ B : Same(d, SweptKeys(d, B), j)
  BY DEF SweptKeys, Without, Same, RowsOf, TtlsOf
<1>. QED  BY <1>1, <1>2

\* Its transaction on fields touches no key but those the fields are of, makes no field live
\* and no key.
LEMMA SweptFieldsLocal ==
    ASSUME NEW d, Good(d), NEW B \in SUBSET AllFieldsDue(d)
    PROVE  /\ DOMAIN SweptFields(d, B).meta \subseteq DOMAIN d.meta
           /\ \A j \in Keys : TtlsOf(d, j) = {} => Same(d, SweptFields(d, B), j)
           /\ \A j \in Keys : Live(SweptFields(d, B), j) \subseteq Live(d, j)
<1>. DEFINE e == SweptFields(d, B)
            cells == Without(d.cells, B)
            left(k) == {x \in DOMAIN cells : x[1] = k}
            affected == {x[1] : x \in B}
            empty == {k \in affected : left(k) = {}}
            M == [k \in DOMAIN d.meta \ empty |->
                    IF k \in affected THEN [d.meta[k] EXCEPT !.count = Cardinality(left(k))]
                    ELSE d.meta[k]]
<1>1. e.meta = M /\ e.cells = Without(d.cells, B) /\ e.ttls = Without(d.ttls, B)
  BY DEF SweptFields
<1>2. DOMAIN M \subseteq DOMAIN d.meta /\ (\A j \in DOMAIN d.meta : j \notin affected => j \in DOMAIN M)
  OBVIOUS
<1>3. \A j \in DOMAIN M : M[j].exp = d.meta[j].exp
  <2>. HIDE DEF left, affected, empty
  <2>. QED  BY DEF Good, Typed, Meta
<1>4. B \subseteq DOMAIN d.ttls /\ B \subseteq Keys \X Fields /\ (\A x \in B : d.ttls[x] <= now)
  BY DEF AllFieldsDue, Good, Typed
<1>5. ASSUME NEW j \in Keys, j \in affected PROVE TtlsOf(d, j) # {}
  <2>1. PICK x \in B : x[1] = j  BY <1>5
  <2>2. x = <<j, x[2]>> /\ x[2] \in Fields  BY <1>4, <2>1
  <2>. QED  BY <1>4, <2>2 DEF TtlsOf
<1>. HIDE DEF e, M, left, empty, cells, affected
<1>6. ASSUME NEW j \in Keys, TtlsOf(d, j) = {} PROVE Same(d, e, j)
  <2>1. \A f \in Fields : <<j, f>> \notin B
    BY <1>4, <1>6 DEF TtlsOf
  <2>2. RowsOf(e, j) = RowsOf(d, j) /\ TtlsOf(e, j) = TtlsOf(d, j)
    BY <1>1, <2>1 DEF RowsOf, TtlsOf, Without
  <2>3. \A f \in RowsOf(d, j) : e.cells[<<j, f>>] = d.cells[<<j, f>>]
    BY <1>1, <2>1 DEF RowsOf, Without
  <2>. QED  BY <1>1, <1>2, <1>3, <1>5, <1>6, <2>2, <2>3 DEF Same
<1>7. ASSUME NEW j \in Keys PROVE Live(e, j) \subseteq Live(d, j)
  <2>1. RowsOf(e, j) = {f \in RowsOf(d, j) : <<j, f>> \notin B}
    BY <1>1 DEF RowsOf, Without
  <2>2. \A f \in RowsOf(e, j) : f \in TtlsOf(d, j) => f \in TtlsOf(e, j) /\ e.ttls[<<j, f>>] = d.ttls[<<j, f>>]
    BY <1>1, <2>1 DEF TtlsOf, Without
  <2>. QED  BY <1>1, <1>2, <1>3, <2>1, <2>2 DEF Live, KeyDue, FieldsDue
<1>. QED  BY <1>1, <1>2, <1>6, <1>7 DEF e

\* Deleting due fields spares the live ones.
LEMMA ExpireSpares ==
    ASSUME NEW d, Good(d), NEW k \in DOMAIN d.meta, NEW fs \in SUBSET Fields,
           NEW f \in RowsOf(ExpireFields(d, k, fs), k), f \in Live(d, k)
    PROVE  f \in Live(ExpireFields(d, k, fs), k)
<1>. DEFINE due == fs \cap FieldsDue(d, k)
            gone == due \cap RowsOf(d, k)
            left == Count(d, k) - Cardinality(gone)
            M == [d.meta EXCEPT ![k].count = IF gone = {} THEN @ ELSE left]
            e == [meta  |-> M,
                  cells |-> Without(d.cells, Row(k, gone)),
                  ttls  |-> Without(d.ttls, Row(k, due))]
<1>0. k \in Keys  BY DEF Good, Typed
<1>1. CASE due = {}
  BY <1>1 DEF ExpireFields
<1>2. CASE due # {} /\ left <= 0
  BY <1>0, <1>2, DeleteKeeps DEF ExpireFields, DropFields
<1>3. CASE due # {} /\ ~(left <= 0)
  <2>1. ExpireFields(d, k, fs) = e
    BY <1>3 DEF ExpireFields, DropFields
  <2>2. k \in DOMAIN M /\ M[k].exp = d.meta[k].exp
    BY DEF Good, Typed, Meta
  <2>. HIDE DEF M, due, gone
  <2>3. \A h \in TtlsOf(e, k) : h \in TtlsOf(d, k) /\ e.ttls[<<k, h>>] = d.ttls[<<k, h>>]
    BY DEF TtlsOf, Without
  <2>4. f \in RowsOf(e, k)  BY <2>1
  <2>5. e.meta = M  OBVIOUS
  <2>. HIDE DEF e
  <2>6. f \notin FieldsDue(e, k) /\ ~KeyDue(e, k)
    BY <2>2, <2>3, <2>5 DEF Live, FieldsDue, KeyDue
  <2>. QED  BY <2>1, <2>2, <2>4, <2>5, <2>6 DEF Live
<1>. QED  BY <1>1, <1>2, <1>3

\* expireFieldIfDue touches no other key and revives nothing.
LEMMA ClearedLocal ==
    ASSUME Good(db), NEW k \in Keys, NEW f \in Fields
    PROVE  LET d == ExpireFields(Touched(k), k, {f})
           IN  OthersSame(db, d, k) /\ Live(d, k) \subseteq Live(db, k)
<1>. DEFINE t == Touched(k)
            d == ExpireFields(t, k, {f})
<1>1. Good(t) /\ OthersSame(db, t, k) /\ Live(t, k) = Live(db, k)
  BY TouchedKeeps, TouchedLocal
<1>2. CASE k \in DOMAIN t.meta
  <2>1. OthersSame(t, d, k) /\ Live(d, k) \subseteq Live(t, k)
    BY <1>1, <1>2, ExpireLocal
  <2>. QED  BY <1>1, <2>1, OthersSameIsEquivalence
<1>3. CASE k \notin DOMAIN t.meta
  <2>1. FieldsDue(t, k) = {}
    BY <1>1, <1>3 DEF Good, Agree, FieldsDue, TtlsOf
  <2>2. d = t  BY <2>1 DEF ExpireFields
  <2>. QED  BY <1>1, <2>2
<1>. QED  BY <1>2, <1>3

-----------------------------------------------------------------------------
(* The cache.                                                              *)

\* An entry holds the hash of a key that is there and none of whose fields can expire.
PlainEntry(d, e, j) ==
    /\ j \in DOMAIN d.meta /\ TtlsOf(d, j) = {}
    /\ e.exp = d.meta[j].exp
    /\ e.hash = [f \in RowsOf(d, j) |-> d.cells[<<j, f>>]]

\* The sweeper tells the cache nothing, so an entry may outlive its key: it has expired then.
Entries ==
    \A j \in DOMAIN cache :
        /\ cache[j].exp \in Expiries
        /\ PlainEntry(db, cache[j], j) \/ (j \notin DOMAIN db.meta /\ DeadHit(j))

IInv == TypeInv /\ Entries

\* The entry of j, if there is one after the step, is the one before, of an unchanged key, or
\* one that was populated.
Kept(j) ==
    j \in DOMAIN cache' =>
        \/ j \in DOMAIN cache /\ cache'[j] = cache[j] /\ Same(db, db', j)
        \/ PlainEntry(db', cache'[j], j)

\* A step that keeps every entry so keeps their soundness.
LEMMA KeptEntries ==
    ASSUME IInv, TypeInv', now' = now, \A j \in Keys : Kept(j)
    PROVE  Entries'
<1>. SUFFICES ASSUME NEW j \in DOMAIN cache'
              PROVE  /\ (cache[j].exp \in Expiries)'
                     /\ PlainEntry(db, cache[j], j)' \/ (j \notin DOMAIN db.meta /\ DeadHit(j))'
  BY DEF Entries
<1>1. j \in Keys  BY DEF TypeInv
<1>2. CASE PlainEntry(db', cache'[j], j)
  BY <1>2 DEF PlainEntry, TypeInv, Good, Typed, Meta
<1>3. CASE j \in DOMAIN cache /\ cache'[j] = cache[j] /\ Same(db, db', j)
  <2>1. CASE PlainEntry(db, cache[j], j)
    <3>1. [f \in RowsOf(db', j) |-> db'.cells[<<j, f>>]] = [f \in RowsOf(db, j) |-> db.cells[<<j, f>>]]
      BY <1>3 DEF Same
    <3>2. PlainEntry(db', cache'[j], j)
      BY <1>3, <2>1, <3>1 DEF Same, PlainEntry
    <3>. QED  BY <1>3, <3>2 DEF IInv, Entries
  <2>2. CASE j \notin DOMAIN db.meta /\ DeadHit(j)
    BY <1>3, <2>2 DEF Same, DeadHit, Hit, IInv, Entries
  <2>. QED  BY <1>3, <2>1, <2>2 DEF IInv, Entries
<1>. QED  BY <1>1, <1>2, <1>3 DEF Kept

\* An entry that is taken away, or that stays beside an unchanged key, is kept.
LEMMA KeptByInvalidation ==
    ASSUME NEW k \in Keys, OthersSame(db, db', k),
           cache' = Invalidated(k) \/ (cache' = cache /\ (Same(db, db', k) \/ ~Hit(k)))
    PROVE  \A j \in Keys : Kept(j)
BY DEF OthersSame, Kept, Invalidated, Without, Hit

\* A lookup.
LEMMA TouchLocal ==
    ASSUME IInv, NEW k \in Keys, Touch(k)
    PROVE  /\ OthersSame(db, db', k) /\ Live(db', k) \subseteq Live(db, k)
           /\ \A j \in Keys : Kept(j)
<1>1. OthersSame(db, db', k) /\ Live(db', k) = Live(db, k)
  BY TouchedLocal DEF Touch
<1>2. CASE KeyDue(db, k)
  BY <1>1, <1>2, KeptByInvalidation DEF Touch, TouchedCache, Invalidated
<1>3. CASE ~KeyDue(db, k)
  BY <1>1, <1>3, KeptByInvalidation, SameIsEquivalence DEF Touch, TouchedCache, Touched
<1>. QED  BY <1>1, <1>2, <1>3

\* HGET and its like.
LEMMA GetLocal ==
    ASSUME IInv, NEW k \in Keys, NEW fs \in SUBSET Fields, HGet(k, fs)
    PROVE  /\ OthersSame(db, db', k) /\ Live(db', k) \subseteq Live(db, k)
           /\ \A j \in Keys : Kept(j)
<1>1. CASE DeadHit(k)
  <2>1. db' = DeleteKey(db, k) /\ cache' = Invalidated(k)  BY <1>1 DEF HGet, DeadHit
  <2>. QED  BY <2>1, DeleteLocal, KeptByInvalidation
<1>2. CASE Hit(k) /\ ~DeadHit(k)
  <2>1. db' = db /\ cache' = cache  BY <1>2 DEF HGet
  <2>. QED  BY <2>1, OthersSameIsEquivalence, SameIsEquivalence, KeptByInvalidation
<1>3. CASE ~Hit(k)
  <2>1. db' = (IF LiveKey(k) THEN ExpireFields(db, k, fs) ELSE Touched(k)) /\ cache' = TouchedCache(k)
    BY <1>3 DEF HGet
  <2>2. OthersSame(db, db', k) /\ Live(db', k) \subseteq Live(db, k)
    BY <2>1, ExpireLocal, TouchedLocal DEF LiveKey, IInv, TypeInv
  <2>3. cache' = Invalidated(k) \/ cache' = cache
    BY <2>1 DEF TouchedCache, Invalidated
  <2>. QED  BY <1>3, <2>2, <2>3, KeptByInvalidation
<1>. QED  BY <1>1, <1>2, <1>3 DEF DeadHit

\* HGETALL populates the entry with the whole hash: no field of it can expire.
LEMMA GetAllLocal ==
    ASSUME IInv, NEW k \in Keys, HGetAll(k)
    PROVE  /\ OthersSame(db, db', k) /\ Live(db', k) \subseteq Live(db, k)
           /\ \A j \in Keys : Kept(j)
<1>1. CASE DeadHit(k)
  <2>1. db' = DeleteKey(db, k) /\ cache' = Invalidated(k)  BY <1>1 DEF HGetAll, DeadHit
  <2>. QED  BY <2>1, DeleteLocal, KeptByInvalidation
<1>2. CASE Hit(k) /\ ~DeadHit(k)
  <2>1. db' = db /\ cache' = cache  BY <1>2 DEF HGetAll
  <2>. QED  BY <2>1, OthersSameIsEquivalence, SameIsEquivalence, KeptByInvalidation
<1>3. CASE ~Hit(k) /\ ~Cacheable(k)
  <2>1. db' = Touched(k) /\ cache' = TouchedCache(k)
    BY <1>3 DEF HGetAll
  <2>2. cache' = Invalidated(k) \/ cache' = cache
    BY <2>1 DEF TouchedCache, Invalidated
  <2>. QED  BY <1>3, <2>1, <2>2, TouchedLocal, KeptByInvalidation
<1>4. CASE ~Hit(k) /\ Cacheable(k)
  <2>1. db' = db /\ cache' \in Populated(k)
    BY <1>4 DEF HGetAll, Cacheable, LiveKey, Touched
  <2>2. \A j \in Keys \ {k} : Kept(j)
    BY <2>1, SameIsEquivalence DEF Kept, Populated, Invalidated, Without
  <2>3. FieldsDue(db, k) = {} /\ LiveFields(k) = RowsOf(db, k)
    BY <1>4 DEF Cacheable, FieldsDue, LiveFields
  <2>4. Kept(k)
    <3>1. CASE cache' = Invalidated(k)
      BY <3>1 DEF Kept, Invalidated, Without
    <3>2. CASE cache' # Invalidated(k)
      <4>1. cache' = [j \in DOMAIN cache \cup {k} |->
                        IF j # k THEN cache[j]
                        ELSE [exp |-> db.meta[k].exp,
                              hash |-> [f \in LiveFields(k) |-> db.cells[<<k, f>>]]]]
        BY <2>1, <3>2 DEF Populated
      <4>2. cache'[k] = [exp |-> db.meta[k].exp, hash |-> [f \in RowsOf(db, k) |-> db.cells[<<k, f>>]]]
        BY <2>3, <4>1
      <4>3. PlainEntry(db', cache'[k], k)
        BY <1>4, <2>1, <4>2 DEF PlainEntry, Cacheable, LiveKey
      <4>. QED  BY <4>3 DEF Kept
    <3>. QED  BY <3>1, <3>2
  <2>. QED  BY <2>1, <2>2, <2>4, OthersSameIsEquivalence
<1>. QED  BY <1>1, <1>2, <1>3, <1>4 DEF DeadHit

\* No read changes another key or makes a field live, and each keeps the entries.
LEMMA ReadLocal ==
    ASSUME IInv, NEW k \in Keys, Reads(k)
    PROVE  /\ OthersSame(db, db', k) /\ Live(db', k) \subseteq Live(db, k) /\ now' = now
           /\ \A j \in Keys : Kept(j)
<1>. DEFINE Goal == /\ OthersSame(db, db', k) /\ Live(db', k) \subseteq Live(db, k) /\ now' = now
                    /\ \A j \in Keys : Kept(j)
<1>1. ASSUME NEW fs \in FieldLists, HGet(k, fs) PROVE Goal
  BY <1>1, GetLocal DEF FieldLists, HGet
<1>2. ASSUME NEW fs \in FieldLists, HTtl(k, fs) PROVE Goal
  <2>1. CASE ~LiveKey(k)
    BY <1>2, <2>1, TouchLocal DEF HTtl, Touch
  <2>2. CASE LiveKey(k)
    <3>1. db' = ExpireFields(db, k, fs) /\ now' = now
          /\ cache' = IF fs \cap FieldsDue(db, k) = {} THEN cache ELSE Invalidated(k)
      BY <1>2, <2>2 DEF HTtl
    <3>2. OthersSame(db, db', k) /\ Live(db', k) \subseteq Live(db, k)
      BY <2>2, <3>1, ExpireLocal DEF LiveKey, FieldLists, IInv, TypeInv
    <3>3. fs \cap FieldsDue(db, k) = {} => db' = db
      BY <3>1 DEF ExpireFields
    <3>. QED  BY <3>1, <3>2, <3>3, SameIsEquivalence, KeptByInvalidation
  <2>. QED  BY <2>1, <2>2
<1>3. ASSUME HGetAll(k) PROVE Goal
  BY <1>3, GetAllLocal DEF HGetAll
<1>4. ASSUME HRandField(k) PROVE Goal
  BY <1>3, <1>4, TouchLocal DEF HRandField, Touch
<1>5. ASSUME HLen(k) PROVE Goal
  <2>1. CASE ~Hit(k) /\ Cacheable(k)
    <3>1. k \in DOMAIN db.meta  BY <2>1 DEF Cacheable, LiveKey
    <3>2. db' = [db EXCEPT !.meta[k].count = Count(db, k)] /\ cache' = cache /\ now' = now
      BY <1>5, <2>1 DEF HLen
    <3>3. OthersSame(db, db', k) /\ Same(db, db', k)
      BY <3>1, <3>2, MetaLocal DEF IInv, TypeInv
    <3>. QED  BY <3>2, <3>3, SameIsEquivalence, KeptByInvalidation
  <2>2. CASE ~(~Hit(k) /\ Cacheable(k))
    BY <1>5, <2>2, GetLocal DEF HLen, HGet
  <2>. QED  BY <2>1, <2>2
<1>6. ASSUME Touch(k) PROVE Goal
  BY <1>6, TouchLocal DEF Touch
<1>. QED  BY <1>1, <1>2, <1>3, <1>4, <1>5, <1>6 DEF Reads

\* The step writes a value to field f of key j.
WritesTo(j, f) ==
    \/ \E fs \in FieldLists : f \in fs /\ \E g \in [fs -> Values] : HSet(j, g)
    \/ \E v \in Values : HSetNx(j, f, v) \/ HIncrBy(j, f, v)
    \/ \E i \in Keys \ {j} : Rename(i, j)

\* What comes to life is written.
OnlyWritesRevive == \A j \in Keys : \A f \in Live(db', j) \ Live(db, j) : WritesTo(j, f)

\* A command on one key that writes what it revives there, and invalidates the entry.
LEMMA WriteToOne ==
    ASSUME NEW k \in Keys, OthersSame(db, db', k), cache' = Invalidated(k),
           \A f \in Live(db', k) \ Live(db, k) : WritesTo(k, f)
    PROVE  OnlyWritesRevive /\ (\A j \in Keys : Kept(j))
BY SameIsEquivalence, KeptByInvalidation DEF OthersSame, OnlyWritesRevive

\* So is a lookup.
LEMMA TouchRevivesNothing ==
    ASSUME IInv, NEW k \in Keys, Touch(k)
    PROVE  OnlyWritesRevive /\ (\A j \in Keys : Kept(j)) /\ now' = now
BY TouchLocal, SameIsEquivalence DEF OthersSame, OnlyWritesRevive, Touch

\* No command makes a field live but by writing it, and each keeps the entries.
LEMMA WriteLocal ==
    ASSUME IInv, NEW k \in Keys, Writes(k)
    PROVE  OnlyWritesRevive /\ (\A j \in Keys : Kept(j)) /\ now' = now
<1>. DEFINE Goal == OnlyWritesRevive /\ (\A j \in Keys : Kept(j)) /\ now' = now
<1>. USE DEF IInv, TypeInv
<1>0. \A fs \in FieldLists : fs \in SUBSET Fields /\ fs # {}
  BY DEF FieldLists
<1>1. ASSUME NEW fs \in FieldLists, NEW g \in [fs -> Values], HSet(k, g) PROVE Goal
  <2>. DEFINE d == Touched(k)
              n == Growth(d, k, fs)
              w == Upsert(d, k, g, n)
  <2>1. Good(d) /\ OthersSame(db, d, k) /\ Live(d, k) = Live(db, k)
    BY TouchedKeeps, TouchedLocal
  <2>2. Good(w)
    <3>1. n = Cardinality(fs \ RowsOf(d, k))  BY <1>0, <2>1, GrowthIsNewRows
    <3>. QED  BY <1>0, <2>1, <3>1, UpsertKeeps
  <2>3. OthersSame(d, w, k) /\ Live(w, k) \subseteq Live(d, k) \cup fs
    BY <1>0, <2>1, UpsertLocal
  <2>4. db' = [w EXCEPT !.ttls = Without(@, Row(k, fs))] /\ cache' = Invalidated(k) /\ now' = now
    BY <1>1, DOMAIN g = fs DEF HSet
  <2>. HIDE DEF w
  <2>5. OthersSame(w, db', k) /\ Live(db', k) \subseteq Live(w, k) \cup fs
    BY <1>0, <2>2, <2>4, WithoutTtlsLocal
  <2>6. OthersSame(db, db', k)
    BY <2>1, <2>3, <2>5, OthersSameIsEquivalence
  <2>7. \A f \in Live(db', k) \ Live(db, k) : WritesTo(k, f)
    BY <1>1, <2>1, <2>3, <2>5 DEF WritesTo
  <2>. QED  BY <2>4, <2>6, <2>7, WriteToOne
<1>2. ASSUME NEW fs \in FieldLists, HDel(k, fs) PROVE Goal
  <2>1. CASE LiveKey(k)
    <3>1. db' = DropFields(db, k, fs) /\ cache' = Invalidated(k) /\ now' = now
      BY <1>2, <2>1 DEF HDel
    <3>2. OthersSame(db, db', k) /\ Live(db', k) \subseteq Live(db, k)
      BY <1>0, <2>1, <3>1, DropLocal DEF LiveKey
    <3>. QED  BY <3>1, <3>2, WriteToOne
  <2>2. CASE ~LiveKey(k)
    BY <1>2, <2>2, TouchRevivesNothing DEF HDel
  <2>. QED  BY <2>1, <2>2
<1>3. ASSUME NEW fs \in FieldLists, NEW x \in Times, NEW cond \in Conditions, HExpire(k, x, fs, cond)
      PROVE  Goal
  <2>1. CASE LiveKey(k)
    <3>. DEFINE set == {f \in fs \cap LiveFields(k) : Meets(k, f, x, cond)}
                due == fs \cap FieldsDue(db, k)
                d == ExpireFields(db, k, fs)
    <3>0. k \in DOMAIN db.meta /\ set \in SUBSET Fields /\ due \in SUBSET Fields
          /\ cache' = Invalidated(k) /\ now' = now
      BY <1>0, <1>3, <2>1 DEF LiveKey, HExpire
    <3>1. CASE x <= now
      <4>1. db' = IF set \cup due = {} THEN db ELSE DropFields(db, k, set \cup due)
        BY <1>3, <2>1, <3>1 DEF HExpire
      <4>. HIDE DEF set, due
      <4>2. OthersSame(db, db', k) /\ Live(db', k) \subseteq Live(db, k)
        BY <3>0, <4>1, DropLocal, OthersSameIsEquivalence
      <4>. QED  BY <3>0, <4>2, WriteToOne
    <3>2. CASE ~(x <= now)
      <4>1. db' = WithTtls(d, k, set, x)
        BY <1>3, <2>1, <3>2 DEF HExpire, WithTtls
      <4>2. Good(d) /\ OthersSame(db, d, k) /\ Live(d, k) \subseteq Live(db, k)
        BY <1>0, <3>0, ExpireKeeps, ExpireLocal
      <4>3. set \in SUBSET Live(d, k)
        <5>1. RowsOf(d, k) = RowsOf(db, k) \ due
          BY <1>0, <3>0, ExpireKeeps
        <5>2. set \subseteq RowsOf(d, k) /\ set \subseteq Live(db, k)
          BY <5>1, LiveIsLiveFields DEF LiveFields
        <5>3. \A f \in RowsOf(d, k) : f \in Live(db, k) => f \in Live(d, k)
          BY <1>0, <3>0, ExpireSpares
        <5>. QED  BY <5>2, <5>3
      <4>. HIDE DEF set, d
      <4>4. OthersSame(d, db', k) /\ Live(db', k) \subseteq Live(d, k)
        BY <4>1, <4>2, <4>3, SetTtlsLocal
      <4>5. OthersSame(db, db', k)
        BY <4>2, <4>4, OthersSameIsEquivalence
      <4>. QED  BY <3>0, <4>2, <4>4, <4>5, WriteToOne
    <3>. QED  BY <3>1, <3>2
  <2>2. CASE ~LiveKey(k)
    BY <1>3, <2>2, TouchRevivesNothing DEF HExpire
  <2>. QED  BY <2>1, <2>2
<1>4. ASSUME NEW fs \in FieldLists, HPersist(k, fs) PROVE Goal
  <2>1. CASE LiveKey(k)
    <3>. DEFINE d == ExpireFields(db, k, fs)
    <3>1. Good(d) /\ RowsOf(d, k) = RowsOf(db, k) \ (fs \cap FieldsDue(db, k))
          /\ OthersSame(db, d, k) /\ Live(d, k) \subseteq Live(db, k)
      BY <1>0, <2>1, ExpireKeeps, ExpireLocal DEF LiveKey
    <3>2. db' = [d EXCEPT !.ttls = Without(@, Row(k, fs))] /\ cache' = Invalidated(k) /\ now' = now
      BY <1>4, <2>1 DEF HPersist, Persisted
    <3>. HIDE DEF d
    <3>3. OthersSame(d, db', k) /\ Live(db', k) \subseteq Live(d, k) \cup (RowsOf(d, k) \cap fs)
      BY <1>0, <3>1, <3>2, WithoutTtlsLocal
    <3>4. RowsOf(d, k) \cap fs \subseteq Live(db, k)
      BY <2>1, <3>1 DEF Live, LiveKey
    <3>5. OthersSame(db, db', k)
      BY <3>1, <3>3, OthersSameIsEquivalence
    <3>. QED  BY <3>1, <3>2, <3>3, <3>4, <3>5, WriteToOne
  <2>2. CASE ~LiveKey(k)
    BY <1>4, <2>2, TouchRevivesNothing DEF HPersist
  <2>. QED  BY <2>1, <2>2
<1>5. ASSUME NEW f \in Fields, NEW v \in Values, HSetNx(k, f, v) PROVE Goal
  <2>1. CASE f \in LiveFields(k)
    BY <1>5, <2>1, TouchRevivesNothing DEF HSetNx
  <2>2. CASE f \notin LiveFields(k)
    <3>. DEFINE d == ExpireFields(Touched(k), k, {f})
    <3>1. Good(d) /\ OthersSame(db, d, k) /\ Live(d, k) \subseteq Live(db, k)
      BY ClearedKeeps, ClearedLocal
    <3>2. db' = Upsert(d, k, One(f, v), 1) /\ cache' = Invalidated(k) /\ now' = now
      BY <1>5, <2>2 DEF HSetNx
    <3>. HIDE DEF d
    <3>3. OthersSame(d, db', k) /\ Live(db', k) \subseteq Live(d, k) \cup {f}
      BY <3>1, <3>2, One(f, v) \in [{f} -> Values], UpsertLocal DEF One
    <3>4. OthersSame(db, db', k)
      BY <3>1, <3>3, OthersSameIsEquivalence
    <3>5. \A h \in Live(db', k) \ Live(db, k) : WritesTo(k, h)
      BY <1>5, <3>1, <3>3 DEF WritesTo
    <3>. QED  BY <3>2, <3>4, <3>5, WriteToOne
  <2>. QED  BY <2>1, <2>2
<1>6. ASSUME NEW f \in Fields, NEW v \in Values, HIncrBy(k, f, v) PROVE Goal
  <2>. DEFINE d == ExpireFields(Touched(k), k, {f})
              n == IF f \in LiveFields(k) THEN 0 ELSE 1
  <2>1. Good(d) /\ OthersSame(db, d, k) /\ Live(d, k) \subseteq Live(db, k)
    BY ClearedKeeps, ClearedLocal
  <2>2. db' = Upsert(d, k, One(f, v), n) /\ cache' = Invalidated(k) /\ now' = now
    BY <1>6 DEF HIncrBy
  <2>. HIDE DEF d, n
  <2>3. OthersSame(d, db', k) /\ Live(db', k) \subseteq Live(d, k) \cup {f}
    BY <2>1, <2>2, One(f, v) \in [{f} -> Values], UpsertLocal DEF One
  <2>4. OthersSame(db, db', k)
    BY <2>1, <2>3, OthersSameIsEquivalence
  <2>5. \A h \in Live(db', k) \ Live(db, k) : WritesTo(k, h)
    BY <1>6, <2>1, <2>3 DEF WritesTo
  <2>. QED  BY <2>2, <2>4, <2>5, WriteToOne
<1>7. ASSUME NEW x \in Times \cup {NoExp}, Expire(k, x) PROVE Goal
  <2>1. CASE LiveKey(k)
    <3>1. db' = [db EXCEPT !.meta[k].exp = x] /\ cache' = Invalidated(k) /\ now' = now
      BY <1>7, <2>1 DEF Expire
    <3>2. OthersSame(db, db', k) /\ Live(db', k) \subseteq Live(db, k)
      BY <2>1, <3>1, MetaLocal DEF LiveKey
    <3>. QED  BY <3>1, <3>2, WriteToOne
  <2>2. CASE ~LiveKey(k)
    BY <1>7, <2>2, TouchRevivesNothing DEF Expire
  <2>. QED  BY <2>1, <2>2
<1>8. CASE Del(k)
  BY <1>8, DeleteLocal, WriteToOne DEF Del
<1>9. ASSUME NEW nk \in Keys, Rename(k, nk) PROVE Goal
  <2>1. CASE ~LiveKey(k) \/ k = nk
    BY <1>9, <2>1, TouchRevivesNothing DEF Rename
  <2>2. CASE ~(~LiveKey(k) \/ k = nk)
    <3>. DEFINE d == DeleteKey(db, nk)
                e == Copied(d, k, nk)
    <3>1. db' = DeleteKey(e, k) /\ cache' = Without(cache, {k, nk}) /\ now' = now
      BY <1>9, <2>2 DEF Rename
    <3>2. OthersSame(db, d, nk) /\ k \in DOMAIN d.meta
      BY <2>2, DeleteLocal, DeleteKeeps DEF LiveKey
    <3>3. OthersSame(d, e, nk)
      BY <3>2, CopiedLocal
    <3>. HIDE DEF d, e
    <3>4. OthersSame(e, db', k) /\ Live(db', k) = {}
      BY <3>1, DeleteLocal
    <3>5. ASSUME NEW j \in Keys \ {k, nk} PROVE Same(db, db', j)
      BY <3>2, <3>3, <3>4, SameIsEquivalence DEF OthersSame
    <3>6. \A j \in Keys : Kept(j)
      BY <3>1, <3>5 DEF Kept, Without
    <3>7. \A f : WritesTo(nk, f)
      BY <1>9, <2>2 DEF WritesTo
    <3>8. OnlyWritesRevive
      BY <3>4, <3>5, <3>7, SameIsEquivalence DEF OnlyWritesRevive
    <3>. QED  BY <3>1, <3>6, <3>8
  <2>. QED  BY <2>1, <2>2
<1>. QED  BY <1>1, <1>2, <1>3, <1>4, <1>5, <1>6, <1>7, <1>8, <1>9 DEF Writes

\* The sweeper leaves an entry only beside a key it did not touch, or one that has expired: the
\* entry has the key's expiry.
LEMMA SweepLocal ==
    ASSUME IInv, Sweep
    PROVE  OnlyWritesRevive /\ Entries'
<1>. USE DEF IInv, TypeInv
<1>1. PICK B \in Batches(KeysDue(db)) :
        \E F \in Batches(AllFieldsDue(SweptKeys(db, B))) :
           db' = SweptFields(SweptKeys(db, B), F)
  BY DEF Sweep
<1>. DEFINE d == SweptKeys(db, B)
<1>2. PICK F \in Batches(AllFieldsDue(d)) : db' = SweptFields(d, F)
  BY <1>1
<1>3. cache' = cache /\ now' = now
  BY DEF Sweep
<1>4. B \in SUBSET KeysDue(db) /\ B \in SUBSET DOMAIN db.meta /\ B \in SUBSET Keys
  BY DEF Batches, KeysDue, Good, Typed
<1>5. Good(d) /\ (\A j \in B : j \notin DOMAIN d.meta) /\ (\A j \in Keys \ B : Same(db, d, j))
  BY <1>4, SweptKeysKeeps, SweptKeysLocal
<1>6. F \in SUBSET AllFieldsDue(d)
  BY DEF Batches
<1>. HIDE DEF d
<1>7. /\ DOMAIN db'.meta \subseteq DOMAIN d.meta
      /\ \A j \in Keys : TtlsOf(d, j) = {} => Same(d, db', j)
      /\ \A j \in Keys : Live(db', j) \subseteq Live(d, j)
  BY <1>2, <1>5, <1>6, SweptFieldsLocal
<1>8. \A j \in Keys : Live(db', j) \subseteq Live(db, j)
  BY <1>5, <1>7, SameIsEquivalence DEF Live
<1>9. ASSUME NEW j \in DOMAIN cache
      PROVE  PlainEntry(db, cache[j], j)' \/ (j \notin DOMAIN db.meta /\ DeadHit(j))'
  <2>1. CASE PlainEntry(db, cache[j], j) /\ j \in B
    <3>1. DeadHit(j)
      BY <1>4, <2>1 DEF PlainEntry, KeysDue, KeyDue, DeadHit, Hit
    <3>. QED  BY <1>3, <1>5, <1>7, <2>1, <3>1 DEF DeadHit, Hit
  <2>2. CASE PlainEntry(db, cache[j], j) /\ j \notin B
    <3>1. Same(db, d, j) /\ TtlsOf(d, j) = {}
      BY <1>5, <2>2 DEF Same, PlainEntry
    <3>2. Same(db, db', j)
      BY <1>7, <3>1, SameIsEquivalence
    <3>3. [f \in RowsOf(db', j) |-> db'.cells[<<j, f>>]] = [f \in RowsOf(db, j) |-> db.cells[<<j, f>>]]
      BY <3>2 DEF Same
    <3>4. PlainEntry(db', cache'[j], j)
      BY <1>3, <2>2, <3>2, <3>3 DEF Same, PlainEntry
    <3>. QED  BY <3>4
  <2>3. CASE j \notin DOMAIN db.meta /\ DeadHit(j)
    <3>1. j \notin B /\ j \in Keys  BY <1>4, <2>3
    <3>2. j \notin DOMAIN d.meta  BY <1>5, <2>3, <3>1 DEF Same
    <3>. QED  BY <1>3, <1>7, <2>3, <3>2 DEF DeadHit, Hit
  <2>. QED  BY <2>1, <2>2, <2>3 DEF Entries
<1>. QED  BY <1>3, <1>8, <1>9 DEF OnlyWritesRevive, Entries

\* The LRU, a restart and the clock make nothing live and leave the entries sound.
LEMMA OtherBackgroundLocal ==
    ASSUME IInv, (\E k \in Keys : Evict(k)) \/ Restart \/ Tick
    PROVE  (\A j \in Keys : LiveFields(j)' \subseteq LiveFields(j)) /\ Entries'
<1>1. ASSUME NEW k \in Keys, Evict(k)
      PROVE  (\A j \in Keys : LiveFields(j)' \subseteq LiveFields(j)) /\ Entries'
  <2>1. db' = db /\ now' = now /\ cache' = Without(cache, {k})
    BY <1>1 DEF Evict, Invalidated
  <2>2. Entries'
    BY <2>1 DEF IInv, Entries, PlainEntry, DeadHit, Hit, Without
  <2>. QED  BY <2>1, <2>2 DEF LiveFields, LiveKey, KeyDue, FieldsDue
<1>2. CASE Restart
  BY <1>2 DEF Restart, Entries, NoRows, LiveFields, LiveKey, KeyDue, FieldsDue
<1>3. CASE Tick
  <2>1. db' = db /\ cache' = cache /\ now' = now + 1 /\ now \in Nat
    BY <1>3 DEF Tick, IInv, TypeInv
  <2>2. \A j \in DOMAIN cache : DeadHit(j) => DeadHit(j)'
    BY <2>1 DEF DeadHit, Hit, IInv, Entries, Expiries, NoExp
  <2>3. \A j : PlainEntry(db, cache[j], j)' <=> PlainEntry(db, cache[j], j)
    BY <2>1
  <2>4. Entries'
    BY <2>1, <2>2, <2>3 DEF IInv, Entries
  <2>5. ASSUME NEW j \in Keys PROVE LiveFields(j)' \subseteq LiveFields(j)
    <3>1. Good(db)  BY DEF IInv, TypeInv
    <3>2. FieldsDue(db, j) \subseteq FieldsDue(db, j)'
      <4>. SUFFICES ASSUME NEW f \in Fields, <<j, f>> \in DOMAIN db.ttls, db.ttls[<<j, f>>] <= now
                    PROVE  db.ttls[<<j, f>>] <= now + 1
        BY <2>1 DEF FieldsDue, TtlsOf
      <4>1. db.ttls[<<j, f>>] \in Nat  BY <3>1 DEF Good, Typed
      <4>. QED  BY <2>1, <4>1
    <3>3. KeyDue(db, j) => KeyDue(db, j)'
      <4>1. j \in DOMAIN db.meta => db.meta[j].exp \in Expiries  BY <3>1 DEF Good, Typed, Meta
      <4>. QED  BY <2>1, <4>1 DEF KeyDue, Expiries, NoExp
    <3>4. LiveFields(j) = Live(db, j) /\ LiveFields(j)' = Live(db, j)'
      BY <2>1 DEF LiveFields, LiveKey, Live
    <3>. QED  BY <2>1, <3>2, <3>3, <3>4 DEF Live
  <2>. QED  BY <2>4, <2>5
<1>. QED  BY <1>1, <1>2, <1>3

\* The types, the tables and the entries: an inductive invariant.
LEMMA InvStep == IInv /\ [Next]_vars => IInv'
<1>. SUFFICES ASSUME IInv, [Next]_vars PROVE IInv'
  OBVIOUS
<1>1. TypeInv'  BY TypeStep DEF IInv
<1>2. ASSUME NEW k \in Keys, Reads(k) PROVE Entries'
  BY <1>1, <1>2, ReadLocal, KeptEntries
<1>3. ASSUME NEW k \in Keys, Writes(k) PROVE Entries'
  BY <1>1, <1>3, WriteLocal, KeptEntries
<1>4. CASE Background
  BY <1>1, <1>4, SweepLocal, OtherBackgroundLocal DEF Background, IInv
<1>5. CASE UNCHANGED vars
  BY <1>1, <1>5 DEF vars, IInv, Entries, PlainEntry, DeadHit, Hit
<1>. QED  BY <1>1, <1>2, <1>3, <1>4, <1>5 DEF IInv, Next, Client

\* Nothing is cached at first.
LEMMA InvInit == Init => IInv
BY TypeInit DEF Init, IInv, Entries, NoRows

\* So it holds in every reachable state.
LEMMA Invariance == Spec => []IInv
BY InvInit, InvStep, PTL DEF Spec

\* Cached or not, swept or not, HGETALL answers the fields that have not expired and HLEN their
\* number: a hash is cached only while none of its fields can expire, and an entry that outlives
\* its key is dead.
THEOREM ReadsAlwaysLive == Spec => []ReadsAreLive
<1>1. ASSUME IInv, NEW k \in Keys
      PROVE  /\ Seen(k) = [f \in LiveFields(k) |-> db.cells[<<k, f>>]]
             /\ LenSeen(k) = Cardinality(LiveFields(k))
  <2>1. CASE ~Hit(k)
    <3>1. CASE LiveKey(k) /\ TtlsOf(db, k) = {}
      <4>1. LiveFields(k) = RowsOf(db, k)
        BY <3>1 DEF LiveFields, FieldsDue
      <4>2. Count(db, k) = Cardinality(RowsOf(db, k))
        BY <1>1, <3>1, CountIsRows DEF LiveKey, IInv, TypeInv
      <4>. QED  BY <2>1, <3>1, <4>1, <4>2 DEF Seen, LenSeen
    <3>2. CASE LiveKey(k) /\ TtlsOf(db, k) # {}
      BY <2>1, <3>2 DEF Seen, LenSeen
    <3>3. CASE ~LiveKey(k)
      BY <2>1, <3>3, FS_EmptySet DEF Seen, LenSeen, LiveFields
    <3>. QED  BY <3>1, <3>2, <3>3
  <2>2. CASE DeadHit(k)
    <3>1. ~LiveKey(k)
      BY <1>1, <2>2 DEF IInv, Entries, PlainEntry, DeadHit, Hit, LiveKey, KeyDue
    <3>2. LiveFields(k) = {}  BY <3>1 DEF LiveFields
    <3>. QED  BY <2>2, <3>2, FS_EmptySet DEF Seen, LenSeen, DeadHit, NoRows
  <2>3. CASE Hit(k) /\ ~DeadHit(k)
    <3>1. PlainEntry(db, cache[k], k)
      BY <1>1, <2>3 DEF IInv, Entries, Hit
    <3>2. LiveFields(k) = RowsOf(db, k)
      BY <2>3, <3>1 DEF PlainEntry, DeadHit, LiveFields, LiveKey, KeyDue, FieldsDue
    <3>3. cache[k].hash = [f \in LiveFields(k) |-> db.cells[<<k, f>>]]
      BY <3>1, <3>2 DEF PlainEntry
    <3>4. DOMAIN cache[k].hash = LiveFields(k)
      BY <3>3
    <3>. QED  BY <2>3, <3>3, <3>4 DEF Seen, LenSeen
  <2>. QED  BY <2>1, <2>2, <2>3 DEF DeadHit
<1>2. IInv => ReadsAreLive
  BY <1>1 DEF ReadsAreLive
<1>. QED  BY <1>2, Invariance, PTL

\* A field that is not there comes back only by a command that writes it or by RENAME, which does
\* revive expired fields (RenameMovesLiveFields is violated): never by a read, a delete, an expiry
\* set or taken away, a sweep, a restart or the clock.
THEOREM OnlyWritesReviveFields == Spec => RevivedOnlyByWrite
<1>. DEFINE A == \A k \in Keys : \A f \in LiveFields(k)' \ LiveFields(k) :
                   \/ \E fs \in FieldLists : f \in fs /\ \E g \in [fs -> Values] : HSet(k, g)
                   \/ \E v \in Values : HSetNx(k, f, v) \/ HIncrBy(k, f, v)
                   \/ \E j \in Keys \ {k} : Rename(j, k)
<1>1. ASSUME now' = now, OnlyWritesRevive PROVE A
  <2>1. \A j : LiveFields(j)' = Live(db', j)
    BY <1>1 DEF LiveFields, LiveKey, KeyDue, FieldsDue, Live
  <2>. QED  BY <1>1, <2>1, LiveIsLiveFields DEF OnlyWritesRevive, WritesTo
<1>2. ASSUME IInv, NEW k \in Keys, Reads(k) PROVE A
  <2>1. now' = now /\ OthersSame(db, db', k) /\ Live(db', k) \subseteq Live(db, k)
    BY <1>2, ReadLocal
  <2>2. OnlyWritesRevive
    BY <2>1, SameIsEquivalence DEF OnlyWritesRevive, OthersSame
  <2>. QED  BY <1>1, <2>1, <2>2
<1>3. ASSUME IInv, NEW k \in Keys, Writes(k) PROVE A
  BY <1>1, <1>3, WriteLocal
<1>4. ASSUME IInv, Background PROVE A
  <2>1. CASE Sweep
    BY <1>1, <1>4, <2>1, SweepLocal DEF Sweep
  <2>2. CASE (\E k \in Keys : Evict(k)) \/ Restart \/ Tick
    BY <1>4, <2>2, OtherBackgroundLocal
  <2>. QED  BY <1>4, <2>1, <2>2 DEF Background
<1>5. IInv /\ [Next]_vars => [A]_vars
  BY <1>2, <1>3, <1>4 DEF Next, Client
<1>. QED  BY <1>5, Invariance, PTL DEF Spec, RevivedOnlyByWrite

-----------------------------------------------------------------------------
(* Walks.                                                                  *)

\* A set of natural numbers that is not empty has a least element.
LEMMA LeastNumber ==
    ASSUME NEW T \in SUBSET Nat, T # {}
    PROVE  \E n \in T : \A m \in T : n <= m
<1>. DEFINE R == OpToRel(<, Nat)
<1>1. IsWellFoundedOn(R, Nat)
  BY NatLessThanWellFounded
<1>2. \A m, n \in Nat : m < n => <<m, n>> \in R
  BY DEF OpToRel
<1>. HIDE DEF R
<1>3. PICK n \in T : \A m \in T : ~(<<m, n>> \in R)
  BY <1>1, WFMin
<1>4. \A m \in T : ~(m < n)
  BY <1>2, <1>3
<1>. QED  BY <1>4

-----------------------------------------------------------------------------
(* Ranks.  The rank of a name in a list is the number of names up to it;   *)
(* a page is a stretch of ranks.                                           *)

Rank(L, k) == Cardinality({j \in L : j <= k})

LEMMA SliceByRank ==
    ASSUME NEW L, NEW f, NEW c
    PROVE  Slice(L, f, c) = {k \in L : f < Rank(L, k) /\ Rank(L, k) <= f + c}
BY DEF Slice, Rank

\* Lists of names are finite, and so is what is taken out of them.
LEMMA ListsAreFinite ==
    ASSUME NEW L \in SUBSET Names
    PROVE  IsFiniteSet(L) /\ Cardinality(L) \in Nat
<1>1. IsFiniteSet(Names)
  BY CursorsAssumption, FS_Interval DEF Names
<1>. QED  BY <1>1, FS_Subset, FS_CardinalityType

LEMMA SubsetsAreSmaller ==
    ASSUME NEW L \in SUBSET Names, NEW M \in SUBSET L
    PROVE  /\ Cardinality(M) <= Cardinality(L)
           /\ Cardinality(L) = Cardinality(M) => L = M
BY ListsAreFinite, FS_Subset

\* Ranks of a list are 1 up to its length, in the order of the names, and each is there.
LEMMA RanksCount ==
    ASSUME NEW L \in SUBSET Names, NEW k \in L
    PROVE  Rank(L, k) \in 1..Cardinality(L)
<1>. DEFINE below == {j \in L : j <= k}
<1>0. k \in Int
  BY CursorsAssumption DEF Names
<1>1. k \in below /\ below \in SUBSET L /\ below \in SUBSET Names
  <2>1. k \in below  BY <1>0
  <2>2. below \subseteq L  OBVIOUS
  <2>. QED  BY <2>1, <2>2
<1>2. Cardinality(below) \in Nat /\ Cardinality(below) # 0 /\ Cardinality(L) \in Nat
  BY <1>1, ListsAreFinite, FS_EmptySet
<1>3. Cardinality(below) <= Cardinality(L)
  BY <1>1, SubsetsAreSmaller
<1>. HIDE DEF below
<1>4. Cardinality(below) \in 1..Cardinality(L)
  BY <1>2, <1>3
<1>. QED  BY <1>4 DEF Rank, below

LEMMA RanksGrow ==
    ASSUME NEW L \in SUBSET Names, NEW k \in L, NEW j \in L, k < j
    PROVE  Rank(L, k) < Rank(L, j)
<1>. DEFINE low == {i \in L : i <= k}
            high == {i \in L : i <= j}
<1>0. k \in Int /\ j \in Int /\ \A i \in L : i \in Int
  BY CursorsAssumption DEF Names
<1>1. low \in SUBSET high /\ high \in SUBSET Names /\ low \in SUBSET Names
  <2>1. ASSUME NEW i \in L, i <= k PROVE i <= j  BY <1>0, <2>1
  <2>2. low \subseteq high  BY <2>1
  <2>3. low \subseteq L /\ high \subseteq L  OBVIOUS
  <2>. QED  BY <2>2, <2>3
<1>5. j \in high /\ j \notin low
  BY <1>0
<1>2. Cardinality(low) \in Nat /\ Cardinality(high) \in Nat
  BY <1>1, ListsAreFinite
<1>3. Cardinality(low) <= Cardinality(high) /\ Cardinality(high) # Cardinality(low)
  BY <1>1, <1>5, SubsetsAreSmaller
<1>. HIDE DEF low, high
<1>4. Cardinality(low) < Cardinality(high)
  BY <1>2, <1>3
<1>. QED  BY <1>4 DEF Rank, low, high

LEMMA RanksAreAllThere ==
    ASSUME NEW L \in SUBSET Names, NEW r \in 1..Cardinality(L)
    PROVE  \E k \in L : Rank(L, k) = r
<1>. DEFINE rank == [k \in L |-> Rank(L, k)]
            R == 1..Cardinality(L)
<1>0. Cardinality(L) \in Nat /\ \A i \in L : i \in Int
  BY ListsAreFinite, CursorsAssumption DEF Names
<1>1. rank \in [L -> R]
  BY RanksCount
<1>2. ASSUME NEW k \in L, NEW j \in L, rank[k] = rank[j] PROVE k = j
  <2>1. Rank(L, k) = Rank(L, j) /\ Rank(L, k) \in Nat  BY <1>0, <1>2, RanksCount
  <2>2. ~(k < j) /\ ~(j < k)  BY <2>1, RanksGrow
  <2>. QED  BY <1>0, <2>2
<1>3. rank \in Injection(L, R)
  BY <1>1, <1>2 DEF Injection, IsInjective
<1>4. IsFiniteSet(R) /\ Cardinality(R) = Cardinality(L)
  BY <1>0, FS_Interval
<1>5. rank \in Surjection(L, R)
  <2>. HIDE DEF rank, R
  <2>. QED  BY <1>3, <1>4, FS_Injection
<1>. QED  BY <1>5 DEF Surjection

-----------------------------------------------------------------------------
(* Pages.                                                                  *)

\* A page is full, or it is what is left of the list.
LEMMA PageSize ==
    ASSUME NEW L \in SUBSET Names, NEW f \in Nat, NEW c \in Nat
    PROVE  Cardinality(Slice(L, f, c)) =
             IF f + c <= Cardinality(L) THEN c
             ELSE IF f <= Cardinality(L) THEN Cardinality(L) - f ELSE 0
<1>. DEFINE n == Cardinality(L)
            top == IF f + c <= n THEN f + c ELSE n
            R == (f + 1)..top
            S == Slice(L, f, c)
            rank == [k \in S |-> Rank(L, k)]
<1>0. n \in Nat /\ \A i \in L : i \in Int
  BY ListsAreFinite, CursorsAssumption DEF Names
<1>1. S \in SUBSET L /\ \A k \in L : k \in S <=> Rank(L, k) \in R
  <2>1. \A k \in L : Rank(L, k) \in 1..n  BY RanksCount
  <2>2. \A k \in L : k \in S <=> f < Rank(L, k) /\ Rank(L, k) <= f + c  BY SliceByRank
  <2>3. S \in SUBSET L  BY SliceByRank
  <2>. HIDE DEF S, n
  <2>. QED  BY <1>0, <2>1, <2>2, <2>3
<1>. HIDE DEF S
<1>2. rank \in [S -> R]
  BY <1>1
<1>3. ASSUME NEW k \in S, NEW j \in S, rank[k] = rank[j] PROVE k = j
  <2>1. k \in L /\ j \in L  BY <1>1
  <2>2. Rank(L, k) = Rank(L, j) /\ Rank(L, k) \in Nat  BY <1>0, <1>3, <2>1, RanksCount
  <2>3. ~(k < j) /\ ~(j < k)  BY <2>1, <2>2, RanksGrow
  <2>. QED  BY <1>0, <2>1, <2>3
<1>4. ASSUME NEW r \in R PROVE \E k \in S : rank[k] = r
  <2>1. r \in 1..n  BY <1>0
  <2>2. PICK k \in L : Rank(L, k) = r  BY <2>1, RanksAreAllThere
  <2>. QED  BY <1>1, <2>2
<1>5. rank \in Surjection(S, R) /\ rank \in Injection(S, R)
  BY <1>2, <1>3, <1>4 DEF Surjection, Injection, IsInjective
<1>6. S \in SUBSET Names
  BY <1>1
<1>7. Cardinality(R) = Cardinality(S)
  <2>. HIDE DEF rank, R
  <2>. QED  BY <1>5, <1>6, ListsAreFinite, FS_Surjection
<1>8. Cardinality(R) = IF f + 1 > top THEN 0 ELSE top - (f + 1) + 1
  <2>1. f + 1 \in Int /\ top \in Int  BY <1>0
  <2>. HIDE DEF top
  <2>. QED  BY <2>1, FS_Interval
<1>. HIDE DEF R
<1>9. Cardinality(S) =
        IF f + c <= n THEN c
        ELSE IF f <= n THEN n - f ELSE 0
  <2>. HIDE DEF n
  <2>. QED  BY <1>0, <1>7, <1>8
<1>. QED  BY <1>9 DEF S

\* What a cursor leaves behind: the names passed are an initial stretch of the list, not more than
\* the cursor, and all of the list if they are less.
LEMMA PassedNames ==
    ASSUME NEW L \in SUBSET Names, NEW o \in Nat
    PROVE  /\ Slice(L, 0, o) \in SUBSET L
           /\ Cardinality(Slice(L, 0, o)) <= o
           /\ Cardinality(Slice(L, 0, o)) < o => Slice(L, 0, o) = L
           /\ \A k \in Slice(L, 0, o), j \in L : j <= k => j \in Slice(L, 0, o)
<1>. DEFINE n == Cardinality(L)
            P == Slice(L, 0, o)
<1>0. n \in Nat /\ \A i \in L : i \in Int
  BY ListsAreFinite, CursorsAssumption DEF Names
<1>1. P \in SUBSET L /\ \A k \in L : k \in P <=> Rank(L, k) <= o
  <2>1. \A k \in L : Rank(L, k) \in 1..n  BY RanksCount
  <2>2. \A k \in L : k \in P <=> 0 < Rank(L, k) /\ Rank(L, k) <= 0 + o  BY SliceByRank
  <2>3. P \in SUBSET L  BY SliceByRank
  <2>. HIDE DEF P, n
  <2>. QED  BY <1>0, <2>1, <2>2, <2>3
<1>2. Cardinality(P) = IF 0 + o <= n THEN o ELSE IF 0 <= n THEN n - 0 ELSE 0
  BY PageSize
<1>3. Cardinality(P) <= o
  <2>. HIDE DEF P, n
  <2>. QED  BY <1>0, <1>2
<1>4. Cardinality(P) < o => P = L
  <2>1. Cardinality(P) < o => Cardinality(P) = n
    <3>. HIDE DEF P, n
    <3>. QED  BY <1>0, <1>2
  <2>. QED  BY <1>1, <2>1, SubsetsAreSmaller
<1>5. ASSUME NEW k \in P, NEW j \in L, j <= k PROVE j \in P
  <2>1. k \in L /\ Rank(L, k) <= o  BY <1>1
  <2>2. CASE j = k  BY <2>2
  <2>3. CASE j < k
    <3>1. Rank(L, j) < Rank(L, k) /\ Rank(L, j) \in 1..n /\ Rank(L, k) \in 1..n
      BY <2>1, <2>3, RanksGrow, RanksCount
    <3>2. Rank(L, j) <= o
      <4>. HIDE DEF n
      <4>. QED  BY <1>0, <2>1, <3>1
    <3>. QED  BY <1>1, <3>2
  <2>4. j \in Int /\ k \in Int  BY <1>0, <2>1
  <2>. QED  BY <1>5, <2>2, <2>3, <2>4
<1>. QED  BY <1>1, <1>3, <1>4, <1>5

\* A page follows what was passed and shares nothing with it.  With a page that is not full all of
\* the list is passed, as with an offset moved by the size of the page.
LEMMA PagesFollow ==
    ASSUME NEW L \in SUBSET Names, NEW f \in Nat, NEW c \in Nat
    PROVE  LET names == Slice(L, f, c)
               size == Cardinality(names)
           IN  /\ names \in SUBSET L /\ size \in Nat /\ size <= c
               /\ names \cap Slice(L, 0, f) = {}
               /\ Slice(L, 0, f + size) = Slice(L, 0, f) \cup names
               /\ size < c => Slice(L, 0, f) \cup names = L
               /\ names # {} => f + size <= Cardinality(L)
<1>. DEFINE n == Cardinality(L)
            names == Slice(L, f, c)
            size == Cardinality(names)
<1>0. n \in Nat
  BY ListsAreFinite
<1>1. /\ names \in SUBSET L
      /\ \A k \in L : Rank(L, k) \in 1..n
      /\ \A k \in L : k \in names <=> f < Rank(L, k) /\ Rank(L, k) <= f + c
  BY SliceByRank, RanksCount
<1>2. size = IF f + c <= n THEN c ELSE IF f <= n THEN n - f ELSE 0
  BY PageSize
<1>3. names \in SUBSET Names
  BY <1>1
<1>4. size \in Nat /\ (names # {} => size # 0)
  BY <1>3, ListsAreFinite, FS_EmptySet
<1>5. ASSUME NEW o \in Nat
      PROVE  /\ Slice(L, 0, o) \in SUBSET L
             /\ \A k \in L : k \in Slice(L, 0, o) <=> Rank(L, k) <= o
  <2>1. \A k \in L : k \in Slice(L, 0, o) <=> 0 < Rank(L, k) /\ Rank(L, k) <= 0 + o
    BY SliceByRank
  <2>2. Slice(L, 0, o) \in SUBSET L  BY SliceByRank
  <2>. HIDE DEF names, size
  <2>. QED  BY <1>1, <2>1, <2>2
<1>. HIDE DEF n, names, size
<1>6. size <= c /\ (names # {} => f + size <= n)
  BY <1>0, <1>2, <1>4
<1>7. \A k \in L : Rank(L, k) <= f + size <=> Rank(L, k) <= f \/ k \in names
  BY <1>0, <1>1, <1>2
<1>8. size < c => \A k \in L : Rank(L, k) <= f \/ k \in names
  BY <1>0, <1>1, <1>2
<1>9. f + size \in Nat
  BY <1>4
<1>10. Slice(L, 0, f + size) = Slice(L, 0, f) \cup names
  <2>1. \A k \in L : k \in Slice(L, 0, f + size) <=> k \in Slice(L, 0, f) \/ k \in names
    BY <1>5, <1>7, <1>9
  <2>2. Slice(L, 0, f + size) \in SUBSET L /\ Slice(L, 0, f) \in SUBSET L  BY <1>5, <1>9
  <2>. QED  BY <1>1, <2>1, <2>2
<1>11. size < c => Slice(L, 0, f) \cup names = L
  <2>1. Slice(L, 0, f) \in SUBSET L  BY <1>5
  <2>. QED  BY <1>1, <1>5, <1>8, <2>1
<1>12. names \cap Slice(L, 0, f) = {}
  BY <1>0, <1>1, <1>5
<1>. QED  BY <1>1, <1>4, <1>6, <1>10, <1>11, <1>12 DEF n, names, size

-----------------------------------------------------------------------------
(* Changes of the rows between two pages.                                  *)

\* Names that a change moves among those passed are not more than the names passed that went; and
\* the other way round, for the lists may change places.
LEMMA MovedNames ==
    ASSUME NEW L \in SUBSET Names, NEW M \in SUBSET Names, NEW o \in Nat
    PROVE  Cardinality((Slice(M, 0, o) \ Slice(L, 0, o)) \cap L) <= Cardinality(Slice(L, 0, o) \ M)
<1>. DEFINE P == Slice(L, 0, o)
            Q == Slice(M, 0, o)
            moved == (Q \ P) \cap L
            stayed == P \cap M
            gone == P \ M
<1>1. /\ P \in SUBSET L /\ Q \in SUBSET M
      /\ Cardinality(P) <= o /\ Cardinality(Q) <= o
      /\ Cardinality(P) < o => P = L
      /\ \A k \in P, j \in L : j <= k => j \in P
      /\ \A k \in Q, j \in M : j <= k => j \in Q
  BY PassedNames
<1>. HIDE DEF P, Q
<1>2. \A k \in L \cup M : k \in Int
  BY CursorsAssumption DEF Names
<1>3. /\ moved \in SUBSET Names /\ stayed \in SUBSET Names /\ gone \in SUBSET Names
      /\ P \in SUBSET Names /\ Q \in SUBSET Names
  BY <1>1
<1>4. /\ IsFiniteSet(moved) /\ Cardinality(moved) \in Nat
      /\ IsFiniteSet(stayed) /\ Cardinality(stayed) \in Nat
      /\ IsFiniteSet(gone) /\ Cardinality(gone) \in Nat
      /\ Cardinality(P) \in Nat /\ Cardinality(Q) \in Nat /\ IsFiniteSet(P)
  BY <1>3, ListsAreFinite
<1>5. CASE moved = {}
  <2>1. Cardinality(moved) = 0  BY <1>5, FS_EmptySet
  <2>2. Cardinality(moved) <= Cardinality(gone)
    <3>. HIDE DEF moved, gone
    <3>. QED  BY <1>4, <2>1
  <2>. QED  BY <2>2 DEF P, Q
<1>6. CASE moved # {}
  <2>1. PICK a \in moved : TRUE  BY <1>6
  <2>2. P # L  BY <2>1
  <2>3. Cardinality(P) = o  BY <1>1, <1>4, <2>2
  <2>4. stayed \subseteq Q
    <3>1. ASSUME NEW p \in stayed PROVE p \in Q
      <4>1. a \in L /\ a \notin P /\ p \in P /\ p \in L  BY <1>1, <2>1
      <4>2. ~(a <= p)  BY <1>1, <4>1
      <4>3. p <= a  BY <1>2, <4>1, <4>2
      <4>. QED  BY <1>1, <2>1, <4>3
    <3>. QED  BY <3>1
  <2>5. moved \cup stayed \in SUBSET Q /\ moved \cap stayed = {}
    <3>1. moved \subseteq Q  OBVIOUS
    <3>2. moved \cap stayed = {}  OBVIOUS
    <3>. QED  BY <2>4, <3>1, <3>2
  <2>6. Cardinality(moved \cup stayed) = Cardinality(moved) + Cardinality(stayed)
    <3>1. Cardinality(moved \cap stayed) = 0  BY <2>5, FS_EmptySet
    <3>2. Cardinality(moved \cup stayed)
            = Cardinality(moved) + Cardinality(stayed) - Cardinality(moved \cap stayed)
      <4>. HIDE DEF moved, stayed
      <4>. QED  BY <1>4, FS_Union
    <3>. HIDE DEF moved, stayed
    <3>. QED  BY <1>4, <3>1, <3>2
  <2>7. Cardinality(moved \cup stayed) <= Cardinality(Q)
    BY <1>3, <2>5, SubsetsAreSmaller
  <2>8. Cardinality(gone) = Cardinality(P) - Cardinality(stayed)
    BY <1>4, FS_Difference
  <2>9. Cardinality(moved) <= Cardinality(gone)
    <3>. HIDE DEF moved, stayed, gone
    <3>. QED  BY <1>1, <1>4, <2>3, <2>6, <2>7, <2>8
  <2>. QED  BY <2>9 DEF P, Q
<1>. QED  BY <1>5, <1>6

-----------------------------------------------------------------------------
(* The account of a walk: of the names S that it is to return, those       *)
(* passed and not returned, and the returns too many so far - the first of *)
(* a name that is not passed counts, for it will come again.               *)

Lost(S, P, r) == {k \in S \cap P : r[k] = 0}
Surplus(P, r, k) == IF k \in P THEN r[k] - 1 ELSE r[k]
Again(S, P, r) == UNION {{k} \X (1..Surplus(P, r, k)) : k \in S}

Tallies == [Names -> Nat]
\* From r to s the names came once more.
Came(names, r, s) == \A k \in Names : s[k] = r[k] + IF k \in names THEN 1 ELSE 0

LEMMA AgainElements ==
    ASSUME NEW S, NEW P, NEW r
    PROVE  \A e : e \in Again(S, P, r)
                    <=> \E k \in S : \E i \in 1..Surplus(P, r, k) : e = <<k, i>>
<1>1. ASSUME NEW e, e \in Again(S, P, r)
      PROVE  \E k \in S : \E i \in 1..Surplus(P, r, k) : e = <<k, i>>
  <2>1. PICK k \in S : e \in {k} \X (1..Surplus(P, r, k))  BY <1>1 DEF Again
  <2>2. e = <<k, e[2]>> /\ e[2] \in 1..Surplus(P, r, k)  BY <2>1
  <2>. QED  BY <2>2
<1>2. ASSUME NEW e, NEW k \in S, NEW i \in 1..Surplus(P, r, k), e = <<k, i>>
      PROVE  e \in Again(S, P, r)
  <2>1. e \in {k} \X (1..Surplus(P, r, k))  BY <1>2
  <2>. QED  BY <2>1 DEF Again
<1>. QED  BY <1>1, <1>2

LEMMA AccountsAreFinite ==
    ASSUME NEW S \in SUBSET Names, NEW P, NEW r \in Tallies
    PROVE  /\ IsFiniteSet(Again(S, P, r)) /\ Cardinality(Again(S, P, r)) \in Nat
           /\ IsFiniteSet(Lost(S, P, r)) /\ Cardinality(Lost(S, P, r)) \in Nat
<1>. DEFINE pairs == [k \in S |-> {k} \X (1..Surplus(P, r, k))]
            all == {{k} \X (1..Surplus(P, r, k)) : k \in S}
<1>1. pairs \in Surjection(S, all)
  BY DEF Surjection
<1>2. IsFiniteSet(all)
  <2>. HIDE DEF pairs, all
  <2>. QED  BY <1>1, ListsAreFinite, FS_Surjection
<1>3. ASSUME NEW k \in S PROVE IsFiniteSet({k} \X (1..Surplus(P, r, k)))
  <2>1. r[k] \in Nat  BY DEF Tallies
  <2>2. Surplus(P, r, k) \in Int  BY <2>1 DEF Surplus
  <2>3. IsFiniteSet(1..Surplus(P, r, k))  BY <2>2, FS_Interval
  <2>4. IsFiniteSet({k})  BY FS_Singleton
  <2>. QED  BY <2>3, <2>4, FS_Product
<1>4. \A T \in all : IsFiniteSet(T)
  BY <1>3
<1>5. IsFiniteSet(UNION all)
  <2>. HIDE DEF all
  <2>. QED  BY <1>2, <1>4, FS_UNION
<1>6. IsFiniteSet(Again(S, P, r))
  BY <1>5 DEF Again
<1>7. Lost(S, P, r) \in SUBSET Names
  BY DEF Lost
<1>. QED  BY <1>6, <1>7, ListsAreFinite, FS_CardinalityType

\* A page passes its names and returns them: it loses none, and none of them comes too often for
\* the first time.
LEMMA PagesKeepAccounts ==
    ASSUME NEW S \in SUBSET Names, NEW P, NEW names, names \cap P = {},
           NEW r \in Tallies, NEW s \in Tallies, Came(names, r, s)
    PROVE  /\ Cardinality(Lost(S, P \cup names, s)) <= Cardinality(Lost(S, P, r))
           /\ Again(S, P \cup names, s) = Again(S, P, r)
<1>1. \A k \in S : r[k] \in Nat /\ s[k] = r[k] + IF k \in names THEN 1 ELSE 0
  BY DEF Tallies, Came
<1>2. \A k \in S : Surplus(P \cup names, s, k) = Surplus(P, r, k)
  BY <1>1 DEF Surplus
<1>3. {{k} \X (1..Surplus(P \cup names, s, k)) : k \in S}
        = {{k} \X (1..Surplus(P, r, k)) : k \in S}
  BY <1>2
<1>4. Lost(S, P \cup names, s) \in SUBSET Lost(S, P, r)
  BY <1>1 DEF Lost
<1>5. Cardinality(Lost(S, P \cup names, s)) <= Cardinality(Lost(S, P, r))
  BY <1>4, AccountsAreFinite, FS_Subset
<1>. QED  BY <1>3, <1>5 DEF Again

\* A change of the rows loses no more names than went of those passed, and makes no more returns
\* too many than names came among those passed.
LEMMA ChangesAreAccountedFor ==
    ASSUME NEW L \in SUBSET Names, NEW M \in SUBSET Names, NEW o \in Nat,
           NEW S \in SUBSET L, NEW r \in Tallies, NEW s \in Tallies,
           \A k \in S \cap M : s[k] = r[k]
    PROVE  /\ Cardinality(Lost(S \cap M, Slice(M, 0, o), s))
                <= Cardinality(Lost(S, Slice(L, 0, o), r)) + Cardinality(Slice(L, 0, o) \ M)
           /\ Cardinality(Again(S \cap M, Slice(M, 0, o), s))
                <= Cardinality(Again(S, Slice(L, 0, o), r)) + Cardinality(Slice(M, 0, o) \ L)
<1>. DEFINE P == Slice(L, 0, o)
            Q == Slice(M, 0, o)
            T == S \cap M
            movedIn == (Q \ P) \cap L
            movedOut == (P \ Q) \cap M
            first == [k \in movedOut |-> <<k, r[k]>>]
            firsts == {<<k, r[k]>> : k \in movedOut}
<1>1. P \in SUBSET L /\ Q \in SUBSET M
  BY PassedNames
<1>2. Cardinality(movedIn) <= Cardinality(P \ M) /\ Cardinality(movedOut) <= Cardinality(Q \ L)
  BY MovedNames
<1>. HIDE DEF P, Q
<1>3. /\ movedIn \in SUBSET Names /\ movedOut \in SUBSET Names
      /\ P \ M \in SUBSET Names /\ Q \ L \in SUBSET Names
      /\ S \in SUBSET Names /\ T \in SUBSET Names
  BY <1>1
<1>4. /\ IsFiniteSet(movedIn) /\ Cardinality(movedIn) \in Nat
      /\ IsFiniteSet(movedOut) /\ Cardinality(movedOut) \in Nat
      /\ Cardinality(P \ M) \in Nat /\ Cardinality(Q \ L) \in Nat
  BY <1>3, ListsAreFinite
<1>5. /\ IsFiniteSet(Lost(S, P, r)) /\ Cardinality(Lost(S, P, r)) \in Nat
      /\ IsFiniteSet(Again(S, P, r)) /\ Cardinality(Again(S, P, r)) \in Nat
      /\ Cardinality(Lost(T, Q, s)) \in Nat /\ Cardinality(Again(T, Q, s)) \in Nat
  <2>. HIDE DEF T
  <2>. QED  BY <1>3, AccountsAreFinite
<1>6. Cardinality(Lost(T, Q, s)) <= Cardinality(Lost(S, P, r)) + Cardinality(P \ M)
  <2>1. Lost(T, Q, s) \in SUBSET (Lost(S, P, r) \cup movedIn)  BY DEF Lost
  <2>2. /\ IsFiniteSet(Lost(S, P, r) \cup movedIn)
        /\ Cardinality(Lost(S, P, r) \cup movedIn)
             <= Cardinality(Lost(S, P, r)) + Cardinality(movedIn)
    <3>. HIDE DEF movedIn
    <3>1. Cardinality(Lost(S, P, r) \cap movedIn) \in Nat
      BY <1>4, FS_Intersection, FS_CardinalityType
    <3>2. /\ IsFiniteSet(Lost(S, P, r) \cup movedIn)
          /\ Cardinality(Lost(S, P, r) \cup movedIn)
               = Cardinality(Lost(S, P, r)) + Cardinality(movedIn)
                   - Cardinality(Lost(S, P, r) \cap movedIn)
      BY <1>4, <1>5, FS_Union
    <3>. QED  BY <1>4, <1>5, <3>1, <3>2
  <2>3. Cardinality(Lost(T, Q, s)) <= Cardinality(Lost(S, P, r) \cup movedIn)
    BY <2>1, <2>2, FS_Subset
  <2>4. Cardinality(Lost(S, P, r) \cup movedIn) \in Nat  BY <2>2, FS_CardinalityType
  <2>. HIDE DEF movedIn, T
  <2>. QED  BY <1>2, <1>4, <1>5, <2>2, <2>3, <2>4
<1>7. /\ IsFiniteSet(firsts) /\ Cardinality(firsts) \in Nat
      /\ Cardinality(firsts) <= Cardinality(movedOut)
  <2>1. first \in Surjection(movedOut, firsts)  BY DEF Surjection
  <2>. HIDE DEF first, firsts, movedOut
  <2>. QED  BY <1>4, <2>1, FS_Surjection, FS_CardinalityType
<1>8. Again(T, Q, s) \in SUBSET (Again(S, P, r) \cup firsts)
  <2>1. ASSUME NEW e \in Again(T, Q, s) PROVE e \in Again(S, P, r) \cup firsts
    <3>1. PICK k \in T : \E i \in 1..Surplus(Q, s, k) : e = <<k, i>>  BY AgainElements
    <3>2. PICK i \in 1..Surplus(Q, s, k) : e = <<k, i>>  BY <3>1
    <3>3. r[k] \in Nat /\ s[k] = r[k] /\ k \in S /\ k \in M  BY <1>3 DEF Tallies
    <3>4. CASE i \in 1..Surplus(P, r, k)
      BY <3>2, <3>3, <3>4, AgainElements
    <3>5. CASE i \notin 1..Surplus(P, r, k)
      <4>1. k \in P /\ k \notin Q /\ i = r[k]  BY <3>2, <3>3, <3>5 DEF Surplus
      <4>2. k \in movedOut  BY <3>3, <4>1
      <4>. QED  BY <3>2, <4>1, <4>2
    <3>. QED  BY <3>4, <3>5
  <2>. QED  BY <2>1
<1>9. Cardinality(Again(T, Q, s)) <= Cardinality(Again(S, P, r)) + Cardinality(Q \ L)
  <2>. HIDE DEF firsts, movedOut, T
  <2>1. Cardinality(Again(S, P, r) \cap firsts) \in Nat
    BY <1>7, FS_Intersection, FS_CardinalityType
  <2>2. /\ IsFiniteSet(Again(S, P, r) \cup firsts)
        /\ Cardinality(Again(S, P, r) \cup firsts)
             = Cardinality(Again(S, P, r)) + Cardinality(firsts)
                 - Cardinality(Again(S, P, r) \cap firsts)
    BY <1>5, <1>7, FS_Union
  <2>3. Cardinality(Again(T, Q, s)) <= Cardinality(Again(S, P, r) \cup firsts)
    BY <1>8, <2>2, FS_Subset
  <2>4. Cardinality(Again(S, P, r) \cup firsts) \in Nat  BY <2>2, FS_CardinalityType
  <2>. QED  BY <1>2, <1>4, <1>5, <1>7, <2>1, <2>2, <2>3, <2>4
<1>. QED  BY <1>6, <1>9 DEF P, Q

-----------------------------------------------------------------------------
(* The invariant.                                                          *)

\* A key on a page of KEYS counts as returned until it is looked at.
SeenSoFar == [k \in Names |-> returned[k] + IF k \in page THEN 1 ELSE 0]
Passed == Slice(Listing, 0, offset)

\* The account of the walk is covered by what went and what came among the rows passed.
Accounts ==
    /\ Cardinality(Lost(steady, Passed, SeenSoFar)) <= removed
    /\ Cardinality(Again(steady, Passed, SeenSoFar)) <= added

NotBegun == offset = 0 /\ page = {} /\ more = TRUE /\ \A k \in Names : returned[k] = 0

\* KEYS has its rows for itself: the names to walk are the rows, those returned are live.
KeysRows ==
    /\ steady = DOMAIN rows
    /\ \A k \in Names : returned[k] > 0 =>
         k \in DOMAIN rows /\ (rows[k] = Never \/ rows[k] > began)
\* What it has looked at and what it has still to look at is passed, and nothing is in both.
KeysPassed ==
    /\ page \subseteq Passed
    /\ \A k \in Names : returned[k] > 0 => k \in Passed
    /\ \A k \in page : returned[k] = 0
    /\ ~more => Passed = Listing

Walking ==
    /\ phase = "idle" => NotBegun
    /\ phase = "open" => Accounts
    /\ phase = "done" => page = {} /\ Cardinality(Missed) <= removed /\ Cardinality(Repeats) <= added
    /\ walk # "KEYS" => page = {}
    /\ walk = "KEYS" /\ phase # "idle" => KeysRows
    /\ walk = "KEYS" /\ phase = "open" => KeysPassed

WalkInv == WalkTypeOK /\ Walking

\* What the types say of lists and tallies.
LEMMA TypesOfWalk ==
    ASSUME WalkTypeOK
    PROVE  /\ Listing \in SUBSET Names /\ Listing \subseteq DOMAIN rows
           /\ steady \in SUBSET Listing /\ steady \in SUBSET Names
           /\ offset \in Nat /\ removed \in Nat /\ added \in Nat
           /\ SeenSoFar \in Tallies /\ returned \in Tallies
           /\ clock \in Nat /\ began \in Nat /\ N \in Nat /\ MaxClock \in Nat
<1>1. Listing \subseteq DOMAIN rows /\ DOMAIN rows \subseteq Names
  BY DEF WalkTypeOK, Listing, Listed
<1>2. N \in Nat /\ MaxClock \in Nat
  BY CursorsAssumption
<1>3. offset \in Nat /\ clock \in Nat /\ began \in Nat
  BY <1>2 DEF WalkTypeOK
<1>4. SeenSoFar \in Tallies /\ returned \in Tallies
  BY DEF WalkTypeOK, SeenSoFar, Tallies
<1>5. steady \subseteq Listing /\ removed \in Nat /\ added \in Nat
  BY DEF WalkTypeOK
<1>. QED  BY <1>1, <1>2, <1>3, <1>4, <1>5

LEMMA ChangeKeepsAccounts ==
    ASSUME WalkTypeOK, NEW table, NEW time, DOMAIN table \subseteq Names,
           Became(table, time), UNCHANGED <<walk, offset>>,
           SeenSoFar' \in Tallies, \A k \in steady' : SeenSoFar'[k] = SeenSoFar[k]
    PROVE  /\ steady' \subseteq Listing' /\ Listing' \in SUBSET Names
           /\ removed' \in Nat /\ added' \in Nat
           /\ Accounts => Accounts'
<1>. DEFINE L == Listing
            M == Listed(table, time)
            P == Slice(L, 0, offset)
            Q == Slice(M, 0, offset)
<1>1. /\ L \in SUBSET Names /\ steady \in SUBSET L /\ steady \in SUBSET Names
      /\ offset \in Nat /\ removed \in Nat /\ added \in Nat /\ SeenSoFar \in Tallies
  BY TypesOfWalk
<1>2. M \in SUBSET Names
  BY DEF Listed
<1>3. Listing' = M
  BY DEF Became, Listing, Listed
<1>4. /\ removed' = removed + Cardinality(P \ M) /\ added' = added + Cardinality(Q \ L)
      /\ steady' = steady \cap M
  BY DEF Became
<1>5. Passed = P /\ Passed' = Q
  BY <1>3 DEF Passed
<1>. HIDE DEF L, M
<1>6. P \in SUBSET L /\ Q \in SUBSET M
  BY <1>1, <1>2, PassedNames
<1>7. /\ Cardinality(P \ M) \in Nat /\ Cardinality(Q \ L) \in Nat
  <2>1. P \ M \in SUBSET Names /\ Q \ L \in SUBSET Names  BY <1>1, <1>2, <1>6
  <2>. QED  BY <2>1, ListsAreFinite
<1>8. /\ Cardinality(Lost(steady \cap M, Q, SeenSoFar'))
           <= Cardinality(Lost(steady, P, SeenSoFar)) + Cardinality(P \ M)
      /\ Cardinality(Again(steady \cap M, Q, SeenSoFar'))
           <= Cardinality(Again(steady, P, SeenSoFar)) + Cardinality(Q \ L)
  BY <1>1, <1>2, <1>4, ChangesAreAccountedFor
<1>. HIDE DEF P, Q
<1>9. /\ Cardinality(Lost(steady, P, SeenSoFar)) \in Nat
      /\ Cardinality(Again(steady, P, SeenSoFar)) \in Nat
  BY <1>1, AccountsAreFinite
<1>10. steady \cap M \in SUBSET Names
  BY <1>2
<1>11. /\ Cardinality(Lost(steady \cap M, Q, SeenSoFar')) \in Nat
       /\ Cardinality(Again(steady \cap M, Q, SeenSoFar')) \in Nat
  BY <1>10, AccountsAreFinite
<1>12. ASSUME Accounts PROVE Accounts'
  <2>1. /\ Cardinality(Lost(steady, P, SeenSoFar)) <= removed
        /\ Cardinality(Again(steady, P, SeenSoFar)) <= added
    BY <1>5, <1>12 DEF Accounts
  <2>2. /\ Cardinality(Lost(steady \cap M, Q, SeenSoFar')) <= removed'
        /\ Cardinality(Again(steady \cap M, Q, SeenSoFar')) <= added'
    BY <1>1, <1>4, <1>7, <1>8, <1>9, <1>11, <2>1
  <2>. QED  BY <1>4, <1>5, <2>2 DEF Accounts
<1>. QED  BY <1>1, <1>2, <1>3, <1>4, <1>7, <1>12

LEMMA InitWalkInv == WalkInit => WalkInv
<1>. SUFFICES ASSUME WalkInit PROVE WalkInv
  OBVIOUS
<1>0. N \in Nat /\ MaxClock \in Nat /\ MaxChanges \in Nat
  BY CursorsAssumption
<1>1. PICK S \in SUBSET Names : rows \in [S -> Never..MaxClock]
  BY DEF WalkInit
<1>2. DOMAIN rows \subseteq Names /\ Range(rows) \subseteq Never..MaxClock
  BY <1>1 DEF Range
<1>3. WalkTypeOK
  BY <1>0, <1>2 DEF WalkTypeOK, WalkInit
<1>4. Walking
  BY DEF Walking, NotBegun, WalkInit
<1>. QED  BY <1>3, <1>4 DEF WalkInv

\* Nothing is passed before the walk begins.
LEMMA BeginKeeps == WalkInv /\ Begin => WalkInv'
<1>. SUFFICES ASSUME WalkInv, Begin PROVE WalkInv'
  OBVIOUS
<1>. USE DEF WalkInv, Begin
<1>1. /\ Listing \in SUBSET Names /\ steady' = Listing /\ offset = 0 /\ page = {} /\ more = TRUE
      /\ \A k \in Names : returned[k] = 0
      /\ clock \in Nat /\ removed \in Nat /\ added \in Nat
  BY TypesOfWalk DEF Walking, NotBegun
<1>2. Listing' = Listing
  BY DEF Listing, Listed
<1>3. WalkTypeOK'
  <2>1. began' = clock /\ began' \in 0..clock  BY <1>1
  <2>2. steady' \subseteq Listing'  BY <1>1, <1>2
  <2>. QED  BY <2>1, <2>2 DEF WalkTypeOK
<1>4. Passed' = {}
  <2>1. \A k \in Listing : Rank(Listing, k) \in Nat
    <3>1. Cardinality(Listing) \in Nat  BY <1>1, ListsAreFinite
    <3>. QED  BY <1>1, <3>1, RanksCount
  <2>2. Slice(Listing, 0, 0) = {}  BY <2>1, SliceByRank
  <2>. QED  BY <1>1, <1>2, <2>2 DEF Passed
<1>5. \A k \in Names : SeenSoFar'[k] = 0
  BY <1>1 DEF SeenSoFar
<1>6. Accounts'
  <2>1. Lost(steady', Passed', SeenSoFar') = {}  BY <1>4 DEF Lost
  <2>2. ASSUME NEW k \in steady' PROVE {k} \X (1..Surplus(Passed', SeenSoFar', k)) = {}
    <3>1. Surplus(Passed', SeenSoFar', k) = 0  BY <1>1, <1>4, <1>5 DEF Surplus
    <3>2. 1..0 = {}  OBVIOUS
    <3>. QED  BY <3>1, <3>2
  <2>3. Again(steady', Passed', SeenSoFar') = {}  BY <2>2 DEF Again
  <2>. QED  BY <1>1, <2>1, <2>3, FS_EmptySet DEF Accounts
<1>7. walk = "KEYS" => KeysRows' /\ KeysPassed'
  <2>1. walk = "KEYS" => Listing = DOMAIN rows  BY DEF Listing, Listed
  <2>. QED  BY <1>1, <2>1 DEF KeysRows, KeysPassed
<1>8. Walking'
  BY <1>1, <1>6, <1>7 DEF Walking
<1>. QED  BY <1>3, <1>8

\* The next page of a client: what it returns is passed, or the walk is over and all is.
LEMMA PageKeeps == ASSUME WalkInv, NEW count \in Counts, Page(count) PROVE WalkInv'
<1>. DEFINE names == Slice(Listing, offset, count)
            size == Cardinality(names)
            next == NextCursor(size, count, offset)
<1>0. WalkTypeOK /\ Walking /\ count \in Nat /\ count # 0
  BY CursorsAssumption DEF WalkInv
<1>1. /\ Listing \in SUBSET Names /\ steady \in SUBSET Names /\ steady \subseteq Listing
      /\ offset \in Nat /\ removed \in Nat /\ added \in Nat /\ returned \in Tallies
      /\ N \in Nat
  BY <1>0, TypesOfWalk
<1>2. /\ phase = "open" /\ walk # "KEYS" /\ page = {} /\ page' = {} /\ offset' = next
      /\ returned' = [k \in Names |-> returned[k] + IF k \in names THEN 1 ELSE 0]
      /\ phase' = IF next = 0 THEN "done" ELSE "open"
      /\ UNCHANGED <<walk, rows, clock, changes, more, began, steady, removed, added>>
  BY <1>0 DEF Page, Walking
<1>3. /\ names \in SUBSET Listing /\ size \in Nat /\ size <= count /\ names \cap Passed = {}
      /\ Slice(Listing, 0, offset + size) = Passed \cup names
      /\ size < count => Passed \cup names = Listing
      /\ names # {} => offset + size <= Cardinality(Listing)
  BY <1>0, <1>1, PagesFollow DEF Passed
<1>4. Cardinality(Listing) \in Nat /\ Cardinality(Listing) <= N
  <2>1. Cardinality(Names) = N  BY <1>1, FS_Interval DEF Names
  <2>2. Names \in SUBSET Names  OBVIOUS
  <2>. QED  BY <1>1, <2>1, <2>2, ListsAreFinite, SubsetsAreSmaller
<1>5. size # 0 => names # {}
  BY FS_EmptySet
<1>. HIDE DEF names, size
<1>6. next = IF size < count THEN 0 ELSE offset + size
  BY DEF NextCursor
<1>. HIDE DEF next
<1>7. next \in 0..N /\ (next = 0 <=> size < count)
  BY <1>0, <1>1, <1>3, <1>4, <1>5, <1>6
<1>8. Listing' = Listing
  BY <1>2 DEF Listing, Listed
<1>9. returned' \in Tallies
  BY <1>1, <1>2 DEF Tallies
<1>10. WalkTypeOK'
  <2>1. steady' \subseteq Listing'  BY <1>1, <1>2, <1>8
  <2>2. returned' \in [Names -> Nat]  BY <1>9 DEF Tallies
  <2>3. offset' \in 0..N /\ phase' \in {"idle", "open", "done"}  BY <1>2, <1>7
  <2>. QED  BY <1>0, <1>2, <2>1, <2>2, <2>3 DEF WalkTypeOK
<1>11. SeenSoFar = returned /\ SeenSoFar' = returned'
  <2>1. \A k \in Names : returned[k] \in Nat /\ returned'[k] \in Nat  BY <1>1, <1>9 DEF Tallies
  <2>2. SeenSoFar = [k \in Names |-> returned[k]]  BY <1>2, <2>1 DEF SeenSoFar
  <2>3. SeenSoFar' = [k \in Names |-> returned'[k]]  BY <1>2, <2>1 DEF SeenSoFar
  <2>. QED  BY <1>1, <1>9, <2>2, <2>3 DEF Tallies
<1>12. /\ Cardinality(Lost(steady, Passed \cup names, returned'))
            <= Cardinality(Lost(steady, Passed, returned))
       /\ Again(steady, Passed \cup names, returned') = Again(steady, Passed, returned)
  <2>1. Came(names, returned, returned')  BY <1>2 DEF Came
  <2>2. steady \in SUBSET Names /\ names \cap Passed = {} /\ returned \in Tallies
    BY <1>1, <1>3
  <2>. QED  BY <1>9, <2>1, <2>2, PagesKeepAccounts
<1>13. /\ Cardinality(Lost(steady, Passed \cup names, returned')) <= removed
       /\ Cardinality(Again(steady, Passed \cup names, returned')) <= added
  <2>1. /\ Cardinality(Lost(steady, Passed, returned)) <= removed
        /\ Cardinality(Again(steady, Passed, returned)) <= added
    BY <1>0, <1>2, <1>11 DEF Walking, Accounts
  <2>2. /\ Cardinality(Lost(steady, Passed, returned)) \in Nat
        /\ Cardinality(Lost(steady, Passed \cup names, returned')) \in Nat
    BY <1>1, <1>9, AccountsAreFinite
  <2>. QED  BY <1>1, <1>12, <2>1, <2>2
<1>14. CASE next # 0
  <2>1. offset' = offset + size  BY <1>2, <1>6, <1>7, <1>14
  <2>2. Passed' = Passed \cup names  BY <1>3, <1>8, <2>1 DEF Passed
  <2>3. Accounts'  BY <1>2, <1>11, <1>13, <2>2 DEF Accounts
  <2>. QED  BY <1>2, <1>10, <1>14, <2>3 DEF WalkInv, Walking
<1>15. CASE next = 0
  <2>1. Passed \cup names = Listing  BY <1>3, <1>7, <1>15
  <2>2. Missed' = Lost(steady, Passed \cup names, returned')
    BY <1>1, <1>2, <2>1 DEF Missed, Lost
  <2>3. \A k \in steady : Surplus(Passed \cup names, returned', k) = returned'[k] - 1
    BY <1>1, <2>1 DEF Surplus
  <2>4. Repeats' = Again(steady, Passed \cup names, returned')
    <3>1. {{k} \X (1..Surplus(Passed \cup names, returned', k)) : k \in steady}
            = {{k} \X (1..(returned'[k] - 1)) : k \in steady}
      BY <2>3
    <3>2. Repeats' = UNION {{k} \X (1..(returned'[k] - 1)) : k \in steady}
      BY <1>2 DEF Repeats
    <3>. QED  BY <3>1, <3>2 DEF Again
  <2>. QED  BY <1>2, <1>10, <1>13, <1>15, <2>2, <2>4 DEF WalkInv, Walking
<1>. QED  BY <1>14, <1>15

\* The next page of KEYS: its keys count as returned.
LEMMA KeysPageKeeps == ASSUME WalkInv, NEW count \in Counts, KeysPage(count) PROVE WalkInv'
<1>. DEFINE names == Slice(Listing, offset, count)
            size == Cardinality(names)
<1>0. WalkTypeOK /\ Walking /\ count \in Nat /\ count # 0
  BY CursorsAssumption DEF WalkInv
<1>1. /\ Listing \in SUBSET Names /\ Listing \subseteq DOMAIN rows
      /\ steady \in SUBSET Names /\ steady \subseteq Listing
      /\ offset \in Nat /\ removed \in Nat /\ added \in Nat /\ returned \in Tallies
      /\ SeenSoFar \in Tallies /\ N \in Nat
  BY <1>0, TypesOfWalk
<1>2. /\ phase = "open" /\ walk = "KEYS" /\ page = {} /\ more /\ page' = names
      /\ offset' = offset + size
      /\ more' = (NextCursor(size, count, offset) # 0)
      /\ UNCHANGED <<walk, rows, clock, changes, phase, returned, began, steady, removed, added>>
  BY DEF KeysPage
<1>3. /\ names \in SUBSET Listing /\ size \in Nat /\ size <= count /\ names \cap Passed = {}
      /\ Slice(Listing, 0, offset + size) = Passed \cup names
      /\ size < count => Passed \cup names = Listing
      /\ names # {} => offset + size <= Cardinality(Listing)
  BY <1>0, <1>1, PagesFollow DEF Passed
<1>4. Cardinality(Listing) \in Nat /\ Cardinality(Listing) <= N
  <2>1. Cardinality(Names) = N  BY <1>1, FS_Interval DEF Names
  <2>2. Names \in SUBSET Names  OBVIOUS
  <2>. QED  BY <1>1, <2>1, <2>2, ListsAreFinite, SubsetsAreSmaller
<1>5. size # 0 => names # {}
  BY FS_EmptySet
<1>. HIDE DEF names, size
<1>6. NextCursor(size, count, offset) = IF size < count THEN 0 ELSE offset + size
  BY DEF NextCursor
<1>7. more' \in BOOLEAN /\ (~more' => size < count)
  <2>1. more' \in BOOLEAN  BY <1>2
  <2>2. ~more' => NextCursor(size, count, offset) = 0  BY <1>2
  <2>3. NextCursor(size, count, offset) = 0 => size < count  BY <1>0, <1>1, <1>3, <1>6
  <2>. QED  BY <2>1, <2>2, <2>3
<1>8. offset + size \in 0..N
  <2>1. offset \in 0..N  BY <1>0 DEF WalkTypeOK
  <2>. QED  BY <1>1, <1>3, <1>4, <1>5, <2>1
<1>9. Listing' = Listing
  BY <1>2 DEF Listing, Listed
<1>10. WalkTypeOK'
  <2>1. steady' \subseteq Listing' /\ page' \subseteq DOMAIN rows'  BY <1>1, <1>2, <1>3, <1>9
  <2>. QED  BY <1>0, <1>2, <1>7, <1>8, <2>1 DEF WalkTypeOK
<1>11. Passed' = Passed \cup names
  BY <1>2, <1>3, <1>9 DEF Passed
<1>12. SeenSoFar' \in Tallies /\ Came(names, SeenSoFar, SeenSoFar')
  <2>1. \A k \in Names : returned[k] \in Nat  BY <1>1 DEF Tallies
  <2>. QED  BY <1>2, <2>1 DEF SeenSoFar, Tallies, Came
<1>13. Accounts'
  <2>1. /\ Cardinality(Lost(steady, Passed \cup names, SeenSoFar'))
             <= Cardinality(Lost(steady, Passed, SeenSoFar))
        /\ Again(steady, Passed \cup names, SeenSoFar') = Again(steady, Passed, SeenSoFar)
    <3>1. /\ steady \in SUBSET Names /\ names \cap Passed = {}
          /\ SeenSoFar \in Tallies /\ SeenSoFar' \in Tallies /\ Came(names, SeenSoFar, SeenSoFar')
      BY <1>1, <1>3, <1>12
    <3>. QED  BY <3>1, PagesKeepAccounts
  <2>2. /\ Cardinality(Lost(steady, Passed, SeenSoFar)) <= removed
        /\ Cardinality(Again(steady, Passed, SeenSoFar)) <= added
    BY <1>0, <1>2 DEF Walking, Accounts
  <2>3. /\ Cardinality(Lost(steady, Passed, SeenSoFar)) \in Nat
        /\ Cardinality(Lost(steady, Passed \cup names, SeenSoFar')) \in Nat
    BY <1>1, <1>12, AccountsAreFinite
  <2>. QED  BY <1>1, <1>2, <1>11, <2>1, <2>2, <2>3 DEF Accounts
<1>14. KeysRows' /\ KeysPassed'
  <2>1. KeysRows /\ KeysPassed  BY <1>0, <1>2 DEF Walking
  <2>2. KeysRows'  BY <1>2, <2>1 DEF KeysRows
  <2>3. page' \subseteq Passed'  BY <1>2, <1>11
  <2>4. \A k \in Names : returned'[k] > 0 => k \in Passed'  BY <1>2, <1>11, <2>1 DEF KeysPassed
  <2>5. \A k \in page' : returned'[k] = 0
    <3>1. \A k \in names : k \in Names /\ k \notin Passed  BY <1>1, <1>3
    <3>2. \A k \in names : ~(returned[k] > 0) /\ returned[k] \in Nat
      BY <1>1, <2>1, <3>1 DEF KeysPassed, Tallies
    <3>. QED  BY <1>2, <3>2
  <2>6. ~more' => Passed' = Listing'  BY <1>3, <1>7, <1>9, <1>11
  <2>. QED  BY <2>2, <2>3, <2>4, <2>5, <2>6 DEF KeysPassed
<1>15. Walking'
  BY <1>2, <1>13, <1>14 DEF Walking
<1>. QED  BY <1>10, <1>15 DEF WalkInv

\* The smallest element of a page, which is finite, is one of it.
LEMMA MinOfPage == ASSUME NEW T \in SUBSET Names, T # {} PROVE Min(T) \in T
<1>1. T \in SUBSET Nat
  BY CursorsAssumption DEF Names
<1>2. PICK n \in T : \A m \in T : n <= m
  BY <1>1, LeastNumber
<1>. QED  BY <1>2, Zenon DEF Min

\* Names passed that stay are passed still when others go.
LEMMA PassedStays ==
    ASSUME NEW L \in SUBSET Names, NEW M \in SUBSET L, NEW o \in Nat
    PROVE  /\ Slice(L, 0, o) \cap M \subseteq Slice(M, 0, o)
           /\ Slice(L, 0, o) = L => Slice(M, 0, o) = M
<1>1. ASSUME NEW k \in Slice(L, 0, o) \cap M PROVE k \in Slice(M, 0, o)
  <2>. DEFINE low == {j \in M : j <= k}
              high == {j \in L : j <= k}
  <2>1. low \in SUBSET high /\ high \in SUBSET Names  OBVIOUS
  <2>2. Cardinality(low) <= Cardinality(high)  BY <2>1, SubsetsAreSmaller
  <2>3. Rank(M, k) <= Rank(L, k)
    <3>. HIDE DEF low, high
    <3>. QED  BY <2>2 DEF Rank, low, high
  <2>4. k \in L /\ k \in M /\ Rank(L, k) <= 0 + o  BY <1>1, SliceByRank
  <2>5. Rank(M, k) \in 1..Cardinality(M) /\ Rank(L, k) \in 1..Cardinality(L)
    BY <2>4, RanksCount
  <2>6. Cardinality(M) \in Nat /\ Cardinality(L) \in Nat  BY ListsAreFinite
  <2>7. 0 < Rank(M, k) /\ Rank(M, k) <= 0 + o
    <3>. HIDE DEF low, high
    <3>. QED  BY <2>3, <2>4, <2>5, <2>6
  <2>. QED  BY <2>4, <2>7, SliceByRank
<1>2. Slice(M, 0, o) \subseteq M
  BY SliceByRank
<1>. QED  BY <1>1, <1>2

\* KEYS looks at a key of its page: it returns it, or deletes it for it is due.
LEMMA KeysCheckKeeps == WalkInv /\ KeysCheck => WalkInv'
<1>. SUFFICES ASSUME WalkInv, KeysCheck PROVE WalkInv'
  OBVIOUS
<1>. DEFINE k == Min(page)
            table == [j \in DOMAIN rows \ {k} |-> rows[j]]
<1>0. WalkTypeOK /\ Walking
  BY DEF WalkInv
<1>1. /\ Listing \in SUBSET Names /\ Listing \subseteq DOMAIN rows
      /\ steady \in SUBSET Names /\ steady \subseteq Listing
      /\ offset \in Nat /\ removed \in Nat /\ added \in Nat /\ returned \in Tallies
      /\ SeenSoFar \in Tallies /\ clock \in Nat /\ began \in Nat /\ MaxClock \in Nat
  BY <1>0, TypesOfWalk
<1>2. /\ phase = "open" /\ page # {} /\ CheckKey(k) /\ page' = page \ {k}
      /\ UNCHANGED <<walk, changes, phase, offset, more, began>>
  BY DEF KeysCheck
<1>3. walk = "KEYS" /\ Accounts /\ KeysRows /\ KeysPassed
  BY <1>0, <1>2 DEF Walking
<1>4. page \in SUBSET Names /\ page \subseteq DOMAIN rows /\ DOMAIN rows \subseteq Names
  BY <1>0 DEF WalkTypeOK
<1>5. k \in page
  BY <1>2, <1>4, MinOfPage
<1>6. k \in Names /\ k \in DOMAIN rows /\ returned[k] = 0
  BY <1>3, <1>4, <1>5 DEF KeysPassed
<1>7. \A j \in Names : returned[j] \in Nat
  BY <1>1 DEF Tallies
<1>. HIDE DEF k
<1>8. CASE Due(k)
  <2>1. Became(table, clock) /\ returned' = returned  BY <1>2, <1>8 DEF CheckKey
  <2>2. rows' = table /\ clock' = clock  BY <2>1 DEF Became
  <2>3. DOMAIN table = DOMAIN rows \ {k} /\ \A j \in DOMAIN table : table[j] = rows[j]
    OBVIOUS
  <2>. HIDE DEF table
  <2>4. DOMAIN table \subseteq Names  BY <1>4, <2>3
  <2>5. Listing = DOMAIN rows /\ Listing' = DOMAIN table
    BY <1>2, <1>3, <2>2 DEF Listing, Listed
  <2>6. steady' = DOMAIN table
    <3>1. Listed(table, clock) = DOMAIN table  BY <1>3 DEF Listed
    <3>2. steady' = steady \cap DOMAIN table  BY <2>1, <3>1 DEF Became
    <3>. QED  BY <1>3, <2>3, <3>2 DEF KeysRows
  <2>7. SeenSoFar' \in Tallies /\ \A j \in steady' : SeenSoFar'[j] = SeenSoFar[j]
    <3>1. SeenSoFar' \in Tallies  BY <1>7, <2>1 DEF SeenSoFar, Tallies
    <3>2. \A j \in steady' : j \in Names /\ (j \in page' <=> j \in page)
      BY <1>2, <2>3, <2>4, <2>6
    <3>. QED  BY <2>1, <3>1, <3>2 DEF SeenSoFar
  <2>8. /\ steady' \subseteq Listing' /\ Listing' \in SUBSET Names
        /\ removed' \in Nat /\ added' \in Nat /\ Accounts'
    <3>1. UNCHANGED <<walk, offset>>  BY <1>2
    <3>. QED  BY <1>0, <1>3, <2>1, <2>4, <2>7, <3>1, ChangeKeepsAccounts
  <2>9. WalkTypeOK'
    <3>1. Range(rows') \subseteq Never..MaxClock
      BY <1>0, <2>2, <2>3 DEF WalkTypeOK, Range
    <3>2. page' \subseteq DOMAIN rows'  BY <1>2, <1>4, <2>2, <2>3
    <3>. QED  BY <1>0, <1>2, <2>1, <2>2, <2>4, <2>8, <3>1, <3>2 DEF WalkTypeOK
  <2>10. KeysRows'
    <3>1. ASSUME NEW j \in Names, returned'[j] > 0
          PROVE  j \in DOMAIN rows' /\ (rows'[j] = Never \/ rows'[j] > began')
      <4>1. j # k /\ returned[j] > 0  BY <1>6, <2>1, <3>1
      <4>2. j \in DOMAIN rows /\ (rows[j] = Never \/ rows[j] > began)
        BY <1>3, <4>1 DEF KeysRows
      <4>. QED  BY <1>2, <2>2, <2>3, <4>1, <4>2
    <3>. QED  BY <2>2, <2>6, <3>1 DEF KeysRows
  <2>11. KeysPassed'
    <3>1. Passed = Slice(Listing, 0, offset) /\ Passed' = Slice(Listing', 0, offset)
      BY <1>2 DEF Passed
    <3>2. Listing' \in SUBSET Listing  BY <2>3, <2>5
    <3>3. Passed \cap Listing' \subseteq Passed' /\ (Passed = Listing => Passed' = Listing')
      BY <1>1, <3>1, <3>2, PassedStays
    <3>4. page' \subseteq Passed'
      <4>1. page' \subseteq Passed /\ page' \subseteq Listing'
        BY <1>2, <1>3, <1>4, <2>3, <2>5 DEF KeysPassed
      <4>. QED  BY <3>3, <4>1
    <3>5. ASSUME NEW j \in Names, returned'[j] > 0 PROVE j \in Passed'
      <4>1. j \in Passed  BY <1>3, <2>1, <3>5 DEF KeysPassed
      <4>2. j \in Listing'  BY <2>2, <2>5, <2>10, <3>5 DEF KeysRows
      <4>. QED  BY <3>3, <4>1, <4>2
    <3>6. \A j \in page' : returned'[j] = 0  BY <1>2, <1>3, <2>1 DEF KeysPassed
    <3>7. ~more' => Passed' = Listing'  BY <1>2, <1>3, <3>3 DEF KeysPassed
    <3>. QED  BY <3>4, <3>5, <3>6, <3>7 DEF KeysPassed
  <2>12. Walking'
    BY <1>2, <1>3, <2>8, <2>10, <2>11 DEF Walking
  <2>. QED  BY <2>9, <2>12 DEF WalkInv
<1>9. CASE ~Due(k)
  <2>1. /\ returned' = [returned EXCEPT ![k] = 1]
        /\ UNCHANGED <<rows, clock, removed, added, steady>>
    BY <1>2, <1>9 DEF CheckKey, TakeKey
  <2>2. Listing' = Listing /\ Passed' = Passed
    BY <1>2, <2>1 DEF Listing, Listed, Passed
  <2>3. \A j \in Names : returned'[j] = IF j = k THEN 1 ELSE returned[j]
    BY <1>1, <2>1 DEF Tallies
  <2>4. WalkTypeOK'
    <3>1. page' \subseteq DOMAIN rows'  BY <1>2, <1>4, <2>1
    <3>2. returned' \in [Names -> Nat]  BY <1>1, <2>1 DEF Tallies
    <3>3. steady' \subseteq Listing'  BY <1>1, <2>1, <2>2
    <3>. QED  BY <1>0, <1>2, <2>1, <3>1, <3>2, <3>3 DEF WalkTypeOK
  <2>5. SeenSoFar' = SeenSoFar
    <3>1. ASSUME NEW j \in Names
          PROVE  returned'[j] + (IF j \in page' THEN 1 ELSE 0)
                   = returned[j] + IF j \in page THEN 1 ELSE 0
      BY <1>2, <1>5, <1>6, <1>7, <2>3
    <3>. QED  BY <3>1 DEF SeenSoFar
  <2>6. Accounts'
    BY <1>3, <2>1, <2>2, <2>5 DEF Accounts
  <2>7. KeysRows'
    <3>1. rows[k] = Never \/ rows[k] > began
      <4>1. rows[k] \in Range(rows)  BY <1>6 DEF Range
      <4>2. rows[k] \in Int /\ began <= clock  BY <1>0, <1>1, <4>1 DEF WalkTypeOK, Never
      <4>3. rows[k] = Never \/ ~(rows[k] <= clock)  BY <1>9 DEF Due
      <4>. QED  BY <1>1, <4>2, <4>3
    <3>2. \A j \in Names : returned'[j] > 0 =>
             j \in DOMAIN rows /\ (rows[j] = Never \/ rows[j] > began)
      BY <1>3, <1>6, <2>3, <3>1 DEF KeysRows
    <3>3. steady = DOMAIN rows  BY <1>3 DEF KeysRows
    <3>. QED  BY <1>2, <2>1, <3>2, <3>3 DEF KeysRows
  <2>8. KeysPassed'
    <3>1. page \subseteq Passed /\ k \in Passed  BY <1>3, <1>5 DEF KeysPassed
    <3>2. \A j \in Names : returned'[j] > 0 => j \in Passed
      BY <1>3, <2>3, <3>1 DEF KeysPassed
    <3>3. \A j \in page' : returned'[j] = 0
      BY <1>2, <1>3, <1>4, <2>3 DEF KeysPassed
    <3>4. ~more => Passed = Listing  BY <1>3 DEF KeysPassed
    <3>5. page' \subseteq Passed'  BY <1>2, <2>2, <3>1
    <3>. QED  BY <1>2, <2>2, <3>2, <3>3, <3>4, <3>5 DEF KeysPassed
  <2>9. Walking'
    BY <1>2, <1>3, <2>6, <2>7, <2>8 DEF Walking
  <2>. QED  BY <2>4, <2>9 DEF WalkInv
<1>. QED  BY <1>8, <1>9

\* KEYS ends when all rows are passed and looked at.
LEMMA KeysDoneKeeps == WalkInv /\ KeysDone => WalkInv'
<1>. SUFFICES ASSUME WalkInv, KeysDone PROVE WalkInv'
  OBVIOUS
<1>0. WalkTypeOK /\ Walking
  BY DEF WalkInv
<1>1. /\ steady \in SUBSET Names /\ steady \subseteq Listing /\ returned \in Tallies
      /\ offset \in Nat /\ N \in Nat
  BY <1>0, TypesOfWalk
<1>2. /\ phase = "open" /\ walk = "KEYS" /\ page = {} /\ ~more /\ phase' = "done" /\ offset' = 0
      /\ UNCHANGED <<walk, rows, clock, changes, page, more, returned, began, steady, removed, added>>
  BY DEF KeysDone
<1>3. Accounts /\ KeysRows /\ Passed = Listing
  BY <1>0, <1>2 DEF Walking, KeysPassed
<1>4. SeenSoFar = returned
  <2>1. \A k \in Names : returned[k] \in Nat  BY <1>1 DEF Tallies
  <2>2. SeenSoFar = [k \in Names |-> returned[k]]  BY <1>2, <2>1 DEF SeenSoFar
  <2>. QED  BY <1>1, <2>2 DEF Tallies
<1>5. WalkTypeOK'
  <2>1. steady' \subseteq Listing'  BY <1>1, <1>2 DEF Listing, Listed
  <2>. QED  BY <1>0, <1>1, <1>2, <2>1 DEF WalkTypeOK
<1>6. Missed' = Lost(steady, Passed, SeenSoFar)
  BY <1>1, <1>2, <1>3, <1>4 DEF Missed, Lost
<1>7. Repeats' = Again(steady, Passed, SeenSoFar)
  <2>1. \A k \in steady : Surplus(Passed, SeenSoFar, k) = returned[k] - 1
    BY <1>1, <1>3, <1>4 DEF Surplus
  <2>2. {{k} \X (1..Surplus(Passed, SeenSoFar, k)) : k \in steady}
          = {{k} \X (1..(returned[k] - 1)) : k \in steady}
    BY <2>1
  <2>3. Repeats' = UNION {{k} \X (1..(returned[k] - 1)) : k \in steady}  BY <1>2 DEF Repeats
  <2>. QED  BY <2>2, <2>3 DEF Again
<1>8. Cardinality(Missed') <= removed' /\ Cardinality(Repeats') <= added'
  BY <1>2, <1>3, <1>6, <1>7 DEF Accounts
<1>9. KeysRows'
  BY <1>2, <1>3 DEF KeysRows
<1>10. Walking'
  BY <1>2, <1>8, <1>9 DEF Walking
<1>. QED  BY <1>5, <1>10 DEF WalkInv

\* Whatever the rows and the clock become between two calls; within KEYS the rows stay.
LEMMA OthersKeep ==
    ASSUME WalkInv, NEW table, NEW time \in 0..MaxClock, clock <= time, phase # "done",
           DOMAIN table \subseteq Names, Range(table) \subseteq Never..MaxClock,
           Between \/ table = rows,
           Became(table, time), changes' \in 0..MaxChanges,
           UNCHANGED <<walk, phase, offset, page, more, returned, began>>
    PROVE  WalkInv'
<1>0. WalkTypeOK /\ Walking
  BY DEF WalkInv
<1>1. /\ Listing \in SUBSET Names /\ steady \in SUBSET Listing /\ SeenSoFar \in Tallies
      /\ clock \in Nat /\ began \in Nat /\ MaxClock \in Nat
  BY <1>0, TypesOfWalk
<1>2. rows' = table /\ clock' = time
  BY DEF Became
<1>3. SeenSoFar' = SeenSoFar
  BY DEF SeenSoFar
<1>4. /\ steady' \subseteq Listing' /\ Listing' \in SUBSET Names
      /\ removed' \in Nat /\ added' \in Nat /\ (Accounts => Accounts')
  BY <1>0, <1>1, <1>3, ChangeKeepsAccounts
<1>5. page' \subseteq DOMAIN rows'
  <2>1. Between => page = {}
    BY <1>0 DEF Walking, NotBegun, Between, WalkTypeOK
  <2>2. page \subseteq DOMAIN rows  BY <1>0 DEF WalkTypeOK
  <2>. QED  BY <1>2, <2>1, <2>2
<1>6. WalkTypeOK'
  <2>1. began \in 0..clock  BY <1>0 DEF WalkTypeOK
  <2>2. began' \in 0..clock' /\ clock' \in 0..MaxClock  BY <1>1, <1>2, <2>1
  <2>. QED  BY <1>0, <1>2, <1>4, <1>5, <2>2 DEF WalkTypeOK
<1>7. ASSUME walk = "KEYS", phase # "idle" PROVE KeysRows' /\ (phase = "open" => KeysPassed')
  <2>1. table = rows
    BY <1>0, <1>7 DEF Between, WalkTypeOK
  <2>2. Listing' = Listing /\ Listing = DOMAIN rows /\ Listed(table, time) = DOMAIN rows
    BY <1>2, <1>7, <2>1 DEF Listing, Listed
  <2>3. steady' = steady  BY <1>1, <2>2 DEF Became
  <2>4. KeysRows /\ (phase = "open" => KeysPassed)  BY <1>0, <1>7 DEF Walking
  <2>5. KeysRows'  BY <1>2, <2>1, <2>3, <2>4 DEF KeysRows
  <2>6. Passed' = Passed  BY <2>2 DEF Passed
  <2>7. phase = "open" => KeysPassed'  BY <2>2, <2>4, <2>6 DEF KeysPassed
  <2>. QED  BY <2>5, <2>7
<1>8. Walking'
  <2>1. phase = "idle" => NotBegun'  BY <1>0 DEF Walking, NotBegun
  <2>2. phase = "open" => Accounts'  BY <1>0, <1>4 DEF Walking
  <2>3. walk # "KEYS" => page = {}  BY <1>0 DEF Walking
  <2>. QED  BY <1>7, <2>1, <2>2, <2>3 DEF Walking
<1>. QED  BY <1>6, <1>8 DEF WalkInv

LEMMA TimeKeeps == WalkInv /\ TimePasses => WalkInv'
<1>. SUFFICES ASSUME WalkInv, TimePasses PROVE WalkInv'
  OBVIOUS
<1>1. clock \in 0..MaxClock /\ MaxClock \in Nat
  BY CursorsAssumption DEF WalkInv, WalkTypeOK
<1>2. clock + 1 \in 0..MaxClock /\ clock <= clock + 1
  BY <1>1 DEF TimePasses
<1>3. /\ DOMAIN rows \subseteq Names /\ Range(rows) \subseteq Never..MaxClock
      /\ changes' \in 0..MaxChanges
  BY DEF TimePasses, WalkInv, WalkTypeOK
<1>4. /\ phase # "done" /\ Became(rows, clock + 1)
      /\ UNCHANGED <<walk, phase, offset, page, more, returned, began>>
  BY DEF TimePasses
<1>. QED  BY <1>2, <1>3, <1>4, OthersKeep

LEMMA ChangeKeeps ==
    ASSUME WalkInv, NEW table, Change(table), changes' \in 0..MaxChanges,
           DOMAIN table \subseteq Names, Range(table) \subseteq Never..MaxClock
    PROVE  WalkInv'
<1>1. clock \in 0..MaxClock /\ clock <= clock
  BY CursorsAssumption DEF WalkInv, WalkTypeOK
<1>2. /\ phase # "done" /\ Became(table, clock) /\ Between
      /\ UNCHANGED <<walk, phase, offset, page, more, returned, began>>
  BY DEF Change
<1>. QED  BY <1>1, <1>2, OthersKeep

\* Commands of clients and the sweeper.
LEMMA ClientsKeep ==
    ASSUME WalkInv, NEW k \in Names,
           \/ Delete(k) \/ ExpireRow(k)
           \/ \E expiry \in Never..MaxClock : Write(k, expiry)
    PROVE  WalkInv'
<1>0. /\ DOMAIN rows \subseteq Names /\ Range(rows) \subseteq Never..MaxClock
      /\ changes \in 0..MaxChanges /\ MaxChanges \in Nat
  BY CursorsAssumption DEF WalkInv, WalkTypeOK
<1>. DEFINE less == [j \in DOMAIN rows \ {k} |-> rows[j]]
<1>1. DOMAIN less \subseteq Names /\ Range(less) \subseteq Never..MaxClock
  BY <1>0 DEF Range
<1>2. CASE Delete(k)
  <2>1. Change(less) /\ changes < MaxChanges /\ changes' = changes + 1  BY <1>2 DEF Delete
  <2>2. changes' \in 0..MaxChanges  BY <1>0, <2>1
  <2>. HIDE DEF less
  <2>. QED  BY <1>1, <2>1, <2>2, ChangeKeeps
<1>3. CASE ExpireRow(k)
  <2>1. Change(less) /\ changes' = changes  BY <1>3 DEF ExpireRow
  <2>2. changes' \in 0..MaxChanges  BY <1>0, <2>1
  <2>. HIDE DEF less
  <2>. QED  BY <1>1, <2>1, <2>2, ChangeKeeps
<1>4. CASE \E expiry \in Never..MaxClock : Write(k, expiry)
  <2>1. PICK expiry \in Never..MaxClock : Write(k, expiry)  BY <1>4
  <2>. DEFINE with == [j \in DOMAIN rows \cup {k} |-> IF j = k THEN expiry ELSE rows[j]]
  <2>2. Change(with) /\ changes < MaxChanges /\ changes' = changes + 1  BY <2>1 DEF Write
  <2>3. changes' \in 0..MaxChanges  BY <1>0, <2>2
  <2>4. DOMAIN with \subseteq Names /\ Range(with) \subseteq Never..MaxClock
    BY <1>0 DEF Range
  <2>. HIDE DEF with
  <2>. QED  BY <2>2, <2>3, <2>4, ChangeKeeps
<1>. QED  BY <1>2, <1>3, <1>4

LEMMA NextWalkInv == WalkInv /\ [WalkNext]_walkVars => WalkInv'
<1>. SUFFICES ASSUME WalkInv, [WalkNext]_walkVars PROVE WalkInv'
  OBVIOUS
<1>1. CASE Begin  BY <1>1, BeginKeeps
<1>2. CASE KeysCheck  BY <1>2, KeysCheckKeeps
<1>3. CASE KeysDone  BY <1>3, KeysDoneKeeps
<1>4. CASE TimePasses  BY <1>4, TimeKeeps
<1>5. CASE \E count \in Counts : Page(count) \/ KeysPage(count)
  BY <1>5, PageKeeps, KeysPageKeeps
<1>6. CASE \E k \in Names : Delete(k) \/ ExpireRow(k)
  BY <1>6, ClientsKeep
<1>7. CASE \E k \in Names, expiry \in Never..MaxClock : Write(k, expiry)
  BY <1>7, ClientsKeep
<1>8. CASE UNCHANGED walkVars
  BY <1>8 DEF walkVars, WalkInv, WalkTypeOK, Walking, NotBegun, Accounts, KeysRows, KeysPassed, Passed, SeenSoFar,
              Listing, Listed, Missed, Repeats
<1>. QED  BY <1>1, <1>2, <1>3, <1>4, <1>5, <1>6, <1>7, <1>8 DEF WalkNext

LEMMA AlwaysWalkInv == WalkSpec => []WalkInv
BY InitWalkInv, NextWalkInv, PTL DEF WalkSpec

-----------------------------------------------------------------------------
(* Theorems.                                                               *)

\* The variables of a walk have their types in every reachable state, and a cursor that a client
\* gets (engine.js: nextCursor) is never past the rows there can be.
THEOREM WalkTypeCorrect == WalkSpec => []WalkTypeOK
<1>1. WalkInv => WalkTypeOK
  BY DEF WalkInv
<1>. QED  BY AlwaysWalkInv, <1>1, PTL

\* Cursors by offset (LIMIT and OFFSET of keys.js and hashes.js), for any rows, pages and changes:
\* a walk misses no more of the names that were there all the time than rows it had passed went,
\* and returns names again no more often than rows came among those it had passed.
THEOREM MissesAreBounded == WalkSpec => []MissesOnlyForRemoved
<1>1. WalkInv => MissesOnlyForRemoved
  BY DEF WalkInv, Walking, MissesOnlyForRemoved
<1>. QED  BY AlwaysWalkInv, <1>1, PTL

\* KEYS (commands/keys.js) deletes due keys while it walks: it returns none of them, and the keys it
\* leaves out of its answer are no more than those it deleted.
THEOREM KeysReturnsLiveKeys == WalkSpec => []KeysAreLive
<1>1. WalkInv => KeysAreLive
  <2>. SUFFICES ASSUME WalkInv, walk = "KEYS", phase = "done"
                PROVE  /\ \A k \in Names : returned[k] > 0 =>
                            k \in DOMAIN rows /\ (rows[k] = Never \/ rows[k] > began)
                       /\ Cardinality({k \in DOMAIN rows : returned[k] = 0}) <= removed
    BY DEF KeysAreLive
  <2>1. KeysRows /\ Cardinality(Missed) <= removed
    BY DEF WalkInv, Walking
  <2>2. {k \in DOMAIN rows : returned[k] = 0} = Missed
    BY <2>1 DEF KeysRows, Missed
  <2>. QED  BY <2>1, <2>2 DEF KeysRows
<1>. QED  BY AlwaysWalkInv, <1>1, PTL
===============================================================================

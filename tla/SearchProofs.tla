----------------------------- MODULE SearchProofs -----------------------------
(***************************************************************************)
(* The search index and its import from a Redis server: what queries find  *)
(* and what the import accounts for, for any documents, texts, prefixes,   *)
(* batches and changes of source and destination meanwhile.                *)
(***************************************************************************)
EXTENDS SearchMigration, FiniteSetTheorems, SequenceTheorems, NaturalsInduction,
        WellFoundedInduction, TLAPS

-----------------------------------------------------------------------------
(* Numbers.                                                                *)

\* A set of natural numbers that is not empty has a least element.
LEMMA LeastNumber ==
    ASSUME NEW T \in SUBSET Nat, T # {}
    PROVE  \E n \in T : \A m \in T : n <= m
<1>. DEFINE R == OpToRel(<, Nat)
<1>1. IsWellFoundedOn(R, Nat)
  BY NatLessThanWellFounded
<1>2. \A m, n \in Nat : m < n => <<m, n>> \in R
  BY DEF OpToRel
<1>. HIDE DEF R
<1>3. PICK n \in T : \A m \in T : ~(<<m, n>> \in R)
  BY <1>1, WFMin
<1>4. \A m \in T : ~(m < n)
  BY <1>2, <1>3
<1>. QED  BY <1>4

\* A finite set of natural numbers that is not empty has a greatest element.
LEMMA GreatestNumber ==
    ASSUME NEW T \in SUBSET Nat, IsFiniteSet(T), T # {}
    PROVE  \E n \in T : \A m \in T : m <= n
<1>. DEFINE Great(S) == \E n \in S : \A m \in S : m <= n
            K == {c \in Nat : \E S \in SUBSET Nat :
                    IsFiniteSet(S) /\ Cardinality(S) = c /\ S # {} /\ ~Great(S)}
<1>1. ASSUME NEW c \in K, \A d \in K : c <= d PROVE FALSE
  <2>1. PICK S \in SUBSET Nat : IsFiniteSet(S) /\ Cardinality(S) = c /\ S # {} /\ ~Great(S)
    BY <1>1
  <2>2. PICK a \in S : TRUE  BY <2>1
  <2>. DEFINE R == S \ {a}
  <2>3. R \in SUBSET Nat /\ IsFiniteSet(R) /\ Cardinality(R) = c - 1
    BY <2>1, <2>2, FS_RemoveElement
  <2>4. c \in Nat /\ Cardinality(R) \in Nat  BY <1>1, <2>3, FS_CardinalityType
  <2>5. c - 1 \notin K
    <3>. HIDE DEF K, R
    <3>. QED  BY <1>1, <2>3, <2>4
  <2>6. CASE R = {}
    <3>1. S = {a}  BY <2>2, <2>6
    <3>2. Great(S)  BY <3>1
    <3>. QED  BY <2>1, <3>2
  <2>7. CASE R # {}
    <3>1. c - 1 \in Nat  BY <2>3, <2>4
    <3>2. Great(R)  BY <2>3, <2>5, <2>7, <3>1
    <3>3. PICK b \in R : \A m \in R : m <= b  BY <3>2
    <3>4. a \in Nat /\ b \in Nat /\ b \in S  BY <2>2, <3>3
    <3>5. CASE a <= b
      <4>1. \A m \in S : m <= b  BY <3>3, <3>5
      <4>. QED  BY <2>1, <3>4, <4>1
    <3>6. CASE b <= a
      <4>1. \A m \in S : m \in Nat /\ m <= a
        <5>1. \A m \in R : m \in Nat /\ m <= b  BY <2>3, <3>3
        <5>2. \A m \in R : m <= a  BY <3>4, <3>6, <5>1
        <5>. QED  BY <3>4, <5>2
      <4>. QED  BY <2>1, <2>2, <4>1
    <3>. QED  BY <3>4, <3>5, <3>6
  <2>. QED  BY <2>6, <2>7
<1>2. K = {}
  <2>. HIDE DEF K
  <2>1. K \in SUBSET Nat  BY DEF K
  <2>. QED  BY <1>1, <2>1, LeastNumber
<1>3. Cardinality(T) \in Nat
  BY FS_CardinalityType
<1>. QED  BY <1>2, <1>3

LEMMA MaxOfNumbers ==
    ASSUME NEW T \in SUBSET Nat, IsFiniteSet(T), T # {}
    PROVE  Max(T) \in T /\ \A m \in T : m <= Max(T)
<1>1. PICK n \in T : \A m \in T : m <= n
  BY GreatestNumber
<1>2. \A m \in T : n >= m
  BY <1>1
<1>3. Max(T) \in T /\ \A m \in T : Max(T) >= m
  BY <1>2, Zenon DEF Max
<1>4. Max(T) \in Nat /\ \A m \in T : m \in Nat
  BY <1>3
<1>. QED  BY <1>3, <1>4

-----------------------------------------------------------------------------
(* One index.                                                              *)

\* A well-formed index, as its tables have it.
IsIndex(x) ==
    x = [schema |-> x.schema, docs |-> x.docs, docmap |-> x.docmap, fts |-> x.fts, sugs |-> x.sugs]
TypedIndex(x) ==
    /\ x.schema \in Schemas
    /\ DOMAIN x.docs \subseteq DocIds /\ DOMAIN x.docmap \subseteq DocIds
    /\ \A d \in DOMAIN x.docs : /\ DOMAIN x.docs[d] \subseteq x.schema
                               /\ Range(x.docs[d]) \subseteq Texts
    /\ DOMAIN x.docs = DOMAIN x.docmap
    /\ IsInjective(x.docmap) /\ Range(x.docmap) \subseteq Nat \ {0}
    /\ DOMAIN x.sugs \subseteq Terms /\ Range(x.sugs) \subseteq Scores

\* The inverted index holds the postings of the present documents, and no others: what each put in
\* is what docs says of it, under the rowid that docmap has.
ExactIndex(x) ==
    /\ x.fts = [rows |-> x.fts.rows, postings |-> x.fts.postings]
    /\ x.fts.rows = Range(x.docmap)
    /\ \A p : p \in x.fts.postings
                <=> \E d \in DOMAIN x.docs :
                      p \in Postings(x.docmap[d], EncodeFtsFieldValues(x.schema, x.docs[d]))

GoodIndex(x) == IsIndex(x) /\ TypedIndex(x) /\ ExactIndex(x)

LEMMA PostingsOfRow ==
    ASSUME NEW r, NEW values
    PROVE  \A p : p \in Postings(r, values)
                    <=> \E f \in DOMAIN values : \E t \in values[f] : p = <<r, f, t>>
BY DEF Postings

\* An index with documents is none of those that are not there.
LEMMA GoodIndexExists == ASSUME NEW x, TypedIndex(x) PROVE x # NoIndex
<1>1. Payload \in x.schema
  BY DEF TypedIndex, Schemas
<1>2. NoIndex.schema = {}
  BY DEF NoIndex
<1>. QED  BY <1>1, <1>2

LEMMA NewIndexGood == ASSUME NEW schema \in Schemas PROVE GoodIndex(NewIndex(schema))
<1>. DEFINE x == NewIndex(schema)
<1>1. /\ x.schema = schema /\ x.docs = <<>> /\ x.docmap = <<>> /\ x.sugs = <<>>
      /\ x.fts = [rows |-> {}, postings |-> {}]
  BY DEF NewIndex, Empty, NoRows
<1>2. IsIndex(x)
  BY DEF IsIndex, NewIndex
<1>3. DOMAIN <<>> = {} /\ Range(<<>>) = {}
  BY DEF Range
<1>. HIDE DEF x
<1>4. TypedIndex(x)
  BY <1>1, <1>3 DEF TypedIndex, IsInjective
<1>5. ExactIndex(x)
  BY <1>1, <1>3 DEF ExactIndex
<1>. QED  BY <1>2, <1>4, <1>5 DEF GoodIndex, x

\* The next rowid is larger than all of the index and than all allocated.
LEMMA RowidIsFresh ==
    ASSUME NEW x, TypedIndex(x), NEW max \in Nat
    PROVE  /\ AllocateFtsRowid(x, max) \in Nat \ {0}
           /\ AllocateFtsRowid(x, max) \notin Range(x.docmap)
<1>. DEFINE T == Range(x.docmap) \cup {max}
<1>1. IsFiniteSet(Range(x.docmap))
  <2>. DEFINE g == [d \in DOMAIN x.docmap |-> x.docmap[d]]
  <2>1. IsFiniteSet(DOMAIN x.docmap)  BY SearchAssumption, FS_Subset DEF TypedIndex
  <2>2. g \in Surjection(DOMAIN x.docmap, Range(x.docmap))  BY DEF Surjection, Range
  <2>. HIDE DEF g
  <2>. QED  BY <2>1, <2>2, FS_Surjection
<1>2. IsFiniteSet(T) /\ T \in SUBSET Nat /\ T # {}
  <2>1. IsFiniteSet(T)  BY <1>1, FS_AddElement
  <2>2. Range(x.docmap) \subseteq Nat  BY DEF TypedIndex
  <2>3. max \in T  OBVIOUS
  <2>4. T \in SUBSET Nat  BY <2>2
  <2>. QED  BY <2>1, <2>3, <2>4
<1>3. Max(T) \in T /\ \A m \in T : m <= Max(T)
  BY <1>2, MaxOfNumbers
<1>4. AllocateFtsRowid(x, max) = Max(T) + 1
  BY DEF AllocateFtsRowid
<1>. HIDE DEF T
<1>5. Max(T) + 1 \in Nat \ {0} /\ Max(T) + 1 \notin T
  <2>1. \A t \in SUBSET Nat : \A m : m \in t /\ (\A n \in t : n <= m) => m + 1 \in Nat \ {0} /\ m + 1 \notin t
    OBVIOUS
  <2>. QED  BY <1>2, <1>3, <2>1
<1>. QED  BY <1>4, <1>5 DEF T

LEMMA WithoutGives ==
    ASSUME NEW f, NEW k
    PROVE  /\ DOMAIN Without(f, k) = DOMAIN f \ {k}
           /\ \A e \in DOMAIN f : e # k => Without(f, k)[e] = f[e]
           /\ Range(Without(f, k)) = {f[e] : e \in DOMAIN f \ {k}}
<1>. DEFINE g == Without(f, k)
<1>1. DOMAIN g = DOMAIN f \ {k} /\ \A e \in DOMAIN f \ {k} : g[e] = f[e]
  BY DEF Without
<1>. HIDE DEF g
<1>2. Range(g) = {f[e] : e \in DOMAIN f \ {k}}
  BY <1>1 DEF Range
<1>. QED  BY <1>1, <1>2 DEF g

\* Without the text of one document the index has the postings and the rows of the others.
LEMMA ForgetGives ==
    ASSUME NEW x, GoodIndex(x), NEW doc, NEW fields
    PROVE  LET fts == Forget(x, doc, fields)
           IN  /\ fts = [rows |-> fts.rows, postings |-> fts.postings]
               /\ \A r : r \in fts.rows <=> \E d \in DOMAIN x.docs : d # doc /\ r = x.docmap[d]
               /\ \A p : p \in fts.postings
                           <=> \E d \in DOMAIN x.docs : d # doc /\
                                 p \in Postings(x.docmap[d], EncodeFtsFieldValues(x.schema, x.docs[d]))
<1>. DEFINE P(d) == Postings(x.docmap[d], EncodeFtsFieldValues(x.schema, x.docs[d]))
            fts == Forget(x, doc, fields)
<1>1. /\ DOMAIN x.docs = DOMAIN x.docmap /\ IsInjective(x.docmap)
      /\ x.fts = [rows |-> x.fts.rows, postings |-> x.fts.postings]
      /\ x.fts.rows = Range(x.docmap)
      /\ \A p : p \in x.fts.postings <=> \E d \in DOMAIN x.docs : p \in P(d)
  BY DEF GoodIndex, TypedIndex, ExactIndex
<1>2. \A r : r \in x.fts.rows <=> \E d \in DOMAIN x.docs : r = x.docmap[d]
  BY <1>1 DEF Range
<1>3. CASE doc \in DOMAIN x.docs
  <2>1. fts = [rows |-> x.fts.rows \ {x.docmap[doc]}, postings |-> x.fts.postings \ P(doc)]
    BY <1>3 DEF Forget, FtsDelete
  <2>2. ASSUME NEW d \in DOMAIN x.docs, d # doc PROVE x.docmap[d] # x.docmap[doc]
    BY <1>1, <1>3, <2>2 DEF IsInjective
  <2>3. ASSUME NEW d \in DOMAIN x.docs, d # doc, NEW p \in P(d) PROVE p \notin P(doc)
    <3>. DEFINE v(e) == EncodeFtsFieldValues(x.schema, x.docs[e])
    <3>. HIDE DEF v
    <3>1. PICK f \in DOMAIN v(d) : \E t \in v(d)[f] : p = <<x.docmap[d], f, t>>
      BY <2>3, PostingsOfRow DEF v
    <3>2. p[1] = x.docmap[d]  BY <3>1
    <3>3. ASSUME p \in P(doc) PROVE p[1] = x.docmap[doc]
      <4>1. PICK f1 \in DOMAIN v(doc) : \E t \in v(doc)[f1] : p = <<x.docmap[doc], f1, t>>
        BY <3>3, PostingsOfRow DEF v
      <4>. QED  BY <4>1
    <3>. QED  BY <2>2, <2>3, <3>2, <3>3
  <2>. HIDE DEF P, fts
  <2>4. fts.rows = x.fts.rows \ {x.docmap[doc]} /\ fts.postings = x.fts.postings \ P(doc)
    BY <2>1
  <2>5. \A r : r \in fts.rows <=> \E d \in DOMAIN x.docs : d # doc /\ r = x.docmap[d]
    BY <1>2, <1>3, <2>2, <2>4
  <2>6. \A p : p \in fts.postings <=> \E d \in DOMAIN x.docs : d # doc /\ p \in P(d)
    BY <1>1, <1>3, <2>3, <2>4
  <2>7. fts = [rows |-> fts.rows, postings |-> fts.postings]  BY <2>1
  <2>. QED  BY <2>5, <2>6, <2>7 DEF P, fts
<1>4. CASE doc \notin DOMAIN x.docs
  <2>1. fts = x.fts  BY <1>4 DEF Forget
  <2>. HIDE DEF P, fts
  <2>2. \A r : r \in fts.rows <=> \E d \in DOMAIN x.docs : d # doc /\ r = x.docmap[d]
    BY <1>2, <1>4, <2>1
  <2>3. \A p : p \in fts.postings <=> \E d \in DOMAIN x.docs : d # doc /\ p \in P(d)
    BY <1>1, <1>4, <2>1
  <2>4. fts = [rows |-> fts.rows, postings |-> fts.postings]  BY <1>1, <2>1
  <2>. QED  BY <2>2, <2>3, <2>4 DEF P, fts
<1>. QED  BY <1>3, <1>4

\* A document put into a good index leaves a good index: its old text is taken out, its new text
\* is in, and nothing else changes.
LEMMA AddDocumentGood ==
    ASSUME NEW x, GoodIndex(x), NEW doc \in DocIds, NEW fields,
           DOMAIN fields \subseteq x.schema, Range(fields) \subseteq Texts,
           NEW rowid \in Nat \ {0}, rowid \notin Range(x.docmap)
    PROVE  LET y == AddDocument(x, doc, fields, rowid)
           IN  /\ GoodIndex(y) /\ y.schema = x.schema
               /\ DOMAIN y.docs = DOMAIN x.docs \cup {doc} /\ y.docs[doc] = fields
               /\ \A d \in DOMAIN x.docs : d # doc => y.docs[d] = x.docs[d]
<1>. DEFINE encoded == EncodeFtsFieldValues(x.schema, fields)
            old == IF doc \in DOMAIN x.docmap THEN Forget(x, doc, fields) ELSE x.fts
            docmap == With(x.docmap, doc, rowid)
            docs == With(x.docs, doc, fields)
            y == AddDocument(x, doc, fields, rowid)
            P(d) == Postings(x.docmap[d], EncodeFtsFieldValues(x.schema, x.docs[d]))
            Q(d) == Postings(docmap[d], EncodeFtsFieldValues(x.schema, docs[d]))
<1>0. IsIndex(x) /\ TypedIndex(x) /\ ExactIndex(x)
  BY DEF GoodIndex
<1>1. y = [schema |-> x.schema, docs |-> docs, docmap |-> docmap,
           fts |-> FtsInsert(old, rowid, encoded), sugs |-> x.sugs]
  <2>1. x = [schema |-> x.schema, docs |-> x.docs, docmap |-> x.docmap, fts |-> x.fts,
             sugs |-> x.sugs]
    BY <1>0 DEF IsIndex
  <2>2. y = [x EXCEPT !.docmap = docmap, !.docs = docs,
                      !.fts = FtsInsert(old, rowid, encoded)]
    BY DEF AddDocument
  <2>. HIDE DEF y, docmap, docs, old, encoded
  <2>. QED  BY <2>1, <2>2
<1>2. Forget(x, doc, fields) = x.fts \/ doc \in DOMAIN x.docs
  BY DEF Forget
<1>3. old = Forget(x, doc, fields)
  BY <1>0, <1>2 DEF TypedIndex
<1>4. /\ \A r : r \in old.rows <=> \E d \in DOMAIN x.docs : d # doc /\ r = x.docmap[d]
      /\ \A p : p \in old.postings <=> \E d \in DOMAIN x.docs : d # doc /\ p \in P(d)
  BY <1>3, ForgetGives
<1>5. DOMAIN x.docs = DOMAIN x.docmap
  BY <1>0 DEF TypedIndex
<1>6. /\ DOMAIN docmap = DOMAIN x.docs \cup {doc} /\ docmap[doc] = rowid
      /\ \A d \in DOMAIN x.docs : d # doc => docmap[d] = x.docmap[d]
      /\ \A z : z \in Range(docmap) <=> z = rowid \/ \E d \in DOMAIN x.docs : d # doc /\ z = x.docmap[d]
      /\ DOMAIN docs = DOMAIN x.docs \cup {doc} /\ docs[doc] = fields
      /\ \A d \in DOMAIN x.docs : d # doc => docs[d] = x.docs[d]
  <2>1. /\ DOMAIN docmap = DOMAIN x.docmap \cup {doc} /\ docmap[doc] = rowid
        /\ \A d \in DOMAIN x.docmap \ {doc} : docmap[d] = x.docmap[d]
    BY DEF With
  <2>2. /\ DOMAIN docs = DOMAIN x.docs \cup {doc} /\ docs[doc] = fields
        /\ \A d \in DOMAIN x.docs \ {doc} : docs[d] = x.docs[d]
    BY DEF With
  <2>. HIDE DEF docmap, docs
  <2>3. Range(docmap) = {x.docmap[d] : d \in DOMAIN x.docmap \ {doc}} \cup {rowid}
    BY <2>1 DEF Range
  <2>. QED  BY <1>5, <2>1, <2>2, <2>3
<1>7. y.fts = [rows |-> old.rows \cup {rowid}, postings |-> old.postings \cup Q(doc)]
  BY <1>1, <1>6 DEF FtsInsert
<1>8. \A d \in DOMAIN x.docs : d # doc => Q(d) = P(d)
  BY <1>6
<1>9. IsIndex(y)
  BY <1>1 DEF IsIndex
<1>10. /\ y.schema = x.schema /\ y.docs = docs /\ y.docmap = docmap /\ y.sugs = x.sugs
  BY <1>1
<1>11. Q(doc) = Postings(y.docmap[doc], EncodeFtsFieldValues(y.schema, y.docs[doc]))
       /\ \A d : Q(d) = Postings(y.docmap[d], EncodeFtsFieldValues(y.schema, y.docs[d]))
  BY <1>10
<1>. HIDE DEF y, docs, docmap, old, P, Q, encoded
<1>12. TypedIndex(y)
  <2>1. /\ x.schema \in Schemas /\ DOMAIN x.docs \subseteq DocIds
        /\ \A d \in DOMAIN x.docs : /\ DOMAIN x.docs[d] \subseteq x.schema
                                   /\ Range(x.docs[d]) \subseteq Texts
        /\ IsInjective(x.docmap) /\ Range(x.docmap) \subseteq Nat \ {0}
        /\ DOMAIN x.sugs \subseteq Terms /\ Range(x.sugs) \subseteq Scores
    BY <1>0 DEF TypedIndex
  <2>2. DOMAIN docs \subseteq DocIds /\ DOMAIN docmap \subseteq DocIds /\ DOMAIN docs = DOMAIN docmap
    BY <1>6, <2>1
  <2>3. \A d \in DOMAIN docs : /\ DOMAIN docs[d] \subseteq x.schema
                              /\ Range(docs[d]) \subseteq Texts
    <3>1. ASSUME NEW d \in DOMAIN docs
          PROVE  DOMAIN docs[d] \subseteq x.schema /\ Range(docs[d]) \subseteq Texts
      <4>1. CASE d = doc  BY <1>6, <4>1
      <4>2. CASE d # doc
        <5>1. d \in DOMAIN x.docs /\ docs[d] = x.docs[d]  BY <1>6, <4>2
        <5>. QED  BY <2>1, <5>1
      <4>. QED  BY <4>1, <4>2
    <3>. QED  BY <3>1
  <2>4. \A d \in DOMAIN x.docs : x.docmap[d] \in Range(x.docmap)
    BY <1>5 DEF Range
  <2>5. Range(docmap) \subseteq Nat \ {0}
    BY <1>6, <2>1, <2>4
  <2>6. IsInjective(docmap)
    <3>1. \A d, e \in DOMAIN x.docs : x.docmap[d] = x.docmap[e] => d = e
      BY <1>5, <2>1 DEF IsInjective
    <3>2. \A d \in DOMAIN x.docs : x.docmap[d] # rowid
      BY <2>4
    <3>3. ASSUME NEW d \in DOMAIN docmap, NEW e \in DOMAIN docmap, docmap[d] = docmap[e]
          PROVE  d = e
      <4>1. CASE d = doc
        <5>1. e # doc => e \in DOMAIN x.docs /\ docmap[e] = x.docmap[e]  BY <1>6
        <5>. QED  BY <1>6, <3>2, <3>3, <4>1, <5>1
      <4>2. CASE e = doc
        <5>1. d # doc => d \in DOMAIN x.docs /\ docmap[d] = x.docmap[d]  BY <1>6
        <5>. QED  BY <1>6, <3>2, <3>3, <4>2, <5>1
      <4>3. CASE d # doc /\ e # doc
        <5>1. d \in DOMAIN x.docs /\ docmap[d] = x.docmap[d]  BY <1>6, <4>3
        <5>2. e \in DOMAIN x.docs /\ docmap[e] = x.docmap[e]  BY <1>6, <4>3
        <5>. QED  BY <3>1, <3>3, <5>1, <5>2
      <4>. QED  BY <4>1, <4>2, <4>3
    <3>. QED  BY <3>3 DEF IsInjective
  <2>. QED  BY <1>10, <2>1, <2>2, <2>3, <2>5, <2>6 DEF TypedIndex
<1>13. ExactIndex(y)
  <2>1. y.fts = [rows |-> y.fts.rows, postings |-> y.fts.postings]  BY <1>7
  <2>2. y.fts.rows = Range(y.docmap)
    <3>1. \A r : r \in y.fts.rows <=> r \in old.rows \/ r = rowid  BY <1>7
    <3>2. \A r : r \in y.fts.rows <=> r \in Range(docmap)  BY <1>4, <1>6, <3>1
    <3>. QED  BY <1>10, <3>2
  <2>3. \A p : p \in y.fts.postings <=> \E d \in DOMAIN y.docs : p \in Q(d)
    <3>1. \A p : p \in y.fts.postings <=> p \in old.postings \/ p \in Q(doc)  BY <1>7
    <3>2. \A d : d \in DOMAIN y.docs <=> d \in DOMAIN x.docs \/ d = doc  BY <1>6, <1>10
    <3>. QED  BY <1>4, <1>8, <3>1, <3>2
  <2>. QED  BY <1>11, <2>1, <2>2, <2>3 DEF ExactIndex
<1>14. GoodIndex(y) /\ y.schema = x.schema
  BY <1>9, <1>10, <1>12, <1>13 DEF GoodIndex
<1>. QED  BY <1>6, <1>10, <1>14 DEF y

\* A document deleted from a good index leaves a good index of the others.
LEMMA DeleteDocumentGood ==
    ASSUME NEW x, GoodIndex(x), NEW doc
    PROVE  GoodIndex(DeleteDocument(x, doc))
<1>. DEFINE fts == Forget(x, doc, Empty)
            docmap == Without(x.docmap, doc)
            docs == Without(x.docs, doc)
            y == DeleteDocument(x, doc)
            P(d) == Postings(x.docmap[d], EncodeFtsFieldValues(x.schema, x.docs[d]))
            Q(d) == Postings(y.docmap[d], EncodeFtsFieldValues(y.schema, y.docs[d]))
<1>0. IsIndex(x) /\ TypedIndex(x) /\ ExactIndex(x)
  BY DEF GoodIndex
<1>1. y = [schema |-> x.schema, docs |-> docs, docmap |-> docmap, fts |-> fts, sugs |-> x.sugs]
  <2>1. x = [schema |-> x.schema, docs |-> x.docs, docmap |-> x.docmap, fts |-> x.fts,
             sugs |-> x.sugs]
    BY <1>0 DEF IsIndex
  <2>2. y = [x EXCEPT !.docmap = docmap, !.docs = docs, !.fts = fts]
    BY DEF DeleteDocument
  <2>. HIDE DEF y, docmap, docs, fts
  <2>. QED  BY <2>1, <2>2
<1>2. /\ fts = [rows |-> fts.rows, postings |-> fts.postings]
      /\ \A r : r \in fts.rows <=> \E d \in DOMAIN x.docs : d # doc /\ r = x.docmap[d]
      /\ \A p : p \in fts.postings <=> \E d \in DOMAIN x.docs : d # doc /\ p \in P(d)
  BY ForgetGives
<1>3. DOMAIN x.docs = DOMAIN x.docmap
  BY <1>0 DEF TypedIndex
<1>4. /\ DOMAIN docmap = DOMAIN x.docs \ {doc}
      /\ \A d \in DOMAIN x.docs : d # doc => docmap[d] = x.docmap[d]
      /\ \A z : z \in Range(docmap) <=> \E d \in DOMAIN x.docs : d # doc /\ z = x.docmap[d]
      /\ DOMAIN docs = DOMAIN x.docs \ {doc}
      /\ \A d \in DOMAIN x.docs : d # doc => docs[d] = x.docs[d]
  <2>1. /\ DOMAIN docmap = DOMAIN x.docmap \ {doc}
        /\ \A d \in DOMAIN x.docmap : d # doc => docmap[d] = x.docmap[d]
        /\ Range(docmap) = {x.docmap[d] : d \in DOMAIN x.docmap \ {doc}}
    BY WithoutGives
  <2>2. /\ DOMAIN docs = DOMAIN x.docs \ {doc}
        /\ \A d \in DOMAIN x.docs : d # doc => docs[d] = x.docs[d]
    BY WithoutGives
  <2>. HIDE DEF docmap, docs
  <2>. QED  BY <1>3, <2>1, <2>2
<1>5. IsIndex(y)
  BY <1>1 DEF IsIndex
<1>6. /\ y.schema = x.schema /\ y.docs = docs /\ y.docmap = docmap /\ y.sugs = x.sugs
      /\ y.fts = fts
  BY <1>1
<1>7. \A d \in DOMAIN x.docs : d # doc => Q(d) = P(d)
  BY <1>4, <1>6
<1>. HIDE DEF y, docs, docmap, fts, P
<1>8. TypedIndex(y)
  <2>1. /\ x.schema \in Schemas /\ DOMAIN x.docs \subseteq DocIds
        /\ \A d \in DOMAIN x.docs : /\ DOMAIN x.docs[d] \subseteq x.schema
                                   /\ Range(x.docs[d]) \subseteq Texts
        /\ IsInjective(x.docmap) /\ Range(x.docmap) \subseteq Nat \ {0}
        /\ DOMAIN x.sugs \subseteq Terms /\ Range(x.sugs) \subseteq Scores
    BY <1>0 DEF TypedIndex
  <2>2. DOMAIN docs \subseteq DocIds /\ DOMAIN docmap \subseteq DocIds /\ DOMAIN docs = DOMAIN docmap
    BY <1>4, <2>1
  <2>3. \A d \in DOMAIN docs : /\ DOMAIN docs[d] \subseteq x.schema
                              /\ Range(docs[d]) \subseteq Texts
    BY <1>4, <2>1
  <2>4. \A d \in DOMAIN x.docs : x.docmap[d] \in Range(x.docmap)
    BY <1>3 DEF Range
  <2>5. Range(docmap) \subseteq Nat \ {0}
    BY <1>4, <2>1, <2>4
  <2>6. IsInjective(docmap)
    BY <1>3, <1>4, <2>1 DEF IsInjective
  <2>. QED  BY <1>6, <2>1, <2>2, <2>3, <2>5, <2>6 DEF TypedIndex
<1>9. ExactIndex(y)
  <2>1. y.fts.rows = Range(y.docmap)
    <3>1. \A r : r \in y.fts.rows <=> r \in Range(y.docmap)  BY <1>2, <1>4, <1>6
    <3>. QED  BY <1>2, <1>6, <3>1
  <2>2. \A p : p \in y.fts.postings <=> \E d \in DOMAIN y.docs : p \in Q(d)
    <3>1. \A d : d \in DOMAIN y.docs <=> d \in DOMAIN x.docs /\ d # doc  BY <1>4, <1>6
    <3>. HIDE DEF Q
    <3>. QED  BY <1>2, <1>6, <1>7, <3>1
  <2>. QED  BY <1>2, <1>6, <2>1, <2>2 DEF ExactIndex
<1>. QED  BY <1>5, <1>8, <1>9 DEF GoodIndex, y

-----------------------------------------------------------------------------
(* A batch.                                                                *)

\* The texts of a document of the source are texts, one for each field of the schema.
LEMMA FieldsAreTexts ==
    ASSUME NEW hash \in SourceHashes
    PROVE  /\ DOMAIN BuildDocFields(hash) = Schema
           /\ Range(BuildDocFields(hash)) \subseteq Texts
<1>. DEFINE value(f) == UNION {Text(hash, i) : i \in {j \in FieldMap : Attributes[j].name = f}}
            all == UNION {value(g) : g \in Schema}
            b == BuildDocFields(hash)
<1>1. Range(hash) \subseteq Texts /\ \A some \in SUBSET Texts : UNION some \in Texts
  BY SearchMigrationAssumption
<1>2. \A i : Text(hash, i) \in Texts
  <2>1. \A e \in DOMAIN hash : hash[e] \in Texts
    BY <1>1 DEF Range
  <2>2. {} \in Texts
    <3>1. UNION {} \in Texts  BY <1>1
    <3>2. UNION {} = {}  OBVIOUS
    <3>. QED  BY <3>1, <3>2
  <2>. QED  BY <2>1, <2>2 DEF Text
<1>3. ASSUME NEW f PROVE value(f) \in Texts
  <2>. DEFINE some == {Text(hash, i) : i \in {j \in FieldMap : Attributes[j].name = f}}
  <2>1. some \in SUBSET Texts  BY <1>2
  <2>. HIDE DEF some
  <2>2. UNION some \in Texts  BY <1>1, <2>1
  <2>. QED  BY <2>2 DEF some
<1>4. b = [f \in Schema |-> IF f = Payload /\ value(f) = {} THEN all ELSE value(f)]
  BY DEF BuildDocFields
<1>. HIDE DEF value, b
<1>5. all \in Texts
  <2>1. {value(g) : g \in Schema} \in SUBSET Texts  BY <1>3
  <2>. QED  BY <1>1, <2>1
<1>. HIDE DEF all
<1>6. DOMAIN b = Schema /\ \A f \in Schema : b[f] \in Texts
  BY <1>3, <1>4, <1>5
<1>. QED  BY <1>6 DEF Range, b

\* Among the fields of one identifier one is the last.
LEMMA LastTwin == ASSUME NEW i \in MapFields PROVE \E j \in Twins(i) : j \in FieldMap
<1>1. PICK n \in Nat : DOMAIN Attributes = 1..n
  BY SearchMigrationAssumption
<1>2. MapFields \subseteq 1..n
  BY <1>1 DEF MapFields
<1>. DEFINE T == {n - j : j \in Twins(i)}
<1>3. T \in SUBSET Nat /\ T # {}
  BY <1>2 DEF Twins
<1>4. PICK m \in T : \A k \in T : m <= k
  <2>. HIDE DEF T
  <2>. QED  BY <1>3, LeastNumber
<1>5. PICK j \in Twins(i) : m = n - j
  BY <1>4
<1>6. \A k \in Twins(i) : k <= j
  <2>1. ASSUME NEW k \in Twins(i) PROVE k <= j
    <3>1. n - k \in T  OBVIOUS
    <3>2. n - j <= n - k  BY <1>4, <1>5, <3>1
    <3>. QED  BY <1>2, <3>2 DEF Twins
  <2>. QED  BY <2>1
<1>7. j \in MapFields /\ Twins(j) = Twins(i)
  BY DEF Twins
<1>. QED  BY <1>6, <1>7 DEF FieldMap

\* No two fields have one name.
LEMMA OneNameOneField ==
    ASSUME NEW i \in MapFields, NEW j \in MapFields, Attributes[i].name = Attributes[j].name
    PROVE  i = j
<1>1. PICK n \in Nat : DOMAIN Attributes = 1..n
  BY SearchMigrationAssumption
<1>2. i \in 1..n /\ j \in 1..n
  BY <1>1 DEF MapFields
<1>3. ASSUME i < j PROVE FALSE
  <2>1. i \in 1..(j - 1)  BY <1>2, <1>3
  <2>. QED  BY <2>1 DEF MapFields
<1>4. ASSUME j < i PROVE FALSE
  <2>1. j \in 1..(i - 1)  BY <1>2, <1>4
  <2>. QED  BY <2>1 DEF MapFields
<1>. QED  BY <1>2, <1>3, <1>4

\* What buildDocFields makes of a hash has its texts, each in a field of its own, nothing else and a
\* payload.
LEMMA BuiltRepresents ==
    ASSUME NEW hash \in SourceHashes
    PROVE  Represents(BuildDocFields(hash), hash)
<1>. DEFINE value(f) == UNION {Text(hash, i) : i \in {j \in FieldMap : Attributes[j].name = f}}
            all == UNION {value(g) : g \in Schema}
            b == BuildDocFields(hash)
            own(f) == {Text(hash, i) : i \in {j \in MapFields : Attributes[j].name = f}}
<1>1. b = [f \in Schema |-> IF f = Payload /\ value(f) = {} THEN all ELSE value(f)]
  BY DEF BuildDocFields
<1>2. FieldMap \subseteq MapFields
  BY DEF FieldMap
<1>3. ASSUME NEW i \in FieldMap PROVE value(Attributes[i].name) = Text(hash, i)
  <2>1. {j \in FieldMap : Attributes[j].name = Attributes[i].name} = {i}
    BY <1>2, OneNameOneField
  <2>. QED  BY <2>1
<1>4. ASSUME NEW f PROVE value(f) \in own(f) \cup {{}}
  <2>1. CASE {j \in FieldMap : Attributes[j].name = f} = {}
    <3>1. value(f) = {}  BY <2>1
    <3>. QED  BY <3>1
  <2>2. CASE {j \in FieldMap : Attributes[j].name = f} # {}
    <3>1. PICK i \in FieldMap : Attributes[i].name = f  BY <2>2
    <3>2. value(f) = Text(hash, i)  BY <1>3, <3>1
    <3>3. Text(hash, i) \in own(f)  BY <1>2, <3>1
    <3>. QED  BY <3>2, <3>3
  <2>. QED  BY <2>1, <2>2
<1>. HIDE DEF value, b
<1>5. DOMAIN b = Schema
  BY <1>1
<1>6. ASSUME NEW i \in MapFields, Text(hash, i) # {}
      PROVE  \E j \in Twins(i) : b[Attributes[j].name] = Text(hash, i)
  <2>1. PICK j \in Twins(i) : j \in FieldMap  BY LastTwin
  <2>2. j \in MapFields /\ Attributes[j].identifier = Attributes[i].identifier  BY DEF Twins
  <2>3. Text(hash, j) = Text(hash, i)  BY <2>2 DEF Text
  <2>4. value(Attributes[j].name) = Text(hash, i)  BY <1>3, <2>1, <2>3
  <2>5. Attributes[j].name \in Schema  BY <2>2 DEF Schema
  <2>6. b[Attributes[j].name] = Text(hash, i)  BY <1>1, <1>6, <2>4, <2>5
  <2>. QED  BY <2>6
<1>7. ASSUME NEW f \in Schema, f # Payload PROVE b[f] \in own(f) \cup {{}}
  <2>1. b[f] = value(f)  BY <1>1, <1>7
  <2>. QED  BY <1>4, <2>1
<1>8. b[Payload] \in (own(Payload) \ {{}}) \cup {UNION {b[g] : g \in Schema \ {Payload}}}
  <2>0. Payload \in Schema  BY DEF Schema
  <2>1. CASE value(Payload) # {}
    <3>1. b[Payload] = value(Payload)  BY <1>1, <2>0, <2>1
    <3>. QED  BY <1>4, <2>1, <3>1
  <2>2. CASE value(Payload) = {}
    <3>1. b[Payload] = all  BY <1>1, <2>0, <2>2
    <3>2. \A g \in Schema \ {Payload} : b[g] = value(g)  BY <1>1
    <3>3. {b[g] : g \in Schema \ {Payload}} = {value(g) : g \in Schema \ {Payload}}  BY <3>2
    <3>4. all = UNION {value(g) : g \in Schema \ {Payload}}
      <4>1. {value(g) : g \in Schema} = {value(g) : g \in Schema \ {Payload}} \cup {{}}
        BY <2>0, <2>2
      <4>2. UNION ({value(g) : g \in Schema \ {Payload}} \cup {{}})
              = UNION {value(g) : g \in Schema \ {Payload}}
        OBVIOUS
      <4>. QED  BY <4>1, <4>2
    <3>. QED  BY <3>1, <3>3, <3>4
  <2>. QED  BY <2>1, <2>2
<1>9. Represents(b, hash)
  BY <1>5, <1>6, <1>7, <1>8 DEF Represents
<1>. QED  BY <1>9 DEF b

\* The schema of the import is one that an index may have.
LEMMA SchemaIsOne == Schema \in Schemas
<1>1. \A i \in MapFields : Attributes[i].name \in Fields
  BY SearchMigrationAssumption DEF MapFields
<1>2. Payload \in Fields
  BY SearchAssumption
<1>. QED  BY <1>1, <1>2 DEF Schema, Schemas

\* acc is a good index that the documents of the source fit.
FitIndex(acc) ==
    /\ acc = [index |-> acc.index, max |-> acc.max]
    /\ GoodIndex(acc.index) /\ acc.max \in Nat /\ Schema \subseteq acc.index.schema

\* What of an index a document put in, or not, may change.
NextIndex(old, new, doc, failing, hashes) ==
    /\ new.index.schema = old.index.schema
    /\ doc \in failing => new = old
    /\ doc \notin failing =>
         /\ DOMAIN new.index.docs = DOMAIN old.index.docs \cup {doc}
         /\ new.index.docs[doc] = BuildDocFields(hashes[doc])
         /\ \A d \in DOMAIN old.index.docs : d # doc => new.index.docs[d] = old.index.docs[d]

LEMMA AddNextGood ==
    ASSUME NEW acc, FitIndex(acc), NEW doc \in DocIds, NEW failing, NEW hashes,
           hashes[doc] \in SourceHashes
    PROVE  LET new == AddNext(acc, doc, failing, hashes)
           IN  FitIndex(new) /\ NextIndex(acc, new, doc, failing, hashes)
<1>. DEFINE new == AddNext(acc, doc, failing, hashes)
            rowid == AllocateFtsRowid(acc.index, acc.max)
            fields == BuildDocFields(hashes[doc])
            y == AddDocument(acc.index, doc, fields, rowid)
<1>1. CASE doc \in failing
  <2>1. new = acc  BY <1>1 DEF AddNext
  <2>. HIDE DEF new
  <2>2. FitIndex(new) /\ NextIndex(acc, new, doc, failing, hashes)
    BY <1>1, <2>1 DEF NextIndex
  <2>. QED  BY <2>2 DEF new
<1>2. CASE doc \notin failing
  <2>1. new = [index |-> y, max |-> rowid]  BY <1>2 DEF AddNext
  <2>2. GoodIndex(acc.index) /\ acc.max \in Nat /\ Schema \subseteq acc.index.schema
    BY DEF FitIndex
  <2>3. rowid \in Nat \ {0} /\ rowid \notin Range(acc.index.docmap)
    BY <2>2, RowidIsFresh DEF GoodIndex
  <2>4. DOMAIN fields \subseteq acc.index.schema /\ Range(fields) \subseteq Texts
    BY <2>2, FieldsAreTexts
  <2>. HIDE DEF fields, rowid
  <2>5. /\ GoodIndex(y) /\ y.schema = acc.index.schema
        /\ DOMAIN y.docs = DOMAIN acc.index.docs \cup {doc} /\ y.docs[doc] = fields
        /\ \A d \in DOMAIN acc.index.docs : d # doc => y.docs[d] = acc.index.docs[d]
    BY <2>2, <2>3, <2>4, AddDocumentGood
  <2>. HIDE DEF y, new
  <2>6. new.index = y /\ new.max = rowid /\ new = [index |-> new.index, max |-> new.max]
    BY <2>1
  <2>7. FitIndex(new)
    BY <2>2, <2>3, <2>5, <2>6 DEF FitIndex
  <2>8. NextIndex(acc, new, doc, failing, hashes)
    BY <1>2, <2>5, <2>6 DEF NextIndex, fields
  <2>. QED  BY <2>7, <2>8 DEF new, y, rowid, fields
<1>. QED  BY <1>1, <1>2

\* f is what the loop of AddAll computes over the first N documents.
Adding(x, max, docs, failing, hashes, N, f) ==
    f = [n \in 0..N |-> IF n = 0 THEN [index |-> x, max |-> max]
                        ELSE AddNext(f[n - 1], docs[n], failing, hashes)]

\* It computes something for every number of documents.
LEMMA AddingComputes ==
    ASSUME NEW x, NEW max, NEW docs, NEW failing, NEW hashes, NEW N \in Nat
    PROVE  \E f : Adding(x, max, docs, failing, hashes, N, f)
<1>. DEFINE C(M, f) == Adding(x, max, docs, failing, hashes, M, f)
            T == {M \in Nat : ~\E f : C(M, f)}
            first == [index |-> x, max |-> max]
<1>0. ASSUME NEW M, NEW f
      PROVE  C(M, f) <=> f = [n \in 0..M |-> IF n = 0 THEN first
                                             ELSE AddNext(f[n - 1], docs[n], failing, hashes)]
  BY DEF Adding
<1>. HIDE DEF C, first
<1>1. ASSUME NEW M \in T, \A K \in T : M <= K PROVE FALSE
  <2>1. CASE M = 0
    <3>. DEFINE g == [n \in 0..0 |-> first]
    <3>1. g = [n \in 0..0 |-> IF n = 0 THEN first ELSE AddNext(g[n - 1], docs[n], failing, hashes)]
      OBVIOUS
    <3>. HIDE DEF g
    <3>2. C(0, g)  BY <1>0, <3>1
    <3>. QED  BY <1>1, <2>1, <3>2
  <2>2. CASE M # 0
    <3>1. M - 1 \in Nat /\ M - 1 \notin T  BY <1>1, <2>2
    <3>2. PICK f : C(M - 1, f)  BY <3>1
    <3>. DEFINE g == [n \in 0..M |-> IF n # M THEN f[n] ELSE AddNext(f[M - 1], docs[M], failing, hashes)]
    <3>3. ASSUME NEW n \in 0..M
          PROVE  g[n] = IF n = 0 THEN first ELSE AddNext(g[n - 1], docs[n], failing, hashes)
      <4>1. CASE n = M
        <5>1. g[M - 1] = f[M - 1]  BY <2>2
        <5>. QED  BY <2>2, <4>1, <5>1
      <4>2. CASE n # M /\ n # 0
        <5>1. n \in 0..(M - 1) /\ n - 1 \in 0..M /\ n - 1 # M  BY <4>2
        <5>2. f[n] = AddNext(f[n - 1], docs[n], failing, hashes)
          BY <1>0, <3>2, <4>2, <5>1
        <5>3. g[n - 1] = f[n - 1] /\ g[n] = f[n]  BY <4>2, <5>1
        <5>. QED  BY <4>2, <5>2, <5>3
      <4>3. CASE n # M /\ n = 0
        <5>1. f = [i \in 0..(M - 1) |-> IF i = 0 THEN first
                                        ELSE AddNext(f[i - 1], docs[i], failing, hashes)]
          BY <1>0, <3>2
        <5>2. 0 \in 0..(M - 1)  BY <3>1
        <5>3. f[0] = first  BY <5>1, <5>2
        <5>. QED  BY <4>3, <5>3
      <4>. QED  BY <4>1, <4>2, <4>3
    <3>4. g = [n \in 0..M |-> g[n]]  OBVIOUS
    <3>. HIDE DEF g
    <3>5. C(M, g)  BY <1>0, <3>3, <3>4
    <3>. QED  BY <1>1, <3>5
  <2>. QED  BY <2>1, <2>2
<1>2. T = {}
  <2>. HIDE DEF T
  <2>1. T \in SUBSET Nat  BY DEF T
  <2>. QED  BY <1>1, <2>1, LeastNumber
<1>. QED  BY <1>2 DEF C

\* What of an index those documents put in that did not fail change: they have the fields of their
\* hashes, and the others are as they were.
Imported(x, y, those, hashes) ==
    /\ y.schema = x.schema
    /\ DOMAIN y.docs = DOMAIN x.docs \cup those
    /\ \A d \in those : y.docs[d] = BuildDocFields(hashes[d])
    /\ \A d \in DOMAIN x.docs \ those : y.docs[d] = x.docs[d]

LEMMA ImportedNext ==
    ASSUME NEW x, NEW old, NEW new, NEW those, NEW doc, NEW failing, NEW hashes,
           Imported(x, old.index, those, hashes), NextIndex(old, new, doc, failing, hashes)
    PROVE  Imported(x, new.index, those \cup ({doc} \ failing), hashes)
<1>1. CASE doc \in failing
  <2>1. new = old /\ {doc} \ failing = {}  BY <1>1 DEF NextIndex
  <2>. QED  BY <2>1
<1>2. CASE doc \notin failing
  <2>. DEFINE y == old.index
              z == new.index
  <2>1. /\ z.schema = y.schema /\ DOMAIN z.docs = DOMAIN y.docs \cup {doc}
        /\ z.docs[doc] = BuildDocFields(hashes[doc])
        /\ \A d \in DOMAIN y.docs : d # doc => z.docs[d] = y.docs[d]
    BY <1>2 DEF NextIndex
  <2>2. /\ y.schema = x.schema /\ DOMAIN y.docs = DOMAIN x.docs \cup those
        /\ \A d \in those : y.docs[d] = BuildDocFields(hashes[d])
        /\ \A d \in DOMAIN x.docs \ those : y.docs[d] = x.docs[d]
    BY DEF Imported
  <2>3. {doc} \ failing = {doc}  BY <1>2
  <2>. HIDE DEF y, z
  <2>4. z.schema = x.schema /\ DOMAIN z.docs = DOMAIN x.docs \cup (those \cup {doc})
    BY <2>1, <2>2
  <2>5. ASSUME NEW d \in those \cup {doc} PROVE z.docs[d] = BuildDocFields(hashes[d])
    <3>1. CASE d = doc  BY <2>1, <3>1
    <3>2. CASE d # doc
      <4>1. d \in DOMAIN y.docs  BY <2>2, <3>2
      <4>. QED  BY <2>1, <2>2, <3>2, <4>1
    <3>. QED  BY <3>1, <3>2
  <2>6. ASSUME NEW d \in DOMAIN x.docs \ (those \cup {doc}) PROVE z.docs[d] = x.docs[d]
    <3>1. d \in DOMAIN y.docs /\ d # doc  BY <2>2
    <3>. QED  BY <2>1, <2>2, <3>1
  <2>7. Imported(x, z, those \cup {doc}, hashes)
    BY <2>4, <2>5, <2>6 DEF Imported
  <2>. QED  BY <2>3, <2>7 DEF z
<1>. QED  BY <1>1, <1>2

\* The documents up to one.
UpTo(docs, n) == {docs[i] : i \in 1..n}

LEMMA AddAllGood ==
    ASSUME NEW x, NEW max \in Nat, GoodIndex(x), Schema \subseteq x.schema,
           NEW docs \in Seq(DocIds), NEW failing, NEW hashes,
           \A d \in Range(docs) : hashes[d] \in SourceHashes
    PROVE  LET all == AddAll(x, max, docs, failing, hashes)
           IN  /\ GoodIndex(all.index) /\ all.max \in Nat
               /\ Imported(x, all.index, Range(docs) \ failing, hashes)
<1>. DEFINE N == Len(docs)
            f == CHOOSE g : Adding(x, max, docs, failing, hashes, N, g)
            first == [index |-> x, max |-> max]
            OK(n) == FitIndex(f[n]) /\ Imported(x, f[n].index, UpTo(docs, n) \ failing, hashes)
            T == {n \in 0..N : ~OK(n)}
<1>0. N \in Nat /\ \A n \in 1..N : docs[n] \in DocIds /\ docs[n] \in Range(docs)
  BY DEF Range
<1>1. AddAll(x, max, docs, failing, hashes) = f[N]
  BY DEF AddAll, Adding
<1>2. Adding(x, max, docs, failing, hashes, N, f)
  BY <1>0, AddingComputes
<1>. HIDE DEF f
<1>3. f = [n \in 0..N |-> IF n = 0 THEN first ELSE AddNext(f[n - 1], docs[n], failing, hashes)]
  BY <1>2 DEF Adding
<1>4. f[0] = first /\ \A n \in 1..N : f[n] = AddNext(f[n - 1], docs[n], failing, hashes)
  <2>1. 0 \in 0..N  BY <1>0
  <2>2. ASSUME NEW n \in 1..N PROVE f[n] = AddNext(f[n - 1], docs[n], failing, hashes)
    <3>1. n \in 0..N /\ n # 0  BY <1>0
    <3>. QED  BY <1>3, <3>1
  <2>3. f[0] = first  BY <1>3, <2>1
  <2>. QED  BY <2>2, <2>3
<1>5. OK(0)
  <2>1. first.index = x /\ first.max = max /\ first = [index |-> first.index, max |-> first.max]
    OBVIOUS
  <2>2. UpTo(docs, 0) \ failing = {}
    BY DEF UpTo
  <2>3. Imported(x, x, {}, hashes)
    BY DEF Imported
  <2>. HIDE DEF first
  <2>4. FitIndex(first)
    BY <2>1 DEF FitIndex
  <2>. QED  BY <1>4, <2>1, <2>2, <2>3, <2>4
<1>6. T = {}
  <2>1. ASSUME NEW n \in T, \A m \in T : n <= m PROVE FALSE
    <3>1. n \in 1..N
      <4>1. n \in 0..N /\ ~OK(n)  BY <2>1
      <4>. HIDE DEF OK
      <4>. QED  BY <1>0, <1>5, <4>1
    <3>2. n - 1 \in 0..N /\ ~(n <= n - 1)  BY <3>1, <1>0
    <3>3. OK(n - 1)
      <4>1. n - 1 \notin T
        <5>. HIDE DEF T
        <5>. QED  BY <2>1, <3>2
      <4>. QED  BY <3>2, <4>1
    <3>4. hashes[docs[n]] \in SourceHashes /\ docs[n] \in DocIds  BY <1>0, <3>1
    <3>. DEFINE old == f[n - 1]
                new == f[n]
    <3>5. new = AddNext(old, docs[n], failing, hashes)  BY <1>4, <3>1
    <3>6. FitIndex(old) /\ Imported(x, old.index, UpTo(docs, n - 1) \ failing, hashes)
      BY <3>3
    <3>. HIDE DEF old, new
    <3>7. FitIndex(new) /\ NextIndex(old, new, docs[n], failing, hashes)
      BY <3>4, <3>5, <3>6, AddNextGood
    <3>8. Imported(x, new.index, (UpTo(docs, n - 1) \ failing) \cup ({docs[n]} \ failing), hashes)
      BY <3>6, <3>7, ImportedNext
    <3>9. (UpTo(docs, n - 1) \ failing) \cup ({docs[n]} \ failing) = UpTo(docs, n) \ failing
      <4>1. 1..n = (1..(n - 1)) \cup {n}  BY <3>1, <1>0
      <4>. QED  BY <4>1 DEF UpTo
    <3>10. OK(n)  BY <3>7, <3>8, <3>9 DEF new
    <3>. QED  BY <2>1, <3>10
  <2>. HIDE DEF T
  <2>2. T \in SUBSET Nat  BY <1>0 DEF T
  <2>. QED  BY <2>1, <2>2, LeastNumber
<1>7. OK(N)
  <2>. HIDE DEF OK
  <2>1. N \in 0..N  BY <1>0
  <2>. QED  BY <1>6, <2>1
<1>8. UpTo(docs, N) = Range(docs)
  <2>1. DOMAIN docs = 1..N  OBVIOUS
  <2>. HIDE DEF N
  <2>. QED  BY <2>1 DEF UpTo, Range
<1>. HIDE DEF N
<1>9. FitIndex(f[N]) /\ Imported(x, f[N].index, Range(docs) \ failing, hashes)
  BY <1>7, <1>8
<1>. QED  BY <1>1, <1>9 DEF FitIndex

-----------------------------------------------------------------------------
(* All indices.                                                            *)

GoodIndices(ix) ==
    /\ ix = [n \in Names |-> ix[n]]
    /\ \A n \in Names : ix[n] # NoIndex => GoodIndex(ix[n])
SearchOK == GoodIndices(indices) /\ allocated \in Nat /\ ops \in 0..MaxOps

LEMMA PutGood ==
    ASSUME NEW ix, GoodIndices(ix), NEW n \in Names, NEW x, GoodIndex(x)
    PROVE  GoodIndices([ix EXCEPT ![n] = x])
<1>. DEFINE new == [ix EXCEPT ![n] = x]
<1>1. /\ ix = [m \in Names |-> ix[m]]
      /\ \A m \in Names : ix[m] # NoIndex => GoodIndex(ix[m])
  BY DEF GoodIndices
<1>2. new = [m \in Names |-> IF m = n THEN x ELSE ix[m]]
  BY <1>1
<1>. HIDE DEF new
<1>3. new = [m \in Names |-> new[m]] /\ \A m \in Names : new[m] = x \/ new[m] = ix[m]
  BY <1>2
<1>4. \A m \in Names : new[m] # NoIndex => GoodIndex(new[m])
  <2>1. ASSUME NEW m \in Names, new[m] # NoIndex PROVE GoodIndex(new[m])
    <3>1. CASE new[m] = x  BY <3>1
    <3>2. CASE new[m] = ix[m]  BY <1>1, <2>1, <3>2
    <3>. QED  BY <1>3, <3>1, <3>2
  <2>. QED  BY <2>1
<1>. QED  BY <1>3, <1>4 DEF GoodIndices, new

LEMMA NoIndicesGood == GoodIndices([n \in Names |-> NoIndex])
BY DEF GoodIndices

\* Suggestions are on their own.
LEMMA SugsGood ==
    ASSUME NEW x, GoodIndex(x), NEW sugs, DOMAIN sugs \subseteq Terms, Range(sugs) \subseteq Scores
    PROVE  GoodIndex([x EXCEPT !.sugs = sugs]) /\ [x EXCEPT !.sugs = sugs].docs = x.docs
<1>. DEFINE y == [x EXCEPT !.sugs = sugs]
<1>1. IsIndex(x) /\ TypedIndex(x) /\ ExactIndex(x)
  BY DEF GoodIndex
<1>2. y = [schema |-> x.schema, docs |-> x.docs, docmap |-> x.docmap, fts |-> x.fts,
           sugs |-> sugs]
  <2>1. x = [schema |-> x.schema, docs |-> x.docs, docmap |-> x.docmap, fts |-> x.fts,
             sugs |-> x.sugs]
    BY <1>1 DEF IsIndex
  <2>. HIDE DEF y
  <2>2. y = [x EXCEPT !.sugs = sugs]  BY DEF y
  <2>. QED  BY <2>1, <2>2
<1>3. IsIndex(y)
  BY <1>2 DEF IsIndex
<1>4. /\ y.schema = x.schema /\ y.docs = x.docs /\ y.docmap = x.docmap /\ y.fts = x.fts
      /\ y.sugs = sugs
  BY <1>2
<1>. HIDE DEF y
<1>5. TypedIndex(y)
  BY <1>1, <1>4 DEF TypedIndex
<1>6. ExactIndex(y)
  BY <1>1, <1>4 DEF ExactIndex
<1>. QED  BY <1>3, <1>4, <1>5, <1>6 DEF GoodIndex, y

\* An index of an old database has the postings of its documents.
LEMMA LegacyGood ==
    ASSUME NEW schema \in Schemas, NEW docs \in SUBSET DocIds, NEW text \in [docs -> Texts],
           NEW N, NEW rowids \in [docs -> 1..N], N \in Nat, IsInjective(rowids)
    PROVE  LET fields == [d \in docs |-> [f \in {Payload} |-> text[d]]]
           IN  GoodIndex([NewIndex(schema) EXCEPT
                    !.docs = fields, !.docmap = rowids,
                    !.fts = [rows |-> Range(rowids),
                             postings |-> UNION {Postings(rowids[d], fields[d]) : d \in docs}]])
<1>. DEFINE fields == [d \in docs |-> [f \in {Payload} |-> text[d]]]
            postings == UNION {Postings(rowids[d], fields[d]) : d \in docs}
            fts == [rows |-> Range(rowids), postings |-> postings]
            y == [NewIndex(schema) EXCEPT !.docs = fields, !.docmap = rowids, !.fts = fts]
            enc(d) == EncodeFtsFieldValues(schema, fields[d])
<1>0. Payload \in schema /\ schema \subseteq Fields
  BY DEF Schemas
<1>1. y = [schema |-> schema, docs |-> fields, docmap |-> rowids, fts |-> fts, sugs |-> <<>>]
  <2>. DEFINE none == <<>>
              x == NewIndex(schema)
  <2>1. x = [schema |-> schema, docs |-> none, docmap |-> none, fts |-> NoRows, sugs |-> none]
    BY DEF NewIndex, Empty
  <2>2. y = [x EXCEPT !.docs = fields, !.docmap = rowids, !.fts = fts]
    OBVIOUS
  <2>. HIDE DEF fields, fts, y, none, x
  <2>3. y = [schema |-> schema, docs |-> fields, docmap |-> rowids, fts |-> fts, sugs |-> none]
    BY <2>1, <2>2
  <2>. QED  BY <2>3 DEF none
<1>2. \A d \in docs : DOMAIN fields[d] = {Payload} /\ fields[d][Payload] = text[d] /\ text[d] \in Texts
  OBVIOUS
<1>3. DOMAIN fields = docs /\ DOMAIN rowids = docs
  OBVIOUS
<1>4. ASSUME NEW d \in docs, NEW p PROVE p \in Postings(rowids[d], fields[d]) <=> p \in Postings(rowids[d], enc(d))
  <2>1. enc(d) = [f \in schema |-> IF f = Payload THEN text[d] ELSE {}]
    BY <1>2 DEF EncodeFtsFieldValues
  <2>2. DOMAIN enc(d) = schema /\ enc(d)[Payload] = text[d] /\ \A f \in schema \ {Payload} : enc(d)[f] = {}
    BY <1>0, <2>1
  <2>. HIDE DEF enc, fields
  <2>3. p \in Postings(rowids[d], fields[d]) <=> \E t \in text[d] : p = <<rowids[d], Payload, t>>
    BY <1>2, PostingsOfRow
  <2>4. p \in Postings(rowids[d], enc(d)) <=> \E t \in text[d] : p = <<rowids[d], Payload, t>>
    BY <1>0, <2>2, PostingsOfRow
  <2>. QED  BY <2>3, <2>4
<1>5. /\ y.schema = schema /\ y.docs = fields /\ y.docmap = rowids /\ y.fts = fts /\ y.sugs = <<>>
      /\ IsIndex(y)
  BY <1>1 DEF IsIndex
<1>6. fts.rows = Range(rowids) /\ fts.postings = postings
      /\ fts = [rows |-> fts.rows, postings |-> fts.postings]
  OBVIOUS
<1>7. \A p : p \in postings <=> \E d \in docs : p \in Postings(rowids[d], fields[d])
  OBVIOUS
<1>8. \A p : p \in postings <=> \E d \in docs : p \in Postings(rowids[d], enc(d))
  <2>. HIDE DEF postings, enc, fields
  <2>. QED  BY <1>4, <1>7
<1>. HIDE DEF y, fts, postings, fields
<1>9. TypedIndex(y)
  <2>1. Range(rowids) \subseteq Nat \ {0}
    BY DEF Range
  <2>2. \A d \in docs : DOMAIN fields[d] \subseteq schema /\ Range(fields[d]) \subseteq Texts
    BY <1>0, <1>2 DEF Range
  <2>3. DOMAIN <<>> = {} /\ Range(<<>>) = {}
    BY DEF Range
  <2>. QED  BY <1>3, <1>5, <2>1, <2>2, <2>3 DEF TypedIndex
<1>10. ExactIndex(y)
  BY <1>3, <1>5, <1>6, <1>8 DEF ExactIndex
<1>. QED  BY <1>5, <1>9, <1>10 DEF GoodIndex, y, fts, postings, fields

\* An index that is found is well-formed.
LEMMA FoundIndexIsGood ==
    ASSUME SearchOK, NEW n \in Names, Exists(n) PROVE GoodIndex(indices[n])
BY DEF SearchOK, GoodIndices, Exists

LEMMA InitIsGood == SearchInit => SearchOK
<1>. SUFFICES ASSUME SearchInit PROVE GoodIndices(indices)
  <2>1. MaxOps \in Nat  BY SearchAssumption
  <2>. QED  BY <2>1 DEF SearchOK, SearchInit
<1>1. CASE indices = [n \in Names |-> NoIndex]
  BY <1>1, NoIndicesGood
<1>2. ASSUME NEW name \in Names, Legacy(name) PROVE GoodIndices(indices)
  <2>1. PICK docs \in SUBSET LegacyDocs, schema \in Schemas :
          \E text \in [docs -> Texts], rowids \in [docs -> 1..Cardinality(LegacyDocs)] :
            LET fields == [d \in docs |-> [f \in {Payload} |-> text[d]]]
            IN  /\ IsInjective(rowids)
                /\ indices = [n \in Names |-> IF n # name THEN NoIndex ELSE
                     [NewIndex(schema) EXCEPT
                        !.docs = fields, !.docmap = rowids,
                        !.fts = [rows |-> Range(rowids),
                                 postings |-> UNION {Postings(rowids[d], fields[d]) : d \in docs}]]]
    BY <1>2 DEF Legacy
  <2>2. PICK text \in [docs -> Texts], rowids \in [docs -> 1..Cardinality(LegacyDocs)] :
            LET fields == [d \in docs |-> [f \in {Payload} |-> text[d]]]
            IN  /\ IsInjective(rowids)
                /\ indices = [n \in Names |-> IF n # name THEN NoIndex ELSE
                     [NewIndex(schema) EXCEPT
                        !.docs = fields, !.docmap = rowids,
                        !.fts = [rows |-> Range(rowids),
                                 postings |-> UNION {Postings(rowids[d], fields[d]) : d \in docs}]]]
    BY <2>1
  <2>. DEFINE fields == [d \in docs |-> [f \in {Payload} |-> text[d]]]
              x == [NewIndex(schema) EXCEPT
                        !.docs = fields, !.docmap = rowids,
                        !.fts = [rows |-> Range(rowids),
                                 postings |-> UNION {Postings(rowids[d], fields[d]) : d \in docs}]]
  <2>3. indices = [n \in Names |-> IF n # name THEN NoIndex ELSE x]
    BY <2>2
  <2>4. GoodIndex(x)
    <3>1. LegacyDocs \subseteq DocIds /\ IsFiniteSet(DocIds)  BY SearchAssumption
    <3>2. docs \in SUBSET DocIds  BY <3>1
    <3>3. Cardinality(LegacyDocs) \in Nat  BY <3>1, FS_Subset, FS_CardinalityType
    <3>4. IsInjective(rowids)  BY <2>2
    <3>. QED  BY <3>2, <3>3, <3>4, LegacyGood
  <2>. HIDE DEF x
  <2>. QED  BY <2>3, <2>4 DEF GoodIndices
<1>. QED  BY <1>1, <1>2 DEF SearchInit

LEMMA CommandIsGood == ASSUME SearchOK, Command PROVE SearchOK'
<1>0. /\ GoodIndices(indices) /\ allocated \in Nat /\ ops \in 0..MaxOps /\ MaxOps \in Nat
      /\ \A n \in Names : Exists(n) => GoodIndex(indices[n])
  BY SearchAssumption, FoundIndexIsGood DEF SearchOK
<1>1. ASSUME Counted PROVE ops' \in 0..MaxOps
  BY <1>0, <1>1 DEF Counted
<1>2. ASSUME NEW n \in Names, NEW x, GoodIndex(x), PutIndex(n, x) PROVE GoodIndices(indices')
  BY <1>0, <1>2, PutGood DEF PutIndex
<1>3. ASSUME NEW name \in Names, NEW schema \in Schemas, FtCreate(name, schema) PROVE SearchOK'
  <2>1. GoodIndex(NewIndex(schema))  BY NewIndexGood
  <2>. QED  BY <1>0, <1>1, <1>2, <1>3, <2>1 DEF FtCreate, SearchOK
<1>4. ASSUME NEW name \in Names, NEW doc \in DocIds, NEW replace \in BOOLEAN,
             NEW fields \in Documents, FtAdd(name, doc, replace, fields)
      PROVE  SearchOK'
  <2>. DEFINE x == indices[name]
              rowid == AllocateFtsRowid(x, allocated)
  <2>1. Counted /\ GoodIndex(x) /\ DOMAIN fields \subseteq x.schema
        /\ PutIndex(name, AddDocument(x, doc, fields, rowid)) /\ allocated' = rowid
    BY <1>0, <1>4 DEF FtAdd, CanAdd
  <2>. HIDE DEF x
  <2>2. Range(fields) \subseteq Texts
    BY SearchAssumption
  <2>3. rowid \in Nat \ {0} /\ rowid \notin Range(x.docmap)
    BY <1>0, <2>1, RowidIsFresh DEF GoodIndex
  <2>. HIDE DEF rowid
  <2>4. GoodIndex(AddDocument(x, doc, fields, rowid))
    BY <2>1, <2>2, <2>3, AddDocumentGood
  <2>5. GoodIndices(indices')
    BY <1>2, <2>1, <2>4
  <2>6. allocated' \in Nat
    BY <2>1, <2>3
  <2>. QED  BY <1>1, <2>1, <2>5, <2>6 DEF SearchOK
<1>5. ASSUME NEW name \in Names, NEW doc \in DocIds, FtDel(name, doc) PROVE SearchOK'
  <2>1. GoodIndex(indices[name])  BY <1>0, <1>5 DEF FtDel
  <2>2. GoodIndex(DeleteDocument(indices[name], doc))  BY <2>1, DeleteDocumentGood
  <2>. QED  BY <1>0, <1>1, <1>2, <1>5, <2>2 DEF FtDel, SearchOK
<1>6. ASSUME NEW name \in Names, NEW term \in Terms, NEW score \in Scores, NEW incr \in BOOLEAN,
             FtSugadd(name, term, score, incr)
      PROVE  SearchOK'
  <2>. DEFINE x == indices[name]
              new == IF incr /\ term \in DOMAIN x.sugs THEN x.sugs[term] + score ELSE score
              sugs == With(x.sugs, term, new)
              y == SuggestionAdd(x, term, score, incr)
  <2>1. GoodIndex(x) /\ Counted /\ y.sugs[term] \in Scores /\ PutIndex(name, y)
        /\ UNCHANGED allocated
    BY <1>0, <1>6 DEF FtSugadd
  <2>2. y = [x EXCEPT !.sugs = sugs]
    BY DEF SuggestionAdd
  <2>3. IsIndex(x) /\ DOMAIN x.sugs \subseteq Terms /\ Range(x.sugs) \subseteq Scores
    BY <2>1 DEF GoodIndex, TypedIndex
  <2>. HIDE DEF x, y, new
  <2>4. DOMAIN sugs = DOMAIN x.sugs \cup {term} /\ sugs[term] = new
        /\ \A t \in DOMAIN x.sugs \ {term} : sugs[t] = x.sugs[t]
    BY DEF With
  <2>. HIDE DEF sugs
  <2>5. y.sugs = sugs
    <3>1. x = [schema |-> x.schema, docs |-> x.docs, docmap |-> x.docmap, fts |-> x.fts,
               sugs |-> x.sugs]
      BY <2>3 DEF IsIndex
    <3>. QED  BY <2>2, <3>1
  <2>6. DOMAIN sugs \subseteq Terms /\ Range(sugs) \subseteq Scores
    <3>1. \A t \in DOMAIN x.sugs : x.sugs[t] \in Scores  BY <2>3 DEF Range
    <3>2. \A t \in DOMAIN sugs : sugs[t] \in Scores  BY <2>1, <2>4, <2>5, <3>1
    <3>. QED  BY <2>3, <2>4, <3>2 DEF Range
  <2>7. GoodIndex(y)
    BY <2>1, <2>2, <2>6, SugsGood
  <2>. QED  BY <1>0, <1>1, <1>2, <2>1, <2>7 DEF SearchOK
<1>7. ASSUME NEW name \in Names, NEW term \in Terms, FtSugdel(name, term) PROVE SearchOK'
  <2>. DEFINE x == indices[name]
              sugs == Without(x.sugs, term)
              y == [x EXCEPT !.sugs = sugs]
  <2>1. GoodIndex(x) /\ Counted /\ PutIndex(name, y) /\ UNCHANGED allocated
    BY <1>0, <1>7 DEF FtSugdel
  <2>2. DOMAIN x.sugs \subseteq Terms /\ Range(x.sugs) \subseteq Scores
    BY <2>1 DEF GoodIndex, TypedIndex
  <2>. HIDE DEF x
  <2>3. DOMAIN sugs = DOMAIN x.sugs \ {term} /\ \A t \in DOMAIN x.sugs \ {term} : sugs[t] = x.sugs[t]
    BY DEF Without
  <2>. HIDE DEF sugs
  <2>4. DOMAIN sugs \subseteq Terms /\ Range(sugs) \subseteq Scores
    BY <2>2, <2>3 DEF Range
  <2>5. GoodIndex(y)
    BY <2>1, <2>4, SugsGood
  <2>. HIDE DEF y
  <2>. QED  BY <1>0, <1>1, <1>2, <2>1, <2>5 DEF SearchOK
<1>8. ASSUME ClearSearchData PROVE SearchOK'
  BY <1>1, <1>8, NoIndicesGood DEF ClearSearchData, SearchOK
<1>. QED
  BY <1>3, <1>4, <1>5, <1>6, <1>7, <1>8 DEF Command

-----------------------------------------------------------------------------
(* Answers.                                                                *)

LEMMA GoodIndexAnswers ==
    ASSUME NEW x, GoodIndex(x)
    PROVE  /\ Searched(x) = [d \in DOMAIN x.docs |-> UNION Range(x.docs[d])]
           /\ x.fts.rows = Range(x.docmap)
           /\ {p[1] : p \in x.fts.postings} \subseteq x.fts.rows
<1>. DEFINE enc(d) == EncodeFtsFieldValues(x.schema, x.docs[d])
<1>1. /\ DOMAIN x.docs = DOMAIN x.docmap /\ IsInjective(x.docmap)
      /\ x.fts.rows = Range(x.docmap)
      /\ \A p : p \in x.fts.postings <=> \E d \in DOMAIN x.docs : p \in Postings(x.docmap[d], enc(d))
      /\ \A d \in DOMAIN x.docs : DOMAIN x.docs[d] \subseteq x.schema
  BY DEF GoodIndex, TypedIndex, ExactIndex
<1>2. ASSUME NEW d \in DOMAIN x.docs, NEW t
      PROVE  (\E f \in DOMAIN enc(d) : t \in enc(d)[f]) <=> t \in UNION Range(x.docs[d])
  <2>1. DOMAIN enc(d) = x.schema
        /\ \A f \in x.schema : enc(d)[f] = IF f \in DOMAIN x.docs[d] THEN x.docs[d][f] ELSE {}
    BY DEF EncodeFtsFieldValues
  <2>2. t \in UNION Range(x.docs[d]) <=> \E f \in DOMAIN x.docs[d] : t \in x.docs[d][f]
    BY DEF Range
  <2>. HIDE DEF enc
  <2>. QED  BY <1>1, <2>1, <2>2
<1>. HIDE DEF enc
<1>3. ASSUME NEW d \in DOMAIN x.docs, NEW p, p \in Postings(x.docmap[d], enc(d))
      PROVE  p[1] = x.docmap[d] /\ p[3] \in UNION Range(x.docs[d])
  <2>1. PICK f \in DOMAIN enc(d) : \E t \in enc(d)[f] : p = <<x.docmap[d], f, t>>
    BY <1>3, PostingsOfRow
  <2>2. PICK t \in enc(d)[f] : p = <<x.docmap[d], f, t>>
    BY <2>1
  <2>3. p[1] = x.docmap[d] /\ p[3] = t
    BY <2>2
  <2>. QED  BY <1>2, <2>2, <2>3
<1>4. {p[1] : p \in x.fts.postings} \subseteq x.fts.rows
  <2>1. ASSUME NEW p \in x.fts.postings PROVE p[1] \in x.fts.rows
    <3>1. PICK d \in DOMAIN x.docs : p \in Postings(x.docmap[d], enc(d))  BY <1>1
    <3>2. p[1] = x.docmap[d]  BY <1>3, <3>1
    <3>3. x.docmap[d] \in Range(x.docmap)  BY <1>1 DEF Range
    <3>. QED  BY <1>1, <3>2, <3>3
  <2>. QED  BY <2>1
<1>5. ASSUME NEW d \in DOMAIN x.docs
      PROVE  FtsTokens(x.fts, x.docmap[d]) = UNION Range(x.docs[d])
  <2>. DEFINE found == FtsTokens(x.fts, x.docmap[d])
              text == UNION Range(x.docs[d])
  <2>1. \A t : t \in found <=> \E p \in x.fts.postings : p[1] = x.docmap[d] /\ t = p[3]
    BY DEF FtsTokens
  <2>. HIDE DEF found, text
  <2>2. ASSUME NEW t \in found PROVE t \in text
    <3>1. PICK p \in x.fts.postings : p[1] = x.docmap[d] /\ t = p[3]  BY <2>1
    <3>2. PICK e \in DOMAIN x.docs : p \in Postings(x.docmap[e], enc(e))  BY <1>1
    <3>3. p[1] = x.docmap[e] /\ p[3] \in UNION Range(x.docs[e])  BY <1>3, <3>2
    <3>4. e = d  BY <1>1, <3>1, <3>3 DEF IsInjective
    <3>. QED  BY <3>1, <3>3, <3>4 DEF text
  <2>3. ASSUME NEW t \in text PROVE t \in found
    <3>1. PICK f \in DOMAIN enc(d) : t \in enc(d)[f]  BY <1>2, <2>3 DEF text
    <3>. DEFINE p == <<x.docmap[d], f, t>>
    <3>2. p \in Postings(x.docmap[d], enc(d))  BY <3>1, PostingsOfRow
    <3>3. p[1] = x.docmap[d] /\ p[3] = t  OBVIOUS
    <3>. HIDE DEF p
    <3>4. p \in x.fts.postings  BY <1>1, <3>2
    <3>. QED  BY <2>1, <3>3, <3>4
  <2>4. found = text  BY <2>2, <2>3
  <2>. QED  BY <2>4 DEF found, text
<1>6. Searched(x) = [d \in DOMAIN x.docs |-> UNION Range(x.docs[d])]
  BY <1>1, <1>5 DEF Searched
<1>. QED  BY <1>1, <1>4, <1>6

LEMMA GoodIndicesTyped == SearchOK => SearchTypeOK
<1>. SUFFICES ASSUME SearchOK PROVE SearchTypeOK
  OBVIOUS
<1>1. ASSUME NEW n \in Names, Exists(n) PROVE TypedIndex(indices[n])
  BY <1>1, FoundIndexIsGood DEF GoodIndex
<1>. QED  BY <1>1 DEF SearchOK, SearchTypeOK, TypedIndex

LEMMA GoodIndicesAnswer ==
    SearchOK => \A n \in Names : Exists(n) =>
         LET x == indices[n]
         IN  /\ Searched(x) = [d \in DOMAIN x.docs |-> UNION Range(x.docs[d])]
             /\ x.fts.rows = Range(x.docmap)
             /\ {p[1] : p \in x.fts.postings} \subseteq x.fts.rows
BY FoundIndexIsGood, GoodIndexAnswers

-----------------------------------------------------------------------------
(* Queries.                                                                *)

LEMMA MinOfInterval ==
    ASSUME NEW m \in Nat, NEW n \in Nat, m <= n PROVE Min(m..n) = m
<1>. DEFINE T == m..n
<1>1. m \in T /\ \A y \in T : m <= y
  OBVIOUS
<1>2. Min(T) \in T /\ \A y \in T : Min(T) <= y
  <2>. HIDE DEF T
  <2>. QED  BY <1>1, Zenon DEF Min
<1>. QED  BY <1>1, <1>2

\* An expression is a number of terms, with the NOTs behind them: the first is what must be there,
\* and each NOT is about its own term.
NotsFrom(e, a, M) ==
    /\ a \in Nat \ {0} /\ M \in Nat /\ a <= M
    /\ DOMAIN e = 1..M /\ Len(e) = M
    /\ \A i \in 1..M : e[i].not <=> a < i
ReadsAs(e, a, M) ==
    Read(e) = [must |-> {e[j].term : j \in 1..a}, nots |-> {{e[i].term} : i \in (a + 1)..M}]

LEMMA ReadTerms == ASSUME NEW e, NEW a, NEW M, NotsFrom(e, a, M) PROVE ReadsAs(e, a, M)
<1>. DEFINE nots == {i \in DOMAIN e : e[i].not}
            rest(i) == {j \in nots : j > i} \cup {Len(e) + 1}
            upTo(i) == Min(rest(i)) - 1
            terms(i) == {e[j].term : j \in i..upTo(i)}
<1>0. /\ a \in Nat \ {0} /\ M \in Nat /\ a <= M
      /\ DOMAIN e = 1..M /\ Len(e) = M
      /\ \A i \in 1..M : e[i].not <=> a < i
  BY DEF NotsFrom
<1>1. nots = (a + 1)..M
  <2>1. \A i : i \in nots <=> i \in 1..M /\ a < i  BY <1>0
  <2>2. \A i : i \in (a + 1)..M <=> i \in 1..M /\ a < i  BY <1>0
  <2>. HIDE DEF nots
  <2>. QED  BY <2>1, <2>2
<1>2. Read(e) = [must |-> terms(1), nots |-> {terms(i) : i \in nots}]
  BY DEF Read
<1>. HIDE DEF nots
<1>3. upTo(1) = a
  <2>1. rest(1) = (a + 1)..(M + 1)
    BY <1>0, <1>1
  <2>. HIDE DEF rest
  <2>2. Min((a + 1)..(M + 1)) = a + 1
    BY <1>0, MinOfInterval
  <2>. QED  BY <1>0, <2>1, <2>2
<1>4. ASSUME NEW i \in nots PROVE upTo(i) = i
  <2>1. i \in (a + 1)..M  BY <1>1
  <2>2. rest(i) = (i + 1)..(M + 1)
    BY <1>0, <1>1, <2>1
  <2>. HIDE DEF rest
  <2>3. Min((i + 1)..(M + 1)) = i + 1
    BY <1>0, <2>1, MinOfInterval
  <2>. QED  BY <1>0, <2>1, <2>2, <2>3
<1>. HIDE DEF upTo
<1>5. terms(1) = {e[j].term : j \in 1..a}
  BY <1>3
<1>6. ASSUME NEW i \in nots PROVE terms(i) = {e[i].term}
  <2>1. i..i = {i}  BY <1>1
  <2>. QED  BY <1>4, <2>1
<1>. HIDE DEF terms
<1>7. {terms(i) : i \in nots} = {{e[i].term} : i \in (a + 1)..M}
  BY <1>1, <1>6
<1>. QED  BY <1>2, <1>5, <1>7 DEF ReadsAs

\* f is what FlattenSeq computes over the first N sequences.
Flattening(s, N, f) == f = [i \in 1..N |-> IF i = 1 THEN s[i] ELSE f[i - 1] \o s[i]]

\* A term put behind an expression.
LEMMA AppendsOne ==
    ASSUME NEW E, NEW r \in Seq(E), NEW t \in Seq(E), Len(t) = 1
    PROVE  /\ r \o t \in Seq(E) /\ Len(r \o t) = Len(r) + 1
           /\ \A j \in 1..Len(r) : (r \o t)[j] = r[j]
           /\ (r \o t)[Len(r) + 1] = t[1]
<1>1. Len(r) \in Nat
  OBVIOUS
<1>2. /\ r \o t \in Seq(E) /\ Len(r \o t) = Len(r) + Len(t)
      /\ \A i \in 1..(Len(r) + Len(t)) : (r \o t)[i] = IF i <= Len(r) THEN r[i] ELSE t[i - Len(r)]
  BY ConcatProperties
<1>3. \A j \in 1..Len(r) : (r \o t)[j] = r[j]
  BY <1>1, <1>2
<1>4. (r \o t)[Len(r) + 1] = t[1]
  <2>1. Len(r) + 1 \in 1..(Len(r) + Len(t)) /\ ~(Len(r) + 1 <= Len(r)) /\ (Len(r) + 1) - Len(r) = 1
    BY <1>1
  <2>. QED  BY <1>2, <2>1
<1>. QED  BY <1>2, <1>3, <1>4

LEMMA FlatThree ==
    ASSUME NEW s, NEW N \in 1..3, Len(s) = N
    PROVE  FlattenSeq(s) = IF N = 1 THEN s[1] ELSE IF N = 2 THEN s[1] \o s[2] ELSE (s[1] \o s[2]) \o s[3]
<1>. DEFINE f == CHOOSE g : Flattening(s, N, g)
            g == [i \in 1..N |-> IF i = 1 THEN s[1] ELSE IF i = 2 THEN s[1] \o s[2]
                                 ELSE (s[1] \o s[2]) \o s[3]]
<1>1. FlattenSeq(s) = f[N]
  BY DEF FlattenSeq, Flattening
<1>2. Flattening(s, N, g)
  <2>1. ASSUME NEW i \in 1..N PROVE g[i] = IF i = 1 THEN s[i] ELSE g[i - 1] \o s[i]
    <3>1. CASE i = 1  BY <3>1
    <3>2. CASE i = 2
      <4>1. 1 \in 1..N /\ i - 1 = 1  BY <3>2
      <4>2. g[1] = s[1] /\ g[i] = s[1] \o s[2]  BY <3>2, <4>1
      <4>3. g[i] = g[i - 1] \o s[i]
        <5>. HIDE DEF g
        <5>. QED  BY <3>2, <4>1, <4>2
      <4>. QED  BY <3>2, <4>3
    <3>3. CASE i = 3
      <4>1. 2 \in 1..N /\ i - 1 = 2  BY <3>3
      <4>2. g[2] = s[1] \o s[2] /\ g[i] = (s[1] \o s[2]) \o s[3]  BY <3>3, <4>1
      <4>3. g[i] = g[i - 1] \o s[i]
        <5>. HIDE DEF g
        <5>. QED  BY <3>3, <4>1, <4>2
      <4>. QED  BY <3>3, <4>3
    <3>. QED  BY <3>1, <3>2, <3>3
  <2>2. g = [i \in 1..N |-> g[i]]  OBVIOUS
  <2>. HIDE DEF g
  <2>. QED  BY <2>1, <2>2 DEF Flattening
<1>3. Flattening(s, N, f)
  <2>. HIDE DEF g
  <2>. QED  BY <1>2
<1>. HIDE DEF f
<1>. DEFINE next(r, i) == r \o s[i]
<1>4. f = [i \in 1..N |-> IF i = 1 THEN s[i] ELSE next(f[i - 1], i)]
  BY <1>3 DEF Flattening
<1>. HIDE DEF next
<1>5. f[1] = s[1]
  <2>1. 1 \in 1..N  OBVIOUS
  <2>. QED  BY <1>4, <2>1
<1>6. N >= 2 => f[2] = next(f[1], 2)
  <2>1. N >= 2 => 2 \in 1..N /\ 2 - 1 = 1  OBVIOUS
  <2>. QED  BY <1>4, <2>1
<1>7. N >= 3 => f[3] = next(f[2], 3)
  <2>1. N >= 3 => 3 \in 1..N /\ 3 - 1 = 2  OBVIOUS
  <2>. QED  BY <1>4, <2>1
<1>8. /\ N = 1 => f[N] = s[1]
      /\ N = 2 => f[N] = next(s[1], 2)
      /\ N = 3 => f[N] = next(next(s[1], 2), 3)
  BY <1>5, <1>6, <1>7
<1>9. N = 1 \/ N = 2 \/ N = 3
  OBVIOUS
<1>. QED  BY <1>1, <1>8, <1>9 DEF next

\* A word of one or two terms, and up to two of one term behind a minus.
Shape(q) ==
    /\ Len(q) \in 1..3 /\ DOMAIN q = 1..Len(q)
    /\ \A i \in 1..Len(q) : q[i].terms \in Seq(SUBSET Tokens)
    /\ q[1].minus = FALSE /\ Len(q[1].terms) \in 1..2
    /\ \A i \in 2..Len(q) : q[i].minus = TRUE /\ Len(q[i].terms) = 1

\* The terms of the queries are sets of tokens.
LEMMA TermsAreSets ==
    /\ \A t \in QueryTerms : t \in SUBSET Tokens
    /\ \A t \in OneToken : t \in SUBSET Tokens
BY DEF QueryTerms, OneToken

LEMMA WordShape ==
    ASSUME NEW w \in Words
    PROVE  w.minus = FALSE /\ w.terms \in Seq(SUBSET Tokens) /\ Len(w.terms) \in 1..2
<1>1. PICK s \in {<<t>> : t \in QueryTerms} \cup (OneToken \X OneToken) : w = Word(s)
  BY DEF Words
<1>2. w.minus = FALSE /\ w.terms = s
  BY <1>1 DEF Word
<1>3. CASE s \in {<<t>> : t \in QueryTerms}
  <2>1. PICK t \in QueryTerms : s = <<t>>  BY <1>3
  <2>2. t \in SUBSET Tokens  BY TermsAreSets
  <2>. QED  BY <1>2, <2>1, <2>2
<1>4. CASE s \in OneToken \X OneToken
  <2>1. PICK t \in OneToken, u \in OneToken : s = <<t, u>>  BY <1>4
  <2>2. t \in SUBSET Tokens /\ u \in SUBSET Tokens  BY TermsAreSets
  <2>. QED  BY <1>2, <2>1, <2>2
<1>. QED  BY <1>3, <1>4

LEMMA MinusWordShape ==
    ASSUME NEW w \in MinusWords
    PROVE  w.minus = TRUE /\ w.terms \in Seq(SUBSET Tokens) /\ Len(w.terms) = 1
<1>1. PICK t \in QueryTerms : w = [minus |-> TRUE, terms |-> <<t>>]
  BY DEF MinusWords
<1>2. t \in SUBSET Tokens
  BY TermsAreSets
<1>. QED  BY <1>1, <1>2

LEMMA QueryShape == ASSUME NEW q \in Queries PROVE Shape(q)
<1>1. ASSUME NEW w \in Words, q = <<w>> PROVE Shape(q)
  <2>1. Len(q) = 1 /\ DOMAIN q = 1..1 /\ q[1] = w  BY <1>1
  <2>2. w.minus = FALSE /\ w.terms \in Seq(SUBSET Tokens) /\ Len(w.terms) \in 1..2
    BY WordShape
  <2>. QED  BY <2>1, <2>2 DEF Shape
<1>2. ASSUME NEW w \in Words, NEW v \in MinusWords, q = <<w, v>> PROVE Shape(q)
  <2>1. Len(q) = 2 /\ DOMAIN q = 1..2 /\ q[1] = w /\ q[2] = v  BY <1>2
  <2>2. w.minus = FALSE /\ w.terms \in Seq(SUBSET Tokens) /\ Len(w.terms) \in 1..2
    BY WordShape
  <2>3. v.minus = TRUE /\ v.terms \in Seq(SUBSET Tokens) /\ Len(v.terms) = 1
    BY MinusWordShape
  <2>4. \A i \in 1..2 : i = 1 \/ i = 2  OBVIOUS
  <2>. QED  BY <2>1, <2>2, <2>3, <2>4 DEF Shape
<1>3. ASSUME NEW v \in MinusWords, NEW w \in MinusWords, q = <<Word(<<Tokens>>), v, w>>
      PROVE  Shape(q)
  <2>. DEFINE u == Word(<<Tokens>>)
  <2>1. u.minus = FALSE /\ u.terms \in Seq(SUBSET Tokens) /\ Len(u.terms) \in 1..2
    <3>1. Tokens \in QueryTerms  BY DEF QueryTerms
    <3>2. <<Tokens>> \in {<<t>> : t \in QueryTerms}  BY <3>1
    <3>3. u \in Words  BY <3>2, Zenon DEF Words
    <3>. QED  BY <3>3, WordShape
  <2>. HIDE DEF u
  <2>2. Len(q) = 3 /\ DOMAIN q = 1..3 /\ q[1] = u /\ q[2] = v /\ q[3] = w  BY <1>3 DEF u
  <2>3. v.minus = TRUE /\ v.terms \in Seq(SUBSET Tokens) /\ Len(v.terms) = 1
        /\ w.minus = TRUE /\ w.terms \in Seq(SUBSET Tokens) /\ Len(w.terms) = 1
    BY MinusWordShape
  <2>4. \A i \in 1..3 : i = 1 \/ i = 2 \/ i = 3  OBVIOUS
  <2>. QED  BY <2>1, <2>2, <2>3, <2>4 DEF Shape
<1>. QED  BY <1>1, <1>2, <1>3 DEF Queries

\* The expression of such a query: the terms of the word, then a NOT for each minus.
LEMMA ExpressionOfQuery ==
    ASSUME NEW q, Shape(q)
    PROVE  LET e == BuildMatchExpression(q)
               a == Len(q[1].terms)
               M == a + Len(q) - 1
           IN  /\ DOMAIN e = 1..M /\ Len(e) = M
               /\ \A j \in 1..a : e[j].not = FALSE /\ e[j].term = q[1].terms[j]
               /\ \A i \in 2..Len(q) : e[a + i - 1].not = TRUE /\ e[a + i - 1].term = q[i].terms[1]
<1>. DEFINE L == Len(q)
            E == [not : BOOLEAN, term : SUBSET Tokens]
            p(i) == [j \in DOMAIN q[i].terms |-> [not |-> q[i].minus, term |-> q[i].terms[j]]]
            s == [i \in DOMAIN q |-> p(i)]
            e == BuildMatchExpression(q)
            a == Len(q[1].terms)
            M == a + L - 1
<1>1. /\ L \in 1..3 /\ DOMAIN q = 1..L
      /\ \A i \in 1..L : q[i].terms \in Seq(SUBSET Tokens) /\ q[i].minus \in BOOLEAN
      /\ q[1].minus = FALSE /\ a \in 1..2
      /\ \A i \in 2..L : q[i].minus = TRUE /\ Len(q[i].terms) = 1
  <2>1. \A i \in 1..L : i = 1 \/ i \in 2..L  OBVIOUS
  <2>. QED  BY <2>1 DEF Shape
<1>2. e = FlattenSeq(s)
  BY DEF BuildMatchExpression
<1>. HIDE DEF e, L
<1>3. ASSUME NEW i \in 1..L
      PROVE  /\ p(i) \in Seq(E) /\ Len(p(i)) = Len(q[i].terms)
             /\ \A j \in 1..Len(q[i].terms) : p(i)[j].not = q[i].minus /\ p(i)[j].term = q[i].terms[j]
  <2>. DEFINE terms == q[i].terms
              r == p(i)
  <2>1. terms \in Seq(SUBSET Tokens) /\ q[i].minus \in BOOLEAN  BY <1>1
  <2>2. r = [j \in DOMAIN terms |-> [not |-> q[i].minus, term |-> terms[j]]]  OBVIOUS
  <2>. HIDE DEF terms, r
  <2>3. DOMAIN terms = 1..Len(terms) /\ Len(terms) \in Nat
        /\ \A j \in 1..Len(terms) : terms[j] \in SUBSET Tokens
    BY <2>1
  <2>4. /\ DOMAIN r = 1..Len(terms)
        /\ \A j \in 1..Len(terms) : r[j] \in E /\ r[j].not = q[i].minus /\ r[j].term = terms[j]
    BY <2>1, <2>2, <2>3
  <2>5. r = [j \in 1..Len(terms) |-> r[j]]  BY <2>2, <2>3
  <2>. HIDE DEF E
  <2>6. r \in [1..Len(terms) -> E]  BY <2>4, <2>5
  <2>7. r \in Seq(E) /\ Len(r) = Len(terms)  BY <2>3, <2>6
  <2>. QED  BY <2>4, <2>7 DEF r, terms
<1>4. Len(s) = L /\ \A i \in 1..L : s[i] = p(i)
  BY <1>1
<1>. HIDE DEF p, s, E
<1>5. e = IF L = 1 THEN p(1) ELSE IF L = 2 THEN p(1) \o p(2) ELSE (p(1) \o p(2)) \o p(3)
  <2>1. FlattenSeq(s) = IF L = 1 THEN s[1] ELSE IF L = 2 THEN s[1] \o s[2]
                        ELSE (s[1] \o s[2]) \o s[3]
    BY <1>1, <1>4, FlatThree
  <2>2. CASE L = 1
    <3>1. s[1] = p(1)  BY <1>4, <2>2
    <3>. QED  BY <1>2, <2>1, <2>2, <3>1
  <2>3. CASE L = 2
    <3>1. s[1] = p(1) /\ s[2] = p(2)  BY <1>4, <2>3
    <3>. QED  BY <1>2, <2>1, <2>3, <3>1
  <2>4. CASE L = 3
    <3>1. s[1] = p(1) /\ s[2] = p(2) /\ s[3] = p(3)  BY <1>4, <2>4
    <3>. QED  BY <1>2, <2>1, <2>4, <3>1
  <2>. QED  BY <1>1, <2>2, <2>3, <2>4
<1>6. /\ p(1) \in Seq(E) /\ Len(p(1)) = a
      /\ \A j \in 1..a : p(1)[j].not = FALSE /\ p(1)[j].term = q[1].terms[j]
  BY <1>1, <1>3
<1>7. ASSUME NEW i \in 2..L
      PROVE  /\ p(i) \in Seq(E) /\ Len(p(i)) = 1
             /\ p(i)[1].not = TRUE /\ p(i)[1].term = q[i].terms[1]
  <2>1. i \in 1..L /\ 1 \in 1..1  BY <1>1
  <2>. QED  BY <1>1, <1>3, <2>1
<1>. HIDE DEF a
<1>8. /\ e \in Seq(E) /\ Len(e) = M
      /\ \A j \in 1..a : e[j] = p(1)[j]
      /\ \A i \in 2..L : e[a + i - 1] = p(i)[1]
  <2>1. CASE L = 1
    BY <1>1, <1>5, <1>6, <2>1
  <2>2. CASE L = 2
    <3>1. p(2) \in Seq(E) /\ Len(p(2)) = 1  BY <1>7, <2>2
    <3>2. e = p(1) \o p(2)  BY <1>5, <2>2
    <3>3. e \in Seq(E) /\ Len(e) = a + 1 /\ \A j \in 1..a : e[j] = p(1)[j]
      BY <1>6, <3>1, <3>2, AppendsOne
    <3>4. e[a + 1] = p(2)[1]
      BY <1>6, <3>1, <3>2, AppendsOne
    <3>5. \A i \in 2..L : i = 2 /\ a + i - 1 = a + 1
      BY <1>1, <2>2
    <3>. QED  BY <2>2, <3>3, <3>4, <3>5
  <2>3. CASE L = 3
    <3>. DEFINE r == p(1) \o p(2)
    <3>1. p(2) \in Seq(E) /\ Len(p(2)) = 1 /\ p(3) \in Seq(E) /\ Len(p(3)) = 1  BY <1>7, <2>3
    <3>2. e = r \o p(3)  BY <1>5, <2>3
    <3>3. r \in Seq(E) /\ Len(r) = a + 1 /\ \A j \in 1..a : r[j] = p(1)[j]
      BY <1>6, <3>1, AppendsOne
    <3>4. r[a + 1] = p(2)[1]
      BY <1>6, <3>1, AppendsOne
    <3>. HIDE DEF r
    <3>50. (a + 1) + 1 = a + 2
      BY <1>1
    <3>5. e \in Seq(E) /\ Len(e) = a + 2 /\ \A j \in 1..(a + 1) : e[j] = r[j]
      BY <3>1, <3>2, <3>3, <3>50, AppendsOne
    <3>6. e[a + 2] = p(3)[1]
      BY <3>1, <3>2, <3>3, <3>50, AppendsOne
    <3>7. \A i \in 2..L : (i = 2 /\ a + i - 1 = a + 1) \/ (i = 3 /\ a + i - 1 = a + 2)
      BY <1>1, <2>3
    <3>8. e[a + 1] = p(2)[1] /\ \A j \in 1..a : e[j] = p(1)[j]
      BY <1>1, <3>3, <3>4, <3>5
    <3>. QED  BY <2>3, <3>5, <3>6, <3>7, <3>8
  <2>. QED  BY <1>1, <2>1, <2>2, <2>3
<1>9. DOMAIN e = 1..M
  BY <1>8
<1>. QED  BY <1>6, <1>7, <1>8, <1>9 DEF L, a, e

\* A query is answered by what it asks for.
LEMMA QueryIsRead ==
    ASSUME NEW q, Shape(q), NEW text
    PROVE  Matches(text, Read(BuildMatchExpression(q))) <=> Asked(q, text)
<1>. DEFINE e == BuildMatchExpression(q)
            L == Len(q)
            a == Len(q[1].terms)
            M == a + L - 1
            match == Read(e)
            has(t) == t \cap text # {}
            must == {e[j].term : j \in 1..a}
            nots == {{e[i].term} : i \in (a + 1)..M}
<1>1. /\ L \in 1..3 /\ a \in 1..2 /\ DOMAIN q = 1..L
      /\ q[1].minus = FALSE /\ DOMAIN q[1].terms = 1..a
      /\ \A i \in 2..L : q[i].minus = TRUE /\ DOMAIN q[i].terms = 1..1
  <2>1. Len(q) \in 1..3 /\ DOMAIN q = 1..Len(q) /\ a \in 1..2 /\ q[1].minus = FALSE
    BY DEF Shape
  <2>2. ASSUME NEW i \in 1..L PROVE DOMAIN q[i].terms = 1..Len(q[i].terms)
    <3>1. q[i].terms \in Seq(SUBSET Tokens)  BY DEF Shape
    <3>. QED  BY <3>1
  <2>3. 1 \in 1..L /\ \A i \in 2..L : i \in 1..L  BY <2>1
  <2>4. \A i \in 2..L : q[i].minus = TRUE /\ Len(q[i].terms) = 1  BY DEF Shape
  <2>. QED  BY <2>1, <2>2, <2>3, <2>4
<1>2. /\ DOMAIN e = 1..M /\ Len(e) = M
      /\ \A j \in 1..a : e[j].not = FALSE /\ e[j].term = q[1].terms[j]
      /\ \A i \in 2..L : e[a + i - 1].not = TRUE /\ e[a + i - 1].term = q[i].terms[1]
  BY ExpressionOfQuery
<1>. HIDE DEF e, a, L
<1>3. a \in Nat \ {0} /\ M \in Nat /\ a <= M
  BY <1>1
<1>4. ASSUME NEW i \in 1..M PROVE e[i].not <=> a < i
  <2>1. CASE i <= a
    <3>1. i \in 1..a  BY <1>3, <2>1
    <3>. QED  BY <1>2, <1>3, <3>1
  <2>2. CASE a < i
    <3>1. i - a + 1 \in 2..L /\ a + (i - a + 1) - 1 = i  BY <1>1, <2>2
    <3>. QED  BY <1>2, <2>2, <3>1
  <2>. QED  BY <1>3, <2>1, <2>2
<1>5. match = [must |-> must, nots |-> nots]
  <2>1. NotsFrom(e, a, M)  BY <1>2, <1>3, <1>4 DEF NotsFrom
  <2>2. ReadsAs(e, a, M)  BY <2>1, ReadTerms
  <2>. QED  BY <2>2 DEF ReadsAs
<1>6. Matches(text, match) <=> /\ \A t \in match.must : has(t)
                               /\ \A terms \in match.nots : ~\A t \in terms : has(t)
  BY DEF Matches
<1>7. match.must = must /\ match.nots = nots
  BY <1>5
<1>. HIDE DEF has, match
<1>8. (\A t \in must : has(t)) <=> \A j \in 1..a : has(q[1].terms[j])
  <2>1. (\A t \in must : has(t)) <=> \A j \in 1..a : has(e[j].term)  OBVIOUS
  <2>. HIDE DEF must
  <2>. QED  BY <1>2, <2>1
<1>9. (\A terms \in nots : ~\A t \in terms : has(t)) <=> \A i \in 2..L : ~has(q[i].terms[1])
  <2>1. (\A terms \in nots : ~\A t \in terms : has(t)) <=> \A i \in (a + 1)..M : ~has(e[i].term)
    <3>. DEFINE some(terms) == ~\A t \in terms : has(t)
                only(i) == {e[i].term}
    <3>1. \A i : some(only(i)) <=> ~has(e[i].term)  OBVIOUS
    <3>2. nots = {only(i) : i \in (a + 1)..M}  OBVIOUS
    <3>. HIDE DEF some, only, nots
    <3>3. (\A terms \in nots : some(terms)) <=> \A i \in (a + 1)..M : some(only(i))
      BY <3>2
    <3>. QED  BY <3>1, <3>3 DEF some
  <2>. HIDE DEF nots
  <2>2. ASSUME \A i \in (a + 1)..M : ~has(e[i].term), NEW i \in 2..L PROVE ~has(q[i].terms[1])
    <3>1. a + i - 1 \in (a + 1)..M  BY <1>1
    <3>2. e[a + i - 1].term = q[i].terms[1]  BY <1>2
    <3>3. ~has(e[a + i - 1].term)  BY <2>2, <3>1
    <3>. QED  BY <3>2, <3>3
  <2>3. ASSUME \A i \in 2..L : ~has(q[i].terms[1]), NEW i \in (a + 1)..M PROVE ~has(e[i].term)
    <3>1. i - a + 1 \in 2..L /\ a + (i - a + 1) - 1 = i  BY <1>1
    <3>2. e[a + (i - a + 1) - 1].term = q[i - a + 1].terms[1]  BY <1>2, <3>1
    <3>3. ~has(q[i - a + 1].terms[1])  BY <2>3, <3>1
    <3>. QED  BY <3>1, <3>2, <3>3
  <2>. QED  BY <2>1, <2>2, <2>3
<1>10. Asked(q, text) <=> /\ \A j \in 1..a : has(q[1].terms[j])
                          /\ \A i \in 2..L : ~has(q[i].terms[1])
  <2>1. Asked(q, text) <=> \A i \in DOMAIN q, j \in 1..2 : j \in DOMAIN q[i].terms =>
                             (q[i].minus <=> ~has(q[i].terms[j]))
    BY DEF Asked, has
  <2>. DEFINE ok(i, j) == q[i].minus <=> ~has(q[i].terms[j])
  <2>2. Asked(q, text) <=> \A i \in DOMAIN q, j \in 1..2 : j \in DOMAIN q[i].terms => ok(i, j)
    BY <2>1
  <2>3. \A j : ok(1, j) <=> has(q[1].terms[j])
    BY <1>1
  <2>4. \A i \in 2..L : ok(i, 1) <=> ~has(q[i].terms[1])
    BY <1>1
  <2>. HIDE DEF ok
  <2>5. Asked(q, text) <=> /\ \A j \in 1..a : ok(1, j)
                           /\ \A i \in 2..L : ok(i, 1)
    <3>1. ASSUME Asked(q, text), NEW j \in 1..a PROVE ok(1, j)
      <4>1. 1 \in DOMAIN q /\ j \in DOMAIN q[1].terms /\ j \in 1..2  BY <1>1
      <4>. QED  BY <2>2, <3>1, <4>1
    <3>2. ASSUME Asked(q, text), NEW i \in 2..L PROVE ok(i, 1)
      <4>1. i \in DOMAIN q /\ 1 \in DOMAIN q[i].terms /\ 1 \in 1..2  BY <1>1
      <4>. QED  BY <2>2, <3>2, <4>1
    <3>3. ASSUME \A j \in 1..a : ok(1, j), \A i \in 2..L : ok(i, 1),
                 NEW i \in DOMAIN q, NEW j \in 1..2, j \in DOMAIN q[i].terms
          PROVE  ok(i, j)
      <4>1. CASE i = 1  BY <1>1, <3>3, <4>1
      <4>2. CASE i # 1
        <5>1. i \in 2..L  BY <1>1, <4>2
        <5>2. j = 1  BY <1>1, <3>3, <5>1
        <5>. QED  BY <3>3, <5>1, <5>2
      <4>. QED  BY <4>1, <4>2
    <3>4. ASSUME \A j \in 1..a : ok(1, j), \A i \in 2..L : ok(i, 1) PROVE Asked(q, text)
      BY <2>2, <3>3, <3>4
    <3>. QED  BY <3>1, <3>2, <3>4
  <2>. QED  BY <2>3, <2>4, <2>5
<1>. QED  BY <1>6, <1>7, <1>8, <1>9, <1>10 DEF match, e

LEMMA AllQueriesAreRead == QueriesAreRead
<1>1. ASSUME NEW m \in Match, NEW text \in SUBSET Tokens
      PROVE  Matches(text, m[2]) <=> Asked(m[1], text)
  <2>1. PICK q \in {r \in Queries : ValidQuery(r)} : m = <<q, Read(BuildMatchExpression(q))>>
    BY DEF Match
  <2>2. Shape(q)  BY QueryShape
  <2>3. m[1] = q /\ m[2] = Read(BuildMatchExpression(q))  BY <2>1
  <2>. QED  BY <2>2, <2>3, QueryIsRead
<1>. QED  BY <1>1 DEF QueriesAreRead

-----------------------------------------------------------------------------
(* What the import accounts for.                                           *)

\* The state of the job has its types, ...
IsRest(p) ==
    \E n \in 1..(Len(KeyPrefixes) + 1) : p = SubSeq(KeyPrefixes, n, Len(KeyPrefixes))
Counts == [imported : Nat, skipped : Nat, errors : Nat]
JobTyped ==
    /\ source \in [DocIds -> Values]
    /\ phase \in {"idle", "next", "prefix", "scan", "reading", "sugs", "result", "ended", "failed"}
    /\ targets \subseteq Names /\ current \in Names
    /\ IsRest(prefixes)
    /\ owed \subseteq DocIds /\ page \subseteq DocIds
    /\ DOMAIN read \subseteq DocIds /\ \A k \in DOMAIN read : read[k] \in SourceHashes
    /\ empty \subseteq DocIds \ DOMAIN read
    /\ pending \in Seq(DocIds) /\ Range(pending) \subseteq DOMAIN read
    /\ IsInjective(pending) /\ Len(pending) < BatchDocs
    /\ counts \in Counts
    /\ aborted \in BOOLEAN /\ changed \subseteq DocIds /\ touched \subseteq DocIds

\* ... and nothing is left of one index when the next begins; what a scan still has to give is
\* known only within it, and an import that was not interrupted is through with all.
PhaseTells ==
    /\ ~Importing => /\ prefixes = <<>> /\ owed = {} /\ page = {}
                     /\ DOMAIN read = {} /\ empty = {} /\ pending = <<>> /\ counts = NoCounts
                     /\ changed = {} /\ touched = {}
    /\ phase \in {"scan", "reading"} => prefixes # <<>>
    /\ phase \in {"prefix", "scan"} => page = {}
    /\ phase = "prefix" => owed = {}
    /\ phase \in {"sugs", "result"} => pending = <<>>
    /\ phase = "sugs" \/ (phase = "result" /\ ~aborted) =>
         prefixes = <<>> /\ owed = {} /\ page = {}

\* Keys that the import has still to look at.
Ahead(at, rest, due, keys) ==
    (UNION Range(IF at \in {"scan", "reading"} THEN Tail(rest) ELSE rest)) \cup due \cup keys
\* Hashes that were taken and are neither in the batch nor in the index.
Behind(taken, batch, x, theirs) ==
    {k \in DOMAIN taken \ theirs : k \notin Range(batch) /\ Doc(x, k) # {BuildDocFields(taken[k])}}
\* Keys that are there and that nobody will look at again.
Overlooked(taken, at, ahead, theirs) ==
    {k \in (UNION Range(KeyPrefixes)) \ (theirs \cup DOMAIN taken) : at[k] # Absent /\ k \notin ahead}

Accounted ==
    Importing =>
      /\ Cardinality(Behind(read, pending, indices[current], touched)
           \cup Overlooked(read, source, Ahead(phase, prefixes, owed, page), changed \cup touched))
           <= counts.errors
      /\ Cardinality(DOMAIN read \cup empty)
           <= counts.imported + counts.skipped + counts.errors + Len(pending)
Remembered ==
    /\ \A k \in empty \ changed : source[k] = Absent
    /\ \A k \in DOMAIN read \ changed : read[k] = source[k]

IInv == SearchOK /\ JobTyped /\ PhaseTells /\ Accounted /\ Remembered

-----------------------------------------------------------------------------
(* The prefixes.                                                           *)

LEMMA RestOfPrefixes ==
    /\ IsRest(<<>>) /\ IsRest(KeyPrefixes)
    /\ \A p : IsRest(p) => p \in Seq(SUBSET DocIds)
    /\ \A p : IsRest(p) /\ p # <<>> => IsRest(Tail(p))
<1>. DEFINE L == Len(KeyPrefixes)
<1>1. KeyPrefixes \in Seq(SUBSET DocIds) /\ L \in Nat
  <2>1. KeyPrefixes \in Seq(SUBSET DocIds)  BY SearchMigrationAssumption
  <2>. QED  BY <2>1
<1>2. IsRest(<<>>)
  <2>1. L + 1 \in 1..(L + 1) /\ L < L + 1 /\ L + 1 \in Int  BY <1>1
  <2>2. SubSeq(KeyPrefixes, L + 1, L) = <<>>  BY <1>1, <2>1, SubSeqEmpty
  <2>. QED  BY <2>1, <2>2 DEF IsRest
<1>3. IsRest(KeyPrefixes)
  <2>1. SubSeq(KeyPrefixes, 1, L) = KeyPrefixes  BY <1>1, SubSeqFull
  <2>2. 1 \in 1..(L + 1)  BY <1>1
  <2>. QED  BY <2>1, <2>2 DEF IsRest
<1>4. ASSUME NEW p, IsRest(p)
      PROVE  p \in Seq(SUBSET DocIds) /\ (p # <<>> => IsRest(Tail(p)))
  <2>1. PICK n \in 1..(L + 1) : p = SubSeq(KeyPrefixes, n, L)
    BY <1>4 DEF IsRest
  <2>2. CASE n = L + 1
    <3>1. p = <<>>  BY <1>1, <2>1, <2>2, SubSeqEmpty
    <3>2. <<>> \in Seq(SUBSET DocIds)  OBVIOUS
    <3>. QED  BY <3>1, <3>2
  <2>3. CASE n # L + 1
    <3>1. n \in 1..L /\ L \in n..L /\ n + 1 \in 1..(L + 1)  BY <1>1, <2>3
    <3>2. Tail(p) = SubSeq(KeyPrefixes, n + 1, L)  BY <1>1, <2>1, <3>1, HeadTailOfSubSeq
    <3>3. IsRest(Tail(p))  BY <3>1, <3>2 DEF IsRest
    <3>4. \A i \in n..L : KeyPrefixes[i] \in SUBSET DocIds  BY <1>1
    <3>5. p \in Seq(SUBSET DocIds)  BY <1>1, <2>1, <3>4, SubSeqProperties
    <3>. QED  BY <3>3, <3>5
  <2>. QED  BY <2>2, <2>3
<1>. QED  BY <1>2, <1>3, <1>4

LEMMA HeadAndTail ==
    ASSUME NEW p \in Seq(SUBSET DocIds), p # <<>>
    PROVE  /\ Head(p) \in SUBSET DocIds
           /\ UNION Range(p) = Head(p) \cup UNION Range(Tail(p))
<1>. DEFINE t == Tail(p)
<1>1. /\ Head(p) \in SUBSET DocIds /\ t \in Seq(SUBSET DocIds) /\ Len(t) = Len(p) - 1
      /\ \A i \in 1..Len(t) : t[i] = p[i + 1]
  BY HeadTailProperties
<1>2. Len(p) \in Nat \ {0} /\ DOMAIN p = 1..Len(p) /\ DOMAIN t = 1..Len(t) /\ Head(p) = p[1]
  BY <1>1
<1>. HIDE DEF t
<1>3. ASSUME NEW i \in 1..Len(p) PROVE p[i] = Head(p) \/ p[i] \in Range(t)
  <2>1. CASE i = 1  BY <1>2, <2>1
  <2>2. CASE i # 1
    <3>1. i - 1 \in 1..Len(t) /\ (i - 1) + 1 = i  BY <1>1, <1>2, <2>2
    <3>2. p[i] = t[i - 1]  BY <1>1, <3>1
    <3>. QED  BY <1>2, <3>1, <3>2 DEF Range
  <2>. QED  BY <2>1, <2>2
<1>4. ASSUME NEW i \in 1..Len(t) PROVE t[i] \in Range(p)
  <2>1. i + 1 \in 1..Len(p)  BY <1>1, <1>2
  <2>. QED  BY <1>1, <1>2, <2>1 DEF Range
<1>5. Head(p) \in Range(p)
  BY <1>2 DEF Range
<1>6. Range(p) = {Head(p)} \cup Range(t)
  <2>1. Range(p) \subseteq {Head(p)} \cup Range(t)
    BY <1>2, <1>3 DEF Range
  <2>2. Range(t) \subseteq Range(p)
    BY <1>2, <1>4 DEF Range
  <2>. QED  BY <1>5, <2>1, <2>2
<1>7. UNION Range(p) = Head(p) \cup UNION Range(t)
  BY <1>6
<1>. QED  BY <1>1, <1>7 DEF t

\* The keys ahead: before a scan those of the remaining prefixes, within it what it owes and the page
\* and the other prefixes.
LEMMA AheadIs ==
    ASSUME NEW rest, NEW due, NEW keys
    PROVE  /\ \A at : at \notin {"scan", "reading"} => Ahead(at, rest, due, keys) = (UNION Range(rest)) \cup due \cup keys
           /\ \A at : at \in {"scan", "reading"} =>
                Ahead(at, rest, due, keys) = (UNION Range(Tail(rest))) \cup due \cup keys
BY DEF Ahead

\* A finite account grows by no more than what is added.
LEMMA AccountGrows ==
    ASSUME NEW B, IsFiniteSet(B), NEW F, IsFiniteSet(F), NEW B2 \in SUBSET (B \cup F),
           NEW e \in Nat, NEW e2 \in Nat, Cardinality(B) <= e, e + Cardinality(F) <= e2
    PROVE  Cardinality(B2) <= e2
<1>1. /\ IsFiniteSet(B \cup F) /\ IsFiniteSet(B \cap F)
      /\ Cardinality(B \cup F) = Cardinality(B) + Cardinality(F) - Cardinality(B \cap F)
  <2>1. B \cap F \in SUBSET B  OBVIOUS
  <2>. QED  BY <2>1, FS_Union, FS_Subset
<1>2. /\ Cardinality(B) \in Nat /\ Cardinality(F) \in Nat /\ Cardinality(B \cap F) \in Nat
      /\ Cardinality(B2) \in Nat /\ Cardinality(B2) <= Cardinality(B \cup F)
  BY <1>1, FS_CardinalityType, FS_Subset
<1>. QED  BY <1>1, <1>2

LEMMA NoKeys == Cardinality({}) = 0 /\ IsFiniteSet({})
BY FS_EmptySet

LEMMA KeysAreFinite == ASSUME NEW S \in SUBSET DocIds PROVE IsFiniteSet(S) /\ Cardinality(S) \in Nat
BY SearchAssumption, FS_Subset, FS_CardinalityType

-----------------------------------------------------------------------------
(* A batch that is flushed.                                                *)

LEMMA ImportedDocs ==
    ASSUME NEW x, GoodIndex(x), NEW y, GoodIndex(y), NEW those, NEW hashes,
           Imported(x, y, those, hashes)
    PROVE  /\ \A d \in those : Doc(y, d) = {BuildDocFields(hashes[d])}
           /\ \A d : d \notin those => Doc(y, d) = Doc(x, d)
<1>1. x # NoIndex /\ y # NoIndex
  BY GoodIndexExists DEF GoodIndex
<1>2. /\ DOMAIN y.docs = DOMAIN x.docs \cup those
      /\ \A d \in those : y.docs[d] = BuildDocFields(hashes[d])
      /\ \A d \in DOMAIN x.docs \ those : y.docs[d] = x.docs[d]
  BY DEF Imported
<1>3. /\ \A d : Doc(y, d) = IF d \in DOMAIN y.docs THEN {y.docs[d]} ELSE {}
      /\ \A d : Doc(x, d) = IF d \in DOMAIN x.docs THEN {x.docs[d]} ELSE {}
  BY <1>1 DEF Doc
<1>4. ASSUME NEW d \in those PROVE Doc(y, d) = {BuildDocFields(hashes[d])}
  BY <1>2, <1>3
<1>5. ASSUME NEW d, d \notin those PROVE Doc(y, d) = Doc(x, d)
  <2>1. CASE d \in DOMAIN x.docs
    <3>1. d \in DOMAIN y.docs /\ y.docs[d] = x.docs[d]  BY <1>2, <1>5, <2>1
    <3>. QED  BY <1>3, <2>1, <3>1
  <2>2. CASE d \notin DOMAIN x.docs
    <3>1. d \notin DOMAIN y.docs  BY <1>2, <1>5, <2>2
    <3>. QED  BY <1>3, <2>2, <3>1
  <2>. QED  BY <2>1, <2>2
<1>. QED  BY <1>4, <1>5

\* What a flush did: the documents that did not fail are in the index, and those that did are counted.
Flushed(docs, hashes, soFar, after, x, y) ==
    \E failing \in SUBSET Range(docs) :
      /\ after.errors = soFar.errors + Cardinality(failing)
      /\ after.imported = soFar.imported + Len(docs) - Cardinality(failing)
      /\ after.skipped = soFar.skipped
      /\ \A d \in Range(docs) \ failing : Doc(y, d) = {BuildDocFields(hashes[d])}
      /\ \A d : d \notin Range(docs) => Doc(y, d) = Doc(x, d)

\* A sequence has no more elements than places.
LEMMA RangeIsSmall ==
    ASSUME NEW docs \in Seq(DocIds), NEW F \in SUBSET Range(docs)
    PROVE  IsFiniteSet(F) /\ Cardinality(F) \in Nat /\ Cardinality(F) <= Len(docs)
<1>. DEFINE N == Len(docs)
            g == [i \in 1..N |-> docs[i]]
<1>1. N \in Nat /\ Range(docs) = {docs[i] : i \in 1..N}
  BY DEF Range
<1>2. IsFiniteSet(1..N) /\ Cardinality(1..N) = N
  BY <1>1, FS_Interval
<1>3. g \in Surjection(1..N, Range(docs))
  BY <1>1 DEF Surjection
<1>. HIDE DEF g, N
<1>4. IsFiniteSet(Range(docs)) /\ Cardinality(Range(docs)) <= N
  BY <1>2, <1>3, FS_Surjection
<1>5. Cardinality(Range(docs)) \in Nat /\ IsFiniteSet(F) /\ Cardinality(F) \in Nat
      /\ Cardinality(F) <= Cardinality(Range(docs))
  BY <1>4, FS_Subset, FS_CardinalityType
<1>. QED  BY <1>1, <1>4, <1>5 DEF N

LEMMA FlushGives ==
    ASSUME SearchOK, current \in Names, NEW docs \in Seq(DocIds), NEW hashes,
           \A d \in Range(docs) : hashes[d] \in SourceHashes,
           NEW soFar \in Counts, FlushBatch(docs, hashes, soFar)
    PROVE  /\ SearchOK' /\ pending' = <<>> /\ counts' \in Counts
           /\ Flushed(docs, hashes, soFar, counts', indices[current], indices'[current])
<1>. DEFINE x == indices[current]
            y == indices'[current]
<1>1. PICK failing \in SUBSET Range(docs) :
      /\ IF ~CanImport THEN failing = Range(docs) /\ UNCHANGED ops
         ELSE IF failing = {} THEN UNCHANGED ops ELSE Counted
      /\ Import(docs, failing, hashes)
      /\ counts' = [soFar EXCEPT !.imported = @ + Len(docs) - Cardinality(failing),
                                 !.errors = @ + Cardinality(failing)]
      /\ pending' = <<>>
  BY DEF FlushBatch
<1>2. Cardinality(failing) \in Nat /\ Cardinality(failing) <= Len(docs) /\ Len(docs) \in Nat
  BY RangeIsSmall
<1>3. /\ counts' \in Counts
      /\ counts'.errors = soFar.errors + Cardinality(failing)
      /\ counts'.imported = soFar.imported + Len(docs) - Cardinality(failing)
      /\ counts'.skipped = soFar.skipped
  <2>. DEFINE c == Cardinality(failing)
              n == Len(docs)
  <2>1. counts' = [soFar EXCEPT !.imported = @ + n - c, !.errors = @ + c]
        /\ c \in Nat /\ n \in Nat /\ c <= n
    BY <1>1, <1>2
  <2>. HIDE DEF c, n
  <2>2. soFar.imported \in Nat /\ soFar.errors \in Nat /\ soFar.skipped \in Nat
        /\ soFar = [imported |-> soFar.imported, skipped |-> soFar.skipped, errors |-> soFar.errors]
    BY DEF Counts
  <2>3. counts' = [imported |-> soFar.imported + n - c, skipped |-> soFar.skipped,
                   errors |-> soFar.errors + c]
    BY <2>1, <2>2
  <2>4. soFar.imported + n - c \in Nat /\ soFar.errors + c \in Nat
    BY <2>1, <2>2
  <2>. HIDE DEF Counts
  <2>5. counts'.errors = soFar.errors + c /\ counts'.imported = soFar.imported + n - c
        /\ counts'.skipped = soFar.skipped
    BY <2>3
  <2>6. counts' \in Counts
    BY <2>2, <2>3, <2>4 DEF Counts
  <2>. QED  BY <2>5, <2>6 DEF c, n
<1>4. ops' \in 0..MaxOps
  <2>1. ops \in 0..MaxOps /\ MaxOps \in Nat  BY SearchAssumption DEF SearchOK
  <2>. QED  BY <1>1, <2>1 DEF Counted
<1>5. CASE Range(docs) \subseteq failing
  <2>1. UNCHANGED <<indices, allocated>>  BY <1>1, <1>5 DEF Import
  <2>2. y = x /\ Range(docs) \ failing = {}  BY <1>5, <2>1
  <2>. HIDE DEF x, y
  <2>3. Flushed(docs, hashes, soFar, counts', x, y)
    BY <1>3, <2>2 DEF Flushed
  <2>4. SearchOK'
    BY <1>4, <2>1 DEF SearchOK
  <2>. QED  BY <1>1, <1>3, <2>3, <2>4 DEF x, y
<1>6. CASE ~(Range(docs) \subseteq failing)
  <2>. DEFINE all == AddAll(x, allocated, docs, failing, hashes)
  <2>1. CanImport /\ PutIndex(current, all.index) /\ allocated' = all.max
    BY <1>1, <1>6 DEF Import
  <2>2. GoodIndex(x) /\ Schema \subseteq x.schema /\ allocated \in Nat /\ GoodIndices(indices)
    BY <2>1, FoundIndexIsGood DEF CanImport, SearchOK
  <2>. HIDE DEF x
  <2>3. /\ GoodIndex(all.index) /\ all.max \in Nat
        /\ Imported(x, all.index, Range(docs) \ failing, hashes)
    BY <2>2, AddAllGood
  <2>. HIDE DEF all
  <2>4. y = all.index /\ GoodIndices(indices')
    <3>1. indices' = [indices EXCEPT ![current] = all.index]  BY <2>1 DEF PutIndex
    <3>2. GoodIndices(indices')  BY <2>2, <2>3, <3>1, PutGood
    <3>3. indices = [n \in Names |-> indices[n]]  BY <2>2 DEF GoodIndices
    <3>4. y = all.index  BY <3>1, <3>3
    <3>. QED  BY <3>2, <3>4
  <2>5. /\ \A d \in Range(docs) \ failing : Doc(y, d) = {BuildDocFields(hashes[d])}
        /\ \A d : d \notin Range(docs) \ failing => Doc(y, d) = Doc(x, d)
    <3>. DEFINE z == all.index
    <3>1. GoodIndex(z) /\ Imported(x, z, Range(docs) \ failing, hashes) /\ y = z
      BY <2>3, <2>4
    <3>. HIDE DEF y, z
    <3>. QED  BY <2>2, <3>1, ImportedDocs
  <2>. HIDE DEF y
  <2>6. Flushed(docs, hashes, soFar, counts', x, y)
    BY <1>3, <2>5 DEF Flushed
  <2>7. SearchOK'
    BY <1>4, <2>1, <2>3, <2>4 DEF SearchOK
  <2>. QED  BY <1>1, <1>3, <2>6, <2>7 DEF x, y
<1>. QED  BY <1>5, <1>6

\* The hashes taken before and after, of the documents of a batch and of others.
Takes(r, p, r2, docs) ==
    /\ DOMAIN r2 = DOMAIN r \cup Range(docs) /\ Range(p) \subseteq Range(docs)
    /\ \A k \in DOMAIN r \ Range(docs) : r2[k] = r[k]
Charged(soFar, after, docs, behind, behind2) ==
    \E F : /\ IsFiniteSet(F) /\ after.errors = soFar.errors + Cardinality(F)
          /\ after.imported + after.errors = soFar.imported + soFar.errors + Len(docs)
          /\ after.skipped = soFar.skipped
          /\ behind2 \subseteq behind \cup F

\* A flush leaves behind only what failed, in the account as in the index.
LEMMA FlushAccounts ==
    ASSUME NEW r, NEW p, NEW r2, NEW docs \in Seq(DocIds), Takes(r, p, r2, docs),
           NEW x, NEW y, NEW soFar \in Counts, NEW after \in Counts, NEW theirs,
           Flushed(docs, r2, soFar, after, x, y)
    PROVE  Charged(soFar, after, docs, Behind(r, p, x, theirs), Behind(r2, <<>>, y, theirs))
<1>1. PICK failing \in SUBSET Range(docs) :
      /\ after.errors = soFar.errors + Cardinality(failing)
      /\ after.imported = soFar.imported + Len(docs) - Cardinality(failing)
      /\ after.skipped = soFar.skipped
      /\ \A d \in Range(docs) \ failing : Doc(y, d) = {BuildDocFields(r2[d])}
      /\ \A d : d \notin Range(docs) => Doc(y, d) = Doc(x, d)
  BY DEF Flushed
<1>2. IsFiniteSet(failing) /\ Cardinality(failing) \in Nat /\ Len(docs) \in Nat
  BY RangeIsSmall
<1>3. after.imported + after.errors = soFar.imported + soFar.errors + Len(docs)
  BY <1>1, <1>2 DEF Counts
<1>4. ASSUME NEW k \in Behind(r2, <<>>, y, theirs) PROVE k \in Behind(r, p, x, theirs) \cup failing
  <2>1. k \in DOMAIN r2 /\ k \notin theirs /\ Doc(y, k) # {BuildDocFields(r2[k])}
    BY <1>4 DEF Behind
  <2>2. CASE k \in Range(docs)
    BY <1>1, <2>1, <2>2
  <2>3. CASE k \notin Range(docs)
    <3>1. k \in DOMAIN r /\ r2[k] = r[k] /\ Doc(y, k) = Doc(x, k) /\ k \notin Range(p)
      BY <1>1, <2>1, <2>3 DEF Takes
    <3>2. Doc(x, k) # {BuildDocFields(r[k])}
      BY <2>1, <3>1
    <3>. QED  BY <2>1, <3>1, <3>2 DEF Behind
  <2>. QED  BY <2>2, <2>3
<1>5. Behind(r2, <<>>, y, theirs) \subseteq Behind(r, p, x, theirs) \cup failing
  BY <1>4
<1>. QED  BY <1>1, <1>2, <1>3, <1>5 DEF Charged

\* A batch that is counted, with one key more that was seen or none.
LEMMA BatchIsCounted ==
    ASSUME NEW i \in Nat, NEW s \in Nat, NEW e \in Nat, NEW i2 \in Nat, NEW e2 \in Nat,
           NEW l \in Nat, NEW m \in Nat, NEW c \in Nat, NEW n \in Nat,
           e2 = e + c, i2 + e2 = i + e + m, m = l + n
    PROVE  e + c <= e2 /\ i + s + e + l + n <= i2 + s + e2 + 0
OBVIOUS

\* What is overlooked grows only by keys that are no longer ahead.
LEMMA OverlookedGrows ==
    ASSUME NEW r, NEW r2, DOMAIN r \subseteq DOMAIN r2, NEW s, NEW s2, NEW a, NEW a2,
           NEW t, NEW t2, t \subseteq t2, NEW F,
           \A k : k \notin t2 => s2[k] = s[k],
           \A k \in a : k \in a2 \/ k \in DOMAIN r2 \/ k \in t2 \/ k \in F \/ s2[k] = Absent
    PROVE  Overlooked(r2, s2, a2, t2) \subseteq Overlooked(r, s, a, t) \cup F
<1>1. ASSUME NEW k \in Overlooked(r2, s2, a2, t2), k \notin F PROVE k \in Overlooked(r, s, a, t)
  <2>1. /\ k \in UNION Range(KeyPrefixes) /\ k \notin t2 /\ k \notin DOMAIN r2
        /\ s2[k] # Absent /\ k \notin a2
    BY <1>1 DEF Overlooked
  <2>2. k \notin t /\ k \notin DOMAIN r  BY <2>1
  <2>3. s2[k] = s[k] /\ k \notin a  BY <1>1, <2>1
  <2>4. s[k] # Absent  BY <2>1, <2>3
  <2>. QED  BY <2>1, <2>2, <2>3, <2>4 DEF Overlooked
<1>. QED  BY <1>1

LEMMA AccountIsOfKeys ==
    ASSUME NEW r, DOMAIN r \subseteq DocIds, NEW p, NEW x, NEW s, NEW a, NEW t, NEW u
    PROVE  Behind(r, p, x, t) \cup Overlooked(r, s, a, u) \in SUBSET DocIds
<1>1. UNION Range(KeyPrefixes) \subseteq DocIds
  <2>1. KeyPrefixes \in Seq(SUBSET DocIds)  BY SearchMigrationAssumption
  <2>2. \A i \in DOMAIN KeyPrefixes : KeyPrefixes[i] \in SUBSET DocIds  BY <2>1
  <2>. QED  BY <2>2 DEF Range
<1>2. Behind(r, p, x, t) \subseteq DocIds
  BY DEF Behind
<1>3. Overlooked(r, s, a, u) \subseteq DocIds
  BY <1>1 DEF Overlooked
<1>. QED  BY <1>2, <1>3

-----------------------------------------------------------------------------
(* Steps of the job outside an import.                                     *)

LEMMA SearchUnchanged ==
    ASSUME SearchOK, UNCHANGED <<indices, allocated>>, UNCHANGED ops \/ Counted PROVE SearchOK'
<1>1. ops \in 0..MaxOps /\ MaxOps \in Nat  BY SearchAssumption DEF SearchOK
<1>2. ops' \in 0..MaxOps  BY <1>1 DEF Counted
<1>. QED  BY <1>2 DEF SearchOK

\* While nothing is imported there is nothing to account for.
LEMMA NothingToAccount ==
    ASSUME ~Importing', DOMAIN read' = {}, empty' = {} PROVE Accounted' /\ Remembered'
BY DEF Accounted, Remembered

LEMMA StartKeeps == ASSUME IInv, Start PROVE IInv'
<1>1. /\ phase \in {"idle", "ended", "failed"} /\ phase' = "next" /\ aborted' = FALSE
      /\ targets' \in SUBSET Names
      /\ source' \in [DocIds -> Values] \/ source' = source
      /\ UNCHANGED <<indices, allocated, current, prefixes, owed, page, read, empty, pending,
                     counts, changed, touched>>
      /\ UNCHANGED ops \/ Counted
  BY DEF Start
<1>2. SearchOK'  BY <1>1, SearchUnchanged DEF IInv
<1>3. ~Importing /\ ~Importing'  BY <1>1 DEF Importing
<1>4. JobTyped'  BY <1>1 DEF IInv, JobTyped
<1>5. PhaseTells'  BY <1>1, <1>3 DEF IInv, PhaseTells
<1>6. Accounted' /\ Remembered'
  BY <1>1, <1>3, NothingToAccount DEF IInv, PhaseTells
<1>. QED  BY <1>2, <1>4, <1>5, <1>6 DEF IInv

LEMMA RejectedKeeps == ASSUME IInv, NEW n \in Names, Rejected(n) PROVE IInv'
<1>1. /\ phase = "next" /\ targets' = targets \ {n}
      /\ UNCHANGED <<indices, allocated, ops, source, phase, current, prefixes, owed, page, read,
                     empty, pending, counts, aborted, changed, touched>>
  BY DEF Rejected, searchVars
<1>2. SearchOK'  BY <1>1, SearchUnchanged DEF IInv
<1>3. ~Importing /\ ~Importing'  BY <1>1 DEF Importing
<1>4. JobTyped'  BY <1>1 DEF IInv, JobTyped
<1>5. PhaseTells'  BY <1>1, <1>3 DEF IInv, PhaseTells
<1>6. Accounted' /\ Remembered'
  BY <1>1, <1>3, NothingToAccount DEF IInv, PhaseTells
<1>. QED  BY <1>2, <1>4, <1>5, <1>6 DEF IInv

LEMMA EndKeeps == ASSUME IInv, End PROVE IInv'
<1>1. /\ phase = "next" /\ phase' = "ended"
      /\ UNCHANGED <<indices, allocated, ops, source, targets, current, prefixes, owed, page, read,
                     empty, pending, counts, aborted, changed, touched>>
  BY DEF End, searchVars
<1>2. SearchOK'  BY <1>1, SearchUnchanged DEF IInv
<1>3. ~Importing /\ ~Importing'  BY <1>1 DEF Importing
<1>4. JobTyped'  BY <1>1 DEF IInv, JobTyped
<1>5. PhaseTells'  BY <1>1, <1>3 DEF IInv, PhaseTells
<1>6. Accounted' /\ Remembered'
  BY <1>1, <1>3, NothingToAccount DEF IInv, PhaseTells
<1>. QED  BY <1>2, <1>4, <1>5, <1>6 DEF IInv

\* A run that goes on or fails forgets the import.
LEMMA ForgottenKeeps ==
    ASSUME IInv, Forgotten, phase' \in {"next", "failed"},
           UNCHANGED <<searchVars, source, targets, current, aborted>>
    PROVE  IInv'
<1>1. /\ prefixes' = <<>> /\ owed' = {} /\ page' = {}
      /\ read' = <<>> /\ empty' = {} /\ pending' = <<>> /\ counts' = NoCounts
      /\ changed' = {} /\ touched' = {}
      /\ UNCHANGED <<indices, allocated, ops, source, targets, current, aborted>>
  BY DEF Forgotten, searchVars, Empty
<1>2. SearchOK'  BY <1>1, SearchUnchanged DEF IInv
<1>3. ~Importing'  BY DEF Importing
<1>4. DOMAIN read' = {} /\ Range(pending') = {} /\ IsInjective(pending') /\ pending' \in Seq(DocIds)
  <2>1. DOMAIN <<>> = {} /\ <<>> \in Seq(DocIds)  OBVIOUS
  <2>. QED  BY <1>1, <2>1 DEF Range, IsInjective
<1>5. counts' \in Counts  BY <1>1 DEF NoCounts, Counts
<1>6. Len(pending') < BatchDocs
  <2>1. BatchDocs \in Nat \ {0} /\ Len(<<>>) = 0  BY SearchMigrationAssumption
  <2>. QED  BY <1>1, <2>1
<1>7. IsRest(prefixes')  BY <1>1, RestOfPrefixes
<1>8. source \in [DocIds -> Values] /\ targets \subseteq Names /\ current \in Names /\ aborted \in BOOLEAN
  BY DEF IInv, JobTyped
<1>9. JobTyped'  BY <1>1, <1>4, <1>5, <1>6, <1>7, <1>8 DEF JobTyped
<1>10. PhaseTells'  BY <1>1, <1>3, <1>4 DEF PhaseTells
<1>11. Accounted' /\ Remembered'
  BY <1>1, <1>3, <1>4, NothingToAccount
<1>. QED  BY <1>2, <1>9, <1>10, <1>11 DEF IInv

LEMMA ProceedKeeps == ASSUME IInv, Proceed PROVE IInv'
BY ForgottenKeeps DEF Proceed

LEMMA ScanFailsKeeps == ASSUME IInv, ScanFails PROVE IInv'
BY ForgottenKeeps DEF ScanFails

-----------------------------------------------------------------------------
(* Steps of an import.                                                     *)

\* The account is kept when what is newly missing is counted, and so is what is newly seen.
LEMMA AccountKept ==
    ASSUME IInv, Importing, JobTyped', NEW F, IsFiniteSet(F), NEW G, IsFiniteSet(G),
           Behind(read', pending', indices'[current'], touched')
             \subseteq Behind(read, pending, indices[current], touched) \cup F,
           Overlooked(read', source', Ahead(phase', prefixes', owed', page'), changed' \cup touched')
             \subseteq Overlooked(read, source, Ahead(phase, prefixes, owed, page), changed \cup touched) \cup F,
           counts.errors + Cardinality(F) <= counts'.errors,
           DOMAIN read' \cup empty' \subseteq (DOMAIN read \cup empty) \cup G,
           counts.imported + counts.skipped + counts.errors + Len(pending) + Cardinality(G)
             <= counts'.imported + counts'.skipped + counts'.errors + Len(pending')
    PROVE  Accounted'
<1>. DEFINE B == Behind(read, pending, indices[current], touched)
                   \cup Overlooked(read, source, Ahead(phase, prefixes, owed, page), changed \cup touched)
            B2 == Behind(read', pending', indices'[current'], touched')
                   \cup Overlooked(read', source', Ahead(phase', prefixes', owed', page'), changed' \cup touched')
            S == DOMAIN read \cup empty
            S2 == DOMAIN read' \cup empty'
            n == counts.imported + counts.skipped + counts.errors + Len(pending)
            n2 == counts'.imported + counts'.skipped + counts'.errors + Len(pending')
<1>1. /\ DOMAIN read \subseteq DocIds /\ empty \subseteq DocIds /\ counts \in Counts /\ counts' \in Counts
      /\ pending \in Seq(DocIds) /\ pending' \in Seq(DocIds)
  BY DEF IInv, JobTyped
<1>2. B \in SUBSET DocIds  BY <1>1, AccountIsOfKeys
<1>3. B2 \in SUBSET (B \cup F)  OBVIOUS
<1>4. Cardinality(B) <= counts.errors /\ Cardinality(S) <= n
  BY DEF IInv, Accounted
<1>5. S \in SUBSET DocIds /\ S2 \in SUBSET (S \cup G)  BY <1>1
<1>6. IsFiniteSet(B) /\ IsFiniteSet(S)  BY <1>2, <1>5, KeysAreFinite
<1>7. counts.errors \in Nat /\ counts'.errors \in Nat /\ n \in Nat /\ n2 \in Nat
  BY <1>1 DEF Counts
<1>8. counts.errors + Cardinality(F) <= counts'.errors /\ n + Cardinality(G) <= n2
  OBVIOUS
<1>. HIDE DEF B, B2, S, S2, n, n2
<1>9. Cardinality(B2) <= counts'.errors
  BY <1>3, <1>4, <1>6, <1>7, <1>8, AccountGrows
<1>10. Cardinality(S2) <= n2
  BY <1>4, <1>5, <1>6, <1>7, <1>8, AccountGrows
<1>. QED  BY <1>9, <1>10 DEF Accounted, B2, S2, n2

\* A step that sees and counts nothing.
LEMMA AccountSame ==
    ASSUME IInv, Importing, JobTyped', UNCHANGED <<read, pending, empty, counts>>,
           Behind(read', pending', indices'[current'], touched')
             \subseteq Behind(read, pending, indices[current], touched),
           Overlooked(read', source', Ahead(phase', prefixes', owed', page'), changed' \cup touched')
             \subseteq Overlooked(read, source, Ahead(phase, prefixes, owed, page), changed \cup touched)
    PROVE  Accounted'
<1>1. counts \in Counts /\ pending \in Seq(DocIds)  BY DEF IInv, JobTyped
<1>2. counts.errors \in Nat /\ counts.imported \in Nat /\ counts.skipped \in Nat /\ Len(pending) \in Nat
  BY <1>1 DEF Counts
<1>3. /\ counts.errors + Cardinality({}) <= counts'.errors
      /\ counts.imported + counts.skipped + counts.errors + Len(pending) + Cardinality({})
           <= counts'.imported + counts'.skipped + counts'.errors + Len(pending')
  BY <1>2, NoKeys
<1>4. DOMAIN read' \cup empty' \subseteq (DOMAIN read \cup empty) \cup {}  OBVIOUS
<1>5. IsFiniteSet({})  BY NoKeys
<1>6. /\ Behind(read', pending', indices'[current'], touched')
             \subseteq Behind(read, pending, indices[current], touched) \cup {}
      /\ Overlooked(read', source', Ahead(phase', prefixes', owed', page'), changed' \cup touched')
             \subseteq Overlooked(read, source, Ahead(phase, prefixes, owed, page), changed \cup touched) \cup {}
  OBVIOUS
<1>. QED  BY <1>3, <1>4, <1>5, <1>6, AccountKept

LEMMA BehindSame ==
    ASSUME NEW x, NEW y, \A d : Doc(y, d) = Doc(x, d), NEW r, NEW p, NEW t
    PROVE  Behind(r, p, y, t) = Behind(r, p, x, t)
BY DEF Behind

\* At first everything is ahead.
LEMMA BeginKeeps == ASSUME IInv, NEW n \in Names, Begin(n) PROVE IInv'
<1>1. /\ phase = "next" /\ targets' = targets \ {n} /\ current' = n
      /\ phase' = "prefix" /\ prefixes' = KeyPrefixes
      /\ indices' = IF Exists(n) THEN indices ELSE [indices EXCEPT ![n] = NewIndex(Schema)]
      /\ UNCHANGED <<allocated, ops, source, owed, page, read, empty, pending, counts, aborted,
                     changed, touched>>
  BY DEF Begin
<1>2. SearchOK'
  <2>1. GoodIndices(indices)  BY DEF IInv, SearchOK
  <2>2. GoodIndices([indices EXCEPT ![n] = NewIndex(Schema)])
    BY <2>1, PutGood, NewIndexGood, SchemaIsOne
  <2>3. GoodIndices(indices')  BY <1>1, <2>1, <2>2
  <2>. QED  BY <1>1, <2>3 DEF IInv, SearchOK
<1>3. ~Importing /\ Importing'  BY <1>1 DEF Importing
<1>4. IsRest(prefixes')  BY <1>1, RestOfPrefixes
<1>5. JobTyped'  BY <1>1, <1>4 DEF IInv, JobTyped
<1>6. /\ owed = {} /\ page = {} /\ DOMAIN read = {} /\ empty = {} /\ pending = <<>> /\ counts = NoCounts
  BY <1>3 DEF IInv, PhaseTells
<1>7. PhaseTells'  BY <1>1, <1>3, <1>6 DEF PhaseTells
<1>8. Accounted'
  <2>1. DOMAIN read' = {} /\ empty' = {} /\ owed' = {} /\ page' = {}  BY <1>1, <1>6
  <2>2. Behind(read', pending', indices'[current'], touched') = {}  BY <2>1 DEF Behind
  <2>3. Ahead("prefix", KeyPrefixes, {}, {}) = UNION Range(KeyPrefixes)  BY DEF Ahead
  <2>4. Ahead(phase', prefixes', owed', page') = UNION Range(KeyPrefixes)  BY <1>1, <2>1, <2>3
  <2>5. Overlooked(read', source', Ahead(phase', prefixes', owed', page'), changed' \cup touched') = {}
    BY <2>4 DEF Overlooked
  <2>6. counts' = NoCounts /\ pending' = <<>>  BY <1>1, <1>6
  <2>7. counts'.errors = 0 /\ counts'.imported + counts'.skipped + counts'.errors + Len(pending') = 0
    BY <2>6 DEF NoCounts
  <2>. DEFINE B2 == Behind(read', pending', indices'[current'], touched') \cup
                    Overlooked(read', source', Ahead(phase', prefixes', owed', page'), changed' \cup touched')
              S2 == DOMAIN read' \cup empty'
              n2 == counts'.imported + counts'.skipped + counts'.errors + Len(pending')
              e2 == counts'.errors
  <2>8. B2 = {} /\ S2 = {} /\ e2 = 0 /\ n2 = 0  BY <2>1, <2>2, <2>5, <2>7
  <2>. HIDE DEF B2, S2, n2, e2
  <2>9. Cardinality(B2) = 0 /\ Cardinality(S2) = 0  BY <2>8, NoKeys
  <2>10. Cardinality(B2) <= e2 /\ Cardinality(S2) <= n2  BY <2>8, <2>9
  <2>. QED  BY <2>10 DEF Accounted, B2, S2, n2, e2
<1>9. Remembered'  BY <1>1, <1>6 DEF Remembered
<1>. QED  BY <1>2, <1>5, <1>7, <1>8, <1>9 DEF IInv

LEMMA SignalKeeps == ASSUME IInv, Signal PROVE IInv'
<1>1. /\ aborted' = TRUE
      /\ UNCHANGED <<indices, allocated, ops, source, phase, targets, current, prefixes, page, read,
                     empty, pending, counts, owed, changed, touched>>
  BY DEF Signal, searchVars, jobVars
<1>2. SearchOK'  BY <1>1, SearchUnchanged DEF IInv
<1>3. Importing' = Importing  BY <1>1 DEF Importing
<1>4. JobTyped'  BY <1>1 DEF IInv, JobTyped
<1>5. PhaseTells'  BY <1>1, <1>3 DEF IInv, PhaseTells
<1>6. Accounted'  BY <1>1, <1>3 DEF IInv, Accounted
<1>7. Remembered'  BY <1>1 DEF IInv, Remembered
<1>. QED  BY <1>2, <1>4, <1>5, <1>6, <1>7 DEF IInv

LEMMA PageDoneKeeps == ASSUME IInv, PageDone PROVE IInv'
<1>1. /\ phase = "reading" /\ page = {}
      /\ UNCHANGED <<indices, allocated, ops, source, targets, current, owed, page, read, empty,
                     pending, counts, aborted, changed, touched>>
  BY DEF PageDone, searchVars
<1>2. SearchOK'  BY <1>1, SearchUnchanged DEF IInv
<1>3. Importing /\ phase \in {"scan", "reading"}  BY <1>1 DEF Importing
<1>4. prefixes # <<>> /\ IsRest(prefixes)  BY <1>1 DEF IInv, PhaseTells, JobTyped
<1>5. Ahead(phase, prefixes, owed, page) = (UNION Range(Tail(prefixes))) \cup owed \cup page
  BY <1>3, AheadIs
<1>6. /\ IsRest(prefixes') /\ phase' \in {"prefix", "scan"} /\ (phase' = "scan" => prefixes' # <<>>)
      /\ phase' = "prefix" => owed = {}
      /\ Ahead(phase', prefixes', owed', page') = Ahead(phase, prefixes, owed, page)
  <2>1. CASE owed = {}
    <3>1. phase' = "prefix" /\ prefixes' = Tail(prefixes)  BY <2>1 DEF PageDone
    <3>2. IsRest(prefixes')  BY <1>4, <3>1, RestOfPrefixes
    <3>3. phase' \notin {"scan", "reading"}  BY <3>1
    <3>4. Ahead(phase', prefixes', owed', page') = (UNION Range(prefixes')) \cup owed' \cup page'
      BY <3>3, AheadIs
    <3>. QED  BY <1>1, <1>5, <2>1, <3>1, <3>2, <3>4
  <2>2. CASE owed # {}
    <3>1. phase' = "scan" /\ prefixes' = prefixes  BY <2>2 DEF PageDone
    <3>2. phase' \in {"scan", "reading"}  BY <3>1
    <3>3. Ahead(phase', prefixes', owed', page') = (UNION Range(Tail(prefixes'))) \cup owed' \cup page'
      BY <3>2, AheadIs
    <3>. QED  BY <1>1, <1>4, <1>5, <3>1, <3>3
  <2>. QED  BY <2>1, <2>2
<1>7. JobTyped'  BY <1>1, <1>6 DEF IInv, JobTyped
<1>8. Importing'  BY <1>6 DEF Importing
<1>9. PhaseTells'  BY <1>1, <1>6, <1>8 DEF IInv, PhaseTells
<1>10. Accounted'
  <2>1. /\ Behind(read', pending', indices'[current'], touched')
             \subseteq Behind(read, pending, indices[current], touched)
        /\ Overlooked(read', source', Ahead(phase', prefixes', owed', page'), changed' \cup touched')
             \subseteq Overlooked(read, source, Ahead(phase, prefixes, owed, page), changed \cup touched)
    BY <1>1, <1>6
  <2>. QED  BY <1>1, <1>3, <1>7, <2>1, AccountSame
<1>11. Remembered'  BY <1>1 DEF IInv, Remembered
<1>. QED  BY <1>2, <1>7, <1>9, <1>10, <1>11 DEF IInv

\* A page gives what it takes from those owed.
LEMMA ScanKeeps == ASSUME IInv, Scan PROVE IInv'
<1>1. /\ prefixes # <<>> /\ phase' = "reading" /\ phase \in {"prefix", "scan"}
      /\ UNCHANGED <<indices, allocated, ops, source, targets, current, prefixes, read, empty,
                     pending, counts, aborted, changed, touched>>
  BY DEF Scan, searchVars
<1>2. SearchOK'  BY <1>1, SearchUnchanged DEF IInv
<1>3. Importing /\ Importing'  BY <1>1 DEF Importing
<1>4. prefixes \in Seq(SUBSET DocIds) /\ owed \subseteq DocIds /\ page = {}
  BY <1>1, RestOfPrefixes DEF IInv, PhaseTells, JobTyped
<1>5. Head(prefixes) \in SUBSET DocIds /\ UNION Range(prefixes) = Head(prefixes) \cup UNION Range(Tail(prefixes))
  BY <1>1, <1>4, HeadAndTail
<1>6. /\ owed' \subseteq DocIds /\ page' \subseteq DocIds
      /\ \A k \in Ahead(phase, prefixes, owed, page) :
           k \in (UNION Range(Tail(prefixes))) \cup owed' \cup page' \/ source[k] = Absent
  <2>1. ASSUME NEW due \in SUBSET DocIds, GetPage(due)
        PROVE  owed' \subseteq DocIds /\ page' \subseteq DocIds /\ due \subseteq owed' \cup page'
    <3>1. PICK keys \in SUBSET Present(Head(prefixes)) : page' = keys /\ owed' = due \ keys
      BY <2>1 DEF GetPage
    <3>2. keys \subseteq DocIds  BY <1>5, <3>1 DEF Present
    <3>. QED  BY <2>1, <3>1, <3>2
  <2>2. CASE phase = "prefix"
    <3>1. phase \notin {"scan", "reading"}  BY <2>2
    <3>2. owed = {} /\ Ahead(phase, prefixes, owed, page) = (UNION Range(prefixes)) \cup owed \cup page
      BY <2>2, <3>1, AheadIs DEF IInv, PhaseTells
    <3>3. GetPage(Present(Head(prefixes)))  BY <2>2 DEF Scan
    <3>4. Present(Head(prefixes)) \in SUBSET DocIds  BY <1>5 DEF Present
    <3>5. owed' \subseteq DocIds /\ page' \subseteq DocIds /\ Present(Head(prefixes)) \subseteq owed' \cup page'
      BY <2>1, <3>3, <3>4
    <3>6. \A k \in Head(prefixes) : k \in Present(Head(prefixes)) \/ source[k] = Absent  BY DEF Present
    <3>. QED  BY <1>4, <1>5, <3>2, <3>5, <3>6
  <2>3. CASE phase = "scan"
    <3>1. phase \in {"scan", "reading"}  BY <2>3
    <3>2. Ahead(phase, prefixes, owed, page) = (UNION Range(Tail(prefixes))) \cup owed \cup page
      BY <3>1, AheadIs
    <3>3. GetPage(owed)  BY <2>3 DEF Scan
    <3>4. owed' \subseteq DocIds /\ page' \subseteq DocIds /\ owed \subseteq owed' \cup page'
      BY <1>4, <2>1, <3>3
    <3>. QED  BY <1>4, <3>2, <3>4
  <2>. QED  BY <1>1, <2>2, <2>3
<1>7. Ahead(phase', prefixes', owed', page') = (UNION Range(Tail(prefixes))) \cup owed' \cup page'
  <2>1. phase' \in {"scan", "reading"}  BY <1>1
  <2>2. Ahead(phase', prefixes', owed', page') = (UNION Range(Tail(prefixes'))) \cup owed' \cup page'
    BY <2>1, AheadIs
  <2>. QED  BY <1>1, <2>2
<1>8. JobTyped'  BY <1>1, <1>6 DEF IInv, JobTyped
<1>9. PhaseTells'  BY <1>1, <1>3 DEF IInv, PhaseTells
<1>10. Accounted'
  <2>. DEFINE a == Ahead(phase, prefixes, owed, page)
              a2 == Ahead(phase', prefixes', owed', page')
              t == changed \cup touched
  <2>1. \A k \in a : k \in a2 \/ k \in DOMAIN read \/ k \in t \/ k \in {} \/ source[k] = Absent
    BY <1>6, <1>7
  <2>. HIDE DEF a, a2, t
  <2>2. Overlooked(read, source, a2, t) \subseteq Overlooked(read, source, a, t) \cup {}
    BY <2>1, OverlookedGrows
  <2>3. Overlooked(read', source', a2, changed' \cup touched') \subseteq Overlooked(read, source, a, changed \cup touched)
    BY <1>1, <2>2 DEF t
  <2>4. Behind(read', pending', indices'[current'], touched')
             \subseteq Behind(read, pending, indices[current], touched)
    BY <1>1
  <2>. QED  BY <1>1, <1>3, <1>8, <2>3, <2>4, AccountSame DEF a, a2
<1>11. Remembered'  BY <1>1 DEF IInv, Remembered
<1>. QED  BY <1>2, <1>8, <1>9, <1>10, <1>11 DEF IInv

LEMMA ImportSuggestionsKeeps == ASSUME IInv, ImportSuggestions PROVE IInv'
<1>. DEFINE x == indices[current]
            y == indices'[current]
<1>1. /\ phase = "sugs" /\ phase' = "result"
      /\ UNCHANGED <<allocated, ops, source, targets, current, prefixes, owed, page, read, empty,
                     pending, counts, aborted, changed, touched>>
  BY DEF ImportSuggestions
<1>2. GoodIndices(indices) /\ current \in Names  BY DEF IInv, SearchOK, JobTyped
<1>3. GoodIndices(indices') /\ \A d : Doc(y, d) = Doc(x, d)
  <2>1. CASE indices' = indices  BY <1>2, <2>1
  <2>2. CASE indices' # indices
    <3>. DEFINE sugs == [t \in DOMAIN x.sugs \cup DOMAIN SourceSugs |->
                           IF t \in DOMAIN SourceSugs THEN SourceSugs[t] ELSE x.sugs[t]]
                z == [x EXCEPT !.sugs = sugs]
    <3>1. Exists(current) /\ indices' = [indices EXCEPT ![current] = z]
      BY <2>2 DEF ImportSuggestions, PutIndex
    <3>2. GoodIndex(x) /\ TypedIndex(x)  BY <1>2, <3>1, FoundIndexIsGood DEF IInv, GoodIndex
    <3>. HIDE DEF x, y
    <3>3. DOMAIN x.sugs \subseteq Terms /\ Range(x.sugs) \subseteq Scores  BY <3>2 DEF TypedIndex
    <3>4. DOMAIN SourceSugs \subseteq Terms /\ \A t \in DOMAIN SourceSugs : SourceSugs[t] \in Scores
      BY SearchMigrationAssumption DEF Range
    <3>5. DOMAIN sugs \subseteq Terms /\ Range(sugs) \subseteq Scores
      <4>1. \A t \in DOMAIN x.sugs : x.sugs[t] \in Scores  BY <3>3 DEF Range
      <4>2. \A t \in DOMAIN sugs : sugs[t] \in Scores  BY <3>4, <4>1
      <4>3. DOMAIN sugs \subseteq Terms  BY <3>3, <3>4
      <4>. HIDE DEF sugs
      <4>. QED  BY <4>2, <4>3 DEF Range
    <3>. HIDE DEF sugs
    <3>6. GoodIndex(z) /\ z.docs = x.docs  BY <3>2, <3>5, SugsGood
    <3>. HIDE DEF z
    <3>7. GoodIndices(indices')  BY <1>2, <3>1, <3>6, PutGood
    <3>8. y = z
      <4>1. indices = [n \in Names |-> indices[n]]  BY <1>2 DEF GoodIndices
      <4>. QED  BY <1>2, <3>1, <4>1 DEF y
    <3>9. x # NoIndex /\ z # NoIndex  BY <3>2, <3>6, GoodIndexExists DEF GoodIndex
    <3>10. \A d : Doc(z, d) = Doc(x, d)  BY <3>6, <3>9 DEF Doc
    <3>. QED  BY <3>7, <3>8, <3>10 DEF x, y
  <2>. QED  BY <2>1, <2>2
<1>4. SearchOK'  BY <1>1, <1>3 DEF IInv, SearchOK
<1>5. Importing /\ Importing'  BY <1>1 DEF Importing
<1>6. JobTyped'  BY <1>1 DEF IInv, JobTyped
<1>7. PhaseTells'  BY <1>1, <1>5 DEF IInv, PhaseTells
<1>8. Accounted'
  <2>1. phase \notin {"scan", "reading"} /\ phase' \notin {"scan", "reading"}  BY <1>1
  <2>2. /\ Ahead(phase, prefixes, owed, page) = (UNION Range(prefixes)) \cup owed \cup page
        /\ Ahead(phase', prefixes', owed', page') = (UNION Range(prefixes')) \cup owed' \cup page'
    BY <2>1, AheadIs
  <2>3. Overlooked(read', source', Ahead(phase', prefixes', owed', page'), changed' \cup touched')
             \subseteq Overlooked(read, source, Ahead(phase, prefixes, owed, page), changed \cup touched)
    BY <1>1, <2>2
  <2>. HIDE DEF x, y
  <2>4. Behind(read', pending', y, touched') \subseteq Behind(read, pending, x, touched)
    BY <1>1, <1>3, BehindSame
  <2>5. Behind(read', pending', indices'[current'], touched')
             \subseteq Behind(read, pending, indices[current], touched)
    BY <1>1, <2>4 DEF x, y
  <2>. QED  BY <1>1, <1>5, <1>6, <2>3, <2>5, AccountSame
<1>9. Remembered'  BY <1>1 DEF IInv, Remembered
<1>. QED  BY <1>4, <1>6, <1>7, <1>8, <1>9 DEF IInv

LEMMA EmptyBatch ==
    /\ <<>> \in Seq(DocIds) /\ Range(<<>>) = {} /\ IsInjective(<<>>)
    /\ Len(<<>>) = 0 /\ Len(<<>>) < BatchDocs
<1>1. DOMAIN <<>> = {} /\ <<>> \in Seq(DocIds) /\ Len(<<>>) = 0  OBVIOUS
<1>2. BatchDocs \in Nat \ {0}  BY SearchMigrationAssumption
<1>3. Len(<<>>) < BatchDocs  BY <1>1, <1>2
<1>. QED  BY <1>1, <1>3 DEF Range, IsInjective

\* The last batch: what fails of it is counted.
LEMMA FinishKeeps == ASSUME IInv, Finish PROVE IInv'
<1>. DEFINE x == indices[current]
            y == indices'[current]
<1>1. /\ phase \in {"prefix", "scan", "reading"} /\ phase' \in {"result", "sugs"}
      /\ phase' = "sugs" \/ ~aborted => phase = "prefix" /\ prefixes = <<>>
      /\ FlushBatch(pending, read, counts)
      /\ UNCHANGED <<source, targets, current, prefixes, owed, page, read, empty,
                     aborted, changed, touched>>
  <2>1. /\ (phase = "prefix" /\ prefixes = <<>>) \/ (phase \in {"prefix", "scan", "reading"} /\ aborted)
        /\ phase' = IF aborted THEN "result" ELSE "sugs"
    BY DEF Finish
  <2>2. CASE aborted  BY <2>1, <2>2 DEF Finish
  <2>3. CASE ~aborted  BY <2>1, <2>3 DEF Finish
  <2>. QED  BY <2>2, <2>3
<1>2. /\ current \in Names /\ pending \in Seq(DocIds) /\ counts \in Counts /\ DOMAIN read \subseteq DocIds
      /\ Range(pending) \subseteq DOMAIN read /\ \A d \in DOMAIN read : read[d] \in SourceHashes
      /\ IsRest(prefixes)
  BY DEF IInv, JobTyped
<1>3. /\ SearchOK' /\ pending' = <<>> /\ counts' \in Counts
      /\ Flushed(pending, read, counts, counts', x, y)
  <2>1. \A d \in Range(pending) : read[d] \in SourceHashes  BY <1>2
  <2>. QED  BY <1>1, <1>2, <2>1, FlushGives DEF IInv
<1>4. Importing /\ Importing'  BY <1>1 DEF Importing
<1>5. JobTyped'
  <2>1. /\ pending' \in Seq(DocIds) /\ Range(pending') \subseteq DOMAIN read
        /\ IsInjective(pending') /\ Len(pending') < BatchDocs
    BY <1>3, EmptyBatch
  <2>. QED  BY <1>1, <1>3, <2>1 DEF IInv, JobTyped
<1>6. PhaseTells'  BY <1>1, <1>3, <1>4 DEF IInv, PhaseTells
<1>7. ASSUME NEW k \in Ahead(phase, prefixes, owed, page) PROVE k \in Ahead(phase', prefixes', owed', page')
  <2>1. phase' \notin {"scan", "reading"}  BY <1>1
  <2>2. Ahead(phase', prefixes', owed', page') = (UNION Range(prefixes)) \cup owed \cup page
    BY <1>1, <2>1, AheadIs
  <2>3. CASE phase \notin {"scan", "reading"}
    <3>1. Ahead(phase, prefixes, owed, page) = (UNION Range(prefixes)) \cup owed \cup page
      BY <2>3, AheadIs
    <3>. QED  BY <1>7, <2>2, <3>1
  <2>4. CASE phase \in {"scan", "reading"}
    <3>1. Ahead(phase, prefixes, owed, page) = (UNION Range(Tail(prefixes))) \cup owed \cup page
      BY <2>4, AheadIs
    <3>2. prefixes \in Seq(SUBSET DocIds) /\ prefixes # <<>>
      BY <1>2, <2>4, RestOfPrefixes DEF IInv, PhaseTells
    <3>3. UNION Range(prefixes) = Head(prefixes) \cup UNION Range(Tail(prefixes))
      BY <3>2, HeadAndTail
    <3>. QED  BY <1>7, <2>2, <3>1, <3>3
  <2>. QED  BY <2>3, <2>4
<1>8. Accounted'
  <2>1. Charged(counts, counts', pending, Behind(read, pending, x, touched),
                Behind(read, <<>>, y, touched))
    <3>1. Takes(read, pending, read, pending)  BY <1>2 DEF Takes
    <3>. HIDE DEF x, y
    <3>. QED  BY <1>2, <1>3, <3>1, FlushAccounts
  <2>2. PICK F : /\ IsFiniteSet(F) /\ counts'.errors = counts.errors + Cardinality(F)
                 /\ counts'.imported + counts'.errors = counts.imported + counts.errors + Len(pending)
                 /\ counts'.skipped = counts.skipped
                 /\ Behind(read, <<>>, y, touched) \subseteq Behind(read, pending, x, touched) \cup F
    BY <2>1 DEF Charged
  <2>3. Behind(read', pending', indices'[current'], touched')
           \subseteq Behind(read, pending, indices[current], touched) \cup F
    BY <1>1, <1>3, <2>2
  <2>4. Overlooked(read', source', Ahead(phase', prefixes', owed', page'), changed' \cup touched')
           \subseteq Overlooked(read, source, Ahead(phase, prefixes, owed, page), changed \cup touched) \cup F
    <3>. DEFINE a == Ahead(phase, prefixes, owed, page)
                a2 == Ahead(phase', prefixes', owed', page')
                t == changed \cup touched
    <3>1. \A k \in a : k \in a2 \/ k \in DOMAIN read \/ k \in t \/ k \in F \/ source[k] = Absent
      BY <1>7
    <3>. HIDE DEF a, a2, t
    <3>2. Overlooked(read, source, a2, t) \subseteq Overlooked(read, source, a, t) \cup F
      BY <3>1, OverlookedGrows
    <3>3. Overlooked(read', source', a2, changed' \cup touched')
             \subseteq Overlooked(read, source, a, changed \cup touched) \cup F
      BY <1>1, <3>2 DEF t
    <3>. QED  BY <3>3 DEF a, a2
  <2>5. /\ counts.imported \in Nat /\ counts.skipped \in Nat /\ counts.errors \in Nat
        /\ counts'.imported \in Nat /\ counts'.skipped \in Nat /\ counts'.errors \in Nat
        /\ Len(pending) \in Nat /\ Len(pending') = 0 /\ Cardinality({}) = 0 /\ Cardinality(F) \in Nat
    BY <1>2, <1>3, <2>2, EmptyBatch, NoKeys, FS_CardinalityType DEF Counts
  <2>6. /\ counts.errors + Cardinality(F) <= counts'.errors
        /\ counts.imported + counts.skipped + counts.errors + Len(pending) + Cardinality({})
             <= counts'.imported + counts'.skipped + counts'.errors + Len(pending')
    <3>1. /\ counts'.errors = counts.errors + Cardinality(F) /\ counts'.skipped = counts.skipped
          /\ counts'.imported + counts'.errors = counts.imported + counts.errors + Len(pending)
      BY <2>2
    <3>. DEFINE i == counts.imported
                k == counts.skipped
                e == counts.errors
                i2 == counts'.imported
                e2 == counts'.errors
                l == Len(pending)
                c == Cardinality(F)
    <3>2. /\ i \in Nat /\ k \in Nat /\ e \in Nat /\ i2 \in Nat /\ e2 \in Nat /\ l \in Nat /\ c \in Nat
          /\ e2 = e + c /\ i2 + e2 = i + e + l /\ l = l + 0
      BY <2>5, <3>1
    <3>. HIDE DEF i, k, e, i2, e2, l, c
    <3>3. e + c <= e2 /\ i + k + e + l + 0 <= i2 + k + e2 + 0
      BY <3>2, BatchIsCounted
    <3>. QED  BY <2>5, <3>1, <3>3 DEF i, k, e, i2, e2, l, c
  <2>7. DOMAIN read' \cup empty' \subseteq (DOMAIN read \cup empty) \cup {}  BY <1>1
  <2>. QED  BY <1>4, <1>5, <2>2, <2>3, <2>4, <2>6, <2>7, NoKeys, AccountKept
<1>9. Remembered'  BY <1>1 DEF IInv, Remembered
<1>. QED  BY <1>3, <1>5, <1>6, <1>8, <1>9 DEF IInv

-----------------------------------------------------------------------------
(* The rest of the world.                                                  *)

LEMMA SourceWritesKeeps ==
    ASSUME IInv, NEW k \in DocIds, NEW value \in Values, SourceWrites(k, value) PROVE IInv'
<1>1. /\ Counted /\ source' = [source EXCEPT ![k] = value]
      /\ owed' \subseteq owed /\ \A j \in owed : j \in owed' \/ j = k
      /\ changed' = IF Importing THEN changed \cup {k} ELSE changed
      /\ UNCHANGED <<indices, allocated, phase, targets, current, prefixes, page, read, empty,
                     pending, counts, aborted, touched>>
  BY DEF SourceWrites, jobVars
<1>2. SearchOK'  BY <1>1, SearchUnchanged DEF IInv
<1>3. Importing' = Importing  BY <1>1 DEF Importing
<1>4. source' \in [DocIds -> Values] /\ source \in [DocIds -> Values] /\ \A j : j # k => source'[j] = source[j]
  <2>1. source \in [DocIds -> Values]  BY DEF IInv, JobTyped
  <2>. QED  BY <1>1, <2>1
<1>5. JobTyped'  BY <1>1, <1>4 DEF IInv, JobTyped
<1>6. PhaseTells'  BY <1>1, <1>3 DEF IInv, PhaseTells
<1>7. CASE ~Importing
  <2>1. DOMAIN read' = {} /\ empty' = {}  BY <1>1, <1>7 DEF IInv, PhaseTells
  <2>2. Accounted' /\ Remembered'  BY <1>3, <1>7, <2>1, NothingToAccount
  <2>. QED  BY <1>2, <1>5, <1>6, <2>2 DEF IInv
<1>8. CASE Importing
  <2>1. changed' = changed \cup {k}  BY <1>1, <1>8
  <2>2. Remembered'  BY <1>1, <1>4, <2>1 DEF IInv, Remembered
  <2>. DEFINE a == Ahead(phase, prefixes, owed, page)
              a2 == Ahead(phase', prefixes', owed', page')
              t == changed \cup touched
              t2 == changed' \cup touched'
  <2>3. \A j \in a : j \in a2 \/ j = k
    <3>1. \A at : at \notin {"scan", "reading"} =>
             /\ Ahead(at, prefixes, owed, page) = (UNION Range(prefixes)) \cup owed \cup page
             /\ Ahead(at, prefixes, owed', page) = (UNION Range(prefixes)) \cup owed' \cup page
      BY AheadIs
    <3>2. \A at : at \in {"scan", "reading"} =>
             /\ Ahead(at, prefixes, owed, page) = (UNION Range(Tail(prefixes))) \cup owed \cup page
             /\ Ahead(at, prefixes, owed', page) = (UNION Range(Tail(prefixes))) \cup owed' \cup page
      BY AheadIs
    <3>3. \A j \in Ahead(phase, prefixes, owed, page) : j \in Ahead(phase, prefixes, owed', page) \/ j = k
      BY <1>1, <3>1, <3>2
    <3>. QED  BY <1>1, <3>3
  <2>4. t \subseteq t2 /\ k \in t2  BY <1>1, <2>1
  <2>. HIDE DEF a, a2, t, t2
  <2>5. \A j : j \notin t2 => source'[j] = source[j]  BY <1>4, <2>4
  <2>6. \A j \in a : j \in a2 \/ j \in DOMAIN read \/ j \in t2 \/ j \in {} \/ source'[j] = Absent
    BY <2>3, <2>4
  <2>7. Overlooked(read, source', a2, t2) \subseteq Overlooked(read, source, a, t) \cup {}
    BY <2>4, <2>5, <2>6, OverlookedGrows
  <2>8. Overlooked(read', source', a2, t2) \subseteq Overlooked(read, source, a, t)
    BY <1>1, <2>7
  <2>9. Behind(read', pending', indices'[current'], touched')
             \subseteq Behind(read, pending, indices[current], touched)
    BY <1>1
  <2>10. Accounted'
    BY <1>1, <1>5, <1>8, <2>8, <2>9, AccountSame DEF a, a2, t, t2
  <2>. QED  BY <1>2, <1>5, <1>6, <2>2, <2>10 DEF IInv
<1>. QED  BY <1>7, <1>8

\* Commands change documents that are then theirs.
LEMMA ClientKeeps == ASSUME IInv, Client PROVE IInv'
<1>1. /\ Command
      /\ touched' = touched \cup {d \in DocIds :
            Importing /\ Doc(indices[current], d) # Doc(indices'[current], d)}
      /\ UNCHANGED <<source, phase, targets, current, prefixes, page, read, empty,
                     pending, counts, owed, aborted, changed>>
  BY DEF Client, jobVars
<1>2. SearchOK'  BY <1>1, CommandIsGood DEF IInv
<1>3. Importing' = Importing  BY <1>1 DEF Importing
<1>4. touched' \subseteq DocIds /\ (~Importing => touched' = touched)
  BY <1>1 DEF IInv, JobTyped
<1>5. JobTyped'  BY <1>1, <1>4 DEF IInv, JobTyped
<1>6. PhaseTells'  BY <1>1, <1>3, <1>4 DEF IInv, PhaseTells
<1>7. Remembered'  BY <1>1 DEF IInv, Remembered
<1>8. CASE ~Importing
  <2>1. DOMAIN read' = {} /\ empty' = {}  BY <1>1, <1>8 DEF IInv, PhaseTells
  <2>2. Accounted'  BY <1>3, <1>8, <2>1, NothingToAccount
  <2>. QED  BY <1>2, <1>5, <1>6, <1>7, <2>2 DEF IInv
<1>9. CASE Importing
  <2>. DEFINE x == indices[current]
              y == indices'[current]
              a == Ahead(phase, prefixes, owed, page)
              t == changed \cup touched
              t2 == changed \cup touched'
  <2>1. \A d \in DocIds : d \notin touched' => Doc(y, d) = Doc(x, d)  BY <1>1, <1>9
  <2>2. touched \subseteq touched' /\ t \subseteq t2 /\ DOMAIN read \subseteq DocIds
    BY <1>1 DEF IInv, JobTyped
  <2>. HIDE DEF x, y, a, t, t2
  <2>3. Behind(read, pending, y, touched') \subseteq Behind(read, pending, x, touched)
    BY <2>1, <2>2 DEF Behind
  <2>4. Overlooked(read, source, a, t2) \subseteq Overlooked(read, source, a, t)
    BY <2>2 DEF Overlooked
  <2>5. Behind(read', pending', indices'[current'], touched')
             \subseteq Behind(read, pending, indices[current], touched)
    BY <1>1, <2>3 DEF x, y
  <2>6. Overlooked(read', source', Ahead(phase', prefixes', owed', page'), changed' \cup touched')
             \subseteq Overlooked(read, source, Ahead(phase, prefixes, owed, page), changed \cup touched)
    BY <1>1, <2>4 DEF a, t, t2
  <2>7. Accounted'  BY <1>1, <1>5, <1>9, <2>5, <2>6, AccountSame
  <2>. QED  BY <1>2, <1>5, <1>6, <1>7, <2>7 DEF IInv
<1>. QED  BY <1>8, <1>9

-----------------------------------------------------------------------------
(* The keys of a page.                                                     *)

\* What every way to read a key leaves alone.
ReadingKey(k) ==
    /\ phase = "reading" /\ k \in page /\ page' = page \ {k}
    /\ UNCHANGED <<source, phase, targets, current, prefixes, owed, aborted, changed, touched>>

\* Only this key is no longer ahead.
LEMMA OneKeyLess ==
    ASSUME NEW k, ReadingKey(k), NEW F, DOMAIN read \subseteq DOMAIN read',
           \/ k \in DOMAIN read' \/ k \in F \/ k \in changed \/ source[k] = Absent
    PROVE  Overlooked(read', source', Ahead(phase', prefixes', owed', page'), changed' \cup touched')
             \subseteq Overlooked(read, source, Ahead(phase, prefixes, owed, page), changed \cup touched) \cup F
<1>. DEFINE a == Ahead(phase, prefixes, owed, page)
            a2 == Ahead(phase', prefixes', owed', page')
            t == changed \cup touched
<1>1. /\ phase = "reading" /\ page' = page \ {k}
      /\ UNCHANGED <<source, phase, prefixes, owed, changed, touched>>
  BY DEF ReadingKey
<1>2. \A j \in a : j \in a2 \/ j = k
  <2>1. phase \in {"scan", "reading"}  BY <1>1
  <2>2. /\ a = (UNION Range(Tail(prefixes))) \cup owed \cup page
        /\ Ahead(phase, prefixes, owed, page') = (UNION Range(Tail(prefixes))) \cup owed \cup page'
    BY <2>1, AheadIs
  <2>3. a2 = (UNION Range(Tail(prefixes))) \cup owed \cup page'
    BY <1>1, <2>2
  <2>. HIDE DEF a, a2
  <2>. QED  BY <1>1, <2>2, <2>3
<1>3. k \in DOMAIN read' \/ k \in F \/ k \in t \/ source[k] = Absent
  OBVIOUS
<1>. HIDE DEF a, a2, t
<1>4. \A j \in a : j \in a2 \/ j \in DOMAIN read' \/ j \in t \/ j \in F \/ source[j] = Absent
  BY <1>2, <1>3
<1>5. Overlooked(read', source, a2, t) \subseteq Overlooked(read, source, a, t) \cup F
  BY <1>4, OverlookedGrows
<1>6. Overlooked(read', source', a2, changed' \cup touched')
        \subseteq Overlooked(read, source, a, changed \cup touched) \cup F
  BY <1>1, <1>5 DEF t
<1>. QED  BY <1>6 DEF a, a2

\* An answer that is an error.
LEMMA ReadFailsKeeps ==
    ASSUME IInv, NEW k \in DocIds, ReadingKey(k), UNCHANGED ops \/ Counted,
           counts' = [counts EXCEPT !.errors = @ + 1],
           UNCHANGED <<indices, allocated, read, empty, pending>>
    PROVE  IInv'
<1>1. /\ phase = "reading" /\ page' = page \ {k}
      /\ UNCHANGED <<source, phase, targets, current, prefixes, owed, aborted, changed, touched>>
  BY DEF ReadingKey
<1>2. SearchOK'  BY SearchUnchanged DEF IInv
<1>3. counts \in Counts /\ pending \in Seq(DocIds)  BY DEF IInv, JobTyped
<1>4. /\ counts.imported \in Nat /\ counts.skipped \in Nat /\ counts.errors \in Nat
      /\ counts = [imported |-> counts.imported, skipped |-> counts.skipped, errors |-> counts.errors]
  BY <1>3 DEF Counts
<1>5. counts' = [imported |-> counts.imported, skipped |-> counts.skipped, errors |-> counts.errors + 1]
  BY <1>4
<1>6. counts' \in Counts  BY <1>4, <1>5 DEF Counts
<1>7. counts'.imported = counts.imported /\ counts'.skipped = counts.skipped /\ counts'.errors = counts.errors + 1
  BY <1>5
<1>8. JobTyped'  BY <1>1, <1>6 DEF IInv, JobTyped
<1>9. Importing /\ Importing'  BY <1>1 DEF Importing
<1>10. PhaseTells'  BY <1>1, <1>9 DEF IInv, PhaseTells
<1>11. Remembered'  BY <1>1 DEF IInv, Remembered
<1>12. IsFiniteSet({k}) /\ Cardinality({k}) = 1  BY FS_Singleton
<1>13. Overlooked(read', source', Ahead(phase', prefixes', owed', page'), changed' \cup touched')
             \subseteq Overlooked(read, source, Ahead(phase, prefixes, owed, page), changed \cup touched) \cup {k}
  BY OneKeyLess
<1>14. Behind(read', pending', indices'[current'], touched')
             \subseteq Behind(read, pending, indices[current], touched) \cup {k}
  BY <1>1
<1>15. /\ counts.errors + Cardinality({k}) <= counts'.errors
       /\ counts.imported + counts.skipped + counts.errors + Len(pending) + Cardinality({})
             <= counts'.imported + counts'.skipped + counts'.errors + Len(pending')
  <2>1. Len(pending) \in Nat /\ Len(pending') = Len(pending)  BY <1>3
  <2>. QED  BY <1>4, <1>7, <1>12, <2>1, NoKeys
<1>16. DOMAIN read' \cup empty' \subseteq (DOMAIN read \cup empty) \cup {}  OBVIOUS
<1>17. Accounted'
  BY <1>8, <1>9, <1>12, <1>13, <1>14, <1>15, <1>16, NoKeys, AccountKept
<1>. QED  BY <1>2, <1>8, <1>10, <1>11, <1>17 DEF IInv

\* A key that was read before.
LEMMA ReadAgainKeeps ==
    ASSUME IInv, NEW k \in DocIds, ReadingKey(k), k \in DOMAIN read \cup empty,
           UNCHANGED <<searchVars, read, empty, pending, counts>>
    PROVE  IInv'
<1>1. /\ phase = "reading" /\ page' = page \ {k}
      /\ UNCHANGED <<source, phase, targets, current, prefixes, owed, aborted, changed, touched>>
      /\ UNCHANGED <<indices, allocated, ops>>
  BY DEF ReadingKey, searchVars
<1>2. SearchOK'  BY <1>1, SearchUnchanged DEF IInv
<1>3. JobTyped'  BY <1>1 DEF IInv, JobTyped
<1>4. Importing /\ Importing'  BY <1>1 DEF Importing
<1>5. PhaseTells'  BY <1>1, <1>4 DEF IInv, PhaseTells
<1>6. Remembered'  BY <1>1 DEF IInv, Remembered
<1>7. k \in DOMAIN read' \/ k \in {} \/ k \in changed \/ source[k] = Absent
  BY DEF IInv, Remembered
<1>8. Overlooked(read', source', Ahead(phase', prefixes', owed', page'), changed' \cup touched')
             \subseteq Overlooked(read, source, Ahead(phase, prefixes, owed, page), changed \cup touched) \cup {}
  BY <1>7, OneKeyLess
<1>9. Overlooked(read', source', Ahead(phase', prefixes', owed', page'), changed' \cup touched')
             \subseteq Overlooked(read, source, Ahead(phase, prefixes, owed, page), changed \cup touched)
  BY <1>8
<1>10. Behind(read', pending', indices'[current'], touched')
             \subseteq Behind(read, pending, indices[current], touched)
  BY <1>1
<1>11. Accounted'
  BY <1>3, <1>4, <1>9, <1>10, AccountSame
<1>. QED  BY <1>2, <1>3, <1>5, <1>6, <1>11 DEF IInv

\* A key that is not there, or has no fields.
LEMMA ReadEmptyKeeps ==
    ASSUME IInv, NEW k \in DocIds, ReadingKey(k), k \notin DOMAIN read \cup empty, source[k] = Absent,
           empty' = empty \cup {k}, counts' = [counts EXCEPT !.skipped = @ + 1],
           UNCHANGED <<searchVars, read, pending>>
    PROVE  IInv'
<1>1. /\ phase = "reading" /\ page' = page \ {k}
      /\ UNCHANGED <<source, phase, targets, current, prefixes, owed, aborted, changed, touched>>
      /\ UNCHANGED <<indices, allocated, ops>>
  BY DEF ReadingKey, searchVars
<1>2. SearchOK'  BY <1>1, SearchUnchanged DEF IInv
<1>3. counts \in Counts /\ pending \in Seq(DocIds)  BY DEF IInv, JobTyped
<1>4. /\ counts.imported \in Nat /\ counts.skipped \in Nat /\ counts.errors \in Nat
      /\ counts = [imported |-> counts.imported, skipped |-> counts.skipped, errors |-> counts.errors]
  BY <1>3 DEF Counts
<1>5. counts' = [imported |-> counts.imported, skipped |-> counts.skipped + 1, errors |-> counts.errors]
  BY <1>4
<1>6. counts' \in Counts  BY <1>4, <1>5 DEF Counts
<1>7. counts'.imported = counts.imported /\ counts'.skipped = counts.skipped + 1 /\ counts'.errors = counts.errors
  BY <1>5
<1>8. JobTyped'  BY <1>1, <1>6 DEF IInv, JobTyped
<1>9. Importing /\ Importing'  BY <1>1 DEF Importing
<1>10. PhaseTells'  BY <1>1, <1>9 DEF IInv, PhaseTells
<1>11. Remembered'  BY <1>1 DEF IInv, Remembered
<1>12. IsFiniteSet({k}) /\ Cardinality({k}) = 1  BY FS_Singleton
<1>13. Overlooked(read', source', Ahead(phase', prefixes', owed', page'), changed' \cup touched')
             \subseteq Overlooked(read, source, Ahead(phase, prefixes, owed, page), changed \cup touched) \cup {}
  BY OneKeyLess
<1>14. Behind(read', pending', indices'[current'], touched')
             \subseteq Behind(read, pending, indices[current], touched) \cup {}
  BY <1>1
<1>15. /\ counts.errors + Cardinality({}) <= counts'.errors
       /\ counts.imported + counts.skipped + counts.errors + Len(pending) + Cardinality({k})
             <= counts'.imported + counts'.skipped + counts'.errors + Len(pending')
  <2>1. Len(pending) \in Nat /\ Len(pending') = Len(pending)  BY <1>1, <1>3
  <2>. QED  BY <1>4, <1>7, <1>12, <2>1, NoKeys
<1>16. DOMAIN read' \cup empty' \subseteq (DOMAIN read \cup empty) \cup {k}  OBVIOUS
<1>17. Accounted'
  BY <1>8, <1>9, <1>12, <1>13, <1>14, <1>15, <1>16, NoKeys, AccountKept
<1>. QED  BY <1>2, <1>8, <1>10, <1>11, <1>17 DEF IInv

\* A hash joins the batch: what was taken has one key more, and the batch as well.
Joins(r, p, k, v, r2, docs) == r2 = With(r, k, v) /\ docs = Append(p, k)
Joined(r, p, k, v, r2, docs) ==
    /\ DOMAIN r2 = DOMAIN r \cup {k} /\ r2[k] = v /\ \A j \in DOMAIN r : r2[j] = r[j]
    /\ docs \in Seq(DocIds) /\ Len(docs) = Len(p) + 1
    /\ Range(docs) = Range(p) \cup {k} /\ IsInjective(docs)
    /\ Takes(r, p, r2, docs)

LEMMA TakenOne ==
    ASSUME NEW r, NEW p \in Seq(DocIds), Range(p) \subseteq DOMAIN r, IsInjective(p),
           NEW k \in DocIds, k \notin DOMAIN r, NEW v,
           NEW r2, NEW docs, Joins(r, p, k, v, r2, docs)
    PROVE  Joined(r, p, k, v, r2, docs)
<1>. DEFINE L == Len(p)
<1>1. DOMAIN r2 = DOMAIN r \cup {k} /\ r2[k] = v /\ \A j \in DOMAIN r : r2[j] = r[j]
  BY DEF Joins, With
<1>2. /\ docs \in Seq(DocIds) /\ Len(docs) = L + 1 /\ L \in Nat
      /\ docs[L + 1] = k /\ \A i \in 1..L : docs[i] = p[i]
  BY AppendProperties DEF Joins
<1>3. DOMAIN p = 1..L /\ DOMAIN docs = 1..(L + 1)
  BY <1>2
<1>. HIDE DEF L
<1>4. Range(docs) = Range(p) \cup {k}
  <2>1. \A i \in 1..(L + 1) : docs[i] = k \/ i \in 1..L  BY <1>2
  <2>2. L + 1 \in 1..(L + 1) /\ \A i \in 1..L : i \in 1..(L + 1)  BY <1>2
  <2>3. Range(docs) \subseteq Range(p) \cup {k}  BY <1>2, <1>3, <2>1 DEF Range
  <2>4. Range(p) \subseteq Range(docs)  BY <1>2, <1>3, <2>2 DEF Range
  <2>5. k \in Range(docs)  BY <1>2, <1>3, <2>2 DEF Range
  <2>. QED  BY <2>3, <2>4, <2>5
<1>5. IsInjective(docs)
  <2>1. ASSUME NEW i \in 1..(L + 1), NEW j \in 1..(L + 1), docs[i] = docs[j] PROVE i = j
    <3>1. \A n \in 1..L : p[n] # k  BY <1>3 DEF Range
    <3>2. \A n \in 1..(L + 1) : n = L + 1 \/ n \in 1..L  BY <1>2
    <3>3. CASE i \in 1..L /\ j \in 1..L
      BY <1>2, <1>3, <2>1, <3>3 DEF IsInjective
    <3>4. CASE i = L + 1 \/ j = L + 1
      BY <1>2, <2>1, <3>1, <3>2, <3>4
    <3>. QED  BY <3>2, <3>3, <3>4
  <2>. QED  BY <1>3, <2>1 DEF IsInjective
<1>6. Takes(r, p, r2, docs)
  BY <1>1, <1>4 DEF Takes
<1>. QED  BY <1>1, <1>2, <1>4, <1>5, <1>6 DEF L, Joined

LEMMA TakeHashKeeps ==
    ASSUME IInv, NEW k \in DocIds, ReadingKey(k), k \notin DOMAIN read \cup empty, TakeHash(k)
    PROVE  IInv'
<1>. DEFINE docs == Append(pending, k)
            x == indices[current]
            y == indices'[current]
            t == touched
<1>1. /\ phase = "reading" /\ page' = page \ {k}
      /\ UNCHANGED <<source, phase, targets, current, prefixes, owed, aborted, changed, touched>>
  BY DEF ReadingKey
<1>2. /\ current \in Names /\ pending \in Seq(DocIds) /\ counts \in Counts
      /\ DOMAIN read \subseteq DocIds /\ Range(pending) \subseteq DOMAIN read /\ IsInjective(pending)
      /\ \A d \in DOMAIN read : read[d] \in SourceHashes
      /\ empty \subseteq DocIds \ DOMAIN read
  BY DEF IInv, JobTyped
<1>3. /\ source[k] \in SourceHashes /\ read' = With(read, k, source[k])
      /\ IF Len(docs) >= BatchDocs THEN FlushBatch(docs, read', counts)
         ELSE pending' = docs /\ UNCHANGED <<indices, allocated, ops, counts>>
      /\ UNCHANGED empty
  BY DEF TakeHash
<1>4. /\ DOMAIN read' = DOMAIN read \cup {k} /\ read'[k] = source[k]
      /\ \A j \in DOMAIN read : read'[j] = read[j]
      /\ docs \in Seq(DocIds) /\ Len(docs) = Len(pending) + 1
      /\ Range(docs) = Range(pending) \cup {k} /\ IsInjective(docs)
      /\ Takes(read, pending, read', docs)
  <2>1. k \notin DOMAIN read /\ Joins(read, pending, k, source[k], read', docs)
    BY <1>3 DEF Joins
  <2>. HIDE DEF docs
  <2>2. Joined(read, pending, k, source[k], read', docs)  BY <1>2, <2>1, TakenOne
  <2>. QED  BY <2>2 DEF Joined
<1>5. Importing /\ Importing'  BY <1>1 DEF Importing
<1>6. Remembered'  BY <1>1, <1>3, <1>4 DEF IInv, Remembered
<1>7. Overlooked(read', source', Ahead(phase', prefixes', owed', page'), changed' \cup touched')
             \subseteq Overlooked(read, source, Ahead(phase, prefixes, owed, page), changed \cup touched)
  <2>1. DOMAIN read \subseteq DOMAIN read' /\ k \in DOMAIN read'  BY <1>4
  <2>2. Overlooked(read', source', Ahead(phase', prefixes', owed', page'), changed' \cup touched')
             \subseteq Overlooked(read, source, Ahead(phase, prefixes, owed, page), changed \cup touched) \cup {}
    BY <2>1, OneKeyLess
  <2>. QED  BY <2>2
<1>8. /\ DOMAIN read' \subseteq DocIds /\ \A j \in DOMAIN read' : read'[j] \in SourceHashes
      /\ empty' \subseteq DocIds \ DOMAIN read'
      /\ DOMAIN read' \cup empty' \subseteq (DOMAIN read \cup empty) \cup {k}
  BY <1>2, <1>3, <1>4
<1>9. IsFiniteSet({k}) /\ Cardinality({k}) = 1  BY FS_Singleton
<1>10. /\ SearchOK' /\ counts' \in Counts
       /\ pending' \in Seq(DocIds) /\ Range(pending') \subseteq DOMAIN read'
       /\ IsInjective(pending') /\ Len(pending') < BatchDocs
       /\ \E F : /\ IsFiniteSet(F) /\ counts.errors + Cardinality(F) <= counts'.errors
                 /\ counts.imported + counts.skipped + counts.errors + Len(pending) + Cardinality({k})
                      <= counts'.imported + counts'.skipped + counts'.errors + Len(pending')
                 /\ Behind(read', pending', y, t) \subseteq Behind(read, pending, x, t) \cup F
  <2>1. CASE Len(docs) >= BatchDocs
    <3>1. FlushBatch(docs, read', counts)  BY <1>3, <2>1
    <3>2. \A d \in Range(docs) : read'[d] \in SourceHashes  BY <1>2, <1>4, <1>8
    <3>3. /\ SearchOK' /\ pending' = <<>> /\ counts' \in Counts
          /\ Flushed(docs, read', counts, counts', x, y)
      BY <1>2, <1>4, <3>1, <3>2, FlushGives DEF IInv
    <3>4. Charged(counts, counts', docs, Behind(read, pending, x, t), Behind(read', <<>>, y, t))
      <4>. HIDE DEF x, y, docs, t
      <4>. QED  BY <1>2, <1>4, <3>3, FlushAccounts
    <3>5. PICK F : /\ IsFiniteSet(F) /\ counts'.errors = counts.errors + Cardinality(F)
                   /\ counts'.imported + counts'.errors = counts.imported + counts.errors + Len(docs)
                   /\ counts'.skipped = counts.skipped
                   /\ Behind(read', <<>>, y, t) \subseteq Behind(read, pending, x, t) \cup F
      BY <3>4 DEF Charged
    <3>6. /\ counts.errors + Cardinality(F) <= counts'.errors
          /\ counts.imported + counts.skipped + counts.errors + Len(pending) + 1
               <= counts'.imported + counts'.skipped + counts'.errors + 0
      <4>. DEFINE i == counts.imported
                  s == counts.skipped
                  e == counts.errors
                  i2 == counts'.imported
                  e2 == counts'.errors
                  l == Len(pending)
                  m == Len(docs)
                  c == Cardinality(F)
      <4>1. i \in Nat /\ s \in Nat /\ e \in Nat /\ i2 \in Nat /\ e2 \in Nat
        BY <1>2, <3>3 DEF Counts
      <4>2. l \in Nat /\ m \in Nat /\ m = l + 1 /\ c \in Nat
        BY <1>2, <1>4, <3>5, FS_CardinalityType
      <4>3. e2 = e + c /\ i2 + e2 = i + e + m /\ counts'.skipped = s
        BY <3>5
      <4>. HIDE DEF i, s, e, i2, e2, l, m, c
      <4>4. e + c <= e2 /\ i + s + e + l + 1 <= i2 + s + e2 + 0
        BY <4>1, <4>2, <4>3, BatchIsCounted
      <4>. QED  BY <4>3, <4>4 DEF i, s, e, i2, e2, l, c
    <3>7. /\ pending' \in Seq(DocIds) /\ Range(pending') \subseteq DOMAIN read'
          /\ IsInjective(pending') /\ Len(pending') < BatchDocs /\ Len(pending') = 0
      BY <3>3, EmptyBatch
    <3>8. Behind(read', pending', y, t) \subseteq Behind(read, pending, x, t) \cup F
      BY <3>3, <3>5
    <3>9. counts.imported + counts.skipped + counts.errors + Len(pending) + Cardinality({k})
            <= counts'.imported + counts'.skipped + counts'.errors + Len(pending')
      BY <1>9, <3>6, <3>7
    <3>. QED  BY <3>3, <3>5, <3>6, <3>7, <3>8, <3>9
  <2>2. CASE ~(Len(docs) >= BatchDocs)
    <3>1. pending' = docs /\ UNCHANGED <<indices, allocated, ops, counts>>  BY <1>3, <2>2
    <3>2. SearchOK'  BY <3>1, SearchUnchanged DEF IInv
    <3>3. Len(pending') < BatchDocs
      <4>1. Len(docs) \in Nat /\ BatchDocs \in Nat  BY <1>4, SearchMigrationAssumption
      <4>. QED  BY <2>2, <3>1, <4>1
    <3>4. /\ pending' \in Seq(DocIds) /\ IsInjective(pending') /\ Range(pending') \subseteq DOMAIN read'
      BY <1>2, <1>4, <3>1
    <3>5. Behind(read', pending', y, t) \subseteq Behind(read, pending, x, t) \cup {}
      <4>1. y = x /\ Range(pending') = Range(pending) \cup {k}  BY <1>4, <3>1
      <4>. HIDE DEF x, y, t
      <4>. QED  BY <1>4, <4>1 DEF Behind
    <3>6. /\ counts.errors + Cardinality({}) <= counts'.errors
          /\ counts.imported + counts.skipped + counts.errors + Len(pending) + Cardinality({k})
               <= counts'.imported + counts'.skipped + counts'.errors + Len(pending')
      <4>1. counts.imported \in Nat /\ counts.skipped \in Nat /\ counts.errors \in Nat
        BY <1>2 DEF Counts
      <4>2. Len(pending) \in Nat /\ Len(pending') = Len(pending) + 1
        BY <1>2, <1>4, <3>1
      <4>. QED  BY <1>9, <3>1, <4>1, <4>2, NoKeys
    <3>. QED  BY <1>2, <3>1, <3>2, <3>3, <3>4, <3>5, <3>6, NoKeys
  <2>. QED  BY <2>1, <2>2
<1>11. JobTyped'  BY <1>1, <1>8, <1>10 DEF IInv, JobTyped
<1>12. PhaseTells'  BY <1>1, <1>5 DEF IInv, PhaseTells
<1>13. Accounted'
  <2>1. PICK F : /\ IsFiniteSet(F) /\ counts.errors + Cardinality(F) <= counts'.errors
                 /\ counts.imported + counts.skipped + counts.errors + Len(pending) + Cardinality({k})
                      <= counts'.imported + counts'.skipped + counts'.errors + Len(pending')
                 /\ Behind(read', pending', y, t) \subseteq Behind(read, pending, x, t) \cup F
    BY <1>10
  <2>2. Behind(read', pending', indices'[current'], touched')
             \subseteq Behind(read, pending, indices[current], touched) \cup F
    BY <1>1, <2>1
  <2>3. Overlooked(read', source', Ahead(phase', prefixes', owed', page'), changed' \cup touched')
             \subseteq Overlooked(read, source, Ahead(phase, prefixes, owed, page), changed \cup touched) \cup F
    BY <1>7
  <2>. QED  BY <1>5, <1>8, <1>9, <1>11, <2>1, <2>2, <2>3, AccountKept
<1>. QED  BY <1>6, <1>10, <1>11, <1>12, <1>13 DEF IInv

LEMMA ReadKeyKeeps == ASSUME IInv, NEW k \in DocIds, ReadKey(k) PROVE IInv'
<1>1. ReadingKey(k)  BY DEF ReadKey, ReadingKey
<1>2. \/ /\ IF source[k] = Other THEN UNCHANGED ops ELSE Counted
         /\ counts' = [counts EXCEPT !.errors = @ + 1]
         /\ UNCHANGED <<indices, allocated, read, empty, pending>>
      \/ /\ k \in DOMAIN read \cup empty
         /\ UNCHANGED <<searchVars, read, empty, pending, counts>>
      \/ k \notin DOMAIN read \cup empty /\ TakeHash(k)
      \/ /\ k \notin DOMAIN read \cup empty /\ source[k] = Absent
         /\ empty' = empty \cup {k}
         /\ counts' = [counts EXCEPT !.skipped = @ + 1]
         /\ UNCHANGED <<searchVars, read, pending>>
  BY DEF ReadKey
<1>3. CASE /\ IF source[k] = Other THEN UNCHANGED ops ELSE Counted
           /\ counts' = [counts EXCEPT !.errors = @ + 1]
           /\ UNCHANGED <<indices, allocated, read, empty, pending>>
  BY <1>1, <1>3, ReadFailsKeeps
<1>4. CASE /\ k \in DOMAIN read \cup empty
           /\ UNCHANGED <<searchVars, read, empty, pending, counts>>
  BY <1>1, <1>4, ReadAgainKeeps
<1>5. CASE k \notin DOMAIN read \cup empty /\ TakeHash(k)
  BY <1>1, <1>5, TakeHashKeeps
<1>6. CASE /\ k \notin DOMAIN read \cup empty /\ source[k] = Absent
           /\ empty' = empty \cup {k}
           /\ counts' = [counts EXCEPT !.skipped = @ + 1]
           /\ UNCHANGED <<searchVars, read, pending>>
  BY <1>1, <1>6, ReadEmptyKeeps
<1>. QED  BY <1>2, <1>3, <1>4, <1>5, <1>6

-----------------------------------------------------------------------------
(* Theorems.                                                               *)

LEMMA InitHasInv == Init => IInv
<1>. SUFFICES ASSUME Init PROVE IInv
  OBVIOUS
<1>1. /\ SearchInit /\ source = [k \in DocIds |-> Absent] /\ phase = "idle" /\ targets = {} /\ current \in Names
      /\ prefixes = <<>> /\ owed = {} /\ page = {}
      /\ read = <<>> /\ empty = {} /\ pending = <<>> /\ counts = NoCounts
      /\ aborted = FALSE /\ changed = {} /\ touched = {}
  BY DEF Init, Empty
<1>2. SearchOK  BY <1>1, InitIsGood
<1>3. DOMAIN read = {}
  <2>1. DOMAIN <<>> = {}  OBVIOUS
  <2>. QED  BY <1>1, <2>1
<1>4. source \in [DocIds -> Values]  BY <1>1 DEF Values
<1>5. counts \in Counts  BY <1>1 DEF NoCounts, Counts
<1>6. IsRest(prefixes)  BY <1>1, RestOfPrefixes
<1>7. /\ pending \in Seq(DocIds) /\ Range(pending) \subseteq DOMAIN read
      /\ IsInjective(pending) /\ Len(pending) < BatchDocs
  BY <1>1, EmptyBatch
<1>8. JobTyped  BY <1>1, <1>3, <1>4, <1>5, <1>6, <1>7 DEF JobTyped
<1>9. ~Importing  BY <1>1 DEF Importing
<1>10. PhaseTells  BY <1>1, <1>3, <1>9 DEF PhaseTells
<1>11. Accounted /\ Remembered  BY <1>1, <1>3, <1>9 DEF Accounted, Remembered
<1>. QED  BY <1>2, <1>8, <1>10, <1>11 DEF IInv

LEMMA NextKeepsInv == IInv /\ [Next]_vars => IInv'
<1>. SUFFICES ASSUME IInv, [Next]_vars PROVE IInv'
  OBVIOUS
<1>1. CASE Start  BY <1>1, StartKeeps
<1>2. ASSUME NEW n \in Names, Rejected(n) \/ Begin(n) PROVE IInv'
  BY <1>2, RejectedKeeps, BeginKeeps
<1>3. CASE Scan  BY <1>3, ScanKeeps
<1>4. CASE PageDone  BY <1>4, PageDoneKeeps
<1>5. CASE ScanFails  BY <1>5, ScanFailsKeeps
<1>6. CASE Finish  BY <1>6, FinishKeeps
<1>7. CASE ImportSuggestions  BY <1>7, ImportSuggestionsKeeps
<1>8. CASE Proceed  BY <1>8, ProceedKeeps
<1>9. CASE End  BY <1>9, EndKeeps
<1>10. ASSUME NEW k \in DocIds, ReadKey(k) PROVE IInv'
  BY <1>10, ReadKeyKeeps
<1>11. CASE Signal  BY <1>11, SignalKeeps
<1>12. CASE Client  BY <1>12, ClientKeeps
<1>13. ASSUME NEW k \in DocIds, NEW value \in Values, SourceWrites(k, value) PROVE IInv'
  BY <1>13, SourceWritesKeeps
<1>14. CASE UNCHANGED vars
  BY <1>14 DEF vars, searchVars, jobVars, IInv, SearchOK, JobTyped, PhaseTells, Accounted, Remembered,
               Importing
<1>15. Start \/ Job \/ Signal \/ Client \/ (\E k \in DocIds, value \in Values : SourceWrites(k, value))
       \/ UNCHANGED vars
  BY DEF Next
<1>16. CASE Job
  BY <1>2, <1>3, <1>4, <1>5, <1>6, <1>7, <1>8, <1>9, <1>10, <1>16 DEF Job
<1>. QED  BY <1>1, <1>11, <1>12, <1>13, <1>14, <1>15, <1>16

LEMMA InvTyped == IInv => TypeOK
<1>. SUFFICES ASSUME IInv PROVE TypeOK
  OBVIOUS
<1>1. SearchTypeOK  BY GoodIndicesTyped DEF IInv
<1>2. Range(read) \subseteq SourceHashes  BY DEF IInv, JobTyped, Range
<1>3. DOMAIN counts = DOMAIN NoCounts /\ Range(counts) \subseteq Nat
  <2>1. counts \in Counts  BY DEF IInv, JobTyped
  <2>. QED  BY <2>1 DEF Counts, NoCounts, Range
<1>4. JobTyped  BY DEF IInv
<1>. QED  BY <1>1, <1>2, <1>3, <1>4 DEF TypeOK, JobTyped, IsRest

LEMMA InvAnswers == IInv => SearchAnswersQueries
BY AllQueriesAreRead, GoodIndicesAnswer DEF IInv, SearchAnswersQueries

LEMMA InvReports == IInv => MigratedOrReported
<1>. SUFFICES ASSUME IInv, phase = "result" PROVE MigratedOrReported
  BY DEF MigratedOrReported
<1>. DEFINE steady == {k \in (UNION Range(KeyPrefixes)) \ changed : source[k] # Absent}
            wanted == DOMAIN read \cup (IF aborted THEN {} ELSE steady)
            there(k) == k \in DOMAIN read /\ \E d \in Doc(indices[current], k) : Represents(d, read[k])
            missing == {k \in wanted \ touched : ~there(k)}
            x == indices[current]
            a == Ahead(phase, prefixes, owed, page)
            u == changed \cup touched
            B == Behind(read, pending, x, touched) \cup Overlooked(read, source, a, u)
<1>1. Importing /\ pending = <<>> /\ phase \notin {"scan", "reading"}
  BY DEF IInv, PhaseTells, Importing
<1>2. Range(pending) = {} /\ Len(pending) = 0  BY <1>1, EmptyBatch
<1>3. ASSUME ~aborted PROVE a = {}
  <2>1. prefixes = <<>> /\ owed = {} /\ page = {}  BY <1>3 DEF IInv, PhaseTells
  <2>2. a = (UNION Range(prefixes)) \cup owed \cup page  BY <1>1, AheadIs
  <2>3. Range(<<>>) = {}  BY EmptyBatch
  <2>. QED  BY <2>1, <2>2, <2>3
<1>4. Cardinality(B) <= counts.errors
      /\ Cardinality(DOMAIN read \cup empty) <= counts.imported + counts.skipped + counts.errors + Len(pending)
  BY <1>1 DEF IInv, Accounted
<1>5. DOMAIN read \subseteq DocIds /\ counts \in Counts  BY DEF IInv, JobTyped
<1>6. B \in SUBSET DocIds  BY <1>5, AccountIsOfKeys
<1>. HIDE DEF x, a
<1>7. ASSUME NEW k \in missing PROVE k \in B
  <2>1. k \in wanted /\ k \notin touched /\ ~there(k)  OBVIOUS
  <2>2. CASE k \in DOMAIN read
    <3>0. read[k] \in SourceHashes  BY <2>2 DEF IInv, JobTyped
    <3>1. Doc(x, k) # {BuildDocFields(read[k])}  BY <2>1, <2>2, <3>0, BuiltRepresents DEF x
    <3>2. k \in Behind(read, pending, x, touched)  BY <1>2, <2>1, <2>2, <3>1 DEF Behind
    <3>. QED  BY <3>2
  <2>3. CASE k \notin DOMAIN read
    <3>1. ~aborted /\ k \in UNION Range(KeyPrefixes) /\ k \notin changed /\ source[k] # Absent
      BY <2>1, <2>3
    <3>2. k \notin a /\ k \notin u  BY <1>3, <2>1, <3>1
    <3>3. k \in Overlooked(read, source, a, u)  BY <2>3, <3>1, <3>2 DEF Overlooked
    <3>. QED  BY <3>3
  <2>. QED  BY <2>2, <2>3
<1>8. missing \in SUBSET B  BY <1>7
<1>. HIDE DEF B, missing
<1>9. Cardinality(missing) <= counts.errors
  <2>1. IsFiniteSet(B) /\ Cardinality(B) \in Nat  BY <1>6, KeysAreFinite
  <2>2. Cardinality(missing) \in Nat /\ Cardinality(missing) <= Cardinality(B)
    BY <1>8, <2>1, FS_Subset, FS_CardinalityType
  <2>3. counts.errors \in Nat  BY <1>5 DEF Counts
  <2>. QED  BY <1>4, <2>1, <2>2, <2>3
<1>10. \A k \in DOMAIN read \ changed : read[k] = source[k]  BY DEF IInv, Remembered
<1>11. counts.imported + counts.skipped + counts.errors >= Cardinality(DOMAIN read \cup empty)
  <2>1. Cardinality(DOMAIN read \cup empty) \in Nat
    <3>1. empty \subseteq DocIds  BY DEF IInv, JobTyped
    <3>2. DOMAIN read \cup empty \in SUBSET DocIds  BY <1>5, <3>1
    <3>. QED  BY <3>2, KeysAreFinite
  <2>2. counts.imported \in Nat /\ counts.skipped \in Nat /\ counts.errors \in Nat  BY <1>5 DEF Counts
  <2>. QED  BY <1>2, <1>4, <2>1, <2>2
<1>. QED  BY <1>9, <1>10, <1>11 DEF MigratedOrReported, missing

\* Every index has documents over its schema under rowids of their own, and the job its types: a key is
\* read with fields or without, and the batch has each of its keys once.
THEOREM TypeCorrect == Spec => []TypeOK
<1>. QED  BY InitHasInv, NextKeepsInv, InvTyped, PTL DEF Spec

\* FT.SEARCH finds the documents whose present text has what the query asks for: the expression is
\* read as it was meant, and the inverted index has exactly the tokens of the documents, whatever was
\* added, replaced, deleted, imported and flushed before, from an old database on.
THEOREM QueriesAreAnswered == Spec => []SearchAnswersQueries
<1>. QED  BY InitHasInv, NextKeepsInv, InvAnswers, PTL DEF Spec

\* When the result of an index is reported, every hash that was taken is in the index, each of its texts
\* in a field of that identifier (in one of them, if several attributes name it), or counted as an
\* error, and without a signal those that were there for the whole scan were all taken, for any
\* prefixes, size of batches, failures, clients and changes of the source meanwhile.
THEOREM ImportAccountsForAll == Spec => []MigratedOrReported
<1>. QED  BY InitHasInv, NextKeepsInv, InvReports, PTL DEF Spec
=============================================================================

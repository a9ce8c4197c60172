------------------------------- MODULE Search -------------------------------
(***************************************************************************)
(* Full-text indices (storage/sqlite/search.js) and the FT.* commands.  An *)
(* index is its row of search_indices with its four tables: docs, docmap,  *)
(* the contentless FTS5 table and sugs.  A text is the set of its tokens;  *)
(* a term of a query is the set of tokens it stands for, one token or all  *)
(* those with a prefix.  Scores of documents, times and the order of the   *)
(* hits are left out: they decide the order of a reply and nothing else.   *)
(***************************************************************************)
EXTENDS Integers, SequencesExt

CONSTANTS
    Names,         \* of indices
    DocIds, Fields,
    Payload,       \* the field each index must have
    Texts,         \* sets of tokens; {} is the empty string
    Terms,         \* of suggestions
    Scores,        \* of suggestions
    Documents,     \* that clients add: some fields -> texts
    LegacyDocs,    \* documents there may be from before the rowid allocator
    MaxOps         \* bound: commands of clients, and what counts as one elsewhere

ASSUME SearchAssumption ==
    /\ IsFiniteSet(DocIds)
    /\ Payload \in Fields
    /\ {} \in Texts
    /\ Scores \subseteq Int
    /\ LegacyDocs \subseteq DocIds
    /\ \A fields \in Documents :
         fields # <<>> /\ DOMAIN fields \subseteq Fields /\ Range(fields) \subseteq Texts
    /\ MaxOps \in Nat

VARIABLES
    indices,     \* name -> the index, or NoIndex
    allocated,   \* the largest id in search_rowid_allocator, 0 if it is empty
    ops          \* commands so far, for the bound

searchVars == <<indices, allocated, ops>>

Empty == <<>>
Without(f, x) == [y \in DOMAIN f \ {x} |-> f[y]]
With(f, x, v) == [y \in DOMAIN f \cup {x} |-> IF y = x THEN v ELSE f[y]]

-----------------------------------------------------------------------------
(* FTS5 with content='': an inverted index of postings, and the rows whose *)
(* sizes it knows.  It cannot say what a row held, so 'delete' takes out   *)
(* the tokens of the values it is given, and no others.                    *)

NoRows == [rows |-> {}, postings |-> {}]
Postings(rowid, values) ==
    UNION {{<<rowid, f, token>> : token \in values[f]} : f \in DOMAIN values}
FtsInsert(fts, rowid, values) ==
    [rows |-> fts.rows \cup {rowid}, postings |-> fts.postings \cup Postings(rowid, values)]
FtsDelete(fts, rowid, values) ==
    [rows |-> fts.rows \ {rowid}, postings |-> fts.postings \ Postings(rowid, values)]
FtsTokens(fts, rowid) == {p[3] : p \in {q \in fts.postings : q[1] = rowid}}

\* A MATCH expression is evaluated from the left, and the implicit AND binds tighter than NOT: the
\* terms up to the first NOT must all be there, and for no NOT all those from it to the next.
Read(expression) ==
    LET nots == {i \in DOMAIN expression : expression[i].not}
        upTo(i) == Min({j \in nots : j > i} \cup {Len(expression) + 1}) - 1
        terms(i) == {expression[j].term : j \in i..upTo(i)}
    IN  [must |-> terms(1), nots |-> {terms(i) : i \in nots}]
Matches(tokens, match) ==
    LET all(terms) == \A t \in terms : t \cap tokens # {}
    IN  all(match.must) /\ \A terms \in match.nots : ~all(terms)

-----------------------------------------------------------------------------
(* Storage.                                                                *)

NoIndex == [schema |-> {}]
Exists(name) == indices[name] # NoIndex
NewIndex(schema) ==
    [schema |-> schema, docs |-> Empty, docmap |-> Empty, fts |-> NoRows, sugs |-> Empty]

EncodeFtsFieldValues(schema, fields) ==
    [f \in schema |-> IF f \in DOMAIN fields THEN fields[f] ELSE {}]

\* Mutant: the rowids of an old database are given again.
AllocateNext(x, max) == max + 1
AllocateFtsRowid(x, max) == Max(Range(x.docmap) \cup {max}) + 1

\* Mutant: the values in the index are taken for those that replace them.
ForgetNew(x, doc, fields) ==
    FtsDelete(x.fts, x.docmap[doc], EncodeFtsFieldValues(x.schema, fields))
\* What is left of the index without the old text of a document.
Forget(x, doc, fields) ==
    IF doc \in DOMAIN x.docs
      THEN FtsDelete(x.fts, x.docmap[doc], EncodeFtsFieldValues(x.schema, x.docs[doc]))
      ELSE x.fts

CanAdd(x, doc, replace, fields) ==
    DOMAIN fields \subseteq x.schema /\ (doc \in DOMAIN x.docmap => replace)
AddDocument(x, doc, fields, rowid) ==
    LET fts == IF doc \in DOMAIN x.docmap THEN Forget(x, doc, fields) ELSE x.fts
    IN  [x EXCEPT !.docmap = With(@, doc, rowid),
                  !.docs = With(@, doc, fields),
                  !.fts = FtsInsert(fts, rowid, EncodeFtsFieldValues(x.schema, fields))]

DeleteDocument(x, doc) ==
    [x EXCEPT !.docmap = Without(@, doc), !.docs = Without(@, doc), !.fts = Forget(x, doc, Empty)]

-----------------------------------------------------------------------------
(* Queries.  A query is a sequence of words; a word is the terms that its  *)
(* hyphens separate, or one term behind a leading minus.                   *)

\* The tokens of the MATCH expression: terms, some of them behind a NOT; the first must not be.
BuildMatchExpression(query) ==
    FlattenSeq([i \in DOMAIN query |-> [j \in DOMAIN query[i].terms |->
        [not |-> query[i].minus, term |-> query[i].terms[j]]]])
ValidQuery(query) ==
    /\ query # <<>> /\ ~query[1].minus
    /\ \A i \in DOMAIN query : query[i].minus => Len(query[i].terms) = 1

\* FT.SEARCH matches the tokens of the rows that docmap has; hits are those of them that join docs.
Searched(x) == [d \in DOMAIN x.docmap |-> FtsTokens(x.fts, x.docmap[d])]

-----------------------------------------------------------------------------
(* Commands.                                                               *)

\* The schemas a client may ask for, all of them text.
Schemas == {s \in SUBSET Fields : Payload \in s}

\* An old database has the index with documents, numbered, and nothing in the allocator.
Legacy(name) ==
    \E docs \in SUBSET LegacyDocs, schema \in Schemas :
      \E text \in [docs -> Texts], rowids \in [docs -> 1..Cardinality(LegacyDocs)] :
        LET fields == [d \in docs |-> [f \in {Payload} |-> text[d]]]
        IN  /\ IsInjective(rowids)
            /\ indices = [n \in Names |-> IF n # name THEN NoIndex ELSE
                 [NewIndex(schema) EXCEPT
                    !.docs = fields, !.docmap = rowids,
                    !.fts = [rows |-> Range(rowids),
                             postings |-> UNION {Postings(rowids[d], fields[d]) : d \in docs}]]]
SearchInit ==
    /\ \/ indices = [n \in Names |-> NoIndex]
       \/ \E n \in Names : Legacy(n)
    /\ allocated = 0 /\ ops = 0

Counted == ops < MaxOps /\ ops' = ops + 1
PutIndex(name, x) == indices' = [indices EXCEPT ![name] = x]

FtCreate(name, schema) ==
    /\ Counted
    /\ ~Exists(name)
    /\ PutIndex(name, NewIndex(schema))
    /\ UNCHANGED allocated
FtAdd(name, doc, replace, fields) ==
    LET rowid == AllocateFtsRowid(indices[name], allocated)
    IN  /\ Counted
        /\ Exists(name) /\ CanAdd(indices[name], doc, replace, fields)
        /\ PutIndex(name, AddDocument(indices[name], doc, fields, rowid))
        /\ allocated' = rowid
FtDel(name, doc) ==
    /\ Counted
    /\ Exists(name) /\ doc \in DOMAIN indices[name].docmap
    /\ PutIndex(name, DeleteDocument(indices[name], doc))
    /\ UNCHANGED allocated
SuggestionAdd(x, term, score, incr) ==
    [x EXCEPT !.sugs = With(@, term, IF incr /\ term \in DOMAIN @ THEN @[term] + score ELSE score)]
FtSugadd(name, term, score, incr) ==
    LET x == SuggestionAdd(indices[name], term, score, incr)
    IN  /\ Counted
        /\ Exists(name)
        /\ x.sugs[term] \in Scores
        /\ PutIndex(name, x)
        /\ UNCHANGED allocated
FtSugdel(name, term) ==
    /\ Counted
    /\ Exists(name) /\ term \in DOMAIN indices[name].sugs
    /\ PutIndex(name, [indices[name] EXCEPT !.sugs = Without(@, term)])
    /\ UNCHANGED allocated
\* FLUSHDB drops the tables of every index, and the ids of the allocator.
ClearSearchData ==
    /\ Counted
    /\ indices' = [n \in Names |-> NoIndex]
    /\ allocated' = 0

Command ==
    \/ \E name \in Names :
         \/ \E schema \in Schemas : FtCreate(name, schema)
         \/ \E doc \in DocIds, replace \in BOOLEAN, fields \in Documents :
              FtAdd(name, doc, replace, fields)
         \/ \E doc \in DocIds : FtDel(name, doc)
         \/ \E term \in Terms, score \in Scores, incr \in BOOLEAN : FtSugadd(name, term, score, incr)
         \/ \E term \in Terms : FtSugdel(name, term)
    \/ ClearSearchData

-----------------------------------------------------------------------------
(* Properties.                                                             *)

\* Each index has documents over its schema, and scores.
SearchTypeOK ==
    /\ allocated \in Nat /\ ops \in 0..MaxOps
    /\ \A n \in Names : Exists(n) =>
         LET x == indices[n]
         IN  /\ x.schema \in Schemas
             /\ DOMAIN x.docs \subseteq DocIds /\ DOMAIN x.docmap \subseteq DocIds
             /\ \A d \in DOMAIN x.docs : /\ DOMAIN x.docs[d] \subseteq x.schema
                                        /\ Range(x.docs[d]) \subseteq Texts
             /\ DOMAIN x.docs = DOMAIN x.docmap
             /\ IsInjective(x.docmap) /\ Range(x.docmap) \subseteq Nat \ {0}
             /\ DOMAIN x.sugs \subseteq Terms /\ Range(x.sugs) \subseteq Scores

\* Queries of one word, with a minus word behind it or two, and how FTS5 reads their expressions.
Tokens == UNION Texts
OneToken == {{t} : t \in Tokens}
QueryTerms == OneToken \cup {Tokens}
Word(terms) == [minus |-> FALSE, terms |-> terms]
Words == {Word(s) : s \in {<<t>> : t \in QueryTerms} \cup (OneToken \X OneToken)}
MinusWords == {[minus |-> TRUE, terms |-> <<t>>] : t \in QueryTerms}
Queries ==
    {<<w>> : w \in Words} \cup (Words \X MinusWords)
      \cup ({Word(<<Tokens>>)} \X MinusWords \X MinusWords)
Match == {<<q, Read(BuildMatchExpression(q))>> : q \in {r \in Queries : ValidQuery(r)}}

\* What a query asks of a text: every term of its words, no term behind a minus.
Asked(query, text) ==
    \A i \in DOMAIN query, j \in 1..2 : j \in DOMAIN query[i].terms =>
        (query[i].minus <=> query[i].terms[j] \cap text = {})

QueriesAreRead ==
    \A m \in Match, text \in SUBSET Tokens : Matches(text, m[2]) <=> Asked(m[1], text)

\* spec/09: FT.SEARCH finds the documents whose present text has the terms of the query, whatever
\* was added, replaced and deleted before under the same id or with the same rowid, and counts the
\* same.  The index cannot forget by itself: each writer must take out exactly what an earlier one
\* put in, of a document whose present text only docs has, under a rowid only docmap has.
SearchAnswersQueries ==
    /\ QueriesAreRead
    /\ \A n \in Names : Exists(n) =>
         LET x == indices[n]
         IN  /\ Searched(x) = [d \in DOMAIN x.docs |-> UNION Range(x.docs[d])]
             /\ x.fts.rows = Range(x.docmap)
             /\ {p[1] : p \in x.fts.postings} \subseteq x.fts.rows
=============================================================================

--------------------------- MODULE SearchMigration ---------------------------
(***************************************************************************)
(* Importing the search indices of a Redis server (migration/              *)
(* migrate-search.js) into a database that clients use at the same time.   *)
(* The job awaits the source for every page of keys and for every hash;    *)
(* meanwhile the source and the destination may change, and a signal may   *)
(* come.  A run that a signal or an error ended may be repeated.           *)
(***************************************************************************)
EXTENDS Search

CONSTANTS
    Attributes,     \* of the source's indices: [identifier, name, text], in order
    SourceHashes,   \* that keys of the source may have: identifiers -> Texts
    KeyPrefixes,       \* of the source's indices: a sequence of sets of keys
    Other,          \* a value of the source that is not a hash
    SourceSugs,     \* term -> score
    SkipExisting, BatchDocs    \* the options

ASSUME SearchMigrationAssumption ==
    /\ Len(Attributes) \in Nat /\ DOMAIN Attributes = 1..Len(Attributes)
    /\ \A i \in DOMAIN Attributes : Attributes[i].name \in Fields
    /\ Empty \notin SourceHashes /\ Other \notin SourceHashes
    /\ \A hash \in SourceHashes : Range(hash) \subseteq Texts
    /\ \A some \in SUBSET Texts : UNION some \in Texts   \* texts are joined
    /\ KeyPrefixes \in Seq(SUBSET DocIds)
    /\ DOMAIN SourceSugs \subseteq Terms /\ Range(SourceSugs) \subseteq Scores \ {0}
    /\ SkipExisting \in BOOLEAN
    /\ BatchDocs \in Nat \ {0}

VARIABLES
    source,      \* key -> its hash, Absent or Other
    phase,       \* of the job
    targets,     \* indices still to import
    current,     \* the index being imported
    prefixes,    \* of current still to scan, the present one first
    owed,        \* keys that the present scan must still give
    page,        \* keys of the last page still to read
    read,        \* pendingHashData without its clear(): every hash the job took
    empty,       \* the keys of seenKeys that had none
    pending,     \* pendingKeys
    counts,      \* docsImported, docsSkipped, docErrors
    aborted,     \* abortRequested
    changed,     \* history: keys of the source changed since the import of current began
    touched      \* history: documents that clients changed since then

jobVars == <<phase, targets, current, prefixes, page, read, empty, pending, counts>>
vars == <<searchVars, source, jobVars, owed, aborted, changed, touched>>

\* HGETALL answers the same for a key that is not there as for a hash without fields.
Absent == Empty
Values == SourceHashes \cup {Absent, Other}
NoCounts == [imported |-> 0, skipped |-> 0, errors |-> 0]

Init ==
    /\ SearchInit
    /\ source = [k \in DocIds |-> Absent]
    /\ phase = "idle" /\ targets = {} /\ current \in Names
    /\ prefixes = <<>> /\ owed = {} /\ page = {}
    /\ read = Empty /\ empty = {} /\ pending = <<>> /\ counts = NoCounts
    /\ aborted = FALSE /\ changed = {} /\ touched = {}

\* The variables of one index are gone.
Forgotten ==
    /\ prefixes' = <<>> /\ owed' = {} /\ page' = {}
    /\ read' = Empty /\ empty' = {} /\ pending' = <<>> /\ counts' = NoCounts
    /\ changed' = {} /\ touched' = {}

-----------------------------------------------------------------------------
(* Schemas and documents.                                                  *)

\* The attributes that become a field: those that can be text, the first of each name.
MapFields ==
    {i \in DOMAIN Attributes :
        /\ Attributes[i].text
        /\ \A j \in 1..(i - 1) : Attributes[j].text => Attributes[j].name # Attributes[i].name}
Schema == {Attributes[i].name : i \in MapFields} \cup {Payload}

\* The text that a hash has for an attribute.
Text(hash, i) ==
    IF Attributes[i].identifier \in DOMAIN hash THEN hash[Attributes[i].identifier] ELSE {}
Twins(i) == {j \in MapFields : Attributes[j].identifier = Attributes[i].identifier}
\* fieldMap has one entry for an identifier: its last field gets the text, the others are empty.
FieldMap == {i \in MapFields : \A j \in Twins(i) : j <= i}

\* The fields of a document.  One without a payload gets all other text as its payload.
BuildDocFields(hash) ==
    LET value(f) == UNION {Text(hash, i) : i \in {j \in FieldMap : Attributes[j].name = f}}
    IN  [f \in Schema |-> IF f = Payload /\ value(f) = {} THEN UNION {value(g) : g \in Schema}
                                                          ELSE value(f)]

-----------------------------------------------------------------------------
(* The batch.                                                              *)

\* An index and the last rowid, after one more document was added, or failed.
AddNext(acc, doc, failing, hashes) ==
    LET rowid == AllocateFtsRowid(acc.index, acc.max)
    IN  IF doc \in failing THEN acc
        ELSE [index |-> AddDocument(acc.index, doc, BuildDocFields(hashes[doc]), rowid), max |-> rowid]
AddAll(x, max, docs, failing, hashes) ==
    LET added[n \in 0..Len(docs)] ==
          IF n = 0 THEN [index |-> x, max |-> max]
          ELSE AddNext(added[n - 1], docs[n], failing, hashes)
    IN  added[Len(docs)]
Import(docs, failing, hashes) ==
    LET all == AddAll(indices[current], allocated, docs, failing, hashes)
    IN  IF Range(docs) \subseteq failing THEN UNCHANGED <<indices, allocated>>
        ELSE PutIndex(current, all.index) /\ allocated' = all.max

\* The index is there, with the fields of every document.
CanImport == Exists(current) /\ Schema \subseteq indices[current].schema

\* Mutant: a transaction that failed counts as done.
FlushBatchOnce(docs, hashes, soFar) ==
    /\ \/ CanImport /\ Import(docs, {}, hashes) /\ UNCHANGED ops
       \/ Counted /\ UNCHANGED <<indices, allocated>>
    /\ counts' = [soFar EXCEPT !.imported = @ + Len(docs)]
    /\ pending' = <<>>
\* The documents go in by one transaction and, when that fails, one by one: then none does if the
\* index is not fit for them, and any may fail that the database refuses.
FlushBatch(docs, hashes, soFar) ==
    \E failing \in SUBSET Range(docs) :
      /\ IF ~CanImport THEN failing = Range(docs) /\ UNCHANGED ops
         ELSE IF failing = {} THEN UNCHANGED ops ELSE Counted
      /\ Import(docs, failing, hashes)
      /\ counts' = [soFar EXCEPT !.imported = @ + Len(docs) - Cardinality(failing),
                                 !.errors = @ + Cardinality(failing)]
      /\ pending' = <<>>

-----------------------------------------------------------------------------
(* Steps of the job.                                                       *)

\* runMigrateSearch opens the database; FT._LIST answers, or fails and there is nothing to do.
\* What the source holds is chosen here: before the first run nobody looks at it.
Start ==
    /\ phase \in {"idle", "ended", "failed"}
    /\ IF phase = "idle" THEN UNCHANGED ops ELSE Counted
    /\ phase' = "next" /\ aborted' = FALSE
    /\ targets' \in SUBSET Names
    /\ IF phase = "idle" THEN source' \in [DocIds -> Values] ELSE UNCHANGED source
    /\ UNCHANGED <<indices, allocated, current, prefixes, owed, page, read, empty, pending,
                   counts, changed, touched>>

\* The name is wrong, FT.INFO or FT.CREATE fails, the keys are no hashes, or the index is there
\* and must not be.
Rejected(n) ==
    /\ phase = "next" /\ ~aborted /\ n \in targets
    /\ targets' = targets \ {n}
    /\ UNCHANGED <<searchVars, source, phase, current, prefixes, owed, page, read,
                   empty, pending, counts, aborted, changed, touched>>

Begin(n) ==
    /\ phase = "next" /\ ~aborted /\ n \in targets
    /\ Exists(n) => SkipExisting
    /\ indices' = IF Exists(n) THEN indices ELSE [indices EXCEPT ![n] = NewIndex(Schema)]
    /\ targets' = targets \ {n} /\ current' = n
    /\ phase' = "prefix" /\ prefixes' = KeyPrefixes
    /\ UNCHANGED <<allocated, ops, source, owed, page, read, empty, pending, counts, aborted,
                   changed, touched>>

Present(keys) == {k \in keys : source[k] # Absent}

\* SCAN gives keys that are there, some again, and each that is there all the time at least once
\* before its cursor is 0.  Pages with nothing new are left out but for the last.
GetPage(due) ==
    \E keys \in SUBSET Present(Head(prefixes)) :
        /\ due \cap keys # {} \/ due = {}
        /\ page' = keys /\ owed' = due \ keys
Scan ==
    /\ ~aborted /\ prefixes # <<>>
    /\ \/ phase = "prefix" /\ GetPage(Present(Head(prefixes)))
       \/ phase = "scan" /\ GetPage(owed)
    /\ phase' = "reading"
    /\ UNCHANGED <<searchVars, source, targets, current, prefixes, read, empty,
                   pending, counts, aborted, changed, touched>>
\* The page is done: the next one, or the next prefix when the cursor is 0.
PageDone ==
    /\ phase = "reading" /\ page = {}
    /\ IF owed = {} THEN phase' = "prefix" /\ prefixes' = Tail(prefixes)
                    ELSE phase' = "scan" /\ UNCHANGED prefixes
    /\ UNCHANGED <<searchVars, source, targets, current, owed, page, read, empty,
                   pending, counts, aborted, changed, touched>>
\* A SCAN that fails ends the run with an exception: what is pending is lost.
ScanFails ==
    /\ phase \in {"prefix", "scan"} /\ ~aborted /\ prefixes # <<>>
    /\ phase' = "failed" /\ Forgotten
    /\ UNCHANGED <<searchVars, source, targets, current, aborted>>

\* HGETALL of the next key of the page.
TakeHash(k) ==
    LET hashes == With(read, k, source[k])
        docs == Append(pending, k)
    IN  /\ source[k] \in SourceHashes
        /\ read' = hashes
        /\ IF Len(docs) >= BatchDocs THEN FlushBatch(docs, hashes, counts)
           ELSE pending' = docs /\ UNCHANGED <<indices, allocated, ops, counts>>
        /\ UNCHANGED empty
ReadKey(k) ==
    /\ phase = "reading" /\ ~aborted /\ k \in page
    /\ page' = page \ {k}
    /\ \/ /\ IF source[k] = Other THEN UNCHANGED ops ELSE Counted
          /\ counts' = [counts EXCEPT !.errors = @ + 1]
          /\ UNCHANGED <<indices, allocated, read, empty, pending>>
       \/ /\ k \in DOMAIN read \cup empty /\ source[k] # Other
          /\ UNCHANGED <<searchVars, read, empty, pending, counts>>
       \/ /\ k \notin DOMAIN read \cup empty
          /\ \/ TakeHash(k)
             \/ /\ source[k] = Absent
                /\ empty' = empty \cup {k}
                /\ counts' = [counts EXCEPT !.skipped = @ + 1]
                /\ UNCHANGED <<searchVars, read, pending>>
    /\ UNCHANGED <<source, phase, targets, current, prefixes, owed, aborted,
                   changed, touched>>

\* After the last prefix, or at the first check that sees the signal.
Finish ==
    /\ \/ phase = "prefix" /\ prefixes = <<>>
       \/ phase \in {"prefix", "scan", "reading"} /\ aborted
    /\ FlushBatch(pending, read, counts)
    /\ phase' = IF aborted THEN "result" ELSE "sugs"
    /\ UNCHANGED <<source, targets, current, prefixes, owed, page, read, empty,
                   aborted, changed, touched>>

\* FT.SUGGET answers or fails; into an index that is gone nothing goes.
ImportSuggestions ==
    /\ phase = "sugs" /\ phase' = "result"
    /\ \/ UNCHANGED indices
       \/ /\ Exists(current)
          /\ PutIndex(current, [indices[current] EXCEPT
               !.sugs = [t \in DOMAIN @ \cup DOMAIN SourceSugs |->
                           IF t \in DOMAIN SourceSugs THEN SourceSugs[t] ELSE @[t]]])
    /\ UNCHANGED <<allocated, ops, source, targets, current, prefixes, owed, page,
                   read, empty, pending, counts, aborted, changed, touched>>

\* The result is stored, and the loop goes on to the next index or ends.
Proceed ==
    /\ phase = "result" /\ phase' = "next" /\ Forgotten
    /\ UNCHANGED <<searchVars, source, targets, current, aborted>>
End ==
    /\ phase = "next" /\ (aborted \/ targets = {})
    /\ phase' = "ended"
    /\ UNCHANGED <<searchVars, source, targets, current, prefixes, owed, page, read, empty,
                   pending, counts, aborted, changed, touched>>

Job ==
    \/ \E n \in Names : Rejected(n) \/ Begin(n)
    \/ Scan \/ PageDone \/ ScanFails \/ Finish \/ ImportSuggestions \/ Proceed \/ End
    \/ \E k \in DocIds : ReadKey(k)

-----------------------------------------------------------------------------
(* The rest of the world.                                                  *)

Importing == phase \in {"prefix", "scan", "reading", "sugs", "result"}

Signal ==
    /\ phase \notin {"idle", "ended", "failed"} /\ ~aborted
    /\ aborted' = TRUE
    /\ UNCHANGED <<searchVars, source, jobVars, owed, changed, touched>>

\* Someone writes a key of the source; one that was deleted is owed by no scan.
SourceWrites(k, value) ==
    /\ Counted
    /\ phase # "idle" /\ source[k] # value
    /\ source' = [source EXCEPT ![k] = value]
    /\ owed' = IF value = Absent THEN owed \ {k} ELSE owed
    /\ changed' = IF Importing THEN changed \cup {k} ELSE changed
    /\ UNCHANGED <<indices, allocated, jobVars, aborted, touched>>

\* What an index has of a document: its fields, once or not at all.
Doc(x, doc) == IF x # NoIndex /\ doc \in DOMAIN x.docs THEN {x.docs[doc]} ELSE {}
Client ==
    /\ Command
    /\ touched' = touched \cup {d \in DocIds :
         Importing /\ Doc(indices[current], d) # Doc(indices'[current], d)}
    /\ UNCHANGED <<source, jobVars, owed, aborted, changed>>

Next ==
    \/ Start \/ Job \/ Signal \/ Client
    \/ \E k \in DocIds, value \in Values : SourceWrites(k, value)

Spec == Init /\ [][Next]_vars

-----------------------------------------------------------------------------
(* Properties.                                                             *)

\* The state of the job.
TypeOK ==
    /\ SearchTypeOK
    /\ source \in [DocIds -> Values]
    /\ phase \in {"idle", "next", "prefix", "scan", "reading", "sugs", "result", "ended", "failed"}
    /\ targets \subseteq Names /\ current \in Names
    /\ \E n \in 1..(Len(KeyPrefixes) + 1) : prefixes = SubSeq(KeyPrefixes, n, Len(KeyPrefixes))
    /\ owed \subseteq DocIds /\ page \subseteq DocIds
    /\ DOMAIN read \subseteq DocIds /\ Range(read) \subseteq SourceHashes
    /\ empty \subseteq DocIds \ DOMAIN read
    /\ Range(pending) \subseteq DOMAIN read /\ IsInjective(pending) /\ Len(pending) < BatchDocs
    /\ DOMAIN counts = DOMAIN NoCounts /\ Range(counts) \subseteq Nat
    /\ aborted \in BOOLEAN /\ changed \subseteq DocIds /\ touched \subseteq DocIds

\* What a document made of a hash must have: each text of the hash that an attribute names, in
\* a field of that identifier; no other text; and as its payload its own or, without that, the
\* text of the other fields.
Represents(doc, hash) ==
    /\ DOMAIN doc = Schema
    /\ \A i \in MapFields : Text(hash, i) # {} =>
         \E j \in Twins(i) : doc[Attributes[j].name] = Text(hash, i)
    /\ \A f \in Schema :
         LET own == {Text(hash, i) : i \in {j \in MapFields : Attributes[j].name = f}}
         IN  IF f = Payload
               THEN doc[f] \in (own \ {{}}) \cup {UNION {doc[g] : g \in Schema \ {Payload}}}
               ELSE doc[f] \in own \cup {{}}

\* migrate-search.js:12,380 "finishes the current document", "to minimise data loss": when the
\* result of an index is reported, each hash that was taken is in the index, its texts in fields
\* of theirs, or counted as an error; and without a signal the hashes taken are all there were
\* under the prefixes, overlapping or not, for the whole scan.  Documents that clients wrote
\* meanwhile are theirs.  Of several fields of one identifier, at least one has the text.
MigratedOrReported ==
    phase = "result" =>
      LET steady == {k \in (UNION Range(KeyPrefixes)) \ changed : source[k] # Absent}
          wanted == DOMAIN read \cup (IF aborted THEN {} ELSE steady)
          there(k) == k \in DOMAIN read /\ \E d \in Doc(indices[current], k) : Represents(d, read[k])
      IN  /\ Cardinality({k \in wanted \ touched : ~there(k)}) <= counts.errors
          /\ \A k \in DOMAIN read \ changed : read[k] = source[k]
          /\ counts.imported + counts.skipped + counts.errors >= Cardinality(DOMAIN read \cup empty)
=============================================================================

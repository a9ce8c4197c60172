--------------------------- MODULE MigrationProofs ---------------------------
(***************************************************************************)
(* The migration loses no change, for every set of keys, every page and    *)
(* batch size, every fault and any number of writes and restarts: a key    *)
(* that differs between source and destination is still to be imported,    *)
(* tracked, logged, or among those of lost.  applyDirty starts with the    *)
(* source at rest (PreDelta is FALSE): without that TLC refutes it.        *)
(*                                                                         *)
(* The inductive invariant says what holds between two awaits: what an     *)
(* import has read is the source's value or the key has an event, a key    *)
(* seen deleted is gone or has an event, the batches of applyDirty are     *)
(* still marked as they were read.                                         *)
(***************************************************************************)
EXTENDS Migration, FiniteSetTheorems, SequenceTheorems, TLAPS

-----------------------------------------------------------------------------
(* Types that the proof needs beyond TypeOK: which values a database may    *)
(* hold, and what the record of the operation in progress is.               *)

\* Each of the databases is a map of the keys to values that it may hold.
Database(db) ==
    /\ db = [k \in Keys |-> db[k]]
    /\ \A k \in Keys : db[k] = None \/ Storable(db[k])

Stages == {"ask", "type", "value", "write"} \cup Outcomes
Imports(chunk) ==
    /\ DOMAIN chunk \subseteq Keys
    /\ chunk = [k \in DOMAIN chunk |-> chunk[k]]
    /\ \A k \in DOMAIN chunk :
         /\ chunk[k] = Asked(chunk[k].at, chunk[k].type, chunk[k].val)
         /\ chunk[k].at \in Stages
         /\ chunk[k].at = "value" => chunk[k].type \in Types
         /\ chunk[k].at = "write" => chunk[k].val # None /\ Storable(chunk[k].val)

JobTyped(j) ==
    /\ j \in [task : {"idle", "bulk", "predelta", "apply"},
              at : {"top", "chunk", "keys", "deleted"}, held : BOOLEAN,
              cursor : 0..Pages - 1, todo : SUBSET Keys, deletedBatch : SUBSET Keys,
              chunk : {j.chunk}]
    /\ Imports(j.chunk)

Typed ==
    /\ Database(src) /\ Database(dest)
    /\ frozen \in BOOLEAN /\ tracking \in BOOLEAN /\ signal \in BOOLEAN
    /\ events \in Seq(Keys \X {"write", "del"})
    /\ dirty \in [Keys -> {None, "dirty", "deleted", "applied", "skipped", "error"}]
    /\ errlog \subseteq Keys /\ lost \subseteq Keys
    /\ run \in [status : {"running", "paused", "completed", "failed", "aborted"},
                cursor : 0..Pages - 1]
    /\ step \in {"start", "imported", "reconciled"}
    /\ JobTyped(job)

(* The phases: which task may run when, and what rests meanwhile.           *)
Phases ==
    /\ job.task = "idle" => job.at = "top"
    /\ job.task = "bulk" => step = "start" /\ job.at # "deleted"
    /\ job.task = "bulk" /\ job.at = "top" => job.todo = {}
    /\ job.task \in {"apply", "predelta"} => step = "imported"
    /\ job.task = "apply" \/ step = "reconciled" => frozen /\ events = <<>>
    /\ step = "reconciled" => job.task = "idle"
    /\ job.at # "keys" => InFlight = {}
    /\ job.todo \cap InFlight = {}

(* A key that is in the source though it was seen deleted was written since. *)
Rewritten(ev, k, n) == \E j \in DOMAIN ev : j > n /\ ev[j] = <<k, "write">>
Tells(ev, state, k) ==
    /\ state = "deleted" => Rewritten(ev, k, 0)
    /\ \A i \in DOMAIN ev : ev[i] = <<k, "del">> => Rewritten(ev, k, i)
EventsTell == \A k \in Keys \ lost : src[k] # None => Tells(events, dirty[k], k)

Known(k) == Tracked(k) \/ Failed(k) \/ k \in lost
Good(k) == Covers(dest[k], src[k]) \/ Known(k)

(* What the bulk import knows of the key it imports. *)
BulkKey(k) ==
    /\ job.chunk[k].at \notin {"ask", "gone"}
    /\ job.chunk[k].at = "write" => job.chunk[k].val = src[k] \/ Known(k)
    /\ job.chunk[k].at \in {"ok", "skipped"} => Good(k)
(* ... and applyDirty, for which the source rests. *)
ApplyKey(k) ==
    /\ job.chunk[k].at # "skipped"
    /\ job.chunk[k].at \in {"type", "value", "write"} => src[k] # None
    /\ job.chunk[k].at = "write" => job.chunk[k].val = src[k]
    /\ job.chunk[k].at = "ok" => Covers(dest[k], src[k])
    /\ job.chunk[k].at = "gone" => src[k] = None
InFlightKnown ==
    \A k \in InFlight : /\ job.task = "bulk" => BulkKey(k)
                        /\ job.task = "apply" => ApplyKey(k)
BatchesTracked ==
    job.task = "apply" =>
      /\ \A k \in job.todo \cup InFlight : dirty[k] = "dirty"
      /\ \A k \in job.deletedBatch : dirty[k] = "deleted"

(* A key that is in the destination only is known to be. *)
LeftoversKnown == \A k \in Keys : dest[k] # None /\ src[k] = None => Known(k)
ErrorsLogged == \A k \in Keys : dirty[k] = "error" => k \in errlog

-----------------------------------------------------------------------------
(* Values and what an import makes of them.                                *)

\* A value is a record of a type and a bag, and is not None.
LEMMA StorableValue ==
    ASSUME NEW v, Storable(v)
    PROVE  /\ v # None
           /\ v = [type |-> v.type, data |-> v.data]
           /\ v.type \in Types
           /\ DOMAIN v.data \subseteq Parts
           /\ v.data \in [DOMAIN v.data -> Nat \ {0}]
           /\ v.type = "list" \/ \A e \in DOMAIN v.data : v.data[e] = 1
<1>1. PICK S \in SUBSET Parts : v \in Contents(S)
  BY DEF Storable
<1>2. v # None
  BY <1>1, MigrationAssumption
<1>. QED
  BY <1>1, <1>2 DEF Storable, Contents

\* Such a record is a value.
LEMMA StorableRecord ==
    ASSUME NEW t \in Types, NEW S \in SUBSET Parts, NEW B \in [S -> Nat \ {0}],
           t = "list" \/ \A e \in S : B[e] = 1
    PROVE  Storable([type |-> t, data |-> B])
BY DEF Storable, Contents

\* Importing a value into a key of its type, or into none, gives a value that has all of it.
LEMMA MergedCovers ==
    ASSUME NEW old, NEW new, old = None \/ Storable(old), Storable(new), Writable(old, new)
    PROVE  Storable(Merged(old, new)) /\ Covers(Merged(old, new), new)
<1>. /\ new # None
     /\ new = [type |-> new.type, data |-> new.data]
     /\ new.type \in Types
     /\ DOMAIN new.data \subseteq Parts
     /\ new.data \in [DOMAIN new.data -> Nat \ {0}]
     /\ new.type = "list" \/ \A e \in DOMAIN new.data : new.data[e] = 1
  BY StorableValue
<1>1. CASE old = None \/ new.type = "string"
  <2>1. Merged(old, new) = new
    BY <1>1 DEF Merged
  <2>. QED
    BY <2>1 DEF Covers, \sqsubseteq
<1>2. CASE old # None /\ new.type = "list"
  <2>1. /\ DOMAIN old.data \subseteq Parts
        /\ old.data \in [DOMAIN old.data -> Nat \ {0}]
    BY <1>2, StorableValue
  <2>. DEFINE B == old.data (+) new.data
  <2>2. Merged(old, new) = [type |-> "list", data |-> B]
    BY <1>2 DEF Merged
  <2>3. B \in [DOMAIN old.data \cup DOMAIN new.data -> Nat \ {0}]
    BY <2>1 DEF (+)
  <2>4. Storable([type |-> "list", data |-> B])
    BY <2>1, <2>3, StorableRecord DEF Types
  <2>5. new.data \sqsubseteq B
    BY <2>1 DEF (+), \sqsubseteq
  <2>6. Merged(old, new) # None
    BY <2>2, <2>4, StorableValue
  <2>. HIDE DEF B
  <2>. QED
    BY <1>2, <2>2, <2>4, <2>5, <2>6 DEF Covers
<1>3. CASE old # None /\ new.type = "set"
  <2>1. DOMAIN old.data \subseteq Parts
    BY <1>3, StorableValue
  <2>. DEFINE S == DOMAIN old.data \cup DOMAIN new.data
              B == [e \in S |-> 1]
  <2>2. Merged(old, new) = [type |-> "set", data |-> B]
    BY <1>3 DEF Merged, SetToBag, BagToSet
  <2>3. Storable([type |-> "set", data |-> B])
    BY <2>1, StorableRecord DEF Types
  <2>4. new.data \sqsubseteq B
    BY <1>3 DEF \sqsubseteq
  <2>5. Merged(old, new) # None
    BY <2>2, <2>3, StorableValue
  <2>. HIDE DEF B
  <2>. QED
    BY <1>3, <2>2, <2>3, <2>4, <2>5 DEF Covers
<1>. QED
  BY <1>1, <1>2, <1>3 DEF Types

-----------------------------------------------------------------------------
(* Types.                                                                  *)

\* An idle job is a job.
LEMMA IdleTyped ==
    JobTyped(Idle) /\ DOMAIN Idle.chunk = {}
<1>1. Pages - 1 \in Nat
  BY MigrationAssumption
<1>2. Imports(NoKeys)
  BY DEF NoKeys, Imports
<1>. QED
  BY <1>1, <1>2 DEF JobTyped, Idle, NoKeys

\* What an import is at next is put in its place.
LEMMA ReplyTyped ==
    ASSUME JobTyped(job), NEW k \in InFlight, NEW s,
           Reply(k, s),
           s = Asked(s.at, s.type, s.val), s.at \in Stages,
           s.at = "value" => s.type \in Types,
           s.at = "write" => s.val # None /\ Storable(s.val)
    PROVE  /\ JobTyped(job')
           /\ InFlight' = InFlight
           /\ job' = [job EXCEPT !.chunk = job'.chunk]
           /\ job'.chunk[k] = s
           /\ \A j \in InFlight \ {k} : job'.chunk[j] = job.chunk[j]
<1>1. job' = [job EXCEPT !.chunk = [job.chunk EXCEPT ![k] = s]]
  BY DEF Reply
<1>2. job'.chunk = [job.chunk EXCEPT ![k] = s]
  BY <1>1 DEF JobTyped
<1>3. Imports(job.chunk)
  BY DEF JobTyped
<1>4. /\ DOMAIN job'.chunk = DOMAIN job.chunk
      /\ job'.chunk[k] = s
      /\ \A j \in InFlight \ {k} : job'.chunk[j] = job.chunk[j]
  BY <1>2, <1>3 DEF Imports, InFlight
<1>5. job'.chunk = [j \in DOMAIN job'.chunk |-> job'.chunk[j]]
  BY <1>2, <1>3 DEF Imports
<1>6. Imports(job'.chunk)
  BY <1>3, <1>4, <1>5 DEF Imports, InFlight
<1>7. job' = [job EXCEPT !.chunk = job'.chunk]
  BY <1>1, <1>2
<1>8. JobTyped(job')
  BY <1>6, <1>7 DEF JobTyped
<1>. QED
  BY <1>4, <1>7, <1>8 DEF InFlight

\* A chunk of fresh imports.
LEMMA FreshTyped ==
    ASSUME NEW c \in SUBSET Keys, NEW at \in {"ask", "type"}
    PROVE  Imports([k \in c |-> Asked(at, None, None)])
BY DEF Imports, Asked, Stages

\* The fields of an outcome or of a stage.
LEMMA AskedFields ==
    ASSUME NEW at, NEW type, NEW val
    PROVE  /\ Asked(at, type, val) = Asked(Asked(at, type, val).at, Asked(at, type, val).type,
                                           Asked(at, type, val).val)
           /\ Asked(at, type, val).at = at
           /\ Asked(at, type, val).type = type
           /\ Asked(at, type, val).val = val
BY DEF Asked

\* A value written to the source.
LEMMA SourceTyped ==
    ASSUME Database(src), NEW k \in Keys, NEW v, v = None \/ Storable(v),
           src' = [src EXCEPT ![k] = v]
    PROVE  Database(src') /\ \A j \in Keys : src'[j] = IF j = k THEN v ELSE src[j]
BY DEF Database

\* A new event, or a key lost.
LEMMA NotifyTyped ==
    ASSUME events \in Seq(Keys \X {"write", "del"}), lost \subseteq Keys,
           NEW k \in Keys, NEW e \in {"write", "del"}, Notify(k, e)
    PROVE  /\ events' \in Seq(Keys \X {"write", "del"}) /\ lost' \subseteq Keys
           /\ lost \subseteq lost'
           /\ \/ events' = Append(events, <<k, e>>)
              \/ events' = events /\ k \in lost'
<1>1. <<k, e>> \in Keys \X {"write", "del"}
  OBVIOUS
<1>2. CASE tracking
  BY <1>1, <1>2, AppendProperties DEF Notify
<1>3. CASE ~tracking
  BY <1>3 DEF Notify
<1>. QED
  BY <1>2, <1>3

\* The script that ends leaves an idle job; what it passes over is lost.
LEMMA ScriptEndsTyped ==
    ASSUME Typed, NEW cursor, ScriptEnds(cursor)
    PROVE  /\ job' = Idle /\ step' = "start" /\ signal' = FALSE /\ tracking' \in BOOLEAN
           /\ events' \in Seq(Keys \X {"write", "del"}) /\ lost' \subseteq Keys
           /\ lost \subseteq lost'
           /\ \A k \in Keys : ToImport(k) /\ PageOf[k] <= cursor => k \in lost'
           /\ \/ events' = events
              \/ /\ events' = <<>>
                 /\ \A i \in DOMAIN events : events[i][1] \in lost'
<1>. PICK t \in Trackers :
        LET dropped == IF t = "separate" THEN {} ELSE {events[i][1] : i \in DOMAIN events}
            passed == {k \in Keys : ToImport(k) /\ PageOf[k] <= cursor}
        IN /\ tracking' = (tracking /\ t = "separate")
           /\ events' = IF t = "separate" THEN events ELSE <<>>
           /\ lost' = lost \cup dropped \cup passed
  BY DEF ScriptEnds
<1>. DEFINE dropped == IF t = "separate" THEN {} ELSE {events[i][1] : i \in DOMAIN events}
            passed == {k \in Keys : ToImport(k) /\ PageOf[k] <= cursor}
<1>1. /\ tracking' = (tracking /\ t = "separate")
      /\ events' = IF t = "separate" THEN events ELSE <<>>
      /\ lost' = lost \cup dropped \cup passed
  OBVIOUS
<1>2. \A i \in DOMAIN events : events[i][1] \in Keys
  BY ElementOfSeq DEF Typed
<1>3. dropped \subseteq Keys
  BY <1>2
<1>4. t # "separate" => \A i \in DOMAIN events : events[i][1] \in dropped
  OBVIOUS
<1>5. \A k \in Keys : ToImport(k) /\ PageOf[k] <= cursor => k \in passed
  OBVIOUS
<1>6. passed \subseteq Keys
  OBVIOUS
<1>. HIDE DEF dropped, passed
<1>7. tracking' \in BOOLEAN
  BY <1>1
<1>8. events' \in Seq(Keys \X {"write", "del"})
  BY <1>1 DEF Typed
<1>9. lost' \subseteq Keys
  BY <1>1, <1>3, <1>6 DEF Typed
<1>. QED
  BY <1>1, <1>4, <1>5, <1>7, <1>8, <1>9 DEF ScriptEnds

\* The end of the bulk import, however it comes about.
LEMMA BulkEndTyped ==
    ASSUME Typed, BulkEnd
    PROVE  Typed' /\ job' = Idle
<1>1. CASE signal
  <2>1. ScriptEnds(job.cursor) /\ run' = [status |-> "aborted", cursor |-> job.cursor]
    BY <1>1 DEF BulkEnd
  <2>2. job.cursor \in 0..Pages - 1
    BY DEF Typed, JobTyped
  <2>3. /\ job' = Idle /\ step' = "start" /\ signal' = FALSE /\ tracking' \in BOOLEAN
        /\ events' \in Seq(Keys \X {"write", "del"}) /\ lost' \subseteq Keys
    BY <2>1, ScriptEndsTyped
  <2>4. UNCHANGED <<src, dest, dirty, errlog, frozen>>
    BY DEF BulkEnd, sourceVars
  <2>. QED
    BY <2>1, <2>2, <2>3, <2>4, IdleTyped DEF Typed
<1>2. CASE ~signal
  <2>1. lost' \subseteq Keys
    BY <1>2 DEF BulkEnd, Typed
  <2>2. run' = [status |-> "completed", cursor |-> 0] /\ 0 \in 0..Pages - 1
    BY <1>2, MigrationAssumption DEF BulkEnd
  <2>. QED
    BY <1>2, <2>1, <2>2, IdleTyped DEF BulkEnd, Typed, sourceVars, JobTyped
<1>. QED
  BY <1>1, <1>2 DEF Typed

\* A step of an import gives it a next stage, and changes at most the destination besides.
LEMMA ImportTyped ==
    ASSUME Typed, NEW k \in InFlight,
           AskGone(k) \/ AskType(k) \/ AskValue(k) \/ ImportWrite(k) \/ ReadFails(k)
    PROVE  Typed'
<1>1. k \in Keys /\ Database(src) /\ Database(dest) /\ JobTyped(job) /\ Imports(job.chunk)
  BY DEF Typed, JobTyped, Imports, InFlight
<1>2. src[k] # None => Storable(src[k]) /\ src[k].type \in Types
  BY <1>1, StorableValue DEF Database
<1>3. \A out \in Outcomes : Reply(k, Outcome(out)) => JobTyped(job')
  BY <1>1, ReplyTyped, AskedFields DEF Outcome, Outcomes, Stages
<1>4. Reply(k, Asked("type", None, None)) => JobTyped(job')
  BY <1>1, ReplyTyped, AskedFields DEF Stages
<1>5. src[k] # None /\ Reply(k, Asked("value", src[k].type, None)) => JobTyped(job')
  BY <1>1, <1>2, ReplyTyped, AskedFields DEF Stages
<1>6. src[k] # None /\ Reply(k, Asked("write", None, src[k])) => JobTyped(job')
  BY <1>1, <1>2, ReplyTyped, AskedFields DEF Stages
<1>7. UNCHANGED <<src, frozen, tracking, events, dirty, errlog, run, step, signal, lost>>
  BY DEF AskGone, AskType, AskValue, ImportWrite, ReadFails, ImportVars, sourceVars, registryVars
<1>8. JobTyped(job')
  <2>1. CASE AskGone(k)
    BY <2>1, <1>3, <1>4 DEF AskGone, Outcomes
  <2>2. CASE AskType(k)
    BY <2>2, <1>3, <1>5 DEF AskType, Outcomes
  <2>3. CASE AskValue(k)
    BY <2>3, <1>3, <1>6 DEF AskValue, Outcomes
  <2>4. CASE ImportWrite(k)
    BY <2>4, <1>3 DEF ImportWrite, WriteOutcome, Outcomes
  <2>5. CASE ReadFails(k)
    BY <2>5, <1>3 DEF ReadFails, Outcomes
  <2>. QED
    BY <2>1, <2>2, <2>3, <2>4, <2>5
<1>9. Database(dest')
  <2>1. CASE ImportWrite(k) /\ Writable(dest[k], job.chunk[k].val)
    <3>1. dest' = [dest EXCEPT ![k] = Merged(dest[k], job.chunk[k].val)]
      BY <2>1 DEF ImportWrite
    <3>2. job.chunk[k].at = "write" /\ Storable(job.chunk[k].val)
      BY <2>1, <1>1 DEF ImportWrite, Imports, InFlight
    <3>3. Storable(Merged(dest[k], job.chunk[k].val))
      BY <1>1, <2>1, <3>2, MergedCovers DEF Database
    <3>. QED
      BY <1>1, <3>1, <3>3 DEF Database
  <2>2. CASE dest' = dest
    BY <2>2, <1>1
  <2>. QED
    BY <2>1, <2>2 DEF AskGone, AskType, AskValue, ImportWrite, ReadFails
<1>. QED
  BY <1>7, <1>8, <1>9 DEF Typed

\* The loops of the bulk import.
LEMMA BulkTyped ==
    ASSUME Typed, BulkTop \/ BulkChunk \/ BulkResults
    PROVE  Typed'
<1>. /\ JobTyped(job) /\ Imports(job.chunk) /\ Imports(NoKeys)
  BY IdleTyped DEF Typed, JobTyped, Idle
<1>1. CASE BulkEnd
  BY <1>1, BulkEndTyped
<1>. USE DEF BulkVars, sourceVars
<1>2. ASSUME UNCHANGED <<BulkVars, errlog, run>>, JobTyped(job')
      PROVE  Typed'
  BY <1>2 DEF Typed
<1>3. CASE BulkTop /\ ~BulkEnd
  <2>1. CASE Hold
    BY <2>1, <1>2, <1>3 DEF BulkTop, Hold, JobTyped
  <2>2. CASE ~Hold
    <3>. DEFINE page == job.cursor + 1
                rest == {k \in Keys : PageOf[k] = page /\ src[k] # None}
                next == IF page = Pages THEN 0 ELSE page
    <3>1. /\ job' = [job EXCEPT !.at = "chunk", !.held = FALSE, !.cursor = next, !.todo = rest]
          /\ UNCHANGED <<BulkVars, errlog, run>>
      BY <1>3, <2>2 DEF BulkTop
    <3>2. next \in 0..Pages - 1
      BY MigrationAssumption DEF JobTyped
    <3>3. rest \subseteq Keys
      OBVIOUS
    <3>. HIDE DEF next, rest
    <3>. QED
      BY <1>2, <3>1, <3>2, <3>3 DEF JobTyped
  <2>. QED
    BY <2>1, <2>2
<1>4. CASE BulkChunk /\ ~BulkEnd
  <2>1. CASE Hold
    BY <2>1, <1>2, <1>4 DEF BulkChunk, Hold, JobTyped
  <2>2. CASE job' = [job EXCEPT !.at = "top"]
    BY <2>2, <1>2, <1>4 DEF BulkChunk, JobTyped
  <2>3. ASSUME NEW c \in Chunks(job.todo),
               job' = [job EXCEPT !.at = "keys", !.held = FALSE, !.todo = @ \ c,
                            !.chunk = [k \in c |-> Asked("type", None, None)]]
        PROVE  JobTyped(job')
    <3>. c \subseteq Keys
      BY DEF Chunks, JobTyped
    <3>1. Imports([k \in c |-> Asked("type", None, None)])
      BY FreshTyped
    <3>. QED
      BY <2>3, <3>1 DEF JobTyped
  <2>. QED
    BY <2>1, <2>2, <2>3, <1>2, <1>4 DEF BulkChunk
<1>5. CASE BulkResults
  <2>1. JobTyped(job')
    BY <1>5 DEF BulkResults, JobTyped
  <2>2. errlog' \subseteq Keys
    BY <1>5 DEF BulkResults, Typed, Ended, InFlight, Imports
  <2>3. run' \in [status : {"running", "paused", "completed", "failed", "aborted"},
                  cursor : 0..Pages - 1]
    BY <1>5 DEF BulkResults, Typed, JobTyped
  <2>. QED
    BY <1>5, <2>1, <2>2, <2>3 DEF BulkResults, Typed
<1>. QED
  BY <1>1, <1>3, <1>4, <1>5

\* Keys taken out of the destination leave values there.
LEMMA ErasedTyped ==
    ASSUME Database(dest), NEW S \in SUBSET Keys
    PROVE  /\ Database(Erased(S))
           /\ \A k \in Keys : Erased(S)[k] = IF k \in S THEN None ELSE dest[k]
BY DEF Database, Erased

\* The loops of applyDirty.
LEMMA ApplyTyped ==
    ASSUME Typed,
           ApplyTop \/ ApplyChunk \/ ApplyResults \/ ApplyDeleted
    PROVE  Typed'
<1>. /\ JobTyped(job) /\ Imports(job.chunk) /\ Imports(NoKeys) /\ JobTyped(Idle)
  BY IdleTyped DEF Typed, JobTyped, Idle
<1>. USE DEF ApplyVars, sourceVars, registryVars
<1>1. \A last \in BOOLEAN : ApplyEnd(last) => Typed'
  BY DEF ApplyEnd, Typed
<1>2. ASSUME UNCHANGED <<ApplyVars, dest, registryVars, step>>, JobTyped(job')
      PROVE  Typed'
  BY <1>2 DEF Typed
<1>3. CASE ApplyTop
  <2>1. CASE Hold
    BY <2>1, <1>1, <1>2, <1>3 DEF ApplyTop, Hold, JobTyped
  <2>2. ASSUME NEW b \in Batches("dirty"), NEW d \in Batches("deleted"),
               job' = [job EXCEPT !.at = "chunk", !.held = FALSE, !.todo = b, !.deletedBatch = d]
        PROVE  JobTyped(job')
    BY <2>2 DEF Batches, JobTyped
  <2>. QED
    BY <2>1, <2>2, <1>1, <1>2, <1>3 DEF ApplyTop
<1>4. CASE ApplyChunk
  <2>1. CASE Hold
    BY <2>1, <1>1, <1>2, <1>4 DEF ApplyChunk, Hold, JobTyped
  <2>2. CASE job' = [job EXCEPT !.at = "deleted"]
    BY <2>2, <1>1, <1>2, <1>4 DEF ApplyChunk, JobTyped
  <2>3. ASSUME NEW c \in Chunks(job.todo),
               job' = [job EXCEPT !.at = "keys", !.held = FALSE, !.todo = @ \ c,
                            !.chunk = [k \in c |-> Asked("ask", None, None)]]
        PROVE  JobTyped(job')
    <3>. c \subseteq Keys
      BY DEF Chunks, JobTyped
    <3>1. Imports([k \in c |-> Asked("ask", None, None)])
      BY FreshTyped
    <3>. QED
      BY <2>3, <3>1 DEF JobTyped
  <2>. QED
    BY <2>1, <2>2, <2>3, <1>1, <1>2, <1>4 DEF ApplyChunk
<1>5. CASE ApplyResults
  <2>1. JobTyped(job')
    BY <1>5 DEF ApplyResults, JobTyped
  <2>2. errlog' \subseteq Keys
    BY <1>5 DEF ApplyResults, Typed, Ended, InFlight, Imports
  <2>3. Database(dest')
    BY <1>5, ErasedTyped DEF ApplyResults, Typed, Ended, InFlight, Imports
  <2>4. dirty' \in [Keys -> {None, "dirty", "deleted", "applied", "skipped", "error"}]
    <3>1. ASSUME NEW k \in InFlight
          PROVE  ApplyState(job.chunk[k].at) \in {"deleted", "applied", "skipped", "error"}
      BY <1>5 DEF ApplyResults, ApplyState, Outcomes
    <3>. QED
      BY <1>5, <3>1 DEF ApplyResults, Typed
  <2>. QED
    BY <1>5, <2>1, <2>2, <2>3, <2>4 DEF ApplyResults, Typed
<1>6. CASE ApplyDeleted
  <2>1. CASE Hold
    BY <2>1, <1>1, <1>2, <1>6 DEF ApplyDeleted, Hold, JobTyped
  <2>2. CASE job' = [job EXCEPT !.at = "top"]
    BY <2>2, <1>1, <1>2, <1>6 DEF ApplyDeleted, JobTyped
  <2>3. ASSUME NEW c \in Chunks(job.deletedBatch),
               dest' = Erased(c),
               dirty' = [k \in Keys |-> IF k \in c THEN "applied" ELSE dirty[k]],
               job' = [job EXCEPT !.held = FALSE, !.deletedBatch = @ \ c],
               UNCHANGED <<ApplyVars, errlog, run, step>>
        PROVE  Typed'
    <3>. c \subseteq Keys
      BY DEF Chunks, JobTyped
    <3>1. JobTyped(job')
      BY <2>3 DEF JobTyped
    <3>2. Database(dest')
      BY <2>3, ErasedTyped DEF Typed
    <3>3. dirty' \in [Keys -> {None, "dirty", "deleted", "applied", "skipped", "error"}]
      BY <2>3 DEF Typed
    <3>. QED
      BY <2>3, <3>1, <3>2, <3>3 DEF Typed
  <2>. QED
    BY <2>1, <2>2, <2>3, <1>1, <1>2, <1>6 DEF ApplyDeleted
<1>. QED
  BY <1>3, <1>4, <1>5, <1>6

\* Everything that happens outside the operation in progress.
LEMMA OutsideTyped ==
    ASSUME Typed,
           \/ \E k \in Keys : SourceDel(k) \/ \E v \in Values : SourceWrite(k, v)
           \/ Freeze \/ TrackerEvent \/ StartTracker \/ StartBulk \/ StartApply
           \/ ScanFails \/ Pause \/ Resume \/ Abort \/ Signal \/ Crash
    PROVE  Typed'
<1>. USE DEF sourceVars, registryVars
<1>1. CASE \E k \in Keys : SourceDel(k) \/ \E v \in Values : SourceWrite(k, v)
  <2>. PICK k \in Keys : SourceDel(k) \/ \E v \in Values : SourceWrite(k, v)
    BY <1>1
  <2>1. Database(src')
    BY SourceTyped, MigrationAssumption DEF SourceDel, SourceWrite, Typed
  <2>2. events' \in Seq(Keys \X {"write", "del"}) /\ lost' \subseteq Keys
    BY NotifyTyped DEF SourceDel, SourceWrite, Typed
  <2>. QED
    BY <2>1, <2>2 DEF SourceDel, SourceWrite, Typed
<1>2. CASE TrackerEvent
  <2>1. Head(events) \in Keys \X {"write", "del"} /\ Tail(events) \in Seq(Keys \X {"write", "del"})
    BY <1>2, HeadTailProperties DEF TrackerEvent, Typed
  <2>2. EventState(Head(events)[2]) \in {"dirty", "deleted"}
    BY DEF EventState
  <2>. QED
    BY <1>2, <2>1, <2>2 DEF TrackerEvent, Typed
<1>3. CASE StartBulk \/ StartApply
  <2>1. JobTyped(job')
    BY <1>3, IdleTyped DEF StartBulk, StartApply, JobTyped, Typed, Idle
  <2>. QED
    BY <1>3, <2>1 DEF StartBulk, StartApply, Typed
<1>4. CASE ScanFails \/ Crash
  <2>1. ScriptEnds(run.cursor)
    BY <1>4 DEF ScanFails, Crash
  <2>2. /\ job' = Idle /\ step' = "start" /\ signal' = FALSE /\ tracking' \in BOOLEAN
        /\ events' \in Seq(Keys \X {"write", "del"}) /\ lost' \subseteq Keys
    BY <2>1, ScriptEndsTyped
  <2>3. run' \in [status : {"running", "paused", "completed", "failed", "aborted"},
                  cursor : 0..Pages - 1]
    BY <1>4 DEF ScanFails, Crash, Typed
  <2>4. UNCHANGED <<src, dest, dirty, errlog, frozen>>
    BY <1>4 DEF ScanFails, Crash
  <2>. QED
    BY <2>2, <2>3, <2>4, IdleTyped DEF Typed
<1>5. CASE Freeze \/ StartTracker \/ Signal
  BY <1>5 DEF Freeze, StartTracker, Signal, Typed
<1>6. CASE Pause \/ Resume \/ Abort
  BY <1>6 DEF Pause, Resume, Abort, SetStatus, Typed
<1>. QED
  BY <1>1, <1>2, <1>3, <1>4, <1>5, <1>6

\* TypeOK is what the types say, and without a delta before the freeze there is none.
LEMMA TypedSteps ==
    ASSUME Typed, [Next]_vars
    PROVE  Typed'
<1>1. CASE ImportStep \/ \E k \in InFlight : ReadFails(k)
  BY <1>1, ImportTyped DEF ImportStep
<1>2. CASE BulkTop \/ BulkChunk \/ BulkResults
  BY <1>2, BulkTyped
<1>3. CASE ApplyTop \/ ApplyChunk \/ ApplyResults \/ ApplyDeleted
  BY <1>3, ApplyTyped
<1>4. CASE UNCHANGED vars
  BY <1>4 DEF vars, Typed
<1>. QED
  BY <1>1, <1>2, <1>3, <1>4, OutsideTyped DEF Next, JobStep

\* The program starts with an empty destination and everything still to be imported.
LEMMA TypedInit ==
    ASSUME Init
    PROVE  Typed
<1>1. Database(src) /\ Database(dest)
  BY MigrationAssumption DEF Init, Database
<1>2. 0 \in 0..Pages - 1
  BY MigrationAssumption
<1>3. JobTyped(job)
  BY IdleTyped DEF Init
<1>4. /\ frozen \in BOOLEAN /\ tracking \in BOOLEAN /\ signal \in BOOLEAN
      /\ errlog \subseteq Keys /\ lost \subseteq Keys
      /\ step \in {"start", "imported", "reconciled"}
  BY DEF Init
<1>6. events \in Seq(Keys \X {"write", "del"})
  BY EmptySeq DEF Init
<1>7. dirty \in [Keys -> {None, "dirty", "deleted", "applied", "skipped", "error"}]
  BY DEF Init
<1>8. run \in [status : {"running", "paused", "completed", "failed", "aborted"},
               cursor : 0..Pages - 1]
  BY <1>2 DEF Init
<1>. QED
  BY <1>1, <1>3, <1>4, <1>6, <1>7, <1>8 DEF Typed

\* Every variable has its type, whatever is written, fails or is aborted.
THEOREM TypeCorrect == Spec => []TypeOK
<1>1. Typed => TypeOK
  <2>. SUFFICES ASSUME Typed PROVE TypeOK
    OBVIOUS
  <2>1. DOMAIN src = Keys /\ DOMAIN dest = Keys
    BY DEF Typed, Database
  <2>2. \A k \in Keys, db \in {src, dest} : db[k] = None \/ db[k].type \in Types
    BY StorableValue DEF Typed, Database
  <2>3. \A i \in DOMAIN events : events[i] \in Keys \X {"write", "del"}
    BY ElementOfSeq DEF Typed
  <2>4. /\ job.task \in {"idle", "bulk", "predelta", "apply"}
        /\ job.at \in {"top", "chunk", "keys", "deleted"}
        /\ job.todo \cup job.deletedBatch \cup InFlight \subseteq Keys
        /\ job.cursor \in 0..Pages - 1
    BY DEF Typed, JobTyped, InFlight, Imports
  <2>. QED
    BY <2>1, <2>2, <2>3, <2>4 DEF Typed, TypeOK
<1>. QED
  BY <1>1, TypedInit, TypedSteps, PTL DEF Spec

-----------------------------------------------------------------------------
(* Phases.                                                                 *)

\* The operation in progress is one that the script has come to, and applyDirty of the cutover has
\* the source at rest.
LEMMA PhasesSteps ==
    ASSUME ~PreDelta, Typed, Phases, job.task # "predelta", [Next]_vars
    PROVE  Phases' /\ job'.task # "predelta"
<1>. USE DEF sourceVars, registryVars
<1>. JobTyped(job) /\ JobTyped(job') /\ DOMAIN Idle.chunk = {} /\ DOMAIN NoKeys = {}
  BY TypedSteps, IdleTyped DEF Typed, NoKeys
<1>0. ASSUME job' = Idle, UNCHANGED <<events, frozen>> \/ step' = "start",
             step' = "start" \/ step' = "imported" \/ (job.task = "apply" /\ step' = "reconciled")
      PROVE  Phases' /\ job'.task # "predelta"
  <2>1. job'.task = "idle" /\ job'.at = "top" /\ InFlight' = {}
    BY <1>0 DEF Idle, InFlight
  <2>. QED
    BY <1>0, <2>1 DEF Phases
<1>. HIDE DEF NoKeys, Idle
<1>1. CASE ImportStep \/ \E k \in InFlight : ReadFails(k)
  <2>. PICK k \in InFlight :
            AskGone(k) \/ AskType(k) \/ AskValue(k) \/ ImportWrite(k) \/ ReadFails(k)
    BY <1>1 DEF ImportStep
  <2>1. \E s : Reply(k, s)
    BY DEF AskGone, AskType, AskValue, ImportWrite, ReadFails
  <2>2. /\ job'.task = job.task /\ job'.at = job.at /\ job'.todo = job.todo
    BY <2>1 DEF Reply, JobTyped
  <2>3. job.at = "keys"
    BY DEF Phases
  <2>5. Imports(job.chunk) /\ InFlight' = InFlight
    BY <2>1 DEF Reply, JobTyped, Imports, InFlight
  <2>4. UNCHANGED <<frozen, events, step>>
    BY DEF AskGone, AskType, AskValue, ImportWrite, ReadFails, ImportVars
  <2>. QED
    BY <2>2, <2>3, <2>4, <2>5 DEF Phases
<1>2. CASE BulkEnd /\ job.task = "bulk"
  BY <1>2, <1>0 DEF BulkEnd, ScriptEnds
<1>3. CASE (BulkTop \/ BulkChunk \/ BulkResults) /\ ~BulkEnd
  <2>1. UNCHANGED <<frozen, events, step>> /\ job'.task = job.task /\ job.task = "bulk"
    BY <1>3 DEF BulkTop, BulkChunk, BulkResults, BulkVars, Hold, JobTyped
  <2>2. job'.at # "keys" => InFlight' = {}
    BY <1>3 DEF BulkTop, BulkChunk, BulkResults, Hold, JobTyped, Phases, InFlight
  <2>3. job'.at = "top" => job'.todo = {}
    BY <1>3 DEF BulkTop, BulkChunk, BulkResults, Hold, JobTyped, Phases
  <2>4. job'.at # "deleted"
    BY <1>3 DEF BulkTop, BulkChunk, BulkResults, Hold, JobTyped, Phases
  <2>5. job'.todo \cap InFlight' = {}
    BY <1>3 DEF BulkTop, BulkChunk, BulkResults, Hold, JobTyped, Phases, InFlight
  <2>. QED
    BY <2>1, <2>2, <2>3, <2>4, <2>5 DEF Phases
<1>4. CASE job.task = "apply" /\ \E last \in BOOLEAN : ApplyEnd(last)
  BY <1>4, <1>0 DEF ApplyEnd, ApplyVars, Phases
<1>5. CASE /\ ApplyTop \/ ApplyChunk \/ ApplyResults \/ ApplyDeleted
           /\ ~ApplyEnd(TRUE) /\ ~ApplyEnd(FALSE)
  <2>1. UNCHANGED <<frozen, events, step>> /\ job'.task = job.task /\ job.task = "apply"
    BY <1>5 DEF ApplyTop, ApplyChunk, ApplyResults, ApplyDeleted, ApplyVars, Hold, JobTyped,
                Applying
  <2>2. job'.at # "keys" => InFlight' = {}
    BY <1>5 DEF ApplyTop, ApplyChunk, ApplyResults, ApplyDeleted, Hold, JobTyped, Phases, InFlight
  <2>3. job'.todo \cap InFlight' = {}
    BY <1>5 DEF ApplyTop, ApplyChunk, ApplyResults, ApplyDeleted, Hold, JobTyped, Phases, InFlight
  <2>. QED
    BY <2>1, <2>2, <2>3 DEF Phases
<1>6. CASE StartBulk \/ StartApply
  <2>1. /\ job'.at = "top" /\ InFlight' = {} /\ job'.todo = {}
        /\ job'.task = IF StartBulk THEN "bulk" ELSE "apply"
    <3>1. CASE StartBulk
      BY <3>1 DEF StartBulk, Idle, InFlight
    <3>2. CASE StartApply /\ ~StartBulk
      BY <3>2 DEF StartApply, Idle, InFlight
    <3>. QED
      BY <1>6, <3>1, <3>2
  <2>2. UNCHANGED <<frozen, events, step>>
    BY <1>6 DEF StartBulk, StartApply
  <2>3. IF StartBulk THEN step = "start" ELSE step = "imported" /\ frozen /\ events = <<>>
    BY <1>6 DEF StartBulk, StartApply
  <2>. QED
    BY <2>1, <2>2, <2>3 DEF Phases
<1>7. CASE ScanFails \/ Crash
  BY <1>7, <1>0 DEF ScanFails, Crash, ScriptEnds
<1>8. CASE \E k \in Keys : SourceDel(k) \/ \E v \in Values : SourceWrite(k, v)
  <2>1. UNCHANGED <<job, step, frozen>> /\ ~frozen
    BY <1>8 DEF SourceDel, SourceWrite
  <2>. QED
    BY <2>1 DEF Phases, InFlight
<1>9. CASE TrackerEvent
  <2>1. UNCHANGED <<job, step, frozen>> /\ events # <<>>
    BY <1>9 DEF TrackerEvent
  <2>. QED
    BY <2>1 DEF Phases, InFlight
<1>10. CASE Freeze
  BY <1>10 DEF Freeze, Phases, InFlight
<1>11. CASE StartTracker \/ Pause \/ Resume \/ Abort \/ Signal \/ UNCHANGED vars
  <2>1. UNCHANGED <<job, step, frozen, events>>
    BY <1>11 DEF StartTracker, Pause, Resume, Abort, SetStatus, Signal, vars
  <2>. QED
    BY <2>1 DEF Phases, InFlight
<1>12. BulkEnd /\ (BulkTop \/ BulkChunk \/ BulkResults) => job.task = "bulk"
  BY DEF BulkTop, BulkChunk, BulkResults
<1>13. ApplyTop \/ ApplyChunk \/ ApplyResults \/ ApplyDeleted => job.task = "apply"
  BY DEF ApplyTop, ApplyChunk, ApplyResults, ApplyDeleted, Applying
<1>. QED
  BY <1>1, <1>2, <1>3, <1>4, <1>5, <1>6, <1>7, <1>8, <1>9, <1>10, <1>11, <1>12, <1>13
     DEF Next, JobStep

-----------------------------------------------------------------------------
(* What the events tell.                                                   *)

\* An event more: what was told is told, and a write tells of its key.
LEMMA TellsAppended ==
    ASSUME NEW ev \in Seq(Keys \X {"write", "del"}), NEW j \in Keys, NEW e \in {"write", "del"},
           NEW k, NEW state
    PROVE  /\ k # j /\ Tells(ev, state, k) => Tells(Append(ev, <<j, e>>), state, k)
           /\ e = "write" => Tells(Append(ev, <<j, e>>), state, j)
<1>. DEFINE new == Append(ev, <<j, e>>)
<1>1. /\ Len(ev) \in Nat /\ DOMAIN ev = 1..Len(ev) /\ DOMAIN new = 1..Len(ev) + 1
      /\ \A i \in 1..Len(ev) : new[i] = ev[i]
      /\ new[Len(ev) + 1] = <<j, e>>
  OBVIOUS
<1>. HIDE DEF new
<1>2. ASSUME k # j, Tells(ev, state, k)
      PROVE  Tells(new, state, k)
  <2>1. \A n : Rewritten(ev, k, n) => Rewritten(new, k, n)
    BY <1>1 DEF Rewritten
  <2>2. \A i \in DOMAIN new : new[i] = <<k, "del">> => i \in DOMAIN ev /\ ev[i] = <<k, "del">>
    BY <1>1, <1>2
  <2>. QED
    BY <1>2, <2>1, <2>2 DEF Tells
<1>3. ASSUME e = "write"
      PROVE  Tells(new, state, j)
  <2>1. \A n \in 0..Len(ev) : Rewritten(new, j, n)
    BY <1>1, <1>3 DEF Rewritten
  <2>2. \A i \in DOMAIN new : new[i] = <<j, "del">> => i \in 0..Len(ev)
    BY <1>1, <1>3
  <2>. QED
    BY <1>1, <2>1, <2>2 DEF Tells
<1>. QED
  BY <1>2, <1>3 DEF new

\* The tracker takes an event: the registry has of its key what the event said.
LEMMA TellsTaken ==
    ASSUME NEW ev \in Seq(Keys \X {"write", "del"}), ev # <<>>, NEW k, NEW state,
           Tells(ev, state, k)
    PROVE  Tells(Tail(ev), IF Head(ev)[1] = k THEN EventState(Head(ev)[2]) ELSE state, k)
<1>. DEFINE rest == Tail(ev)
<1>1. /\ Len(ev) \in Nat \ {0} /\ DOMAIN ev = 1..Len(ev) /\ DOMAIN rest = 1..Len(ev) - 1
      /\ \A i \in 1..Len(ev) - 1 : rest[i] = ev[i + 1]
      /\ Head(ev) = ev[1]
  BY HeadTailProperties, EmptySeq
<1>2. ev[1] \in Keys \X {"write", "del"}
  BY <1>1, ElementOfSeq
<1>. HIDE DEF rest
<1>3. \A n \in 1..Len(ev) : Rewritten(ev, k, n) => Rewritten(rest, k, n - 1)
  <2>. SUFFICES ASSUME NEW n \in 1..Len(ev), NEW j \in DOMAIN ev, j > n, ev[j] = <<k, "write">>
                PROVE  Rewritten(rest, k, n - 1)
    BY DEF Rewritten
  <2>. j - 1 \in 1..Len(ev) - 1 /\ rest[j - 1] = <<k, "write">> /\ j - 1 > n - 1
    BY <1>1
  <2>. QED
    BY <1>1 DEF Rewritten
<1>4. ASSUME NEW i \in DOMAIN rest, rest[i] = <<k, "del">>
      PROVE  Rewritten(rest, k, i)
  <2>1. i + 1 \in DOMAIN ev /\ ev[i + 1] = <<k, "del">>
    BY <1>1, <1>4
  <2>2. Rewritten(ev, k, i + 1)
    BY <2>1 DEF Tells
  <2>3. i + 1 \in 1..Len(ev) /\ (i + 1) - 1 = i
    BY <1>1
  <2>. QED
    BY <2>2, <2>3, <1>3
<1>5. CASE Head(ev)[1] = k /\ Head(ev)[2] = "del"
  <2>1. ev[1] = <<k, "del">>
    BY <1>1, <1>2, <1>5
  <2>2. Rewritten(ev, k, 1)
    BY <1>1, <2>1 DEF Tells
  <2>3. Rewritten(rest, k, 0)
    BY <1>1, <1>3, <2>2
  <2>. QED
    BY <1>4, <2>3 DEF Tells, rest
<1>6. CASE Head(ev)[1] = k /\ Head(ev)[2] # "del"
  BY <1>4, <1>6 DEF Tells, EventState, rest
<1>7. CASE Head(ev)[1] # k
  <2>1. ASSUME state = "deleted"
        PROVE  Rewritten(rest, k, 0)
    <3>1. PICK j \in DOMAIN ev : j > 0 /\ ev[j] = <<k, "write">>
      BY <2>1 DEF Tells, Rewritten
    <3>2. j # 1
      BY <1>1, <1>7, <3>1
    <3>3. Rewritten(ev, k, 1)
      BY <1>1, <3>1, <3>2 DEF Rewritten
    <3>. QED
      BY <1>1, <1>3, <3>3
  <2>. QED
    BY <1>4, <1>7, <2>1 DEF Tells, rest
<1>. QED
  BY <1>5, <1>6, <1>7

\* Without an event of its own, a key that events tell of was not seen deleted.
LEMMA TellsNothing ==
    ASSUME NEW ev, NEW k, NEW state, Tells(ev, state, k),
           \A i \in DOMAIN ev : ev[i][1] # k
    PROVE  Tells(<<>>, state, k)
BY DEF Tells, Rewritten

\* While the source rests and no event is left, a key that is marked deleted is gone.
LEMMA DeletedIsGone ==
    ASSUME EventsTell, events = <<>>, NEW k \in Keys \ lost, dirty[k] = "deleted"
    PROVE  src[k] = None
BY DEF EventsTell, Tells, Rewritten

-----------------------------------------------------------------------------
(* What is known of a key stays known, except where applyDirty takes marks *)
(* away.                                                                   *)

\* The parts of the invariant besides types and phases.
Carried ==
    /\ EventsTell /\ InFlightKnown /\ BatchesTracked /\ LeftoversKnown /\ ErrorsLogged
    /\ KeysKnown /\ CutoverComplete

\* A step that takes no mark away, but to lose the key.
MarksStay ==
    /\ errlog \subseteq errlog' /\ lost \subseteq lost'
    /\ \A k \in Keys : Tracked(k) => Tracked(k)' \/ k \in lost'
    /\ \A k \in Keys : dirty'[k] = "error" => dirty[k] = "error"

\* Then what was known is known.
LEMMA KnownStays ==
    ASSUME ErrorsLogged, MarksStay
    PROVE  ErrorsLogged' /\ \A k \in Keys : Known(k) => Known(k)'
BY DEF ErrorsLogged, MarksStay, Known, Failed

\* The marks stay where the registry and the events do.
LEMMA UnmarkedStays ==
    ASSUME errlog \subseteq errlog', lost \subseteq lost', UNCHANGED <<events, dirty>>
    PROVE  MarksStay
BY DEF MarksStay, Tracked

\* A step that leaves source and destination alone keeps what was good of a key.
LEMMA GoodStays ==
    ASSUME ErrorsLogged, LeftoversKnown, MarksStay, UNCHANGED <<src, dest>>
    PROVE  LeftoversKnown' /\ \A k \in Keys : Good(k) => Good(k)'
BY KnownStays DEF LeftoversKnown, Good, Covers

\* A step by which nobody writes and no event is taken.
LEMMA TellsKept ==
    ASSUME EventsTell, lost \subseteq lost', UNCHANGED <<src, events, dirty>>
    PROVE  EventsTell'
BY DEF EventsTell

\* What happens besides the source, the tracker, the registry and the operation in progress.
LEMMA AsideSteps ==
    ASSUME Typed, Phases, Carried, Freeze \/ StartTracker \/ Pause \/ Resume \/ Abort \/ Signal
    PROVE  Carried'
<1>1. /\ UNCHANGED <<src, dest, events, dirty, errlog, step, job, lost>>
      /\ run'.cursor = run.cursor
  BY DEF Freeze, StartTracker, Pause, Resume, Abort, SetStatus, Signal, sourceVars, registryVars,
         Typed
<1>2. MarksStay
  BY <1>1, UnmarkedStays
<1>3. \A k \in Keys : ToImport(k)' = ToImport(k)
  BY <1>1 DEF ToImport, InFlight
<1>. QED
  BY <1>1, <1>2, <1>3, KnownStays, GoodStays, TellsKept
     DEF Carried, InFlightKnown, BatchesTracked, CutoverComplete, KeysKnown, InFlight,
         BulkKey, ApplyKey, Good, Known, Tracked, Failed

\* The start of an operation.
LEMMA StartSteps ==
    ASSUME Typed, Phases, Carried, StartBulk \/ StartApply
    PROVE  Carried'
<1>1. /\ UNCHANGED <<src, dest, events, dirty, errlog, step, lost, run>>
      /\ job.task = "idle" /\ step # "reconciled"
  BY DEF StartBulk, StartApply, sourceVars, registryVars
<1>2. /\ InFlight' = {} /\ job'.todo = {} /\ job'.deletedBatch = {} /\ job'.at = "top"
      /\ job'.task = "bulk" => step = "start" /\ job'.cursor = run.cursor
      /\ job'.task # "bulk" => step = "imported"
  <2>1. CASE StartBulk
    BY <2>1 DEF StartBulk, Idle, NoKeys, InFlight
  <2>2. CASE StartApply
    BY <2>2 DEF StartApply, Idle, NoKeys, InFlight
  <2>. QED
    BY <2>1, <2>2
<1>3. MarksStay
  BY <1>1, UnmarkedStays
<1>4. \A k \in Keys : ToImport(k) => ToImport(k)'
  BY <1>1, <1>2 DEF ToImport
<1>5. InFlightKnown' /\ BatchesTracked' /\ CutoverComplete'
  BY <1>1, <1>2 DEF InFlightKnown, BatchesTracked, CutoverComplete
<1>6. ErrorsLogged' /\ LeftoversKnown' /\ \A k \in Keys : Good(k) => Good(k)'
  BY <1>1, <1>3, KnownStays, GoodStays DEF Carried
<1>7. KeysKnown'
  BY <1>4, <1>6 DEF Carried, KeysKnown, Good, Known
<1>8. EventsTell'
  BY <1>1, TellsKept DEF Carried
<1>. QED
  BY <1>5, <1>6, <1>7, <1>8 DEF Carried

\* A write or a deletion in the source: the tracker hears of it, or the key is lost.
LEMMA SourceSteps ==
    ASSUME Typed, Phases, Carried, job.task # "predelta",
           NEW k \in Keys, SourceDel(k) \/ \E v \in Values : SourceWrite(k, v)
    PROVE  Carried'
<1>1. /\ UNCHANGED <<dest, dirty, errlog, step, job, run>>
      /\ ~frozen
  BY DEF SourceDel, SourceWrite, registryVars
<1>2. PICK e \in {"write", "del"} : Notify(k, e) /\ (e = "del" => src'[k] = None)
  BY SourceTyped DEF SourceDel, SourceWrite, Typed
<1>3. \A j \in Keys \ {k} : src'[j] = src[j]
  BY SourceTyped, MigrationAssumption DEF SourceDel, SourceWrite, Typed
<1>4. /\ lost \subseteq lost'
      /\ \/ events' = Append(events, <<k, e>>)
         \/ events' = events /\ k \in lost'
  BY <1>2, NotifyTyped DEF Typed
<1>5. Tracked(k)' \/ k \in lost'
  BY <1>4 DEF Tracked, Typed
<1>6. \A j \in Keys : Tracked(j) => Tracked(j)'
  BY <1>1, <1>4 DEF Tracked, Typed
<1>7. MarksStay
  BY <1>1, <1>4, <1>6 DEF MarksStay
<1>8. Known(k)'
  BY <1>5 DEF Known
<1>9. \A j \in Keys : Good(j) => Good(j)'
  BY <1>1, <1>3, <1>7, <1>8, KnownStays DEF Good, Covers, Carried
<1>10. LeftoversKnown'
  BY <1>1, <1>3, <1>7, <1>8, KnownStays DEF LeftoversKnown, Carried
<1>11. KeysKnown'
  <2>1. \A j \in Keys : ToImport(j)' = ToImport(j)
    BY <1>1 DEF ToImport, InFlight
  <2>. QED
    BY <1>9, <2>1 DEF Carried, KeysKnown, Good, Known
<1>12. EventsTell'
  <2>. SUFFICES ASSUME NEW j \in Keys \ lost', src'[j] # None
                PROVE  Tells(events', dirty[j], j)
    BY <1>1 DEF EventsTell
  <2>1. CASE j = k
    <3>1. e = "write" /\ events' = Append(events, <<k, e>>)
      BY <1>2, <1>4, <2>1
    <3>2. events \in Seq(Keys \X {"write", "del"})
      BY DEF Typed
    <3>3. Tells(Append(events, <<k, e>>), dirty[k], k)
      BY <3>1, <3>2, TellsAppended
    <3>. QED
      BY <2>1, <3>1, <3>3
  <2>2. CASE j # k
    <3>1. Tells(events, dirty[j], j)
      BY <1>3, <1>4, <2>2 DEF Carried, EventsTell
    <3>2. events \in Seq(Keys \X {"write", "del"})
      BY DEF Typed
    <3>3. Tells(Append(events, <<k, e>>), dirty[j], j)
      BY <2>2, <3>1, <3>2, TellsAppended
    <3>. QED
      BY <1>4, <3>1, <3>3
  <2>. QED
    BY <2>1, <2>2
<1>13. InFlightKnown'
  <2>1. job.task # "apply"
    BY <1>1 DEF Phases
  <2>2. ASSUME NEW j \in InFlight, job.task = "bulk"
        PROVE  BulkKey(j)'
    <3>1. j \in Keys /\ BulkKey(j)
      BY <2>2 DEF Typed, JobTyped, Imports, InFlight, Carried, InFlightKnown
    <3>2. CASE j = k
      BY <1>1, <1>8, <3>1, <3>2 DEF BulkKey, Good
    <3>3. CASE j # k
      BY <1>1, <1>3, <1>7, <1>9, <3>1, <3>3, KnownStays DEF BulkKey, Carried
    <3>. QED
      BY <3>2, <3>3
  <2>. QED
    BY <1>1, <2>1, <2>2 DEF InFlightKnown, InFlight
<1>14. BatchesTracked' /\ CutoverComplete'
  BY <1>1 DEF Phases, BatchesTracked, CutoverComplete
<1>. QED
  BY <1>7, <1>10, <1>11, <1>12, <1>13, <1>14, KnownStays DEF Carried

\* The tracker writes an event into the registry.
LEMMA TrackerSteps ==
    ASSUME Typed, Phases, Carried, job.task # "predelta", TrackerEvent
    PROVE  Carried'
<1>1. /\ UNCHANGED <<src, dest, errlog, step, job, run, lost>>
      /\ events # <<>> /\ events' = Tail(events)
      /\ dirty' = [dirty EXCEPT ![Head(events)[1]] = EventState(Head(events)[2])]
  BY DEF TrackerEvent, sourceVars
<1>2. /\ Len(events) \in Nat \ {0} /\ Head(events) = events[1]
      /\ DOMAIN events = 1..Len(events) /\ DOMAIN events' = 1..Len(events) - 1
      /\ \A i \in 1..Len(events) - 1 : events'[i] = events[i + 1]
  BY <1>1, HeadTailProperties, EmptySeq DEF Typed
<1>3. \A k \in Keys :
        dirty'[k] = IF Head(events)[1] = k THEN EventState(Head(events)[2]) ELSE dirty[k]
  BY <1>1 DEF Typed
<1>4. \A k \in Keys : Tracked(k) => Tracked(k)'
  <2>. SUFFICES ASSUME NEW k \in Keys, Tracked(k), Head(events)[1] # k
                PROVE  Tracked(k)'
    BY <1>3 DEF Tracked, EventState
  <2>1. CASE dirty[k] \in {"dirty", "deleted"}
    BY <1>3, <2>1 DEF Tracked
  <2>2. ASSUME NEW i \in DOMAIN events, events[i][1] = k
        PROVE  Tracked(k)'
    <3>1. i # 1
      BY <1>2, <2>2
    <3>2. i - 1 \in DOMAIN events' /\ events'[i - 1][1] = k
      BY <1>2, <2>2, <3>1
    <3>. QED
      BY <3>2 DEF Tracked
  <2>. QED
    BY <2>1, <2>2 DEF Tracked
<1>5. MarksStay
  BY <1>1, <1>3, <1>4 DEF MarksStay, EventState
<1>6. EventsTell'
  BY <1>1, <1>3, TellsTaken DEF EventsTell, Typed, Carried
<1>7. KeysKnown'
  <2>1. \A k \in Keys : ToImport(k)' = ToImport(k)
    BY <1>1 DEF ToImport, InFlight
  <2>. QED
    BY <1>1, <1>5, <2>1, GoodStays DEF Carried, KeysKnown, Good, Known
<1>8. job.task # "apply" /\ step # "reconciled"
  BY <1>1 DEF Phases
<1>9. InFlightKnown'
  <2>1. ASSUME NEW k \in InFlight, job.task = "bulk"
        PROVE  BulkKey(k)'
    <3>1. k \in Keys /\ BulkKey(k)
      BY <2>1 DEF Typed, JobTyped, Imports, InFlight, Carried, InFlightKnown
    <3>. QED
      BY <1>1, <1>5, <3>1, KnownStays, GoodStays DEF BulkKey, Carried
  <2>. QED
    BY <1>1, <1>8, <2>1 DEF InFlightKnown, InFlight
<1>. QED
  BY <1>1, <1>5, <1>6, <1>7, <1>8, <1>9, KnownStays, GoodStays
     DEF Carried, BatchesTracked, CutoverComplete

\* The end of the script, at the checkpoint given: what it passes over, and the events that go
\* with an in-process tracker, are lost.
LEMMA EndSteps ==
    ASSUME Typed, Phases, Carried, NEW cursor \in 0..Pages - 1,
           ScriptEnds(cursor), run'.cursor = cursor, UNCHANGED <<src, dest, dirty, errlog>>
    PROVE  Carried'
<1>1. /\ job' = Idle /\ step' = "start" /\ lost \subseteq lost'
      /\ \A k \in Keys : ToImport(k) /\ PageOf[k] <= cursor => k \in lost'
      /\ \/ events' = events
         \/ /\ events' = <<>>
            /\ \A i \in DOMAIN events : events[i][1] \in lost'
  BY ScriptEndsTyped
<1>2. job'.task = "idle" /\ InFlight' = {}
  BY <1>1 DEF Idle, NoKeys, InFlight
<1>3. \A k \in Keys : Tracked(k) => Tracked(k)' \/ k \in lost'
  BY <1>1 DEF Tracked
<1>4. MarksStay
  BY <1>1, <1>3 DEF MarksStay
<1>5. ErrorsLogged' /\ LeftoversKnown' /\ \A k \in Keys : Good(k) => Good(k)'
  BY <1>4, KnownStays, GoodStays DEF Carried
<1>6. KeysKnown'
  <2>. SUFFICES ASSUME NEW k \in Keys
                PROVE  Good(k)' \/ ToImport(k)'
    BY DEF KeysKnown, Good, Known
  <2>1. CASE PageOf[k] > cursor
    BY <1>1, <1>2, <2>1 DEF ToImport
  <2>2. CASE PageOf[k] <= cursor
    <3>1. Good(k) \/ ToImport(k)
      BY DEF Carried, KeysKnown, Good, Known
    <3>. QED
      BY <1>1, <1>5, <2>2, <3>1 DEF Good, Known
  <2>. QED
    BY <2>1, <2>2, MigrationAssumption
<1>7. EventsTell'
  <2>. SUFFICES ASSUME NEW k \in Keys \ lost', src[k] # None
                PROVE  Tells(events', dirty[k], k)
    BY DEF EventsTell
  <2>1. Tells(events, dirty[k], k)
    BY <1>1 DEF Carried, EventsTell
  <2>2. CASE events' = events
    BY <2>1, <2>2
  <2>3. CASE events' = <<>> /\ \A i \in DOMAIN events : events[i][1] \in lost'
    <3>1. \A i \in DOMAIN events : events[i][1] # k
      BY <2>3
    <3>. QED
      BY <2>1, <2>3, <3>1, TellsNothing
  <2>. QED
    BY <1>1, <2>2, <2>3
<1>8. InFlightKnown' /\ BatchesTracked' /\ CutoverComplete'
  BY <1>1, <1>2 DEF InFlightKnown, BatchesTracked, CutoverComplete
<1>. QED
  BY <1>5, <1>6, <1>7, <1>8 DEF Carried

\* A crash, or a SCAN that fails.
LEMMA CrashSteps ==
    ASSUME Typed, Phases, Carried, ScanFails \/ Crash
    PROVE  Carried'
<1>1. /\ ScriptEnds(run.cursor) /\ UNCHANGED <<src, dest, dirty, errlog>>
      /\ run.cursor \in 0..Pages - 1 /\ run'.cursor = run.cursor
  BY DEF ScanFails, Crash, sourceVars, registryVars, Typed
<1>. QED
  BY <1>1, EndSteps

\* The end of the bulk import.
LEMMA BulkEndSteps ==
    ASSUME Typed, Phases, Carried, BulkEnd
    PROVE  Carried'
<1>1. UNCHANGED <<src, dest, dirty, errlog>>
  BY DEF BulkEnd, sourceVars
<1>2. CASE signal
  <2>1. ScriptEnds(job.cursor) /\ run'.cursor = job.cursor /\ job.cursor \in 0..Pages - 1
    BY <1>2 DEF BulkEnd, Typed, JobTyped
  <2>. QED
    BY <1>1, <2>1, EndSteps
<1>3. CASE ~signal
  <2>1. /\ step' = "imported" /\ job' = Idle /\ events' = events
        /\ lost' = lost \cup {k \in Keys : ToImport(k)}
    BY <1>3 DEF BulkEnd
  <2>2. job'.task = "idle" /\ InFlight' = {}
    BY <2>1 DEF Idle, NoKeys, InFlight
  <2>3. MarksStay
    BY <1>1, <2>1, UnmarkedStays
  <2>4. ErrorsLogged' /\ LeftoversKnown' /\ \A k \in Keys : Good(k) => Good(k)'
    BY <1>1, <2>3, KnownStays, GoodStays DEF Carried
  <2>5. KeysKnown'
    BY <2>1, <2>4 DEF Carried, KeysKnown, Good, Known
  <2>6. EventsTell'
    BY <1>1, <2>1, TellsKept DEF Carried
  <2>7. InFlightKnown' /\ BatchesTracked' /\ CutoverComplete'
    BY <2>1, <2>2 DEF InFlightKnown, BatchesTracked, CutoverComplete
  <2>. QED
    BY <2>4, <2>5, <2>6, <2>7 DEF Carried
<1>. QED
  BY <1>2, <1>3

\* The loops of the bulk import, but for their end: a key of a page is imported or was not there,
\* and what its import came to is known.
LEMMA BulkSteps ==
    ASSUME Typed, Phases, Carried, BulkTop \/ BulkChunk \/ BulkResults, ~BulkEnd
    PROVE  Carried'
<1>. JobTyped(job) /\ JobTyped(job') /\ Imports(job.chunk)
  BY BulkTyped DEF Typed, JobTyped
<1>1. /\ UNCHANGED <<src, dest, events, dirty, lost, step>>
      /\ job.task = "bulk" /\ job'.task = "bulk" /\ step = "start"
  BY DEF BulkTop, BulkChunk, BulkResults, BulkVars, Hold, JobTyped, Phases, sourceVars
<1>2. errlog \subseteq errlog'
  BY DEF BulkTop, BulkChunk, BulkResults
<1>3. MarksStay
  BY <1>1, <1>2, UnmarkedStays
<1>4. ErrorsLogged' /\ LeftoversKnown' /\ \A k \in Keys : Good(k) => Good(k)'
  BY <1>1, <1>3, KnownStays, GoodStays DEF Carried
<1>5. EventsTell' /\ BatchesTracked' /\ CutoverComplete'
  BY <1>1, TellsKept DEF Carried, BatchesTracked, CutoverComplete
<1>6. InFlightKnown'
  <2>1. CASE InFlight' = InFlight /\ \A k \in InFlight : job'.chunk[k] = job.chunk[k]
    <3>1. ASSUME NEW k \in InFlight
          PROVE  BulkKey(k)'
      <4>1. k \in Keys /\ BulkKey(k)
        BY <1>1 DEF Imports, InFlight, Carried, InFlightKnown
      <4>. QED
        BY <1>1, <1>3, <1>4, <2>1, <4>1, KnownStays DEF BulkKey, Carried
    <3>. QED
      BY <1>1, <2>1, <3>1 DEF InFlightKnown
  <2>2. CASE \A k \in InFlight' : job'.chunk[k] = Asked("type", None, None)
    BY <1>1, <2>2 DEF InFlightKnown, BulkKey, Asked
  <2>3. CASE BulkTop \/ BulkChunk
    <3>1. ASSUME NEW c \in Chunks(job.todo),
                 job'.chunk = [k \in c |-> Asked("type", None, None)]
          PROVE  InFlightKnown'
      BY <2>2, <3>1 DEF InFlight
    <3>2. CASE job'.chunk = job.chunk
      BY <2>1, <3>2 DEF InFlight
    <3>3. job'.chunk = job.chunk \/ \E c \in Chunks(job.todo) :
                                      job'.chunk = [k \in c |-> Asked("type", None, None)]
      BY <2>3 DEF BulkTop, BulkChunk, Hold, JobTyped
    <3>. QED
      BY <3>1, <3>2, <3>3
  <2>4. CASE BulkResults
    <3>. InFlight' = {}
      BY <2>4 DEF BulkResults, JobTyped, InFlight, NoKeys
    <3>. QED
      BY <2>2
  <2>. QED
    BY <2>3, <2>4
<1>7. ASSUME NEW k \in Keys, ToImport(k)
      PROVE  Good(k)' \/ ToImport(k)'
  <2>1. CASE BulkTop /\ ~Hold
    <3>. DEFINE page == job.cursor + 1
                rest == {j \in Keys : PageOf[j] = page /\ src[j] # None}
    <3>1. /\ job'.at = "chunk" /\ job'.cursor = IF page = Pages THEN 0 ELSE page
          /\ job'.todo = rest
      BY <2>1 DEF BulkTop, JobTyped
    <3>2. PageOf[k] > job.cursor /\ PageOf[k] <= Pages
      BY <1>1, <1>7, <2>1, MigrationAssumption DEF ToImport, Phases, BulkTop
    <3>3. CASE PageOf[k] = page
      <4>1. CASE src[k] # None
        BY <1>1, <3>1, <3>3, <4>1 DEF ToImport
      <4>2. CASE src[k] = None
        BY <1>4, <4>2 DEF Carried, LeftoversKnown, Good, Covers
      <4>. QED
        BY <4>1, <4>2
    <3>4. CASE PageOf[k] # page
      <4>1. PageOf[k] > page /\ page # Pages /\ page # 0
        BY <3>2, <3>4, MigrationAssumption DEF JobTyped
      <4>. QED
        BY <1>1, <3>1, <4>1 DEF ToImport
    <3>. QED
      BY <3>3, <3>4
  <2>2. CASE Hold
    <3>1. /\ job'.at = job.at /\ job'.cursor = job.cursor /\ job'.todo = job.todo
          /\ InFlight' = InFlight
      BY <2>2 DEF Hold, JobTyped, InFlight
    <3>. QED
      BY <1>1, <1>7, <3>1 DEF ToImport
  <2>3. CASE BulkChunk /\ ~Hold
    <3>1. CASE job.todo = {}
      <4>1. /\ job' = [job EXCEPT !.at = "top"] /\ job.cursor # 0 /\ job.at = "chunk"
        BY <2>3, <3>1 DEF BulkChunk
      <4>2. /\ job'.at = "top" /\ job'.cursor = job.cursor /\ job'.todo = job.todo
            /\ InFlight' = InFlight
        BY <4>1 DEF JobTyped, InFlight
      <4>. QED
        BY <1>1, <1>7, <4>1, <4>2 DEF ToImport
    <3>2. CASE job.todo # {}
      <4>1. PICK c \in Chunks(job.todo) :
                job' = [job EXCEPT !.at = "keys", !.held = FALSE, !.todo = @ \ c,
                            !.chunk = [j \in c |-> Asked("type", None, None)]]
        BY <2>3, <3>2 DEF BulkChunk
      <4>2. /\ job'.at = "keys" /\ job'.cursor = job.cursor /\ job'.todo = job.todo \ c
            /\ InFlight' = c
        BY <4>1 DEF JobTyped, InFlight
      <4>3. InFlight = {} /\ job.at = "chunk"
        BY <2>3 DEF Phases, BulkChunk
      <4>. QED
        BY <1>1, <1>7, <4>2, <4>3 DEF ToImport
    <3>. QED
      BY <3>1, <3>2
  <2>4. CASE BulkResults
    <3>1. /\ job'.at = "chunk" /\ job'.cursor = job.cursor /\ job'.todo = job.todo
          /\ job.at = "keys" /\ errlog' = errlog \cup Ended("error")
          /\ \A j \in InFlight : job.chunk[j].at \in Outcomes
      BY <2>4 DEF BulkResults, JobTyped
    <3>2. CASE k \in InFlight
      <4>1. BulkKey(k)
        BY <1>1, <3>2 DEF Carried, InFlightKnown
      <4>2. CASE job.chunk[k].at = "error"
        BY <3>1, <3>2, <4>2 DEF Ended, Good, Known, Failed
      <4>3. CASE job.chunk[k].at \in {"ok", "skipped"}
        BY <1>4, <4>1, <4>3 DEF BulkKey
      <4>. QED
        BY <3>1, <3>2, <4>1, <4>2, <4>3 DEF BulkKey, Outcomes
    <3>3. CASE k \notin InFlight
      BY <1>1, <1>7, <3>1, <3>3 DEF ToImport
    <3>. QED
      BY <3>2, <3>3
  <2>. QED
    BY <2>1, <2>2, <2>3, <2>4
<1>8. KeysKnown'
  BY <1>4, <1>7 DEF Carried, KeysKnown, Good, Known
<1>. QED
  BY <1>4, <1>5, <1>6, <1>8 DEF Carried

\* A step of an import: what it has read is what the source has, or the key is known to differ;
\* what it writes is all of that.
LEMMA ImportSteps ==
    ASSUME Typed, Phases, Carried, job.task # "predelta", NEW k \in InFlight,
           AskGone(k) \/ AskType(k) \/ AskValue(k) \/ ImportWrite(k) \/ ReadFails(k)
    PROVE  Carried'
<1>. /\ JobTyped(job) /\ Imports(job.chunk) /\ k \in Keys /\ Database(src) /\ Database(dest)
  BY DEF Typed, JobTyped, Imports, InFlight
<1>1. UNCHANGED <<src, events, dirty, errlog, lost, step, run>>
  BY DEF AskGone, AskType, AskValue, ImportWrite, ReadFails, ImportVars, sourceVars, registryVars
<1>2. /\ job.at = "keys" /\ job.task \in {"bulk", "apply"} /\ step # "reconciled"
  BY DEF Phases, JobTyped
<1>3. PICK s : Reply(k, s)
  BY DEF AskGone, AskType, AskValue, ImportWrite, ReadFails
<1>4. /\ job'.task = job.task /\ job'.at = job.at /\ job'.todo = job.todo
      /\ job'.cursor = job.cursor /\ job'.deletedBatch = job.deletedBatch
      /\ InFlight' = InFlight
      /\ job'.chunk[k] = s
      /\ \A j \in InFlight \ {k} : job'.chunk[j] = job.chunk[j]
  <2>1. job' = [job EXCEPT !.chunk = [job.chunk EXCEPT ![k] = s]]
    BY <1>3 DEF Reply
  <2>2. job'.chunk = [job.chunk EXCEPT ![k] = s]
    BY <2>1 DEF JobTyped
  <2>3. DOMAIN job'.chunk = DOMAIN job.chunk /\ job'.chunk[k] = s
    BY <2>2 DEF Imports, InFlight
  <2>4. \A j \in InFlight \ {k} : job'.chunk[j] = job.chunk[j]
    BY <2>2 DEF Imports, InFlight
  <2>. QED
    BY <2>1, <2>3, <2>4 DEF JobTyped, InFlight
<1>5. MarksStay
  BY <1>1, UnmarkedStays
<1>6. ErrorsLogged' /\ \A j \in Keys : Known(j) => Known(j)'
  BY <1>5, KnownStays DEF Carried
<1>7. EventsTell' /\ BatchesTracked' /\ CutoverComplete'
  BY <1>1, <1>2, <1>4, TellsKept DEF Carried, BatchesTracked, CutoverComplete
<1>8. \A j \in Keys \ {k} : dest'[j] = dest[j]
  BY DEF AskGone, AskType, AskValue, ImportWrite, ReadFails, Database
<1>9. \A j \in Keys \ {k} : Good(j) => Good(j)'
  BY <1>1, <1>6, <1>8 DEF Good, Covers
<1>10. KeysKnown'
  <2>1. \A j \in Keys : ToImport(j)' = ToImport(j)
    BY <1>1, <1>4 DEF ToImport
  <2>2. ToImport(k) \/ Tracked(k)
    BY <1>2 DEF ToImport, Tracked, Carried, BatchesTracked
  <2>. QED
    BY <1>6, <1>9, <2>1, <2>2 DEF Carried, KeysKnown, Good, Known
<1>11. /\ job.task = "bulk" => BulkKey(k)
       /\ job.task = "apply" => ApplyKey(k)
  BY DEF Carried, InFlightKnown
<1>12. LeftoversKnown' /\ (job.task = "bulk" => BulkKey(k)') /\ (job.task = "apply" => ApplyKey(k)')
  <2>1. CASE ImportWrite(k) /\ Writable(dest[k], job.chunk[k].val)
    <3>. DEFINE v == job.chunk[k].val
    <3>1. v # None /\ Storable(v) /\ job.chunk[k].at = "write"
      BY <2>1 DEF ImportWrite, Imports, InFlight
    <3>2. dest'[k] = Merged(dest[k], v)
      BY <2>1 DEF ImportWrite, Database
    <3>3. Covers(dest'[k], v)
      BY <2>1, <3>1, <3>2, MergedCovers DEF Database
    <3>4. job'.chunk[k].at = "ok"
      BY <1>4, <2>1, AskedFields DEF ImportWrite, WriteOutcome, Outcome, Reply, JobTyped, Imports,
                                     InFlight
    <3>5. v = src[k] \/ (Known(k) /\ job.task = "bulk")
      BY <1>2, <1>11, <3>1 DEF BulkKey, ApplyKey
    <3>6. LeftoversKnown'
      BY <1>1, <1>6, <1>8, <3>1, <3>5 DEF Carried, LeftoversKnown
    <3>7. v = src[k] => Covers(dest'[k], src'[k])
      BY <1>1, <3>3
    <3>8. Good(k)'
      BY <1>6, <3>5, <3>7 DEF Good
    <3>. QED
      BY <3>4, <3>5, <3>6, <3>7, <3>8 DEF BulkKey, ApplyKey
  <2>2. CASE ~(ImportWrite(k) /\ Writable(dest[k], job.chunk[k].val))
    <3>1. dest' = dest
      BY <2>2 DEF AskGone, AskType, AskValue, ImportWrite, ReadFails
    <3>2. LeftoversKnown' /\ (Good(k) => Good(k)')
      BY <1>1, <1>5, <3>1, GoodStays DEF Carried
    <3>3. src[k] = None => Good(k)
      BY DEF Carried, LeftoversKnown, Good, Covers
    <3>4. CASE AskGone(k)
      <4>1. job'.chunk[k] = IF src[k] = None THEN Outcome("gone") ELSE Asked("type", None, None)
        BY <1>4, <3>4 DEF AskGone, Reply, JobTyped, Imports, InFlight
      <4>. QED
        BY <1>1, <1>11, <3>2, <3>4, <4>1, AskedFields DEF AskGone, Outcome, BulkKey, ApplyKey
    <3>5. CASE AskType(k)
      <4>1. job'.chunk[k] = IF src[k] = None THEN Outcome("skipped")
                            ELSE Asked("value", src[k].type, None)
        BY <1>4, <3>5 DEF AskType, Reply, JobTyped, Imports, InFlight
      <4>. QED
        BY <1>1, <1>11, <3>2, <3>3, <3>5, <4>1, AskedFields DEF AskType, Outcome, BulkKey, ApplyKey
    <3>6. CASE AskValue(k)
      <4>1. job'.chunk[k] = IF src[k] = None THEN Outcome("skipped")
                            ELSE IF src[k].type # job.chunk[k].type THEN Outcome("error")
                            ELSE Asked("write", None, src[k])
        BY <1>4, <3>6 DEF AskValue, Reply, JobTyped, Imports, InFlight
      <4>. QED
        BY <1>1, <1>11, <3>2, <3>3, <3>6, <4>1, AskedFields DEF AskValue, Outcome, BulkKey, ApplyKey
    <3>7. CASE ImportWrite(k) \/ ReadFails(k)
      <4>1. job'.chunk[k] = Outcome("error")
        BY <1>4, <2>2, <3>7 DEF ImportWrite, ReadFails, WriteOutcome, Reply, JobTyped, Imports,
                                InFlight
      <4>. QED
        BY <3>2, <4>1, AskedFields DEF Outcome, BulkKey, ApplyKey
    <3>. QED
      BY <3>4, <3>5, <3>6, <3>7
  <2>. QED
    BY <2>1, <2>2
<1>13. InFlightKnown'
  <2>1. ASSUME NEW j \in InFlight \ {k}
        PROVE  /\ job.task = "bulk" => BulkKey(j)'
               /\ job.task = "apply" => ApplyKey(j)'
    <3>1. /\ j \in Keys /\ job'.chunk[j] = job.chunk[j] /\ dest'[j] = dest[j]
          /\ job.task = "bulk" => BulkKey(j)
          /\ job.task = "apply" => ApplyKey(j)
      BY <1>4, <1>8 DEF Imports, InFlight, Carried, InFlightKnown
    <3>. QED
      BY <1>1, <1>6, <1>9, <3>1 DEF BulkKey, ApplyKey
  <2>. QED
    BY <1>4, <1>12, <2>1 DEF InFlightKnown
<1>. QED
  BY <1>6, <1>7, <1>10, <1>12, <1>13 DEF Carried

\* applyDirty returns; it is the last call only when no key is marked any more.
LEMMA ApplyEndSteps ==
    ASSUME Typed, Phases, Carried, job.task = "apply", NEW last \in BOOLEAN, ApplyEnd(last),
           last => \A k \in Keys : dirty[k] \notin {"dirty", "deleted"}
    PROVE  Carried'
<1>1. /\ UNCHANGED <<src, dest, events, dirty, errlog, lost, run>>
      /\ job' = Idle /\ step = "imported" /\ step' = IF last THEN "reconciled" ELSE step
      /\ events = <<>>
  BY DEF ApplyEnd, ApplyVars, sourceVars, registryVars, Phases
<1>2. job'.task = "idle" /\ InFlight' = {}
  BY <1>1 DEF Idle, NoKeys, InFlight
<1>3. MarksStay
  BY <1>1, UnmarkedStays
<1>4. ErrorsLogged' /\ LeftoversKnown' /\ \A k \in Keys : Good(k) => Good(k)'
  BY <1>1, <1>3, KnownStays, GoodStays DEF Carried
<1>5. \A k \in Keys : ~ToImport(k)
  BY <1>1 DEF ToImport
<1>6. KeysKnown'
  BY <1>4, <1>5 DEF Carried, KeysKnown, Good, Known
<1>7. EventsTell' /\ InFlightKnown' /\ BatchesTracked'
  BY <1>1, <1>2, TellsKept DEF Carried, InFlightKnown, BatchesTracked
<1>8. CutoverComplete'
  <2>. SUFFICES ASSUME last, NEW k \in Keys
                PROVE  Covers(dest[k], src[k]) \/ Failed(k) \/ k \in lost
    BY <1>1 DEF CutoverComplete, Failed
  <2>1. ~Tracked(k)
    BY <1>1 DEF Tracked
  <2>. QED
    BY <1>5, <2>1 DEF Carried, KeysKnown
<1>. QED
  BY <1>4, <1>6, <1>7, <1>8 DEF Carried

\* An empty batch: no key has that state.
LEMMA NoBatch ==
    ASSUME NEW state, {} \in Batches(state)
    PROVE  \A k \in Keys : dirty[k] # state
<1>. DEFINE all == {k \in Keys : dirty[k] = state}
<1>1. IsFiniteSet(all)
  BY MigrationAssumption, FS_Subset
<1>2. Cardinality({}) = 0 /\ Cardinality(all) \in Nat /\ (Cardinality(all) = 0 => all = {})
  BY <1>1, FS_EmptySet, FS_CardinalityType
<1>3. Cardinality({}) = IF Cardinality(all) < Batch THEN Cardinality(all) ELSE Batch
  BY DEF Batches
<1>. QED
  BY <1>2, <1>3, MigrationAssumption

\* The loops of applyDirty where they change neither the registry nor the destination.
LEMMA ApplyLoopSteps ==
    ASSUME Typed, Phases, Carried, job.task # "predelta",
           ApplyTop \/ ApplyChunk \/ ApplyDeleted,
           UNCHANGED <<ApplyVars, dest, registryVars, step>>,
           ~ApplyEnd(TRUE), ~ApplyEnd(FALSE)
    PROVE  Carried'
<1>. JobTyped(job) /\ JobTyped(job') /\ Imports(job.chunk)
  BY ApplyTyped DEF Typed, JobTyped
<1>1. /\ UNCHANGED <<src, dest, events, dirty, errlog, lost, step, run>>
      /\ job.task = "apply" /\ step = "imported"
      /\ job'.task = "apply"
  BY DEF ApplyTop, ApplyChunk, ApplyDeleted, ApplyVars, sourceVars, registryVars, Applying, Hold,
         JobTyped, Phases
<1>2. MarksStay
  BY <1>1, UnmarkedStays
<1>3. ErrorsLogged' /\ LeftoversKnown' /\ \A k \in Keys : Good(k) => Good(k)'
  BY <1>1, <1>2, KnownStays, GoodStays DEF Carried
<1>4. KeysKnown'
  BY <1>1, <1>3 DEF Carried, KeysKnown, Good, Known, ToImport
<1>5. EventsTell' /\ CutoverComplete'
  BY <1>1, TellsKept DEF Carried, CutoverComplete
<1>6. \/ job'.chunk = job.chunk
      \/ \E c : job'.chunk = [k \in c |-> Asked("ask", None, None)]
  BY DEF ApplyTop, ApplyChunk, ApplyDeleted, Hold, JobTyped
<1>7. InFlightKnown'
  <2>1. CASE job'.chunk = job.chunk
    <3>1. ASSUME NEW k \in InFlight
          PROVE  ApplyKey(k)'
      <4>1. k \in Keys /\ ApplyKey(k)
        BY <1>1 DEF Imports, InFlight, Carried, InFlightKnown
      <4>. QED
        BY <1>1, <2>1, <4>1 DEF ApplyKey
    <3>. QED
      BY <1>1, <2>1, <3>1 DEF InFlightKnown, InFlight
  <2>2. ASSUME NEW c, job'.chunk = [k \in c |-> Asked("ask", None, None)]
        PROVE  InFlightKnown'
    BY <1>1, <2>2 DEF InFlightKnown, InFlight, ApplyKey, Asked
  <2>. QED
    BY <1>6, <2>1, <2>2
<1>8. BatchesTracked'
  <2>1. CASE ApplyTop
    <3>1. CASE Hold
      BY <1>1, <3>1 DEF Hold, JobTyped, Carried, BatchesTracked, InFlight
    <3>2. CASE ~Hold
      <4>1. PICK b \in Batches("dirty"), d \in Batches("deleted") :
                job' = [job EXCEPT !.at = "chunk", !.held = FALSE, !.todo = b, !.deletedBatch = d]
        BY <2>1, <3>2 DEF ApplyTop
      <4>2. /\ job'.todo = b /\ job'.deletedBatch = d /\ job'.chunk = job.chunk
            /\ InFlight' = InFlight
        BY <4>1 DEF JobTyped, InFlight
      <4>3. InFlight = {}
        BY <2>1 DEF ApplyTop, Phases
      <4>4. (\A k \in b : dirty[k] = "dirty") /\ (\A k \in d : dirty[k] = "deleted")
        BY DEF Batches
      <4>. QED
        BY <1>1, <4>2, <4>3, <4>4 DEF BatchesTracked
    <3>. QED
      BY <3>1, <3>2
  <2>2. CASE ApplyChunk
    <3>1. CASE Hold \/ job' = [job EXCEPT !.at = "deleted"]
      BY <1>1, <3>1 DEF Hold, JobTyped, Carried, BatchesTracked, InFlight
    <3>2. ASSUME NEW c \in Chunks(job.todo),
                 job' = [job EXCEPT !.at = "keys", !.held = FALSE, !.todo = @ \ c,
                            !.chunk = [k \in c |-> Asked("ask", None, None)]]
          PROVE  BatchesTracked'
      <4>1. /\ job'.todo = job.todo \ c /\ job'.deletedBatch = job.deletedBatch
            /\ InFlight' = c /\ c \subseteq job.todo
        BY <3>2 DEF JobTyped, InFlight, Chunks
      <4>. QED
        BY <1>1, <4>1 DEF Carried, BatchesTracked
    <3>. QED
      BY <2>2, <3>1, <3>2 DEF ApplyChunk
  <2>3. CASE ApplyDeleted
    <3>1. job'.todo = job.todo /\ InFlight' = InFlight /\ job'.deletedBatch \subseteq job.deletedBatch
      BY <2>3 DEF ApplyDeleted, Hold, JobTyped, InFlight
    <3>. QED
      BY <1>1, <3>1 DEF Carried, BatchesTracked
  <2>. QED
    BY <2>1, <2>2, <2>3
<1>. QED
  BY <1>3, <1>4, <1>5, <1>7, <1>8 DEF Carried

\* The outcomes of a chunk go into the registry: what was imported is what the source has, what was
\* gone is out of the destination, what failed is logged.
LEMMA ApplyResultsSteps ==
    ASSUME Typed, Phases, Carried, job.task # "predelta", ApplyResults
    PROVE  Carried'
<1>. JobTyped(job) /\ Imports(job.chunk) /\ Database(dest)
  BY DEF Typed, JobTyped
<1>1. /\ UNCHANGED <<src, events, lost, step, run>>
      /\ job.task = "apply" /\ step = "imported" /\ events = <<>>
      /\ job'.task = "apply" /\ job'.todo = job.todo /\ job'.deletedBatch = job.deletedBatch
      /\ InFlight' = {}
  BY DEF ApplyResults, ApplyVars, sourceVars, Applying, JobTyped, Phases, InFlight, NoKeys
<1>2. errlog' = errlog \cup Ended("error")
  BY DEF ApplyResults
<1>3. \A k \in Keys : dest'[k] = IF k \in Ended("gone") THEN None ELSE dest[k]
  BY ErasedTyped DEF ApplyResults, Ended, InFlight, Imports
<1>4. \A k \in Keys :
        dirty'[k] = IF k \in InFlight THEN ApplyState(job.chunk[k].at) ELSE dirty[k]
  BY DEF ApplyResults
<1>5. \A k \in Keys : ~ToImport(k) /\ ~ToImport(k)'
  BY <1>1 DEF ToImport
<1>6. \A k \in Keys \ InFlight : /\ dirty'[k] = dirty[k] /\ dest'[k] = dest[k]
                                 /\ Known(k) => Known(k)'
                                 /\ Good(k) => Good(k)'
  <2>. SUFFICES ASSUME NEW k \in Keys \ InFlight
                PROVE  /\ dirty'[k] = dirty[k] /\ dest'[k] = dest[k]
                       /\ Known(k) => Known(k)'
                       /\ Good(k) => Good(k)'
    OBVIOUS
  <2>1. dirty'[k] = dirty[k] /\ dest'[k] = dest[k]
    BY <1>3, <1>4 DEF Ended
  <2>2. Known(k) => Known(k)'
    BY <1>1, <1>2, <2>1 DEF Known, Tracked, Failed
  <2>. QED
    BY <1>1, <2>1, <2>2 DEF Good, Covers
<1>7. ASSUME NEW k \in InFlight
      PROVE  /\ Good(k)'
             /\ dirty'[k] = "deleted" => src[k] = None
             /\ dirty'[k] = "error" => k \in errlog'
             /\ src[k] = None => dest'[k] = None \/ k \in errlog'
  <2>1. k \in Keys /\ ApplyKey(k) /\ job.chunk[k].at \in Outcomes
    BY <1>1 DEF Imports, InFlight, Carried, InFlightKnown, ApplyResults
  <2>2. dirty'[k] = ApplyState(job.chunk[k].at)
    BY <1>4, <2>1
  <2>3. CASE job.chunk[k].at = "ok"
    BY <1>1, <1>3, <2>1, <2>2, <2>3 DEF ApplyKey, ApplyState, Ended, Good, Covers
  <2>4. CASE job.chunk[k].at = "gone"
    BY <1>1, <1>3, <2>1, <2>2, <2>4 DEF ApplyKey, ApplyState, Ended, Good, Covers
  <2>5. CASE job.chunk[k].at = "error"
    BY <1>2, <2>1, <2>2, <2>5 DEF ApplyState, Ended, Good, Known, Failed
  <2>. QED
    BY <2>1, <2>3, <2>4, <2>5 DEF ApplyKey, Outcomes
<1>8. KeysKnown'
  <2>1. \A k \in Keys : Good(k)
    BY <1>5 DEF Carried, KeysKnown, Good, Known
  <2>. QED
    BY <1>6, <1>7, <2>1 DEF KeysKnown, Good, Known
<1>9. LeftoversKnown'
  BY <1>1, <1>6, <1>7 DEF Carried, LeftoversKnown, Known, Failed
<1>10. ErrorsLogged'
  BY <1>2, <1>6, <1>7 DEF Carried, ErrorsLogged
<1>11. EventsTell'
  <2>. SUFFICES ASSUME NEW k \in Keys \ lost, src[k] # None
                PROVE  Tells(events, dirty'[k], k)
    BY <1>1 DEF EventsTell
  <2>1. Tells(events, dirty[k], k)
    BY DEF Carried, EventsTell
  <2>2. dirty'[k] = "deleted" => dirty[k] = "deleted"
    BY <1>6, <1>7
  <2>. QED
    BY <2>1, <2>2 DEF Tells
<1>12. BatchesTracked'
  <2>1. \A k \in job.todo \cup job.deletedBatch : k \in Keys \ InFlight
    BY <1>1 DEF JobTyped, Phases, Carried, BatchesTracked
  <2>. QED
    BY <1>1, <1>6, <2>1 DEF Carried, BatchesTracked
<1>13. InFlightKnown' /\ CutoverComplete'
  BY <1>1 DEF InFlightKnown, CutoverComplete
<1>. QED
  BY <1>8, <1>9, <1>10, <1>11, <1>12, <1>13 DEF Carried

\* The keys marked as deleted are taken out, and they are gone from the source.
LEMMA ApplyDeletedSteps ==
    ASSUME Typed, Phases, Carried, job.task # "predelta", Applying,
           NEW c \in Chunks(job.deletedBatch),
           dest' = Erased(c),
           dirty' = [k \in Keys |-> IF k \in c THEN "applied" ELSE dirty[k]],
           job' = [job EXCEPT !.held = FALSE, !.deletedBatch = @ \ c],
           UNCHANGED <<ApplyVars, errlog, run, step>>
    PROVE  Carried'
<1>. JobTyped(job) /\ Imports(job.chunk) /\ Database(dest)
  BY DEF Typed, JobTyped
<1>1. /\ UNCHANGED <<src, events, lost, step, run, errlog>>
      /\ job.task = "apply" /\ step = "imported" /\ events = <<>>
      /\ job'.task = "apply" /\ job'.todo = job.todo /\ job'.deletedBatch = job.deletedBatch \ c
      /\ job'.chunk = job.chunk /\ InFlight' = InFlight /\ c \subseteq job.deletedBatch
  BY DEF ApplyVars, sourceVars, Applying, JobTyped, Phases, InFlight, Chunks
<1>2. c \subseteq Keys
  BY <1>1 DEF JobTyped
<1>3. \A k \in Keys : /\ dest'[k] = IF k \in c THEN None ELSE dest[k]
                      /\ dirty'[k] = IF k \in c THEN "applied" ELSE dirty[k]
  BY <1>2, ErasedTyped
<1>4. \A k \in Keys : ~ToImport(k) /\ ~ToImport(k)'
  BY <1>1 DEF ToImport
<1>5. \A k \in c : src[k] = None \/ k \in lost
  BY <1>1, <1>2, DeletedIsGone DEF Carried, BatchesTracked
<1>6. \A k \in Keys \ c : /\ Known(k) => Known(k)'
                          /\ Good(k) => Good(k)'
  BY <1>1, <1>3 DEF Known, Tracked, Failed, Good, Covers
<1>7. \A k \in c : Good(k)'
  BY <1>1, <1>2, <1>3, <1>5 DEF Good, Covers, Known
<1>8. KeysKnown'
  <2>1. \A k \in Keys : Good(k)
    BY <1>4 DEF Carried, KeysKnown, Good, Known
  <2>. QED
    BY <1>6, <1>7, <2>1 DEF KeysKnown, Good, Known
<1>9. LeftoversKnown'
  BY <1>1, <1>3, <1>6 DEF Carried, LeftoversKnown
<1>10. ErrorsLogged'
  BY <1>1, <1>3 DEF Carried, ErrorsLogged
<1>11. EventsTell'
  BY <1>1, <1>3 DEF Carried, EventsTell, Tells
<1>12. BatchesTracked'
  <2>1. \A k \in job.todo \cup InFlight : dirty[k] = "dirty" /\ k \in Keys
    BY <1>1 DEF Carried, BatchesTracked, JobTyped, Imports, InFlight
  <2>2. \A k \in job.deletedBatch : dirty[k] = "deleted" /\ k \in Keys
    BY <1>1 DEF Carried, BatchesTracked, JobTyped
  <2>3. c \cap (job.todo \cup InFlight) = {}
    BY <1>1, <2>1, <2>2
  <2>. QED
    BY <1>1, <1>3, <2>1, <2>2, <2>3 DEF BatchesTracked
<1>13. InFlightKnown'
  <2>1. ASSUME NEW k \in InFlight
        PROVE  ApplyKey(k)'
    <3>1. k \in Keys \ c /\ ApplyKey(k)
      BY <1>1 DEF Carried, InFlightKnown, BatchesTracked, Imports, InFlight
    <3>. QED
      BY <1>1, <1>3, <3>1 DEF ApplyKey
  <2>. QED
    BY <1>1, <2>1 DEF InFlightKnown
<1>14. CutoverComplete'
  BY <1>1 DEF CutoverComplete
<1>. QED
  BY <1>8, <1>9, <1>10, <1>11, <1>12, <1>13, <1>14 DEF Carried

\* Every step of applyDirty.
LEMMA ApplySteps ==
    ASSUME Typed, Phases, Carried, job.task # "predelta",
           ApplyTop \/ ApplyChunk \/ ApplyResults \/ ApplyDeleted
    PROVE  Carried'
<1>1. job.task = "apply"
  BY DEF ApplyTop, ApplyChunk, ApplyResults, ApplyDeleted, Applying
<1>2. CASE ApplyEnd(FALSE)
  BY <1>1, <1>2, ApplyEndSteps
<1>3. CASE ApplyTop /\ ~ApplyEnd(FALSE) /\ ApplyEnd(TRUE)
  <2>1. CASE {} \in Batches("dirty") /\ {} \in Batches("deleted")
    BY <1>1, <1>3, <2>1, NoBatch, ApplyEndSteps
  <2>2. CASE ~({} \in Batches("dirty") /\ {} \in Batches("deleted"))
    <3>1. job'.task = "apply"
      BY <1>1, <1>3, <2>2 DEF ApplyTop, Hold, Typed, JobTyped
    <3>. QED
      BY <1>3, <3>1 DEF ApplyEnd, Idle
  <2>. QED
    BY <2>1, <2>2
<1>4. CASE ApplyTop /\ ~ApplyEnd(FALSE) /\ ~ApplyEnd(TRUE)
  <2>1. UNCHANGED <<ApplyVars, dest, registryVars, step>>
    BY <1>4 DEF ApplyTop
  <2>. QED
    BY <1>4, <2>1, ApplyLoopSteps
<1>5. CASE ApplyChunk /\ ~ApplyEnd(FALSE)
  <2>1. UNCHANGED <<ApplyVars, dest, registryVars, step>>
    BY <1>5 DEF ApplyChunk
  <2>2. job'.task = "apply"
    BY <1>1, <1>5 DEF ApplyChunk, Hold, Typed, JobTyped
  <2>3. ~ApplyEnd(TRUE)
    BY <2>2 DEF ApplyEnd, Idle
  <2>. QED
    BY <1>5, <2>1, <2>3, ApplyLoopSteps
<1>6. CASE ApplyDeleted /\ ~ApplyEnd(FALSE)
  <2>1. CASE UNCHANGED <<ApplyVars, dest, registryVars, step>>
    <3>1. job'.task = "apply"
      BY <1>1, <1>6 DEF ApplyDeleted, Hold, Typed, JobTyped
    <3>2. ~ApplyEnd(TRUE)
      BY <3>1 DEF ApplyEnd, Idle
    <3>. QED
      BY <1>6, <2>1, <3>2, ApplyLoopSteps
  <2>2. CASE ~UNCHANGED <<ApplyVars, dest, registryVars, step>>
    BY <1>6, <2>2, ApplyDeletedSteps DEF ApplyDeleted
  <2>. QED
    BY <2>1, <2>2
<1>. QED
  BY <1>2, <1>3, <1>4, <1>5, <1>6, ApplyResultsSteps

-----------------------------------------------------------------------------
(* Without a fault the tracker is up, nobody aborts, and no key is lost.   *)

Unharmed ==
    /\ faults \in Nat
    /\ faults = 0 => lost = {} /\ tracking /\ ~signal /\ run.status # "aborted"

\* What leaves these variables alone leaves no harm.
LEMMA UnharmedRests ==
    ASSUME Unharmed, UNCHANGED <<faults, lost, tracking, signal, run>>
    PROVE  Unharmed'
BY DEF Unharmed

\* A fault is counted.
LEMMA FaultCounted ==
    ASSUME Unharmed, NEW kind, Fault(kind)
    PROVE  Unharmed'
<1>1. faults' \in Nat /\ faults' # 0
  BY DEF Unharmed, Fault
<1>. QED
  BY <1>1 DEF Unharmed

\* The bulk import: only a signal or an abort makes it return before a key.
LEMMA UnharmedBulk ==
    ASSUME Typed, Phases, Unharmed, BulkTop \/ BulkChunk \/ BulkResults
    PROVE  Unharmed'
<1>1. faults' = faults
  BY DEF BulkTop, BulkChunk, BulkResults, BulkEnd, BulkVars
<1>2. CASE faults # 0
  BY <1>1, <1>2 DEF Unharmed
<1>3. CASE faults = 0
  <2>1. lost = {} /\ tracking /\ ~signal /\ ~Aborted
    BY <1>3 DEF Unharmed, Aborted
  <2>2. \/ job.at = "chunk" /\ job.todo = {} /\ job.cursor = 0 /\ BulkEnd
        \/ UNCHANGED <<lost, tracking, signal>> /\ run'.status = run.status
    <3>1. CASE BulkTop
      BY <2>1, <3>1 DEF BulkTop, BulkVars
    <3>2. CASE BulkChunk
      BY <2>1, <3>2 DEF BulkChunk, BulkVars
    <3>3. CASE BulkResults
      BY <3>3 DEF BulkResults, BulkVars, Typed
    <3>. QED  BY <3>1, <3>2, <3>3
  <2>3. CASE UNCHANGED <<lost, tracking, signal>> /\ run'.status = run.status
    BY <1>1, <2>3 DEF Unharmed
  <2>4. CASE job.at = "chunk" /\ job.todo = {} /\ job.cursor = 0 /\ BulkEnd
    <3>1. job.task = "bulk" /\ InFlight = {}
      BY <2>4 DEF Phases, BulkTop, BulkChunk, BulkResults
    <3>2. \A k \in Keys : ~ToImport(k)
      BY <2>4, <3>1, MigrationAssumption DEF ToImport
    <3>3. lost' = {} /\ tracking' /\ ~signal' /\ run'.status = "completed"
      BY <2>1, <2>4, <3>2 DEF BulkEnd
    <3>. QED  BY <1>1, <3>3 DEF Unharmed
  <2>. QED  BY <2>2, <2>3, <2>4
<1>. QED  BY <1>1, <1>2, <1>3 DEF Unharmed

\* One step of anybody.
LEMMA UnharmedSteps ==
    ASSUME Typed, Phases, Unharmed, [Next]_vars
    PROVE  Unharmed'
<1>1. CASE \E k \in Keys : SourceDel(k) \/ \E v \in Values : SourceWrite(k, v)
  BY <1>1 DEF SourceDel, SourceWrite, Notify, registryVars, Unharmed
<1>2. CASE Freeze \/ TrackerEvent \/ StartTracker
  BY <1>2 DEF Freeze, TrackerEvent, StartTracker, registryVars, Unharmed
<1>3. CASE StartBulk \/ StartApply
  BY <1>3, UnharmedRests DEF StartBulk, StartApply, registryVars
<1>4. CASE BulkTop \/ BulkChunk \/ BulkResults
  BY <1>4, UnharmedBulk
<1>5. CASE ApplyTop \/ ApplyChunk \/ ApplyResults \/ ApplyDeleted
  BY <1>5, UnharmedRests
     DEF ApplyTop, ApplyChunk, ApplyResults, ApplyDeleted, ApplyEnd, ApplyVars, registryVars
<1>6. CASE ImportStep
  BY <1>6, UnharmedRests
     DEF ImportStep, AskGone, AskType, AskValue, ImportWrite, ImportVars, registryVars
<1>7. CASE ScanFails \/ (\E k \in InFlight : ReadFails(k)) \/ Abort \/ Signal \/ Crash
  <2>1. CASE Abort
    BY <2>1, FaultCounted DEF Abort
  <2>2. CASE ScanFails \/ (\E k \in InFlight : ReadFails(k)) \/ Signal \/ Crash
    BY <2>2, FaultCounted DEF ScanFails, ReadFails, Signal, Crash
  <2>. QED  BY <1>7, <2>1, <2>2
<1>8. CASE Pause \/ Resume
  <2>1. UNCHANGED <<faults, lost, tracking, signal>>
    BY <1>8 DEF Pause, Resume, SetStatus
  <2>2. run'.status # "aborted"
    BY <1>8 DEF Pause, Resume, SetStatus, Typed
  <2>. QED  BY <2>1, <2>2 DEF Unharmed
<1>9. CASE UNCHANGED vars
  BY <1>9, UnharmedRests DEF vars, registryVars
<1>. QED
  BY <1>1, <1>2, <1>3, <1>4, <1>5, <1>6, <1>7, <1>8, <1>9 DEF Next, JobStep

-----------------------------------------------------------------------------
(* The theorems.                                                           *)

\* The inductive invariant, and that no delta is applied before the freeze.
IInv == Typed /\ Phases /\ Carried /\ Unharmed /\ job.task # "predelta"

\* It holds at the start.
LEMMA InvInit ==
    ASSUME Init
    PROVE  IInv
<1>1. job = Idle /\ job.task = "idle" /\ job.at = "top" /\ InFlight = {} /\ job.todo = {}
  BY DEF Init, Idle, NoKeys, InFlight
<1>2. Phases
  BY <1>1 DEF Phases, Init
<1>3. EventsTell
  BY MigrationAssumption DEF Init, EventsTell, Tells
<1>4. \A k \in Keys : ToImport(k)
  BY <1>1, MigrationAssumption DEF ToImport, Init
<1>5. KeysKnown
  BY <1>4 DEF KeysKnown
<1>6. InFlightKnown /\ BatchesTracked /\ LeftoversKnown /\ ErrorsLogged /\ CutoverComplete
  BY <1>1, MigrationAssumption
     DEF Init, InFlightKnown, BatchesTracked, LeftoversKnown, ErrorsLogged, CutoverComplete
<1>7. Unharmed
  BY DEF Init, Unharmed
<1>. QED
  BY <1>1, <1>2, <1>3, <1>5, <1>6, <1>7, TypedInit DEF IInv, Carried

\* Nothing happens.
LEMMA StutterSteps ==
    ASSUME Carried, UNCHANGED vars
    PROVE  Carried'
BY DEF vars, Carried, EventsTell, InFlightKnown, BatchesTracked, LeftoversKnown, ErrorsLogged,
       KeysKnown, CutoverComplete, InFlight, BulkKey, ApplyKey, Good, Known, Tracked,
       Failed, ToImport

\* One step of anybody.
LEMMA InvStep ==
    ASSUME ~PreDelta, IInv, [Next]_vars
    PROVE  IInv'
<1>. Typed /\ Phases /\ Carried /\ Unharmed /\ job.task # "predelta"
  BY DEF IInv
<1>1. Typed' /\ Phases' /\ Unharmed' /\ job'.task # "predelta"
  BY TypedSteps, PhasesSteps, UnharmedSteps
<1>. SUFFICES Carried'
  BY <1>1 DEF IInv
<1>2. CASE ImportStep \/ \E k \in InFlight : ReadFails(k)
  BY <1>2, ImportSteps DEF ImportStep
<1>3. CASE BulkTop \/ BulkChunk \/ BulkResults
  BY <1>3, BulkSteps, BulkEndSteps
<1>4. CASE ApplyTop \/ ApplyChunk \/ ApplyResults \/ ApplyDeleted
  BY <1>4, ApplySteps
<1>5. CASE Freeze \/ StartTracker \/ Pause \/ Resume \/ Abort \/ Signal
  BY <1>5, AsideSteps
<1>6. CASE StartBulk \/ StartApply
  BY <1>6, StartSteps
<1>7. CASE \E k \in Keys : SourceDel(k) \/ \E v \in Values : SourceWrite(k, v)
  BY <1>7, SourceSteps
<1>8. CASE TrackerEvent
  BY <1>8, TrackerSteps
<1>9. CASE ScanFails \/ Crash
  BY <1>9, CrashSteps
<1>. QED
  BY <1>2, <1>3, <1>4, <1>5, <1>6, <1>7, <1>8, <1>9, StutterSteps DEF Next, JobStep

\* With applyDirty left to the cutover, no change of the source is forgotten but those in lost: a key
\* of which the destination lacks something is still to be imported, or an event or a dirty mark
\* tells of it, or its import is logged as failed, or it is one of those that an interruption, an
\* abort or a tracker that was down lost; and without a fault no key is.
THEOREM NothingIsForgotten == ASSUME ~PreDelta PROVE Spec => []NothingForgotten
<1>1. IInv => NothingForgotten
  BY DEF IInv, Carried, Unharmed, NothingForgotten
<1>. QED
  BY <1>1, InvInit, InvStep, PTL DEF Spec

\* ... and when applyDirty has returned after the freeze, then, but for the failures logged and the
\* keys in lost, the destination has the keys of the source and no others, with their types and at
\* least their contents: strings are the same, collections may hold more.
THEOREM CutoverIsComplete == ASSUME ~PreDelta PROVE Spec => []CutoverComplete
<1>1. IInv => CutoverComplete
  BY DEF IInv, Carried
<1>. QED
  BY <1>1, InvInit, InvStep, PTL DEF Spec
=============================================================================

------------------------------ MODULE Migration -------------------------------
(***************************************************************************)
(* The live migration of src/migration: bulk import with checkpoints, the  *)
(* dirty-key tracker, and the dirty set applied at cutover, driven by the  *)
(* script of the README.                                                   *)
(*                                                                         *)
(* The source is a Redis that its clients go on writing to.  Its values    *)
(* have a type and, as data, a bag of elements: one for a string, a member *)
(* or a field once for a set (hashes and sorted sets are imported by the   *)
(* same merge), an element as often as it occurs for a list.  Expiry times *)
(* are left out.                                                           *)
(*                                                                         *)
(* One action is the code between two awaits.  The importer's reads and    *)
(* the tracker's events come over different connections, so they meet in   *)
(* any order; the events themselves are in order.                          *)
(***************************************************************************)
EXTENDS Integers, Sequences, FiniteSets, Bags

CONSTANTS
    Keys,
    None,             \* no key
    Values,           \* the values clients write: [type |-> _, data |-> a bag]
    InitialSources,   \* what the source may hold when the migration starts
    PageOf,           \* key -> the SCAN page, 1..Pages, it is returned on
    Pages,
    Batch,            \* batch_keys of applyDirty
    Concurrency,
    Trackers,         \* where the tracker may run: "in-process", "separate"
    PreDelta,         \* applyDirty may also be run while the source is written to
    Faults,           \* the faults that may happen
    MaxWrites,        \* bound: writes to the source
    MaxFaults,        \* bound: faults
    MaxSwitches       \* bound: changes of the run's status from outside

FaultKinds == {"crash", "scan", "read", "signal", "abort", "abort apply"}
Types == {"string", "set", "list"}

\* What a database may hold of the elements there are: each once, except in a list.
Parts ==
    LET sources == (UNION {{s[k] : k \in Keys} : s \in InitialSources}) \ {None}
    IN  UNION {DOMAIN v.data : v \in Values \cup sources}
Contents(S) == [type : Types, data : [S -> Nat \ {0}]]
Storable(v) ==
    /\ \E S \in SUBSET Parts : v \in Contents(S)
    /\ v.type = "list" \/ \A e \in DOMAIN v.data : v.data[e] = 1

ASSUME MigrationAssumption ==
    /\ IsFiniteSet(Keys)
    /\ \A v \in Values : Storable(v)
    /\ \A s \in InitialSources :
          /\ s \in [Keys -> {s[k] : k \in Keys}]
          /\ \A k \in Keys : s[k] = None \/ Storable(s[k])
    /\ None \notin Types \cup {"dirty", "deleted", "applied", "skipped", "error"}
    /\ \A S \in SUBSET Parts : None \notin Contents(S)
    /\ Pages \in Nat \ {0}
    /\ PageOf \in [Keys -> 1..Pages]
    /\ Batch \in Nat \ {0}
    /\ Concurrency \in Nat \ {0}
    /\ Trackers \subseteq {"in-process", "separate"}
    /\ Trackers # {}
    /\ PreDelta \in BOOLEAN
    /\ Faults \subseteq FaultKinds
    /\ {MaxWrites, MaxFaults, MaxSwitches} \subseteq Nat

VARIABLES
    src,       \* the source: key -> value or None
    frozen,    \* the application no longer writes to the source
    tracking,  \* the tracker is subscribed
    events,    \* keyspace events on their way to the tracker: <<key, "write" or "del">>
    dest,      \* the destination database: key -> value or None
    dirty,     \* migration_dirty_keys: key -> its state, or None
    errlog,    \* the keys of migration_errors
    run,       \* the row of migration_runs: status and scan_cursor (0 is '0')
    step,      \* how far the script has come: "start", "imported" or "reconciled"
    job,       \* the operation in progress and its local variables
    signal,    \* abortRequested
    lost,      \* history: the keys the code has lost sight of, in one of the ways below
    writes, faults, switches   \* how much of the bounds is used

sourceVars == <<src, frozen, writes>>
registryVars == <<dirty, errlog, run>>
vars == <<src, frozen, tracking, events, dest, dirty, errlog, run, step, job, signal, lost,
          writes, faults, switches>>

-----------------------------------------------------------------------------
(* The operation in progress.  at is where it stands: "top", the head of   *)
(* the outer loop; "chunk", the head of the loop over a page or over the   *)
(* keys to import again; "keys", the imports of one chunk; "deleted", the  *)
(* head of the loop over the deleted keys.  held: it sleeps while paused.  *)

NoKeys == [k \in {} |-> None]
Idle == [task |-> "idle", at |-> "top", held |-> FALSE, cursor |-> 0, todo |-> {},
         deletedBatch |-> {}, chunk |-> NoKeys]
Applying == job.task \in {"predelta", "apply"}

\* A key of a chunk: the read it waits for, with what the last ones returned, or its outcome.
Asked(at, type, val) == [at |-> at, type |-> type, val |-> val]
Outcome(r) == Asked(r, None, None)
Outcomes == {"ok", "skipped", "error", "gone"}
InFlight == DOMAIN job.chunk
Ended(outcome) == {k \in InFlight : job.chunk[k].at = outcome}

Init ==
    /\ src \in InitialSources
    /\ frozen = FALSE
    /\ tracking = TRUE
    /\ events = <<>>
    /\ dest = [k \in Keys |-> None]
    /\ dirty = [k \in Keys |-> None]
    /\ errlog = {}
    /\ run = [status |-> "running", cursor |-> 0]
    /\ step = "start"
    /\ job = Idle
    /\ signal = FALSE
    /\ lost = {}
    /\ writes = 0 /\ faults = 0 /\ switches = 0

-----------------------------------------------------------------------------
(* The source and the tracker.                                             *)

\* Keyspace notifications reach subscribers only: a change made while the
\* tracker is down is lost.
Notify(k, event) ==
    IF tracking
    THEN events' = Append(events, <<k, event>>) /\ UNCHANGED lost
    ELSE UNCHANGED events /\ lost' = lost \cup {k}

CountWrite == writes < MaxWrites /\ writes' = writes + 1

\* Any command that changes a value; only SET changes its type.
SourceWrite(k, v) ==
    /\ ~frozen
    /\ CountWrite
    /\ src[k] # v
    /\ src[k] # None => v.type \in {src[k].type, "string"}
    /\ src' = [src EXCEPT ![k] = v]
    /\ Notify(k, "write")
    /\ UNCHANGED <<frozen, tracking, dest, registryVars, step, job, signal, faults, switches>>

\* DEL, UNLINK or expiry.
SourceDel(k) ==
    /\ ~frozen
    /\ CountWrite
    /\ src[k] # None
    /\ src' = [src EXCEPT ![k] = None]
    /\ Notify(k, "del")
    /\ UNCHANGED <<frozen, tracking, dest, registryVars, step, job, signal, faults, switches>>

\* "Stop app traffic to Redis, then press Enter".
Freeze ==
    /\ step = "imported" /\ job.task = "idle"
    /\ ~frozen
    /\ frozen' = TRUE
    /\ UNCHANGED <<src, writes, tracking, events, dest, registryVars, step, job, signal, lost, faults, switches>>

\* upsertDirtyKey: what the registry holds after the event.
EventState(event) == IF event = "del" THEN "deleted" ELSE "dirty"

TrackerEvent ==
    /\ events # <<>>
    /\ dirty' = [dirty EXCEPT ![Head(events)[1]] = EventState(Head(events)[2])]
    /\ events' = Tail(events)
    /\ UNCHANGED <<sourceVars, tracking, dest, errlog, run, step, job, signal, lost, faults, switches>>

\* The script started again subscribes before anything else; the run row is kept.
StartTracker ==
    /\ ~tracking
    /\ tracking' = TRUE
    /\ UNCHANGED <<sourceVars, events, dest, registryVars, step, job, signal, lost, faults, switches>>

-----------------------------------------------------------------------------
(* Import of one key (import-one.js): TYPE, then the read for that type,   *)
(* then one transaction of the destination.                                *)

\* Mutant: the exception of a write is taken for a key without a value.
WriteOutcomeSkips(ok) == Outcome(IF ok THEN "ok" ELSE "skipped")
WriteOutcome(ok) == Outcome(IF ok THEN "ok" ELSE "error")

\* What a write does to the key in the destination; it throws on another type.
Writable(old, new) == old = None \/ old.type = new.type
Merged(old, new) ==
    IF old = None \/ new.type = "string" THEN new
    ELSE [new EXCEPT !.data =
            IF new.type = "list" THEN old.data (+) new.data
            ELSE SetToBag(BagToSet(old.data) \cup BagToSet(new.data))]

Reply(k, s) == job' = [job EXCEPT !.chunk[k] = s]
ImportVars == <<sourceVars, tracking, events, registryVars, step, signal, lost, switches>>

\* applyDirty asks for the type before it imports.
AskGone(k) ==
    /\ job.chunk[k].at = "ask"
    /\ Reply(k, IF src[k] = None THEN Outcome("gone") ELSE Asked("type", None, None))
    /\ UNCHANGED <<ImportVars, dest, faults>>

AskType(k) ==
    /\ job.chunk[k].at = "type"
    /\ Reply(k, IF src[k] = None THEN Outcome("skipped") ELSE Asked("value", src[k].type, None))
    /\ UNCHANGED <<ImportVars, dest, faults>>

\* The source refuses to read a value of another type than the one it reported.
AskValue(k) ==
    /\ job.chunk[k].at = "value"
    /\ Reply(k, IF src[k] = None THEN Outcome("skipped")
                ELSE IF src[k].type # job.chunk[k].type THEN Outcome("error")
                ELSE Asked("write", None, src[k]))
    /\ UNCHANGED <<ImportVars, dest, faults>>

ImportWrite(k) ==
    LET v == job.chunk[k].val
        ok == Writable(dest[k], v)
    IN /\ job.chunk[k].at = "write"
       /\ dest' = IF ok THEN [dest EXCEPT ![k] = Merged(dest[k], v)] ELSE dest
       /\ Reply(k, WriteOutcome(ok))
       /\ UNCHANGED <<ImportVars, faults>>

ImportStep == \E k \in InFlight : AskGone(k) \/ AskType(k) \/ AskValue(k) \/ ImportWrite(k)

Fault(kind) == kind \in Faults /\ faults < MaxFaults /\ faults' = faults + 1

\* A read fails.
ReadFails(k) ==
    /\ Fault("read")
    /\ job.chunk[k].at \in {"ask", "type", "value"}
    /\ Reply(k, Outcome("error"))
    /\ UNCHANGED <<ImportVars, dest>>

-----------------------------------------------------------------------------
(* The checks at the head of each loop.  A loop that found the run paused  *)
(* sleeps until it is not; only applyDirty's inner loops then look once    *)
(* more whether it was aborted.                                            *)

Aborted == run.status = "aborted"
Paused == run.status = "paused"
MayGoOn == ~Paused /\ (Aborted => job.held)
Hold == Paused /\ ~job.held /\ job' = [job EXCEPT !.held = TRUE]

Chunks(from) ==
    {c \in SUBSET from :
        Cardinality(c) = IF Cardinality(from) < Concurrency THEN Cardinality(from) ELSE Concurrency}
\* Mutant: the keys the tracker saw deleted are never read.
BatchesOfDirty(state) ==
    LET all == {k \in Keys : dirty[k] = state /\ state = "dirty"}
    IN {b \in SUBSET all : Cardinality(b) = IF Cardinality(all) < Batch THEN Cardinality(all) ELSE Batch}
Batches(state) ==
    LET all == {k \in Keys : dirty[k] = state}
    IN {b \in SUBSET all : Cardinality(b) = IF Cardinality(all) < Batch THEN Cardinality(all) ELSE Batch}

\* The bulk import has still to read the key, now or, from the checkpoint, after a restart.
ToImport(k) ==
    IF job.task = "bulk"
    THEN \/ k \in job.todo \cup InFlight
         \/ PageOf[k] > job.cursor /\ ~(job.at # "top" /\ job.cursor = 0)
    ELSE step = "start" /\ PageOf[k] > run.cursor

\* The script ends with the checkpoint given, and an in-process tracker ends
\* with it; it is run again from the start.  The keys the checkpoint passes
\* over and the events not delivered are lost.
ScriptEnds(cursor) ==
    /\ job' = Idle
    /\ signal' = FALSE
    /\ step' = "start"
    /\ \E t \in Trackers :
          LET dropped == IF t = "separate" THEN {} ELSE {events[i][1] : i \in DOMAIN events}
              passed == {k \in Keys : ToImport(k) /\ PageOf[k] <= cursor}
          IN /\ tracking' = (tracking /\ t = "separate")
             /\ events' = IF t = "separate" THEN events ELSE <<>>
             /\ lost' = lost \cup dropped \cup passed

-----------------------------------------------------------------------------
(* Bulk import (bulk.js).                                                  *)

StartBulk ==
    /\ step = "start" /\ job.task = "idle" /\ tracking
    /\ job' = [Idle EXCEPT !.task = "bulk", !.cursor = run.cursor]
    /\ UNCHANGED <<sourceVars, tracking, events, dest, registryVars, step, signal, lost, faults, switches>>

\* The end of the loop, however it was left: an aborted run is completed as well.
BulkEnd ==
    /\ IF signal
       THEN /\ run' = [status |-> "aborted", cursor |-> job.cursor]
            /\ ScriptEnds(job.cursor)
       ELSE /\ run' = [status |-> "completed", cursor |-> 0]
            /\ step' = "imported"
            /\ job' = Idle
            /\ lost' = lost \cup {k \in Keys : ToImport(k)}
            /\ UNCHANGED <<tracking, events, signal>>
    /\ UNCHANGED <<sourceVars, dest, dirty, errlog, faults, switches>>

BulkVars == <<sourceVars, tracking, events, dest, dirty, step, signal, lost, faults, switches>>

\* SCAN from the cursor: the keys of the next page, and the cursor after it.
BulkTop ==
    /\ job.task = "bulk" /\ job.at = "top"
    /\ \/ ~job.held /\ (Aborted \/ signal) /\ BulkEnd
       \/ ~(signal /\ ~job.held) /\ Hold /\ UNCHANGED <<BulkVars, errlog, run>>
       \/ /\ MayGoOn /\ (signal => job.held)
          /\ LET page == job.cursor + 1
             IN job' = [job EXCEPT !.at = "chunk", !.held = FALSE,
                            !.cursor = IF page = Pages THEN 0 ELSE page,
                            !.todo = {k \in Keys : PageOf[k] = page /\ src[k] # None}]
          /\ UNCHANGED <<BulkVars, errlog, run>>

\* SCAN fails, and bulk() with it.
ScanFails ==
    /\ Fault("scan")
    /\ job.task = "bulk" /\ job.at = "top"
    /\ MayGoOn /\ (signal => job.held)
    /\ run' = [run EXCEPT !.status = "failed"]
    /\ ScriptEnds(run.cursor)
    /\ UNCHANGED <<sourceVars, dest, dirty, errlog, switches>>

BulkChunk ==
    /\ job.task = "bulk" /\ job.at = "chunk"
    /\ \/ job.todo = {} /\ job.cursor = 0 /\ BulkEnd
       \/ job.todo = {} /\ job.cursor # 0 /\ job' = [job EXCEPT !.at = "top"]
          /\ UNCHANGED <<BulkVars, errlog, run>>
       \/ job.todo # {} /\ ~job.held /\ (signal \/ Aborted) /\ BulkEnd
       \/ job.todo # {} /\ ~(signal /\ ~job.held) /\ Hold /\ UNCHANGED <<BulkVars, errlog, run>>
       \/ /\ job.todo # {} /\ MayGoOn /\ (signal => job.held)
          /\ \E c \in Chunks(job.todo) :
                job' = [job EXCEPT !.at = "keys", !.held = FALSE, !.todo = @ \ c,
                            !.chunk = [k \in c |-> Asked("type", None, None)]]
          /\ UNCHANGED <<BulkVars, errlog, run>>

\* A checkpoint is due after so many keys, bytes or seconds: at any key.  It
\* stores the cursor after the page the keys are on.
BulkResults ==
    /\ job.task = "bulk" /\ job.at = "keys"
    /\ \A k \in InFlight : job.chunk[k].at \in Outcomes
    /\ errlog' = errlog \cup Ended("error")
    /\ run' \in {run, [run EXCEPT !.cursor = job.cursor]}
    /\ job' = [job EXCEPT !.at = "chunk", !.chunk = NoKeys]
    /\ UNCHANGED BulkVars

-----------------------------------------------------------------------------
(* Applying the dirty set (apply-dirty.js).                                *)

\* The operator waits until the application has stopped and the tracker has
\* caught up; with PreDelta, applyDirty is also run before that.
StartApply ==
    LET quiet == frozen /\ events = <<>>
    IN /\ step = "imported" /\ job.task = "idle"
       /\ ~quiet => PreDelta
       /\ job' = [Idle EXCEPT !.task = IF quiet THEN "apply" ELSE "predelta"]
       /\ UNCHANGED <<sourceVars, tracking, events, dest, registryVars, step, signal, lost, faults, switches>>

ApplyVars == <<sourceVars, tracking, events, signal, lost, faults, switches>>

\* runApplyDirty returns.  An aborted one returns as well, with the run's
\* status to tell; the script may resume the run and call it again.
ApplyEnd(last) ==
    /\ step' = IF last /\ job.task = "apply" THEN "reconciled" ELSE step
    /\ job' = Idle
    /\ UNCHANGED <<ApplyVars, dest, registryVars>>

\* Both batches are read at once.
ApplyTop ==
    /\ Applying /\ job.at = "top"
    /\ \/ Aborted /\ ~job.held /\ ApplyEnd(FALSE)
       \/ Hold /\ UNCHANGED <<ApplyVars, dest, registryVars, step>>
       \/ /\ MayGoOn
          /\ \E b \in Batches("dirty"), d \in Batches("deleted") :
                IF b = {} /\ d = {} THEN ApplyEnd(TRUE)
                ELSE /\ job' = [job EXCEPT !.at = "chunk", !.held = FALSE, !.todo = b, !.deletedBatch = d]
                     /\ UNCHANGED <<ApplyVars, dest, registryVars, step>>

ApplyChunk ==
    /\ Applying /\ job.at = "chunk"
    /\ \/ job.todo # {} /\ Aborted /\ ApplyEnd(FALSE)
       \/ job.todo # {} /\ Hold /\ UNCHANGED <<ApplyVars, dest, registryVars, step>>
       \/ /\ job.todo # {} /\ ~Paused /\ ~Aborted
          /\ \E c \in Chunks(job.todo) :
                job' = [job EXCEPT !.at = "keys", !.held = FALSE, !.todo = @ \ c,
                            !.chunk = [k \in c |-> Asked("ask", None, None)]]
          /\ UNCHANGED <<ApplyVars, dest, registryVars, step>>
       \/ /\ job.todo = {}
          /\ job' = [job EXCEPT !.at = "deleted"]
          /\ UNCHANGED <<ApplyVars, dest, registryVars, step>>

Erased(keys) == [k \in Keys |-> IF k \in keys THEN None ELSE dest[k]]

\* Mutants: a key that is gone stays dirty; it gets a state outside the schema.
ApplyStateKeepsGone(outcome) ==
    IF outcome = "ok" THEN "applied" ELSE IF outcome = "gone" THEN "dirty" ELSE outcome
ApplyStateRaw(outcome) == IF outcome = "ok" THEN "applied" ELSE outcome

\* The outcome of each import is the key's state in the registry.
ApplyState(outcome) ==
    IF outcome = "ok" THEN "applied" ELSE IF outcome = "gone" THEN "deleted" ELSE outcome

ApplyResults ==
    /\ Applying /\ job.at = "keys"
    /\ \A k \in InFlight : job.chunk[k].at \in Outcomes
    /\ dest' = Erased(Ended("gone"))
    /\ dirty' = [k \in Keys |-> IF k \in InFlight THEN ApplyState(job.chunk[k].at) ELSE dirty[k]]
    /\ errlog' = errlog \cup Ended("error")
    /\ job' = [job EXCEPT !.at = "chunk", !.chunk = NoKeys]
    /\ UNCHANGED <<ApplyVars, run, step>>

\* The deleted keys are taken out of the destination and of the next batch.
ApplyDeleted ==
    /\ Applying /\ job.at = "deleted"
    /\ \/ job.deletedBatch # {} /\ Aborted /\ ApplyEnd(FALSE)
       \/ job.deletedBatch # {} /\ Hold /\ UNCHANGED <<ApplyVars, dest, registryVars, step>>
       \/ /\ job.deletedBatch # {} /\ ~Paused /\ ~Aborted
          /\ \E c \in Chunks(job.deletedBatch) :
                /\ dest' = Erased(c)
                /\ dirty' = [k \in Keys |-> IF k \in c THEN "applied" ELSE dirty[k]]
                /\ job' = [job EXCEPT !.held = FALSE, !.deletedBatch = @ \ c]
          /\ UNCHANGED <<ApplyVars, errlog, run, step>>
       \/ /\ job.deletedBatch = {}
          /\ job' = [job EXCEPT !.at = "top"]
          /\ UNCHANGED <<ApplyVars, dest, registryVars, step>>

-----------------------------------------------------------------------------
(* What comes from outside: the status set in the run row, signals and     *)
(* crashes.                                                                *)

SetStatus(s) ==
    /\ run' = [run EXCEPT !.status = s]
    /\ UNCHANGED <<sourceVars, tracking, events, dest, dirty, errlog, step, job, signal, lost>>

Switch == switches < MaxSwitches /\ switches' = switches + 1
Pause == ~Paused /\ Switch /\ SetStatus("paused") /\ UNCHANGED faults
Resume == (Paused \/ Aborted) /\ SetStatus("running") /\ UNCHANGED <<faults, switches>>
Abort ==
    /\ Fault("abort") \/ (Fault("abort apply") /\ step = "imported")
    /\ ~Aborted
    /\ SetStatus("aborted")
    /\ UNCHANGED switches

\* SIGINT or SIGTERM while bulk() has its handlers installed.
Signal ==
    /\ Fault("signal")
    /\ job.task = "bulk" /\ ~signal
    /\ signal' = TRUE
    /\ UNCHANGED <<sourceVars, tracking, events, dest, registryVars, step, job, lost, switches>>

Crash ==
    /\ Fault("crash")
    /\ job.task # "idle"
    /\ ScriptEnds(run.cursor)
    /\ UNCHANGED <<sourceVars, dest, registryVars, switches>>

-----------------------------------------------------------------------------

JobStep ==
    \/ BulkTop \/ BulkChunk \/ BulkResults
    \/ ApplyTop \/ ApplyChunk \/ ApplyResults \/ ApplyDeleted
    \/ ImportStep

Next ==
    \/ \E k \in Keys, v \in Values : SourceWrite(k, v)
    \/ \E k \in Keys : SourceDel(k)
    \/ Freeze \/ TrackerEvent \/ StartTracker
    \/ StartBulk \/ StartApply \/ JobStep
    \/ ScanFails \/ (\E k \in InFlight : ReadFails(k))
    \/ Pause \/ Resume \/ Abort \/ Signal \/ Crash

Spec == Init /\ [][Next]_vars

\* Awaited replies come, and a sleeping loop wakes.
FairSpec == Spec /\ WF_vars(JobStep)

-----------------------------------------------------------------------------
(* Properties.                                                             *)

\* Each variable has its type.
TypeOK ==
    /\ DOMAIN src = Keys /\ DOMAIN dest = Keys
    /\ \A k \in Keys, db \in {src, dest} : db[k] = None \/ db[k].type \in Types
    /\ {frozen, tracking, signal} \subseteq BOOLEAN
    /\ \A i \in DOMAIN events : events[i] \in Keys \X {"write", "del"}
    /\ dirty \in [Keys -> {None, "dirty", "deleted", "applied", "skipped", "error"}]
    /\ errlog \cup lost \subseteq Keys
    /\ run \in [status : {"running", "paused", "completed", "failed", "aborted"}, cursor : 0..Pages - 1]
    /\ step \in {"start", "imported", "reconciled"}
    /\ job.task \in {"idle", "bulk", "predelta", "apply"}
    /\ job.at \in {"top", "chunk", "keys", "deleted"}
    /\ job.todo \cup job.deletedBatch \cup InFlight \subseteq Keys
    /\ job.cursor \in 0..Pages - 1

\* A destination key that has all the source has; an import never takes
\* members or elements away.
Covers(d, s) ==
    IF s = None \/ d = None THEN s = d
    ELSE d.type = s.type /\ IF s.type = "string" THEN d = s ELSE s.data \sqsubseteq d.data

Tracked(k) ==
    \/ dirty[k] \in {"dirty", "deleted"}
    \/ \E i \in DOMAIN events : events[i][1] = k
Failed(k) == dirty[k] = "error" \/ k \in errlog

\* A key of which the destination lacks something is known: it is still to be
\* imported, tracked, or logged as failed, whatever the importer read before a
\* write and whatever became of that write.  Except the keys in lost.
KeysKnown ==
    \A k \in Keys : Covers(dest[k], src[k]) \/ ToImport(k) \/ Tracked(k) \/ Failed(k) \/ k \in lost

\* Each key that the destination has not yet in full is known, or lost in one of
\* four ways: it was changed while the tracker was down; its event was on the way
\* to a tracker that ended with the script; the import went on from a
\* checkpoint stored in the middle of its page; it returned before the key, its
\* run being aborted.  Each takes a fault: without one no key is lost, however
\* reads, writes, events, pauses and deltas meet.
NothingForgotten == KeysKnown /\ (faults = 0 => lost = {})

\* When applyDirty has returned after the freeze, and was not aborted, every key
\* but those logged as failed, and those in lost, which no registry has (see
\* NothingForgotten; without a fault there are none), is in the destination
\* exactly if it is in the source, with the same type and at least what the
\* source has in it: strings are the same, collections may hold more, for an
\* import adds to what the destination has of a key.
CutoverComplete ==
    step = "reconciled" =>
        \A k \in Keys : Covers(dest[k], src[k]) \/ Failed(k) \/ k \in lost

\* bulk() and applyDirty() return, unless the run stays paused: applyDirty
\* takes each key out of the batches it reads.
JobEnds == job.task # "idle" ~> (job.task = "idle" \/ Paused)

\* A bulk import that was interrupted and run again has, when it returns,
\* imported every key that no event tells of.
InterruptedImportResumes ==
    step = "imported" => \A k \in Keys : Covers(dest[k], src[k]) \/ Tracked(k) \/ Failed(k)
=============================================================================

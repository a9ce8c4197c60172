# RESPlite in TLA+

RESPlite is a server that speaks the Redis protocol over one SQLite file: one Node process, one
thread, synchronous SQLite (better-sqlite3), an LRU cache of values in front of it, a sweeper
for what expires, blocking list commands, publish/subscribe, Lua scripts, full-text search, and
a migration from a live Redis server.  This directory holds TLA+ modules that model its core,
the TLC configurations that check them on small instances, and proofs that TLAPS checks.

## The system

| Component | State | Operations | What makes it correct |
|---|---|---|---|
| engine (`engine/engine.js`) | none of its own: rows and cache | every key, string, hash, set, list and zset command | replies as if there were no cache, no lazy deletion and no sweeper |
| value cache (`cache/`) | an LRU map from key and type to value, expiry | hit, insert, invalidate, evict | never contradicts the rows |
| sweeper (`engine/expiration.js`) | an interval | delete due keys and due hash fields, a batch at a time | invisible to clients; the backlog is finally empty |
| storage (`storage/sqlite/`) | the tables: `redis_keys`, one or two for each type | transactions of the types | counters agree with rows; an empty collection has no key |
| blocking lists (`blocking/manager.js`) | waiters, a queue for each key, timers, keys deferred by a script | register, wake, time out, cancel, flush | one reply to a waiter, each item once, first come first served, no client hangs |
| connections (`server/connection.js`) | parser, paused or not, monitor and pub/sub mode | chunk, close, write | replies in order; reads exactly when not blocked |
| publish/subscribe (`pubsub/`) | subscriptions both ways, a bounded output queue | subscribe, publish, drain, disconnect | both maps agree; the bound is kept; order is kept |
| scripting (`scripting/`) | the script cache, the server it belongs to | eval, script load, flush, attach, close | a script is one step for everybody else; the cache keeps the scripts used last within its bounds |
| migration (`migration/`) | run row with cursor and status, registry of dirty keys | bulk import with checkpoints and resume, tracker, apply dirty | after all of it, the target equals the source |
| key listing (`commands/keys.js`, `scan.js`, `hscan.js`) | none: a cursor is an offset | a page of rows | a walk misses nothing that stays, but for rows that go |
| full-text search (`storage/sqlite/search.js`, `commands/ft*`) | for each index its documents, their rowids, a contentless FTS5 table, suggestions; an allocator of rowids | create, add, delete, search, suggest, flush | a query finds the present text of the documents and no older one |
| import of search indices (`migration/migrate-search.js`) | a batch, the keys seen, counts | schema, scan of each prefix, read, flush, suggestions | what was read is in the index or reported |
| lifecycle (`index.js`, `embed.js`) | server, sweeper, database handle, connections, signal handlers | start, roll back, close, signal | nothing runs on a closed database, nothing stays open |
| codec, monitor | a byte buffer, a set of connections | | see *Not modelled* |

They interact by direct calls on one thread.  What makes the system hard all the same: handlers
run in any order between sweeps, timers, `close` events and evictions; one value is in up to
three places (row, counter, cache entry), kept up by each handler on its own; expiry happens by
itself, at an instant, and is noticed later by whoever looks; a blocked client is in several
queues and answered by whichever of push, timer, script or disconnection comes first; and the
migration awaits Redis between reading its registry and writing to it.

## Modules

* `Entries` - values shared by the next two: entries, expiry, replies.
* `Keyspace` - the abstract specification: a map from keys to entries in which an expired entry
  does not exist, and the commands on it.
* `Engine` - the engine over its rows and its cache.  `rows[k]` is the row of `k` in
  `redis_keys` with its contents, `cache[k]` its entry.  One action for each handler, or one for a group
  of handlers that do the same to rows and cache: `ReadWhole` (the reads that populate the
  cache), `ReadPart` (those that only use it), `CollPut` and `CollShrink` (collection writes,
  their contents a set of cells).  The LRU is abstract: an insertion keeps any subset of the entries.
  `Abs` maps it to `Keyspace` by dropping the rows that have expired.
* `Hashes` - hash storage in detail: rows of fields, rows of field expiries, the counter
  `hash_count` (possibly NULL in an older database), the cached hash, the sweeper with both of
  its queries, eviction, restart.  One action for each handler.
* `Blocking` - `blocking/manager.js` with the connections it pauses and the list commands that
  wake them.  `waiters` keeps every waiter ever registered with the replies it got; `queues`,
  `byConn`, `total` are `waitersByKey`, `waitersByConnection`, `totalWaiters`; `mode` and
  `pending` are `deferredKeys` and where a script stands.  A script and the flush at its end are
  several steps, during which no other action is enabled; the code runs them without a break.
* `Migration` - `src/migration`: a source that goes on changing, its events on their way to the
  tracker, `migration_runs` (`run`), `migration_dirty_keys` (`dirty`), `migration_errors`
  (`errlog`), the destination, and the operation in progress with its local variables (`job`:
  where in its loops it stands, the cursor, the rest of the page or of the two batches, the
  chunk in flight).  One action is the code between two awaits, so what was read before an await
  meets what happened during it.  Values are a type and a bag of elements; `step` is how far the
  README's script has come, and a script that ends early is run again.  `lost` is a history
  variable, read by no action: the keys to which one of four things happened - a signal or an
  abort left them unread, a checkpoint stored in the middle of their page was resumed from, they
  changed while the tracker was down, their event died with an in-process tracker.  They are in no
  registry of the code; `NothingForgotten` and `CutoverComplete` except them, and say so.
* `Delivery` - the abstract specification of publish/subscribe: for each client whether it is
  connected (`link`), what it is subscribed to (`subs`) and the frames it has not taken
  (`pending`).  A publication appends the frames that the subscriptions call for, in any order
  among themselves, or cuts the client off because they would exceed the bound.
* `PubSub` - the broker's maps (`registry`, `patternOrder`, `byConnection`, `known`), the
  bounded output of each connection with its socket (`conn`: `queue`, `queued`, `blocked`,
  `ending` are the fields of `PubSubOutput`; `wire` and `needDrain` are the socket's buffer),
  and the loop of `connection.js` over the commands of a chunk (`todo`): one action for each
  command, the rest of a chunk dropped where the loop breaks.  `owed` counts the commands a
  client has no answer to.  While a chunk is handled only `Flush` may intervene.  The socket of
  Node is external: `write` buffers and returns FALSE from `highWaterMark` on, `drain` comes
  when the buffer is empty.  Implements `Delivery` with `pending` as wire and queue together.
* `Ordering` - numbered rows in the order of their numbers: what ORDER BY gives, and the filters of an
  array.  Its operators are defined by ranks, not by recursion, so that they can be proved about.
* `Lists`, `Sets`, `Zsets` - storage of the three types as operators: a list is its rows, each
  with a sequence number, and the two ends in `redis_list_meta`; a set and a sorted set are
  their members and a counter, NULL in an older database until a write or a read stores it.
  `Zsets` has both ways to answer a read: the SQL over the rows, and the engine's functions over a
  cached sorted set with its formatted scores.
* `Collections` - the tables of the three types (`lists`, `sets`, `zsets`) with the `cache` of
  whole values; one action for each handler, and the evictions.  It adds to `Engine`
  what that leaves abstract, the contents; expiry and WRONGTYPE are in `Engine` only.
* `Cursors` - SCAN, HSCAN and KEYS over `rows`, names with an expiry: `offset` is the cursor.  Its
  specification is `WalkSpec` (names of its own, for one proof module extends it beside `Hashes`).
  SCAN lists rows whatever their expiry, HSCAN only live fields.  Between two calls of a client
  rows come, go and expire; within KEYS only time passes and `engine.type()` deletes.  `steady`,
  `removed` and `added` are history variables.
* `Search` - `indices[name]` is a row of `search_indices` with its tables `docs`, `docmap`,
  `fts`, `sugs`; `allocated` is the largest id of `search_rowid_allocator`.  One action for each
  FT command that writes and for FLUSHDB.  A text is the set of its tokens.  FTS5 is external: with
  `content=''` it keeps postings and cannot say what a row held, so `FtsDelete` takes out what it
  is told.  An index may be from before the allocator, with documents numbered and no id given.
* `SearchMigration` extends it with the import from a Redis server: `phase` and the local
  variables of `runMigrateSearch` (`prefixes`, `page`, `pending`, `counts`, `aborted`).  One action
  is the code between two awaits; meanwhile clients write to the index and to the source.  `owed` is
  what SCAN guarantees; `changed` and `touched` are history variables.  `FieldMap` is the Map of
  `mapFields`, with one entry for an identifier; `Represents` says what a document has of a hash
  without the code's way of building it.
* `Servers` - `phase`, `db`, `sweeping`, `conns`, `handlers` of each server, made alone
  (`Embedded`), in a group (`Group`) or by `startServer` (`Cli`), and of each scripting plugin its
  `owner`, `closed`, `cache` and `cacheBytes`.  What is awaited - listening, the end of a socket,
  the callback of `server.close()` - is an action of its own; a server's start up to `listen()` is
  one (`Open`).  `used` is a history variable.  `embed.js` starts no sweeper: only `Cli` has one.
  Phase `leaked` is a start whose pragmas or schema failed after the file was open; `broken` a server
  of `startServer` after an `error` event while it listens (`AcceptFails`), without database,
  sweeper and plugin, but listening.
* `EngineProofs`, `RowsProofs` (of `Hashes` and of `Cursors`), `BlockingProofs`, `MigrationProofs`,
  `PubSubProofs`, `ServersProofs`, `SearchProofs`, `CollectionsProofs` - theorems about the modules
  they extend.
* `MCEngine`, `MCHashes`, `MCBlocking`, `MCMigration`, `MCPubSub`, `MCCollections`, `MCCursors`,
  `MCSearch`, `MCServers` - instances for TLC.

Handlers of the server are synchronous, and the writes of one are one SQLite transaction, so a handler is one
action.  A crash of the process between two handlers is `Restart` (the cache is lost, the rows
stay); within a transaction SQLite undoes it.

## Runs

| Run | Shows | Bounds |
|---|---|---|
| `engine` | `TypeOK`; `CacheCoherent`; `Engine` implements `Keyspace` | 2 keys, strings and one collection type, times 0..2, sweeps of 1 |
| `hashes` | counters exact and no orphaned expiry (`TablesAgree`), HGETALL and HLEN answer the live fields in every state, cached or not, nothing comes back unless written, the backlog is swept | 2 keys, 2 fields, times 0..2, sweeps of 1, one key possibly from an older database |
| `hashes_rename` | violated: RENAME revives expired fields | the same, 1 expiry |
| `blocking` | queues and counters agree with the waiters, one reply, each item once, paused exactly while waiting, nobody starves by single pushes, first come first served, waits end | 2 blocking clients, 2 waits, 2 keys, 2 items, 1 double push or rename, scripts of any length |
| `migration` | a key of which the destination lacks something is still to be imported, tracked, logged as failed, or in `lost`, and without a fault `lost` is empty; after the cutover logged or in `lost`; every operation ends | 3 keys on 2 pages of SCAN, chunks and batches of 1, 2 writes, 1 fault of any kind, 1 pause |
| `migration_signal` | violated: bulk, a signal, bulk again: completed, with keys missing (`InterruptedImportResumes`) | no writes |
| `pubsub` | the broker's maps agree with each other and with the connections' modes; the output's counter and limit are right and nothing queued lacks a drain; `PubSub` implements `Delivery`; a queue of a reading client empties and QUIT completes (`ReadersAreServed`) | 2 clients: one with every command that may leave, one that subscribes and may stop reading; 2 channels, 1 pattern, messages of size 1 and 2, limit 4, high-water mark 2, 4 chunks and messages |
| `pubsub_pipeline` | violated: commands behind a BLPOP that blocks are never answered | 1 client |
| `collections` | list rows have consecutive numbers between the ends of their meta row, counters equal the rows (`RowsConsistent`), a cached value answers every read as the rows do, and a list or sorted set read by any range, index or rank is the sequence of the reference definition | 2 keys, one possibly with a NULL counter, 2 values, 3 members, 2 scores, 3 elements in all, batches of 2, sequence numbers -2..2, cached values of 2, SPOP counts 0..2 |
| `cursors` | names that stay are missed no more often than rows behind the cursor went, and come twice no more often than rows came there; KEYS returns no key that was due, and leaves out no more than it removed | 5 names, pages of 2 and 3, times 0 and 1, 2 changes by clients |
| `search` | a query finds exactly the documents whose present text it asks for, though the index forgets only what it is told; when the result of an index is reported, each hash taken is in the index, its texts in fields of their identifiers, or counted | 1 index, 2 documents, one possibly old, 3 fields, 5 attributes, some of one identifier or one name, 2 tokens, 2 overlapping prefixes, batches of 2; 2 operations: commands of clients, changes of the source, failing reads and inserts, repeated runs |
| `servers` | databases, sweepers, plugins, sockets and handlers belong to servers that are up, whatever else fails or closes, but for `leaked` and `broken` servers; the script cache has the scripts used last; every close, rollback and start of a group ends | a group of 2, 1 server alone, 1 of `startServer`; 3 of them with one plugin; 2 clients, 3 scripts, one of size 2, cache of 2 scripts and 2 bytes |

Why the bounds are enough: two keys give MSET, RENAME, DEL of several, eviction by another key
and sweeps in batches smaller than what is due; the clock's three values give an expiry in the past,
now and in the future of another one, and a renewed one; two fields give a hash that survives
the loss of one.  Two waiters give every order of a push, a timer, a close and a script for a
waiter in two queues and one in one.  `timed` waits and waits without timeout are both there.
One client may disconnect (`Leavers`): what a second one does then is what the first did.
Two keys on the first page and one on the second give a checkpoint, a signal and a crash in the
middle of a page and between pages; two writes give a change during an import, a deletion and a
new value, and a change of type; chunks of one key show the most checks of the run's status.
A limit of 4 with a high-water mark of 2 gives a wire that fills before the limit, a queue of one
or two frames behind it, a drain that writes all of it or fills the wire again, and a client cut off
in the middle of the acknowledgements of one command; two channels and a pattern give a message
that is due twice.
Three elements give a middle one for LREM and LTRIM to take, ties between equal scores, and
a value too long for the cache; sequence numbers of both signs give a list grown at both ends.
Five names in pages of two or three give a last page that is full, one that is short and one that is
empty.  Two operations beside the import give a replacement and a deletion, a key that changes or
goes between page and read, a batch that fails in the middle and a run that is repeated.  Three
scripts, one as large as the cache, give an eviction of one and of two.
Increments of the engine run are of 0 (the sum's arithmetic is not the question there, the lost
expiry and the stale value are); the proofs hold for any.

### Fairness

* `Hashes`: `WF(Sweep)`: `setInterval` runs the sweeper while the server is up.
* `Blocking`: `SF` of each timer and each close event, `WF` of a script's end and of the flush:
  the event loop comes to due timers and `close` events between any two scripts, and a script
  ends at its deadline.  No push, and no client, is fair.
* `Servers`: `WF(Awaited)`: a server listens or fails, a destroyed socket ends, `server.close()`
  calls back, and a group goes on with its next server.  No client leaves by fairness.
* `Migration`: `WF(JobStep)`: replies of the source come and a sleeping loop wakes.  The
  tracker, the writers and the operator are not fair.

* `PubSub`: `WF` of the commands of a chunk (a handler ends); for clients that read, `WF(Flush)`
  and `SF(Drain)`: the event loop comes to a `drain` event between two handlers.  Clients of
  `Stalled` may stop reading for good; no client sends, and none leaves, by fairness.

### Divergences found

* SCAN lists and DEL counts keys that have expired and are not swept; `Keyspace` allows it, so
  there is no run for it.
* SCAN and HSCAN go by offset: names that were there all the time are missed when rows behind the
  cursor go between two calls.  KEYS ("return all keys", keys.js:2) does so by itself: it deletes the
  due keys of a page of 256, and the next page starts as many rows too late.
  `MissesOnlyForRemoved` bounds the misses by the removals.
* RENAME of a hash drops its field expiries and copies expired fields (`hashes_rename`).
* Wakeups after a script are made key by key when all its pushes are in the lists, so the waiter
  woken for `a` may take the item of `b` from an older waiter of `b`, which stays blocked, against
  README.md:540 ("FIFO per key").  `FirstComeFirstServed` is stated outside scripts; without that
  condition TLC refutes it.
* A push of several elements wakes one client, as documented, and RENAME wakes none: a client can
  stay blocked beside an element.  `NoStarvedBySinglePushes` is stated for single pushes.
* A bulk import stopped by a signal is completed, empty-handed, by the next one
  (`migration_signal`): the status `aborted` it left is taken for a request to stop.
* The checkpoint is stored in the loop over a page's keys, with the cursor behind the page
  (bulk.js:198): a crash then loses the keys of the page that were not yet imported, against
  README.md:338 "continues from the last checkpoint" and spec/11-migration-dirty-registry.md:439.  With
  the fault `crash` in place of `signal` TLC refutes `InterruptedImportResumes` that way: two keys on
  the first page, a checkpoint after one of them, a crash, bulk again, completed without the other.
* What changes while the tracker is down - with the in-process tracker, from a crash to the next
  start - is in no dirty set, and the delta after the freeze reads only that, though
  spec/11-migration-dirty-registry.md:435 says it "provides correctness".  Without its exception `k \in lost`
  TLC refutes `CutoverComplete`, with one page, one write, a crash and the in-process tracker: a key is
  imported, the process crashes, the key is deleted, and the destination has it after the delta.  The
  "safety sweep" that spec/11 suggests beside it (:230) is not in the code.
* Imports append to lists, so each re-import doubles them (import-one.js:34 says "Idempotent", and
  spec/11-migration-dirty-registry.md:440,444-446 that a rerun overwrites); members removed from a set, hash
  or sorted set of the source stay.  `CutoverComplete` asks therefore only that the destination covers
  the source; with equality TLC refutes it on one list that is written once after its import.
* `mapFields` keeps the source of a field's text by hash identifier: of several attributes of one
  identifier only the last is imported, the other fields are empty, though migrate-search.js:123 says "TEXT (1:1)" and
  README.md:658 "Direct".  `MigratedOrReported` asks for the text in one field of the identifier; with
  each of them TLC refutes it.
* `openDb` opens the file before pragmas and schema; when those throw (no database, busy) the
  handle is lost and stays open, for the `db?.close()` of `createRESPlite` and `startServer` has nothing
  to close (db.js:24).  The `error` listener of `startServer` meant for `listen()` stays while the
  server serves and closes the database behind it (index.js:81).  No doc or test speaks of either, so there
  is no run for them: they are the two exceptions in `OpenWhileServing`.
* `migration` has `PreDelta` FALSE: `applyDirty` starts with the source frozen and its events
  delivered, as in the README's script.  With TRUE (the optional pre-delta of spec/11, F.8.1)
  TLC refutes `NothingForgotten`: a key changed while it is imported again is marked applied over
  its newer dirty mark, and a batch of deleted keys read before the awaits takes out a key that
  was written since.

* Commands that follow a BLPOP in its chunk are neither run nor answered when it blocks
  (`pubsub_pipeline`): the loop over the chunk returns, and the parsed rest is lost, though
  `resp/parser.js` speaks of several complete commands in a chunk.
* SPOP with a negative count draws with repetition, as SRANDMEMBER does, and subtracts the draws
  from `set_count`: the counter is then wrong, and at zero the whole set is deleted, with members
  that the reply does not have.  The counts of `collections` are not negative.
* A score below 10^-6 that JavaScript writes with an exponent is cached as formatted to six
  digits (`zsets.js:16`), so ranges by score of a cached sorted set differ from those of the rows,
  which test/unit/engine-zsets.test.js:63 says they do not.  With 3 among the scores (the unit is
  10^-7) TLC refutes `HitsAnswerAsMisses`; the run keeps to scores that formatting preserves.
* A range whose start is past the end is empty in Redis and for ZRANGE.  LRANGE and LTRIM (by
  spec/07's clamping), ZREVRANGE and ZREMRANGEBYRANK take the last element.  `ListsBehave` and
  `SortedSetsBehave` speak of `Proper` ranges only.
* PUBLISH counts a subscriber whose connection has quit or been cut off and is not closed yet.
  `Delivery` does not speak of the count; there is no run for it.

* FTS5's implicit AND binds tighter than NOT: `a -b c` is sent as `a NOT b c` and finds the
  documents with `a` that do not have both `b` and `c`.  In the queries of `SearchAnswersQueries`
  words with a minus come last.
* An index name with `-` or `:` passes validation and fails in `CREATE TABLE`, where names are not
  quoted; so do fields that `mapFields` leaves with those characters.  The model's names are
  without them.
* Several servers of `createRESPlite` in one process each handle a signal, and the first that is
  closed ends the process while others may still be closing; a group does not.

The abstract key space keeps what the code decides and a reader may not expect: INCR drops the
expiry of the key, PERSIST replies 1 for a key without expiry, DEL may count more than existed.

## Proofs

Every theorem is about the specification of the run's module, for every value of the constants
that meets the module's named assumption: any keys, clients, servers, values, times and limits.

`EngineProofs`: `TypeCorrect`; `CacheNeverContradictsRows` (`CacheCoherent`).  The inductive
invariant is `TypeOK /\ CacheCoherent`.  `Agrees(c, r, t)` - the entry is the row, or it has
expired and the row is gone - is what survives the sweeper, which deletes rows without telling the
cache: equality of entry and row is not inductive.

From that invariant also `EngineImplementsKeyspace` (`ImplementsKeyspace`): the
abstract value of a key is its row while the row is live.  Each command maps to the command of
`Keyspace` with the same result, where a hit in the cache is a read of the row by `CacheCoherent`;
lazy deletion, sweep, eviction and restart map to stutters, the clock to `Keyspace`'s clock.

`RowsProofs`, of `Hashes`: `TypeCorrect`; `TablesAlwaysAgree` (`TablesAgree`: counters are exact, expiries have
fields); `ReadsAlwaysLive` (`ReadsAreLive`); `OnlyWritesReviveFields` (the action property
`RevivedOnlyByWrite`, which excepts RENAME: that one does revive, see `hashes_rename`).  The cache of a hash is kept through commands that change nothing it shows, so
its invariant speaks of the live fields and not of the rows.

`BlockingProofs`: `TypeCorrect`; `QueuesAlwaysMatch`; `RepliesAreSingle`; `PausedWhileBlocked`;
`ItemsAreInOnePlace`; `SinglePushesStarveNobody`; `ServedFirstComeFirst` (an action property).  That
nobody starves is not inductive: within a script items lie beside waiters until the deferred wakeups are
made, and so between the wakeup of one key and of the next.  The invariant says of these states
which keys are still to be flushed and that each flush serves while both an item and a waiter are
left.  `SinglePushesStarveNobody` and `ServedFirstComeFirst` keep the properties' condition, no push of
several items and no rename; both are false without it.

`MigrationProofs`: `TypeCorrect`; `NothingIsForgotten`; `CutoverIsComplete`, the last two under
`~PreDelta`, which says that deltas are applied to a frozen source only, as in the README's script
(see the divergences: TLC refutes them otherwise).  Both except the keys in `lost`, which the code does
lose, and ask that the destination has at least what the source has (`Covers`): they say that stale
reads, late events, changes of type, failing reads and writes, pauses and the two batches of
`applyDirty` lose nothing else, and (`Unharmed`) that without a fault nothing is lost.  The invariant follows a key that differs through each place that accounts for it: the pages not yet scanned, the page and the batch at hand, the dirty
registry, events on the way, the log of errors, `lost`.

`PubSubProofs`: `TypeCorrect`; `MapsAlwaysAgree`; `OutputsStaySound`; `DeliversAsPromised`
(`ImplementsDelivery`).  The invariant adds to them that
`pubSubMode` follows the maps and that the commands of a chunk are of the connection's language.
`WritePubSub` writes frame after frame and stops where the connection is cut off: a lemma shows by
induction over the frames what any sequence of them does to a sound output.

The refinement takes the mapping of `PubSub`'s `INSTANCE Delivery`: what is pending for a client is what
its wire holds and then its queue.  It needs one more invariant, `Wired`: an open connection
that has subscriptions has an output, so that the bound of `Delivery` falls on whoever can be published
to.  Lemmas on data say what each way of writing does to what is pending: `WritePubSubTakes`, that a row
of frames is appended whole, in order, or the client is cut off because there was no room;
`WriteResponseTakes` and `QuitTakes`, the same for a reply and for the last OK; `DrainedWaits`, that a
drain moves frames from queue to wire and changes nothing a client sees.  `MessagesInOrder` says that the
targets the registry chooses are the client's matching subscriptions, each once.  Then one lemma per
action of `PubSub` names the step of `Delivery` it is, or shows that nothing of it is visible.

`ServersProofs`: `NothingLeftOpen` (`OpenWhileServing`); `CacheKeepsRecentScripts` (`RecentScripts`);
`TypeCorrect`.  The inductive invariant of the first adds `GroupIsCalled`: the group is called on a
signal only while it is up, and its servers never, so that a rollback or a group's end leaves no handler
behind.  The theorem has the two exceptions of its property, `leaked` and `broken`, and shows that
there is no other.  A plugin's owner is what makes starts of servers that share it safe: a start attaches it
only when nobody has it, so no failure or close of one server takes it from another.  For the script
cache the invariant is that it is the end of the sequence of scripts used, each once, and that the bytes
are their sum; eviction drops the head, so it keeps an end an end.

`RowsProofs`, of `Cursors`: `WalkTypeCorrect`; `MissesAreBounded` (`MissesOnlyForRemoved`); `KeysReturnsLiveKeys`
(`KeysAreLive`).  The invariant is an account: the names that are steady and passed without being
given are no more than the names removed below the cursor, those given twice no more than the names
added there.  Lemmas about ranks - the rank of a name in a list counts the names up to it, and the
initial stretches of two lists differ by no more than what went or came - say what one page and
one change of the rows do to it.  `KEYS` has the rows to itself while it runs, so of it the invariant
says that whatever is still to visit is there.

`SearchProofs`, for both search modules: `TypeCorrect`; `QueriesAreAnswered`
(`SearchAnswersQueries`); `ImportAccountsForAll` (`MigratedOrReported`).  `ExactIndex` says that the
postings of an index are those of its documents under their rowids, no more and no fewer; without
it a delete that is given the wrong text looks harmless.  That FTS5 reads an expression as it was
meant is shown for each shape of query in `Queries`.  The import's invariant is an account: `Behind`
are the hashes taken that are neither in the batch nor in the index, `Overlooked` the keys that are
there and that no page, scan or prefix `Ahead` will give any more; the two together are no more than the
errors counted.  A flush moves the keys of the batch out of `Behind` or into the errors, an
answer that fails counts its key, and what clients and the source change is theirs.  What a document has of
its hash is stated without `BuildDocFields` (`Represents`) and derived from it: `BuiltRepresents`, for any
attributes, also several of one identifier, of which the last field has the text (`LastTwin`).

`CollectionsProofs`: `RowsTyped` (`TypeOK`); `RowsAgreeWithEndsAndCounters` (`RowsConsistent`);
`CacheHitsAnswerAsTheRows` (`HitsAnswerAsMisses`); `ListCommandsBehave` (`ListsBehave`);
`SortedSetCommandsBehave` (`SortedSetsBehave`).  `IInv` says of each key that it has rows of one kind, that a
list's rows are all the positions from head to tail, that a sorted set's counter is its size or
missing, and (`Fresh`) that what is cached is the whole value of the rows.  `Fresh` makes the
third theorem inductive: a write ends with the invalidation of its key, and a read caches exactly what
it replies.  The counter of a set is kept apart in `RowSets`, which a negative count of SPOP breaks
and nothing else; the types, the lists and the sorted sets are right with it as well.

The rest is about the operators.  A strict order on a finite set gives each element a rank, and each
number below the size is the rank of one element (`RanksAreAllThere`); so `InOrder` and `Ordered`
list every row once, in order (`InOrderArranges`, `OrderedArranges`).  Then each command is
followed to what it makes of the sequence of the elements: LREM renumbers the rows it leaves from the head
(`LRemDrops`), a range by score is a stretch of the ranks (`WithinIs`), a page of the reverse the
mirrored page reversed (`ReverseSub`), and ZADD, which upserts pair after pair, leaves each member the
score of the last pair that gives it (`UpsertedGives`).

Two theorems have a hypothesis beside the module's assumption, each a divergence listed above that
refutes the property without it.  `SpopCountsNatural`: SPOP is given no negative count.
`FormattingKeeps`: no score is one that `formatScore` changes, for cached ranges compare the
formatted score.  The run `collections` is within both.

Assumptions.  A module's named assumption gives its constants their types and the finiteness
that sizes need: `EntriesAssumption`, `HashesAssumption`, `BlockingAssumption`,
`MigrationAssumption`, `PubSubAssumption`, `ServersAssumption`, `CursorsAssumption`,
`CollectionsAssumption`, `SearchAssumption`, `SearchMigrationAssumption`.  TLC evaluates
each in every run of the module.  No bound is assumed to be small: the caps on counters are
parameters like the rest.

Induction over data - the frames of a reply, the scripts of a cache, the loops of a handler - goes by
a least counterexample: the set of lengths for which a statement fails has, were it not
empty, a least element (`LeastNumber`), and the element before it refutes that.

Model-checked only: all liveness (`ENABLED` and fairness are out of the provers' reach).  Every
invariant of a passing run has a theorem, and so has every action property and refinement.

## Plan

The modules above came in this order: key space and engine, hashes, blocking lists, migration,
publish/subscribe with the chunk pipeline, collections, search and its import, cursors, servers.
What is left: the glob matcher and the incremental parser against reference definitions, and the LRU's
byte accounting.

## Not modelled

Ranking, limits and the order of search results; text of replies and logs, glob
matching, rounding of floating-point scores, MONITOR's copies, `INFO`-style commands, the pragmas, the
policy of renamed commands, the Lua runtime, and the sampling of `migration/verify.js`.  Integer
overflow beyond 2^53 in counters; `setTimeout` beyond 2^31 ms, which fires at once, so that BLPOP
with a timeout over 2147483 s answers nil immediately (manager.js:114).  A popped element whose
client has gone, the close event still to come, is lost (connection.js:118; spec/10, E.13.5):
`ItemsOnce` counts the reply as the delivery.

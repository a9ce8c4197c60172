------------------------------ MODULE Cursors ------------------------------
(***************************************************************************)
(* Walks over rows that change: SCAN and KEYS over redis_keys, HSCAN over  *)
(* the fields of one hash.  A cursor is an offset into the ordered rows    *)
(* and no state is kept for it, so whoever deletes a row that was passed   *)
(* moves the rest up.  KEYS is one handler, but it deletes rows itself:    *)
(* engine.type() drops each key that is due.  The names are 1..N, in the   *)
(* order of the index; patterns and values are left out.                   *)
(***************************************************************************)
EXTENDS Integers, FiniteSetsExt, Functions

CONSTANTS
    N,             \* names that rows may have
    Counts,        \* rows in a page: COUNT of HSCAN, or the constants of SCAN and KEYS
    MaxClock, MaxChanges   \* bounds: the clock, changes of rows by clients

ASSUME CursorsAssumption ==
    /\ N \in Nat /\ MaxClock \in Nat /\ MaxChanges \in Nat
    /\ Counts \subseteq Nat \ {0}

VARIABLES
    walk,       \* the command
    rows,       \* name -> when it expires, Never or a time
    clock,
    changes,    \* of rows by clients so far
    phase,      \* "idle", "open" (the client has a cursor), "done"
    offset,     \* rows passed: the cursor
    page,       \* KEYS: keys of the page still to look at
    more,       \* the page was full
    returned,   \* name -> how often it was returned (KEYS: 0 or 1)
    began,      \* history: when the walk began
    steady,     \* history: names that were to be walked all the time
    removed,    \* history: how many of the rows passed went
    added       \* history: how many came among the rows passed

walkVars ==
    <<walk, rows, clock, changes, phase, offset, page, more, returned, began, steady, removed, added>>

Names == 1..N
Never == 0
Due(k) == rows[k] # Never /\ rows[k] <= clock

\* The rows a statement lists: SCAN does not look at their expiry, HSCAN does.
Listed(table, time) ==
    {k \in DOMAIN table : walk = "HSCAN" => table[k] = Never \/ table[k] > time}
Listing == Listed(rows, clock)

\* ORDER BY with LIMIT and OFFSET.
Slice(list, from, count) ==
    {k \in list : LET rank == Cardinality({j \in list : j <= k})
                  IN  from < rank /\ rank <= from + count}

WalkInit ==
    /\ walk \in {"SCAN", "HSCAN", "KEYS"}
    /\ rows \in UNION {[S -> Never..MaxClock] : S \in SUBSET Names}
    /\ clock = 0 /\ changes = 0
    /\ phase = "idle" /\ offset = 0 /\ page = {} /\ more = TRUE
    /\ returned = [k \in Names |-> 0]
    /\ began = 0 /\ steady = {} /\ removed = 0 /\ added = 0

-----------------------------------------------------------------------------
(* The walk.                                                               *)

Begin ==
    /\ phase = "idle" /\ phase' = "open"
    /\ began' = clock /\ steady' = Listing
    /\ UNCHANGED <<walk, rows, clock, changes, offset, page, more, returned, removed, added>>

\* Mutants: a full page taken for the last; an end only at an empty page.
LastIfFull(scanned, count, from) == IF scanned <= count THEN 0 ELSE from + scanned
LastIfEmpty(scanned, count, from) == IF scanned = 0 THEN 0 ELSE from + count
NextCursor(scanned, count, from) == IF scanned < count THEN 0 ELSE from + scanned

\* SCAN and HSCAN: a call of the client with the cursor it has.
Page(count) ==
    LET names == Slice(Listing, offset, count)
        next == NextCursor(Cardinality(names), count, offset)
    IN  /\ phase = "open" /\ walk # "KEYS"
        /\ returned' = [k \in Names |-> returned[k] + IF k \in names THEN 1 ELSE 0]
        /\ offset' = next /\ phase' = IF next = 0 THEN "done" ELSE "open"
        /\ UNCHANGED <<walk, rows, clock, changes, page, more, began, steady, removed, added>>

\* KEYS: the next page of its loop, while the last one was full.
KeysPage(count) ==
    LET names == Slice(Listing, offset, count)
    IN  /\ phase = "open" /\ walk = "KEYS" /\ page = {} /\ more
        /\ page' = names /\ offset' = offset + Cardinality(names)
        /\ more' = (NextCursor(Cardinality(names), count, offset) # 0)
        /\ UNCHANGED <<walk, rows, clock, changes, phase, returned, began, steady, removed, added>>

\* The rows become table, the clock time: what that does to the rows passed and to the walk's duty.
Became(table, time) ==
    LET then == Listed(table, time)
        passed(list) == Slice(list, 0, offset)
    IN  /\ rows' = table /\ clock' = time
        /\ removed' = removed + Cardinality(passed(Listing) \ then)
        /\ added' = added + Cardinality(passed(then) \ Listing)
        /\ steady' = steady \cap then

\* Mutant: KEYS takes the key without a look at its type.
TakeKey(k) ==
    /\ returned' = [returned EXCEPT ![k] = 1]
    /\ UNCHANGED <<rows, clock, removed, added, steady>>
\* engine.type() of a key deletes it when it is due; KEYS then leaves it out.
CheckKey(k) ==
    IF Due(k) THEN Became([j \in DOMAIN rows \ {k} |-> rows[j]], clock) /\ UNCHANGED returned
    ELSE TakeKey(k)
KeysCheck ==
    /\ phase = "open" /\ page # {}
    /\ LET k == Min(page)
       IN  CheckKey(k) /\ page' = page \ {k}
    /\ UNCHANGED <<walk, changes, phase, offset, more, began>>
KeysDone ==
    /\ phase = "open" /\ walk = "KEYS" /\ page = {} /\ ~more
    /\ phase' = "done" /\ offset' = 0
    /\ UNCHANGED <<walk, rows, clock, changes, page, more, returned, began, steady, removed, added>>

-----------------------------------------------------------------------------
(* What happens to the rows between two calls; nothing does within KEYS, but time passes.          *)

Between == ~(walk = "KEYS" /\ phase = "open")
Change(table) ==
    /\ Between /\ phase # "done"
    /\ Became(table, clock)
    /\ UNCHANGED <<walk, phase, offset, page, more, returned, began>>
Write(k, expiry) ==
    /\ changes < MaxChanges /\ changes' = changes + 1
    /\ expiry = Never \/ expiry > clock
    /\ k \in DOMAIN rows => rows[k] # expiry
    /\ Change([j \in DOMAIN rows \cup {k} |-> IF j = k THEN expiry ELSE rows[j]])
Delete(k) ==
    /\ changes < MaxChanges /\ changes' = changes + 1
    /\ k \in DOMAIN rows
    /\ Change([j \in DOMAIN rows \ {k} |-> rows[j]])
\* The sweeper, or a read of a row that is due.
ExpireRow(k) ==
    /\ k \in DOMAIN rows /\ Due(k)
    /\ Change([j \in DOMAIN rows \ {k} |-> rows[j]])
    /\ UNCHANGED changes
TimePasses ==
    /\ clock < MaxClock /\ phase # "done"
    /\ Became(rows, clock + 1)
    /\ UNCHANGED <<walk, changes, phase, offset, page, more, returned, began>>

WalkNext ==
    \/ Begin \/ KeysCheck \/ KeysDone \/ TimePasses
    \/ \E count \in Counts : Page(count) \/ KeysPage(count)
    \/ \E k \in Names : Delete(k) \/ ExpireRow(k)
    \/ \E k \in Names, expiry \in Never..MaxClock : Write(k, expiry)
WalkSpec == WalkInit /\ [][WalkNext]_walkVars

-----------------------------------------------------------------------------
(* Properties.                                                             *)

\* The cursor stays within the rows there can be.
WalkTypeOK ==
    /\ walk \in {"SCAN", "HSCAN", "KEYS"}
    /\ DOMAIN rows \subseteq Names /\ Range(rows) \subseteq Never..MaxClock
    /\ clock \in 0..MaxClock /\ began \in 0..clock /\ changes \in 0..MaxChanges
    /\ phase \in {"idle", "open", "done"}
    /\ offset \in 0..N /\ more \in BOOLEAN
    /\ page \subseteq DOMAIN rows
    /\ returned \in [Names -> Nat]
    /\ steady \subseteq Listing /\ {removed, added} \subseteq Nat

\* Names that were to be walked and never came; and for each that came, a pair for every time it
\* came again.
Missed == {k \in steady : returned[k] = 0}
Repeats == UNION {{k} \X (1..(returned[k] - 1)) : k \in steady}

\* What a walk by offsets promises: names that were there all the time are missed no more often
\* than rows already passed went away, and returned again no more often than rows came among
\* those; without such changes each is returned exactly once.
MissesOnlyForRemoved ==
    phase = "done" => Cardinality(Missed) <= removed /\ Cardinality(Repeats) <= added

\* keys.js: KEYS returns no key that was due when it began, and those it looked at and left out are
\* gone: the rows left at its end are those returned, those due since they were looked at, and not
\* more than it removed.
KeysAreLive ==
    walk = "KEYS" /\ phase = "done" =>
        /\ \A k \in Names : returned[k] > 0 =>
             k \in DOMAIN rows /\ (rows[k] = Never \/ rows[k] > began)
        /\ Cardinality({k \in DOMAIN rows : returned[k] = 0}) <= removed
=============================================================================

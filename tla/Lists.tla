-------------------------------- MODULE Lists --------------------------------
(***************************************************************************)
(* List storage (storage/sqlite/lists.js) and the reads of a cached list   *)
(* (engine/engine.js) as operators.  A stored list is its row of           *)
(* redis_list_meta with its rows of redis_list_items: a push or pop moves  *)
(* an end and touches no other row, the others find rows by their          *)
(* distance from head.  A write returns the list and the reply.            *)
(***************************************************************************)
EXTENDS Ordering, SequencesExt

\* No row in either table.
NoList == [head |-> 0, tail |-> -1, items |-> <<>>]

Length(l) == l.tail - l.head + 1

\* SELECT value ... WHERE seq BETWEEN from AND to ORDER BY seq
Select(l, from, to) ==
    Picked(l.items, {q \in DOMAIN l.items : from <= q /\ q <= to})
\* Rows for the values, the first of them with sequence number q.
Rows(q, values) == [n \in q..(q + Len(values) - 1) |-> values[n - q + 1]]
\* These rows with others of other numbers.
With(rows, others) ==
    [q \in DOMAIN rows \cup DOMAIN others |-> IF q \in DOMAIN rows THEN rows[q] ELSE others[q]]

LPush(l, values) ==
    LET start == IF l = NoList THEN 0 ELSE l.head - Len(values)
        stop == IF l = NoList THEN Len(values) - 1 ELSE l.tail
    IN  [list |-> [head |-> start, tail |-> stop, items |-> With(Rows(start, Reverse(values)), l.items)],
         reply |-> stop - start + 1]

RPush(l, values) ==
    LET start == l.tail + 1
        stop == l.tail + Len(values)
    IN  [list |-> [head |-> l.head, tail |-> stop, items |-> With(Rows(start, values), l.items)],
         reply |-> stop - l.head + 1]

\* The rows from..to, with the meta row set to them; none when they are none.
Keep(l, from, to) ==
    IF from > to THEN NoList
    ELSE [head |-> from, tail |-> to,
          items |-> Restrict(l.items, {q \in DOMAIN l.items : from <= q /\ q <= to})]

\* At most count elements, at least one; count 1 stands for none given as well.
LPop(l, count) ==
    LET take == Min({count, Length(l)})
    IN  [list |-> Keep(l, l.head + take, l.tail),
         reply |-> Select(l, l.head, l.head + take - 1)]

RPop(l, count) ==
    LET take == Min({count, Length(l)})
    IN  [list |-> Keep(l, l.head, l.tail - take),
         reply |-> Reverse(Select(l, l.tail - take + 1, l.tail))]

\* The sequence numbers that LREM deletes: the first count matches, or the last.
Doomed(l, count, element) ==
    LET matches == InOrder({q \in DOMAIN l.items : l.items[q] = element})
        n == Len(matches)
    IN  ToSet(CASE count = 0 -> matches
                [] count > 0 -> SubSeq(matches, 1, Min({count, n}))
                [] count < 0 -> SubSeq(matches, Max({1, n + count + 1}), n))

\* Mutant: the rows that are left keep their sequence numbers.
LRemInPlace(l, count, element) ==
    LET doomed == Doomed(l, count, element)
        left == Restrict(l.items, DOMAIN l.items \ doomed)
    IN  [list |-> IF doomed = {} THEN l
                  ELSE IF DOMAIN left = {} THEN NoList
                  ELSE [head |-> l.head, tail |-> l.head + Cardinality(DOMAIN left) - 1,
                        items |-> left],
         reply |-> Cardinality(doomed)]
\* What is left is numbered again from head.
LRem(l, count, element) ==
    LET doomed == Doomed(l, count, element)
        left == Picked(l.items, DOMAIN l.items \ doomed)
    IN  [list |-> IF doomed = {} THEN l
                  ELSE IF left = <<>> THEN NoList
                  ELSE [head |-> l.head, tail |-> l.head + Len(left) - 1,
                        items |-> Rows(l.head, left)],
         reply |-> Cardinality(doomed)]

\* The position an index means: from the end when it is negative.
Position(n, index) == IF index < 0 THEN n + index ELSE index
Has(n, index) == Position(n, index) \in 0..(n - 1)

\* When the list has the index.
LSet(l, index, value) ==
    [l EXCEPT !.items[l.head + Position(Length(l), index)] = value]
LIndex(l, index) ==
    IF Has(Length(l), index) THEN <<l.items[l.head + Position(Length(l), index)]>> ELSE <<>>

\* The ends of a range, each moved into the list.
Clamped(n, index) == IF index < 0 THEN Max({0, n + index}) ELSE Min({index, n - 1})

\* Mutant: the stop is taken as it is.
LRangeUnclamped(l, start, stop) ==
    Select(l, l.head + Clamped(Length(l), start), l.head + stop)
LRange(l, start, stop) ==
    Select(l, l.head + Clamped(Length(l), start), l.head + Clamped(Length(l), stop))

LTrim(l, start, stop) ==
    Keep(l, l.head + Clamped(Length(l), start), l.head + Clamped(Length(l), stop))

-----------------------------------------------------------------------------
(* Reads of a cached list, a sequence of its values.                       *)

CachedRange(values, start, stop) ==
    SubSeq(values, Clamped(Len(values), start) + 1, Clamped(Len(values), stop) + 1)
CachedIndex(values, index) ==
    IF Has(Len(values), index) THEN <<values[Position(Len(values), index) + 1]>> ELSE <<>>
=============================================================================

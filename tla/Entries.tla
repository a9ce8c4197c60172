------------------------------- MODULE Entries -------------------------------
(***************************************************************************)
(* The values that the key space, its SQLite rows and its cache entries    *)
(* have in common.                                                         *)
(*                                                                         *)
(* A key holds an entry: its logical type, its contents and its absolute   *)
(* expiry.  The contents are the rows the key has in the table of its type:*)
(* exactly one payload for a string, a nonempty set of cells (fields,      *)
(* members, items) for a collection.                                       *)
(***************************************************************************)
EXTENDS Integers, FiniteSets

CONSTANTS
    Keys,       \* the keys clients name
    CollTypes,  \* the collection types in use, from {"hash", "set", "list", "zset"}
    Cells,      \* the cells a collection is made of
    MaxInt,     \* string payloads that parse as integers are 0..MaxInt
    TTLs,       \* relative expiries, in clock ticks, that commands carry
    Deltas,     \* the increments of INCRBY and DECRBY
    MaxTime,    \* bound: the clock stops here
    MaxSweep    \* maxKeysPerSweep

ASSUME EntriesAssumption ==
    /\ CollTypes \subseteq {"hash", "set", "list", "zset"}
    /\ Cells \subseteq Nat
    /\ MaxInt \in Nat
    /\ TTLs \subseteq Nat
    /\ Deltas \subseteq Int
    /\ MaxTime \in Nat
    /\ MaxSweep \in Nat \ {0}
    /\ IsFiniteSet(Keys)

Text     == MaxInt + 1        \* any payload parseInt rejects
Payloads == 0..Text
NoExp    == -1                \* expires_at IS NULL

Nothing == [type |-> "none", data |-> {}, exp |-> NoExp]
StringEntry(p, x)  == [type |-> "string", data |-> {p}, exp |-> x]
CollEntry(t, d, x) == [type |-> t, data |-> d, exp |-> x]

Expiries == Nat \cup {NoExp}
Stored ==
    {e \in [type : CollTypes \cup {"string"}, data : SUBSET Nat, exp : Expiries] :
        IF e.type = "string" THEN \E p \in Payloads : e.data = {p}
                             ELSE e.data \subseteq Cells /\ e.data # {}}

\* The comparison every expiry check of the program makes: due at exactly expiresAt.
Expired(e, t) == e.exp # NoExp /\ e.exp <= t

\* Replies, as <<tag, contents>>.
Nil       == <<"nil", {}>>
Ok        == <<"ok", {}>>
WrongType == <<"wrongtype", {}>>
NotAnInt  == <<"notanint", {}>>
NoSuchKey == <<"nosuchkey", {}>>
Num(n)    == <<"int", {n}>>
Data(d)   == <<"data", d>>

\* What a typed read of entry e replies.
ReplyOf(e, t) ==
    IF e = Nothing THEN Nil ELSE IF e.type # t THEN WrongType ELSE Data(e.data)
=============================================================================

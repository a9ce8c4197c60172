------------------------------ MODULE Keyspace ------------------------------
(***************************************************************************)
(* What the key space promises its clients: a map from keys to entries in  *)
(* which an expired entry does not exist, and commands that reply from     *)
(* that map.  There is no cache, no row waiting to be swept and no lazy    *)
(* deletion here: an entry vanishes at the instant the clock reaches its   *)
(* expiry (spec/03, 11.1 and 11.2).                                        *)
(***************************************************************************)
EXTENDS Entries

VARIABLES
    store,   \* key -> entry or Nothing
    now,     \* the engine clock
    reply    \* the reply of the last command

kvars == <<store, now, reply>>

LiveOf(ks) == {k \in ks : store[k] # Nothing}
StringsOf(ks) == {k \in ks : store[k].type = "string"}
Replies(r) == reply' = r /\ UNCHANGED <<store, now>>
Becomes(s, r) == reply' = r /\ UNCHANGED now /\ store' = s

Init ==
    /\ store = [k \in Keys |-> Nothing]
    /\ now = 0
    /\ reply = Nil

Read(k, t) == Replies(ReplyOf(store[k], t))

MGet(ks) == Replies(<<"array", {<<k, store[k].data>> : k \in StringsOf(ks)}>>)

Set(k, p, x) ==
    IF store[k].type \in {"none", "string"}
      THEN Becomes([store EXCEPT ![k] = StringEntry(p, x)], Ok)
      ELSE Replies(WrongType)

Written(f) == [k \in Keys |-> IF k \in DOMAIN f THEN StringEntry(f[k], NoExp) ELSE store[k]]

MSet(f) ==
    IF \A k \in DOMAIN f : store[k].type \in {"none", "string"}
      THEN Becomes(Written(f), Ok)
      ELSE Replies(WrongType)

MSetNx(f) ==
    IF LiveOf(DOMAIN f) = {} THEN Becomes(Written(f), Num(1)) ELSE Replies(Num(0))

\* The counter commands write the sum without the key's expiry.
IncrBy(k, d) ==
    IF store[k].type \notin {"none", "string"} THEN Replies(WrongType)
    ELSE IF store[k].data = {Text} THEN Replies(NotAnInt)
    ELSE LET n == (IF store[k] = Nothing THEN 0 ELSE CHOOSE p \in Payloads : store[k].data = {p}) + d
         IN  /\ n \in 0..MaxInt
             /\ Becomes([store EXCEPT ![k] = StringEntry(n, NoExp)], Num(n))

\* DEL removes every named key.  Its count is at least the number of keys that existed: see
\* README.md for the rows that are expired but not yet swept, which the code also counts.
Del(ks) ==
    \E n \in Cardinality(LiveOf(ks))..Cardinality(ks) :
        Becomes([k \in Keys |-> IF k \in ks THEN Nothing ELSE store[k]], Num(n))

Exists(ks) == Replies(Num(Cardinality(LiveOf(ks))))
Type(k) == Replies(<<store[k].type, {}>>)
PTtl(k) ==
    Replies(Num(IF store[k] = Nothing THEN -2
                ELSE IF store[k].exp = NoExp THEN -1 ELSE store[k].exp - now))
DbSize == Replies(Num(Cardinality(LiveOf(Keys))))

\* SCAN lists every key that exists, and possibly keys that have expired.
Scan == \E extra \in SUBSET Keys : Replies(<<"keys", LiveOf(Keys) \cup extra>>)

Expire(k, t) ==
    IF store[k] = Nothing THEN Replies(Num(0))
    ELSE Becomes([store EXCEPT ![k] = IF t = 0 THEN Nothing ELSE [@ EXCEPT !.exp = now + t]],
                 Num(1))

Persist(k) ==
    IF store[k] = Nothing THEN Replies(Num(0))
    ELSE Becomes([store EXCEPT ![k].exp = NoExp], Num(1))

Rename(k, nk) ==
    IF store[k] = Nothing THEN Replies(NoSuchKey)
    ELSE IF k = nk THEN Replies(Ok)
    ELSE Becomes([store EXCEPT ![nk] = store[k], ![k] = Nothing], Ok)

FlushDb == Becomes([k \in Keys |-> Nothing], Ok)

\* A collection write gives an absent key of its type the contents d, or replaces the
\* contents of a present one; the expiry of a present key stays.
CollPut(k, t, d) ==
    IF store[k].type \notin {"none", t} THEN Replies(WrongType)
    ELSE Becomes([store EXCEPT ![k] = CollEntry(t, d, store[k].exp)], Ok)

\* A removal leaves the contents d of a present collection; the last cell takes the key away.
CollShrink(k, t, d) ==
    IF store[k] = Nothing THEN Replies(Nil)
    ELSE IF store[k].type # t THEN Replies(WrongType)
    ELSE /\ d \subseteq store[k].data
         /\ Becomes([store EXCEPT ![k] = IF d = {} THEN Nothing ELSE [@ EXCEPT !.data = d]], Ok)

Tick ==
    /\ now < MaxTime
    /\ now' = now + 1
    /\ store' = [k \in Keys |-> IF Expired(store[k], now') THEN Nothing ELSE store[k]]
    /\ UNCHANGED reply

SetExpiries == {NoExp} \cup {now + t : t \in TTLs \ {0}}
PairLists == UNION {[ks -> Payloads] : ks \in (SUBSET Keys) \ {{}}}
KeyLists == (SUBSET Keys) \ {{}}

Next ==
    \/ \E k \in Keys, t \in CollTypes \cup {"string"} : Read(k, t)
    \/ \E k \in Keys, p \in Payloads, x \in SetExpiries : Set(k, p, x)
    \/ \E f \in PairLists : MSet(f) \/ MSetNx(f)
    \/ \E k \in Keys, d \in Deltas : IncrBy(k, d)
    \/ \E ks \in KeyLists : MGet(ks) \/ Del(ks) \/ Exists(ks)
    \/ \E k \in Keys : Type(k) \/ PTtl(k) \/ Persist(k)
    \/ \E k \in Keys, t \in TTLs : Expire(k, t)
    \/ \E k, nk \in Keys : Rename(k, nk)
    \/ \E k \in Keys, t \in CollTypes, d \in SUBSET Cells :
           \/ d # {} /\ CollPut(k, t, d)
           \/ CollShrink(k, t, d)
    \/ DbSize \/ Scan \/ FlushDb
    \/ Tick

Spec == Init /\ [][Next]_kvars
=============================================================================

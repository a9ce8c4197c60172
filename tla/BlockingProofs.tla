---------------------------- MODULE BlockingProofs ----------------------------
(***************************************************************************)
(* The queues, the connections and the replies of Blocking in every        *)
(* reachable state, for any clients, keys and limits.                      *)
(***************************************************************************)
EXTENDS Blocking, FiniteSetTheorems, SequenceTheorems, NaturalsInduction, TLAPS

\* A set of natural numbers that is not empty has a least element; a claim about every prefix of
\* a sequence is proved from the shortest prefix that refutes it.
LEMMA LeastNumber ==
    ASSUME NEW T \in SUBSET Nat, T # {}
    PROVE  \E n \in T : \A m \in T : n <= m
<1>. DEFINE R == OpToRel(<, Nat)
<1>1. IsWellFoundedOn(R, Nat)
  BY NatLessThanWellFounded
<1>2. \A m, n \in Nat : m < n => <<m, n>> \in R
  BY DEF OpToRel
<1>. HIDE DEF R
<1>3. PICK n \in T : \A m \in T : ~(<<m, n>> \in R)
  BY <1>1, WFMin
<1>4. \A m \in T : ~(m < n)
  BY <1>2, <1>3
<1>. QED  BY <1>4

\* f is what the loop over the first N waiters of a queue computes.
Loop(q, S, N, f) ==
    f = [n \in 0..N |-> IF n = 0 THEN <<>>
                        ELSE IF q[n] \in S THEN f[n - 1] ELSE Append(f[n - 1], q[n])]

\* It computes something for every number of waiters.
LEMMA LoopComputes == ASSUME NEW q, NEW S, NEW N \in Nat PROVE \E f : Loop(q, S, N, f)
<1>. DEFINE T == {M \in Nat : ~\E f : Loop(q, S, M, f)}
<1>1. ASSUME NEW M \in T, \A K \in T : M <= K PROVE FALSE
  <2>1. CASE M = 0
    <3>. DEFINE g == [n \in 0..0 |-> <<>>]
    <3>1. Loop(q, S, 0, g)  BY DEF Loop
    <3>. QED  BY <1>1, <2>1, <3>1
  <2>2. CASE M # 0
    <3>1. M - 1 \in Nat /\ M - 1 \notin T  BY <1>1, <2>2
    <3>2. PICK f : Loop(q, S, M - 1, f)  BY <3>1
    <3>. DEFINE g == [n \in 0..M |->
                        IF n # M THEN f[n]
                        ELSE IF q[M] \in S THEN f[M - 1] ELSE Append(f[M - 1], q[M])]
    <3>3. ASSUME NEW n \in 0..M
          PROVE  g[n] = IF n = 0 THEN <<>>
                        ELSE IF q[n] \in S THEN g[n - 1] ELSE Append(g[n - 1], q[n])
      <4>1. CASE n = M
        <5>1. g[M - 1] = f[M - 1]  BY <2>2
        <5>. QED  BY <2>2, <4>1, <5>1
      <4>2. CASE n # M /\ n # 0
        <5>1. n \in 0..(M - 1) /\ n - 1 \in 0..M /\ n - 1 # M  BY <4>2
        <5>2. f[n] = IF q[n] \in S THEN f[n - 1] ELSE Append(f[n - 1], q[n])
          BY <3>2, <4>2, <5>1 DEF Loop
        <5>3. g[n - 1] = f[n - 1] /\ g[n] = f[n]  BY <4>2, <5>1
        <5>. QED  BY <4>2, <5>2, <5>3
      <4>3. CASE n # M /\ n = 0
        <5>1. f[0] = <<>>  BY <2>2, <3>2 DEF Loop
        <5>. QED  BY <4>3, <5>1
      <4>. QED  BY <4>1, <4>2, <4>3
    <3>4. g = [n \in 0..M |-> g[n]]  OBVIOUS
    <3>. HIDE DEF g
    <3>5. Loop(q, S, M, g)  BY <3>3, <3>4 DEF Loop
    <3>. QED  BY <1>1, <3>5
  <2>. QED  BY <2>1, <2>2
<1>2. T = {}
  <2>. HIDE DEF T
  <2>1. T \in SUBSET Nat  BY DEF T
  <2>. QED  BY <1>1, <2>1, LeastNumber
<1>. QED  BY <1>2

\* A queue in the order of registration.
Ascending(q) == \A m, n \in DOMAIN q : m < n => q[m] <= q[n]

\* What splicing the waiters of S out of a queue leaves: the others, in their order.
LEMMA SplicedKeeps ==
    ASSUME NEW V \in SUBSET Int, NEW q \in Seq(V), NEW S
    PROVE  /\ Spliced(q, S) \in Seq(V)
           /\ Elems(Spliced(q, S)) = Elems(q) \ S
           /\ Elems(q) \cap S # {} => Len(Spliced(q, S)) < Len(q)
           /\ Ascending(q) => Ascending(Spliced(q, S))
<1>. DEFINE kept == CHOOSE f : Loop(q, S, Len(q), f)
            P(n) == /\ kept[n] \in Seq(V) /\ Len(kept[n]) <= n
                    /\ \A x : x \in Elems(kept[n]) <=> x \notin S /\ \E i \in 1..n : q[i] = x
                    /\ (\E i \in 1..n : q[i] \in S) => Len(kept[n]) < n
                    /\ Ascending(q) => Ascending(kept[n])
            T == {n \in 0..Len(q) : ~P(n)}
<1>0. Len(q) \in Nat  OBVIOUS
<1>1. Spliced(q, S) = kept[Len(q)]
  BY DEF Spliced, Loop
<1>2. Loop(q, S, Len(q), kept)
  BY <1>0, LoopComputes
<1>. HIDE DEF kept
<1>3. kept[0] = <<>>
  BY <1>0, <1>2 DEF Loop
<1>4. ASSUME NEW n \in 1..Len(q)
      PROVE  kept[n] = IF q[n] \in S THEN kept[n - 1] ELSE Append(kept[n - 1], q[n])
  <2>1. n \in 0..Len(q) /\ n # 0  BY <1>0
  <2>. QED  BY <1>2, <2>1 DEF Loop
<1>5. ASSUME NEW n \in 1..Len(q), P(n - 1) PROVE P(n)
  <2>. DEFINE s == kept[n - 1]
              t == kept[n]
  <2>0. n \in Nat /\ n - 1 \in Nat /\ q[n] \in V /\ 1..n = 1..(n - 1) \cup {n}
    OBVIOUS
  <2>1. s \in Seq(V) /\ Len(s) <= n - 1  BY <1>5
  <2>2. CASE q[n] \in S
    <3>1. t = s  BY <1>4, <2>2
    <3>. QED  BY <1>5, <2>0, <2>2, <3>1
  <2>3. CASE q[n] \notin S
    <3>1. t = Append(s, q[n])  BY <1>4, <2>3
    <3>. HIDE DEF s, t
    <3>2. t \in Seq(V) /\ Len(t) = Len(s) + 1 /\ DOMAIN t = DOMAIN s \cup {Len(s) + 1}
          /\ t[Len(s) + 1] = q[n] /\ (\A i \in DOMAIN s : t[i] = s[i])
      BY <2>0, <2>1, <3>1
    <3>3. \A x : x \in Elems(t) <=> x \in Elems(s) \/ x = q[n]
      BY <3>2 DEF Elems
    <3>4. \A x : x \in Elems(t) <=> x \notin S /\ \E i \in 1..n : q[i] = x
      BY <1>5, <2>0, <2>3, <3>3 DEF s
    <3>5. (\E i \in 1..n : q[i] \in S) => Len(t) < n
      BY <1>5, <2>0, <2>1, <2>3, <3>2 DEF s
    <3>6. ASSUME Ascending(q) PROVE Ascending(t)
      <4>1. Ascending(s)  BY <1>5, <3>6 DEF s
      <4>2. ASSUME NEW i \in DOMAIN s PROVE s[i] <= q[n]
        <5>1. s[i] \in Elems(s)  BY DEF Elems
        <5>2. PICK j \in 1..(n - 1) : q[j] = s[i]  BY <1>5, <5>1 DEF s
        <5>3. j \in DOMAIN q /\ n \in DOMAIN q /\ j < n  BY <2>0
        <5>. QED  BY <3>6, <5>2, <5>3 DEF Ascending
      <4>. QED  BY <2>1, <3>2, <4>1, <4>2 DEF Ascending
    <3>. QED  BY <2>1, <3>2, <3>4, <3>5, <3>6 DEF t
  <2>. QED  BY <2>2, <2>3
<1>6. P(0)
  BY <1>3 DEF Elems, Ascending
<1>7. T = {}
  <2>1. ASSUME NEW n \in T, \A m \in T : n <= m PROVE FALSE
    <3>1. n \in 1..Len(q)  BY <1>6
    <3>. HIDE DEF P
    <3>2. n - 1 \in 0..Len(q) /\ ~(n <= n - 1)  BY <3>1
    <3>3. P(n - 1)  BY <2>1, <3>2
    <3>. QED  BY <1>5, <3>1, <3>3
  <2>. HIDE DEF T
  <2>2. T \in SUBSET Nat  BY DEF T
  <2>. QED  BY <2>1, <2>2, LeastNumber
<1>8. P(Len(q))
  <2>. HIDE DEF P
  <2>. QED  BY <1>0, <1>7
<1>9. \A x : x \in Elems(q) <=> \E i \in 1..Len(q) : q[i] = x
  BY DEF Elems
<1>10. Elems(kept[Len(q)]) = Elems(q) \ S
  BY <1>8, <1>9
<1>. QED  BY <1>1, <1>8, <1>9, <1>10

-----------------------------------------------------------------------------
(* The waiters.                                                            *)

Waiter == [conn : Clients, kind : Kinds, keys : KeyLists, timer : BOOLEAN,
           completed : BOOLEAN, canceled : BOOLEAN, replies : Seq(Replies)]

\* A connection that waits is paused, so it has one waiter.
OneWaiterEach == \A i, j \in Active : waiters[i].conn = waiters[j].conn => i = j

\* Wakeups are deferred while a script runs, and some are left as long as they are made.
Deferred == (mode = "idle" => pending = <<>>) /\ (mode = "flush" => pending # <<>>)

IInv == TypeOK /\ QueuesMatch /\ SingleReply /\ PausedIffBlocked /\ OneWaiterEach /\ Deferred

\* There are finitely many waiters, and a wait names keys.
LEMMA WaitersFacts ==
    ASSUME TypeOK
    PROVE  /\ Ids = 1..Len(waiters) /\ Len(waiters) \in Nat /\ Ids \subseteq Nat
           /\ \A S \in SUBSET Ids : IsFiniteSet(S) /\ Cardinality(S) \in Nat
           /\ \A i \in Ids : waiters[i] \in Waiter
           /\ \A i \in Ids : waiters[i].keys \in Seq(Keys) /\ waiters[i].keys # <<>>
           /\ \A i \in Ids : Elems(waiters[i].keys) \subseteq Keys
<1>1. waiters \in Seq(Waiter)
  BY DEF TypeOK, Waiter
<1>2. Ids = 1..Len(waiters) /\ Len(waiters) \in Nat /\ Ids \subseteq Nat
  BY <1>1 DEF Ids
<1>3. \A i \in Ids : waiters[i] \in Waiter
  BY <1>1 DEF Ids
<1>4. IsFiniteSet(Ids)
  BY <1>2, FS_Interval
<1>5. \A S \in SUBSET Ids : IsFiniteSet(S) /\ Cardinality(S) \in Nat
  BY <1>4, FS_Subset, FS_CardinalityType
<1>6. \A i \in Ids : waiters[i].keys \in Seq(Keys) /\ waiters[i].keys # <<>>
  BY <1>3, BlockingAssumption DEF Waiter
<1>7. \A i \in Ids : Elems(waiters[i].keys) \subseteq Keys
  BY <1>6 DEF Elems
<1>. QED  BY <1>2, <1>3, <1>5, <1>6, <1>7

\* The waiters of G are done with, the others as they were.
Finished(G) ==
    /\ DOMAIN waiters' = Ids
    /\ \A i \in Ids :
         /\ waiters'[i].keys = waiters[i].keys /\ waiters'[i].conn = waiters[i].conn
         /\ Done(waiters'[i]) <=> Done(waiters[i]) \/ i \in G

\* The waiters of G leave the queues, the sets of their connections and the total.
Forgotten(G) ==
    /\ queues' \in [Keys -> Seq(Ids)]
    /\ \A k \in Keys : Elems(queues'[k]) = Elems(queues[k]) \ G /\ Ascending(queues'[k])
    /\ byConn' \in [Clients -> SUBSET Ids]
    /\ \A c \in Clients : byConn'[c] = byConn[c] \ G
    /\ total' = total - Cardinality(G)

\* Together that keeps the match.
LEMMA ForgottenMatch ==
    ASSUME TypeOK, QueuesMatch, OneWaiterEach, NEW G \in SUBSET Active, Finished(G), Forgotten(G)
    PROVE  QueuesMatch' /\ OneWaiterEach' /\ Active' = Active \ G /\ total' \in Nat
<1>1. Active' = Active \ G
  BY DEF Active, Finished, Ids
<1>2. Active \subseteq Ids
  BY DEF Active
<1>3. Cardinality(Active \ G) = Cardinality(Active) - Cardinality(G)
  <2>1. IsFiniteSet(Active) /\ IsFiniteSet(G)  BY <1>2, WaitersFacts
  <2>2. Active \cap G = G  OBVIOUS
  <2>. QED  BY <2>1, <2>2, FS_Difference
<1>4. total' = Cardinality(Active')
  BY <1>1, <1>3 DEF QueuesMatch, Forgotten
<1>5. ASSUME NEW k \in Keys
      PROVE  /\ Elems(queues'[k]) = {i \in Active' : k \in Elems(waiters'[i].keys)}
             /\ \A m, n \in DOMAIN queues'[k] : m < n => queues'[k][m] <= queues'[k][n]
  BY <1>1, <1>2 DEF QueuesMatch, Forgotten, Finished, Ascending
<1>6. \A c \in Clients : byConn'[c] = {i \in Active' : waiters'[i].conn = c}
  BY <1>1, <1>2 DEF QueuesMatch, Forgotten, Finished
<1>7. QueuesMatch'
  BY <1>4, <1>5, <1>6 DEF QueuesMatch, Elems
<1>8. OneWaiterEach'
  BY <1>1, <1>2 DEF OneWaiterEach, Finished
<1>9. total' \in Nat
  BY <1>1, <1>2, <1>4, WaitersFacts
<1>. QED  BY <1>1, <1>7, <1>8, <1>9

\* removeWaiterFromQueues forgets the waiter.
LEMMA RemoveForgets ==
    ASSUME TypeOK, QueuesMatch, NEW id \in Active, RemoveWaiter(id)
    PROVE  Forgotten({id})
<1>1. id \in Ids /\ Ids \in SUBSET Int
  BY WaitersFacts DEF Active
<1>2. waiters[id].conn \in Clients
  BY <1>1, WaitersFacts DEF Waiter
<1>3. ASSUME NEW k \in Keys
      PROVE  /\ queues'[k] \in Seq(Ids)
             /\ Elems(queues'[k]) = Elems(queues[k]) \ {id} /\ Ascending(queues'[k])
  <2>1. queues[k] \in Seq(Ids) /\ Ascending(queues[k])
    BY DEF TypeOK, QueuesMatch, Ascending
  <2>2. CASE k \in Elems(waiters[id].keys)
    <3>1. queues'[k] = Spliced(queues[k], {id})  BY <2>2 DEF RemoveWaiter, Unqueued
    <3>. QED  BY <1>1, <2>1, <3>1, SplicedKeeps
  <2>3. CASE k \notin Elems(waiters[id].keys)
    <3>1. queues'[k] = queues[k]  BY <2>3 DEF RemoveWaiter, Unqueued
    <3>2. id \notin Elems(queues[k])  BY <2>3 DEF QueuesMatch
    <3>. QED  BY <2>1, <3>1, <3>2
  <2>. QED  BY <2>2, <2>3
<1>4. queues' \in [Keys -> Seq(Ids)]
  BY <1>3 DEF RemoveWaiter, Unqueued
<1>5. byConn' \in [Clients -> SUBSET Ids] /\ (\A c \in Clients : byConn'[c] = byConn[c] \ {id})
  BY <1>2 DEF RemoveWaiter, TypeOK, QueuesMatch
<1>6. total' = total - Cardinality({id})
  BY FS_Singleton DEF RemoveWaiter
<1>. QED  BY <1>3, <1>4, <1>5, <1>6 DEF Forgotten

-----------------------------------------------------------------------------
(* The operators of the lists.                                             *)

\* The first place of a set of places is one of them.
LEMMA FirstOfIsFirst ==
    ASSUME NEW S \in SUBSET Nat, S # {}
    PROVE  FirstOf(S) \in S /\ \A i \in S : FirstOf(S) <= i
BY LeastNumber DEF FirstOf

\* The key served is the first of the keys that has an item.
LEMMA KeyServedFacts ==
    ASSUME NEW keys \in Seq(Keys), NEW l, Available(keys, l) # {}
    PROVE  /\ KeyServed(keys, l) \in Keys
           /\ KeyServed(keys, l) \in Elems(keys)
           /\ l[KeyServed(keys, l)] # <<>>
<1>1. Available(keys, l) \in SUBSET Nat
  BY DEF Available
<1>2. FirstOf(Available(keys, l)) \in Available(keys, l)
  BY <1>1, FirstOfIsFirst
<1>. DEFINE i == FirstOf(Available(keys, l))
<1>3. i \in DOMAIN keys /\ l[keys[i]] # <<>>
  BY <1>2 DEF Available
<1>4. KeyServed(keys, l) = keys[i]
  BY DEF KeyServed
<1>. HIDE DEF i
<1>5. keys[i] \in Keys /\ keys[i] \in Elems(keys)
  BY <1>3 DEF Elems
<1>. QED  BY <1>3, <1>4, <1>5

\* lpop and rpop take one item and leave the others.
LEMMA PopFacts ==
    ASSUME NEW kind, NEW s \in Seq(Items), s # <<>>
    PROVE  ItemOf(kind, s) \in Items /\ RestOf(kind, s) \in Seq(Items)
           /\ Len(RestOf(kind, s)) = Len(s) - 1
<1>1. Len(s) \in Nat /\ Len(s) > 0 /\ DOMAIN s = 1..Len(s) /\ Len(s) \in DOMAIN s
      /\ s[Len(s)] \in Items
  OBVIOUS
<1>2. CASE kind = "BLPOP"
  <2>1. Head(s) \in Items /\ Tail(s) \in Seq(Items) /\ Len(Tail(s)) = Len(s) - 1  OBVIOUS
  <2>. QED  BY <1>2, <2>1 DEF ItemOf, RestOf
<1>3. CASE kind # "BLPOP"
  <2>. DEFINE t == SubSeq(s, 1, Len(s) - 1)
  <2>1. Len(s) - 1 \in Nat /\ \A j \in 1..(Len(s) - 1) : s[j] \in Items
    BY <1>1
  <2>2. t \in Seq(Items) /\ Len(t) = Len(s) - 1
    BY <1>1, <2>1
  <2>. QED  BY <1>1, <1>3, <2>2 DEF ItemOf, RestOf
<1>. QED  BY <1>2, <1>3

-----------------------------------------------------------------------------
(* What the manager keeps of its waiters.                                  *)

ManagerTyped ==
    /\ waiters \in Seq(Waiter)
    /\ queues \in [Keys -> Seq(Ids)]
    /\ byConn \in [Clients -> SUBSET Ids]
    /\ total \in Nat
    /\ paused \subseteq Clients

ManagerInv == ManagerTyped /\ QueuesMatch /\ SingleReply /\ PausedIffBlocked /\ OneWaiterEach

\* The waiter id has had its answer, the others are as they were.
Answered(id) ==
    /\ waiters' \in Seq(Waiter)
    /\ DOMAIN waiters' = Ids
    /\ \A i \in Ids : i # id => waiters'[i] = waiters[i]
    /\ waiters'[id].keys = waiters[id].keys /\ waiters'[id].conn = waiters[id].conn
    /\ waiters'[id].completed /\ ~waiters'[id].canceled
    /\ Len(waiters'[id].replies) = 1
    /\ paused' = paused \ {waiters[id].conn}

\* An answered waiter that is removed leaves the manager as it should be.
LEMMA AnsweredKeeps ==
    ASSUME IInv, NEW id \in Active, Answered(id), RemoveWaiter(id), conn' = conn
    PROVE  ManagerInv'
<1>1. TypeOK /\ QueuesMatch /\ SingleReply /\ PausedIffBlocked /\ OneWaiterEach
  BY DEF IInv
<1>2. Finished({id})
  BY DEF Finished, Answered, Done, Active
<1>3. Forgotten({id}) /\ {id} \in SUBSET Active
  BY <1>1, RemoveForgets
<1>4. QueuesMatch' /\ OneWaiterEach' /\ Active' = Active \ {id} /\ total' \in Nat
  BY <1>1, <1>2, <1>3, ForgottenMatch
<1>5. ManagerTyped'
  BY <1>1, <1>3, <1>4 DEF ManagerTyped, Forgotten, Answered, Ids, TypeOK
<1>6. SingleReply'
  BY <1>1 DEF SingleReply, Answered, Ids
<1>7. PausedIffBlocked'
  <2>1. id \in Ids /\ waiters[id].conn \in Clients
    BY <1>1, WaitersFacts DEF Active, Waiter
  <2>2. ASSUME NEW c \in Clients, conn'[c] # "closed" PROVE c \in paused' <=> byConn'[c] # {}
    <3>1. c \in paused <=> byConn[c] # {}  BY <1>1, <2>2 DEF PausedIffBlocked
    <3>2. byConn'[c] = byConn[c] \ {id}  BY <1>3 DEF Forgotten
    <3>3. CASE c = waiters[id].conn
      <4>1. byConn[c] \subseteq {id}  BY <1>1, <3>3 DEF QueuesMatch, OneWaiterEach
      <4>. QED  BY <3>2, <3>3, <4>1 DEF Answered
    <3>4. CASE c # waiters[id].conn
      <4>1. id \notin byConn[c]  BY <1>1, <3>4 DEF QueuesMatch
      <4>. QED  BY <3>1, <3>2, <3>4, <4>1 DEF Answered
    <3>. QED  BY <3>3, <3>4
  <2>. QED  BY <2>2 DEF PausedIffBlocked
<1>. QED  BY <1>4, <1>5, <1>6, <1>7 DEF ManagerInv

\* What changes nothing of the manager keeps it.
LEMMA ManagerUnchanged ==
    ASSUME IInv, UNCHANGED managerVars, UNCHANGED conn
    PROVE  ManagerInv'
BY DEF IInv, ManagerInv, ManagerTyped, managerVars, TypeOK, Waiter, QueuesMatch, SingleReply,
       PausedIffBlocked, OneWaiterEach, Active, Ids, Done, Elems

\* tryWake gives an item to the waiter, from a key that has one.
LEMMA ServeFacts ==
    ASSUME IInv, NEW id \in Active, NEW l \in [Keys -> Seq(Items)],
           Available(waiters[id].keys, l) # {}, Serve(id, l)
    PROVE  Answered(id) /\ lists' \in [Keys -> Seq(Items)]
<1>1. id \in Ids /\ waiters \in Seq(Waiter) /\ waiters[id] \in Waiter
      /\ waiters[id].keys \in Seq(Keys)
  BY WaitersFacts DEF IInv, Active, TypeOK, Waiter
<1>. DEFINE w == waiters[id]
            k == KeyServed(w.keys, l)
            r == <<k, ItemOf(w.kind, l[k])>>
<1>2. k \in Keys /\ l[k] # <<>>
  BY <1>1, KeyServedFacts
<1>3. ItemOf(w.kind, l[k]) \in Items /\ RestOf(w.kind, l[k]) \in Seq(Items)
  BY <1>2, PopFacts
<1>4. r \in Replies
  BY <1>2, <1>3 DEF Replies
<1>5. lists' = [l EXCEPT ![k] = RestOf(w.kind, l[k])] /\ Resolve(id, r)
  BY DEF Serve
<1>. HIDE DEF k, r
<1>6. w.replies \in Seq(Replies) /\ Len(w.replies) = 0 /\ ~w.canceled
  BY <1>1 DEF IInv, SingleReply, Active, Done, Waiter
<1>. DEFINE v == [w EXCEPT !.completed = TRUE, !.replies = Append(@, r)]
<1>7. waiters' = [waiters EXCEPT ![id] = v] /\ paused' = paused \ {w.conn}
  BY <1>5 DEF Resolve
<1>8. v \in Waiter /\ v.keys = w.keys /\ v.conn = w.conn /\ v.completed /\ ~v.canceled
      /\ Len(v.replies) = 1
  <2>. DEFINE R == Append(w.replies, r)
  <2>1. R \in Seq(Replies) /\ Len(R) = 1  BY <1>4, <1>6
  <2>2. v = [w EXCEPT !.completed = TRUE, !.replies = R]  OBVIOUS
  <2>. HIDE DEF R, v
  <2>. QED  BY <1>1, <1>6, <2>1, <2>2 DEF Waiter
<1>. HIDE DEF v
<1>9. waiters' \in Seq(Waiter) /\ DOMAIN waiters' = Ids /\ waiters'[id] = v
      /\ \A i \in Ids : i # id => waiters'[i] = waiters[i]
  BY <1>1, <1>7, <1>8 DEF Ids
<1>10. Answered(id)
  BY <1>7, <1>8, <1>9 DEF Answered
<1>11. lists' \in [Keys -> Seq(Items)]
  BY <1>2, <1>3, <1>5
<1>. QED  BY <1>10, <1>11

\* The head of a queue is an active waiter of the key: the oldest.
LEMMA HeadFacts ==
    ASSUME IInv, NEW k \in Keys, queues[k] # <<>>
    PROVE  /\ Head(queues[k]) \in Active
           /\ k \in Elems(waiters[Head(queues[k])].keys)
           /\ \A j \in Active : k \in Elems(waiters[j].keys) => Head(queues[k]) <= j
<1>1. queues[k] \in Seq(Ids) /\ 1 \in DOMAIN queues[k] /\ Head(queues[k]) = queues[k][1]
  BY DEF IInv, TypeOK
<1>2. Head(queues[k]) \in Elems(queues[k])
  BY <1>1 DEF Elems
<1>3. ASSUME NEW j \in Active, k \in Elems(waiters[j].keys) PROVE Head(queues[k]) <= j
  <2>1. j \in Elems(queues[k])  BY <1>3 DEF IInv, QueuesMatch
  <2>2. PICK n \in DOMAIN queues[k] : queues[k][n] = j  BY <2>1 DEF Elems
  <2>3. n \in Nat /\ (n = 1 \/ 1 < n)  BY <1>1
  <2>4. j \in Nat  BY WaitersFacts DEF IInv, Active
  <2>. QED  BY <1>1, <2>2, <2>3, <2>4 DEF IInv, QueuesMatch
<1>. QED  BY <1>2, <1>3 DEF IInv, QueuesMatch

\* A wakeup serves the oldest waiter of the key if one of that waiter's keys has an item, and
\* otherwise nobody: a waiter that is done with is never met at the head of a queue.
LEMMA WakeupIs ==
    ASSUME IInv, NEW k \in Keys, NEW l, Wakeup(k, l)
    PROVE  \/ /\ lists' = l /\ UNCHANGED managerVars
              /\ queues[k] = <<>> \/ Available(waiters[Head(queues[k])].keys, l) = {}
           \/ /\ queues[k] # <<>> /\ Head(queues[k]) \in Active
              /\ Available(waiters[Head(queues[k])].keys, l) # {}
              /\ Serve(Head(queues[k]), l)
BY HeadFacts DEF Wakeup, Oldest, Active

\* So a wakeup keeps the manager and the lists.
LEMMA WakeupKeeps ==
    ASSUME IInv, NEW k \in Keys, NEW l \in [Keys -> Seq(Items)], Wakeup(k, l), conn' = conn
    PROVE  ManagerInv' /\ lists' \in [Keys -> Seq(Items)]
<1>1. CASE lists' = l /\ UNCHANGED managerVars
  BY <1>1, ManagerUnchanged
<1>2. CASE /\ Head(queues[k]) \in Active
           /\ Available(waiters[Head(queues[k])].keys, l) # {}
           /\ Serve(Head(queues[k]), l)
  <2>1. Answered(Head(queues[k])) /\ lists' \in [Keys -> Seq(Items)]  BY <1>2, ServeFacts
  <2>2. RemoveWaiter(Head(queues[k]))  BY <1>2 DEF Serve
  <2>. QED  BY <1>2, <2>1, <2>2, AnsweredKeeps
<1>. QED  BY <1>1, <1>2, WakeupIs

-----------------------------------------------------------------------------
(* The invariant, action by action.                                        *)

RestTyped ==
    /\ lists \in [Keys -> Seq(Items)]
    /\ strings \subseteq Keys
    /\ conn \in [Clients -> {"open", "gone", "closed"}]
    /\ out \subseteq Items
    /\ next \in 1..MaxItems + 1
    /\ bulk \in 0..MaxBulk
    /\ mode \in {"idle", "script", "flush"}
    /\ pending \in Seq(Keys)

\* The invariant in the parts that the actions keep.
LEMMA InvParts ==
    /\ IInv => RestTyped /\ ManagerInv /\ Deferred
    /\ RestTyped' /\ ManagerInv' /\ Deferred' => IInv'
BY DEF IInv, RestTyped, ManagerInv, ManagerTyped, Waiter, TypeOK

\* A waiter behind a queue, n times.
Behind(q, n, id) == q \o [i \in 1..n |-> id]

\* When those of the queue are all older, the order of the queue is kept.
LEMMA CopiesAppended ==
    ASSUME NEW V \in SUBSET Int, NEW q \in Seq(V), Ascending(q),
           NEW id \in Int, \A v \in V : v <= id, NEW n \in Nat
    PROVE  /\ Behind(q, n, id) \in Seq(V \cup {id})
           /\ \A x : x \in Elems(Behind(q, n, id)) <=> x \in Elems(q) \/ (x = id /\ n > 0)
           /\ Ascending(Behind(q, n, id))
<1>. DEFINE t == [i \in 1..n |-> id]
            s == Behind(q, n, id)
            W == V \cup {id}
<1>1. t \in Seq(W) /\ Len(t) = n /\ \A i \in 1..n : t[i] = id
  OBVIOUS
<1>2. q \in Seq(W)
  OBVIOUS
<1>0. s = q \o t
  BY DEF Behind
<1>. HIDE DEF t, W, s
<1>3. s \in Seq(W) /\ Len(s) = Len(q) + n
  <2>1. q \o t \in Seq(W) /\ Len(q \o t) = Len(q) + n
    BY <1>1, <1>2
  <2>. QED  BY <1>0, <2>1
<1>4. /\ DOMAIN s = 1..(Len(q) + n) /\ DOMAIN q = 1..Len(q) /\ Len(q) \in Nat
      /\ \A i \in DOMAIN q : s[i] = q[i]
      /\ \A i \in (Len(q) + 1)..(Len(q) + n) : s[i] = id
  BY <1>0, <1>1, <1>2, <1>3
<1>5. \A x : x \in Elems(s) <=> x \in Elems(q) \/ (x = id /\ n > 0)
  <2>1. n > 0 => Len(q) + 1 \in (Len(q) + 1)..(Len(q) + n) /\ Len(q) + 1 \in DOMAIN s
    BY <1>4
  <2>2. \A i \in DOMAIN q : i \in DOMAIN s
    BY <1>4
  <2>3. \A i \in DOMAIN s : i \in DOMAIN q \/ (i \in (Len(q) + 1)..(Len(q) + n) /\ n > 0)
    BY <1>4
  <2>. QED  BY <1>4, <2>1, <2>2, <2>3 DEF Elems
<1>6. Ascending(s)
  <2>1. ASSUME NEW i \in DOMAIN s, NEW j \in DOMAIN s, i < j PROVE s[i] <= s[j]
    <3>1. CASE j \in DOMAIN q
      <4>1. i \in DOMAIN q  BY <1>4, <2>1, <3>1
      <4>. QED  BY <1>4, <2>1, <3>1, <4>1 DEF Ascending
    <3>2. CASE j \notin DOMAIN q
      <4>1. s[j] = id  BY <1>4, <3>2
      <4>2. CASE i \in DOMAIN q
        <5>1. q[i] \in V  BY <4>2
        <5>. QED  BY <1>4, <4>1, <4>2, <5>1
      <4>3. CASE i \notin DOMAIN q
        <5>1. s[i] = id  BY <1>4, <4>3
        <5>. QED  BY <4>1, <5>1
      <4>. QED  BY <4>2, <4>3
    <3>. QED  BY <3>1, <3>2
  <2>. QED  BY <2>1 DEF Ascending
<1>. QED  BY <1>3, <1>5, <1>6 DEF s, t, W

\* How often a key is named: at least once if it is one of the keys.
LEMMA TimesNamed ==
    ASSUME NEW keys \in Seq(Keys), NEW k
    PROVE  LET n == Cardinality({j \in DOMAIN keys : keys[j] = k})
           IN  n \in Nat /\ (n > 0 <=> k \in Elems(keys))
<1>. DEFINE J == {j \in DOMAIN keys : keys[j] = k}
<1>1. DOMAIN keys = 1..Len(keys) /\ Len(keys) \in Nat /\ J \subseteq 1..Len(keys)
  OBVIOUS
<1>2. IsFiniteSet(1..Len(keys))
  BY <1>1, FS_Interval
<1>3. IsFiniteSet(J)
  BY <1>1, <1>2, FS_Subset
<1>4. Cardinality(J) \in Nat /\ (Cardinality(J) = 0 <=> J = {})
  BY <1>3, FS_CardinalityType, FS_EmptySet
<1>5. J # {} <=> k \in Elems(keys)
  BY DEF Elems
<1>. QED  BY <1>4, <1>5

\* registerWaiter: the new waiter stands behind the older ones.
LEMMA RegisterKeeps ==
    ASSUME IInv, NEW c \in Clients, NEW kind \in Kinds, NEW keys \in KeyLists, NEW timed \in BOOLEAN,
           c \notin paused, conn[c] = "open", conn' = conn, Register(c, kind, keys, timed)
    PROVE  ManagerInv'
<1>. DEFINE id == Len(waiters) + 1
            w == [conn |-> c, kind |-> kind, keys |-> keys, timer |-> timed,
                  completed |-> FALSE, canceled |-> FALSE, replies |-> <<>>]
            n(k) == Cardinality({j \in DOMAIN keys : keys[j] = k})
            copies(k) == [i \in 1..n(k) |-> id]
<1>1. ManagerInv /\ TypeOK
  BY InvParts DEF IInv
<1>2. Ids = 1..Len(waiters) /\ Len(waiters) \in Nat /\ Ids \in SUBSET Int
  BY <1>1, WaitersFacts
<1>3. waiters' = Append(waiters, w) /\ queues' = [k \in Keys |-> queues[k] \o copies(k)]
      /\ byConn' = [byConn EXCEPT ![c] = @ \cup {id}] /\ total' = total + 1
      /\ paused' = paused \cup {c}
  BY DEF Register
<1>4. w \in Waiter /\ ~Done(w) /\ w.conn = c /\ w.keys = keys /\ w.replies = <<>>
      /\ ~w.completed
  BY DEF Waiter, Done
<1>. HIDE DEF w
<1>5. waiters' \in Seq(Waiter) /\ Ids' = Ids \cup {id} /\ waiters'[id] = w
      /\ (\A i \in Ids : waiters'[i] = waiters[i]) /\ id \notin Ids /\ id \in Int
      /\ \A i \in Ids : i <= id
  BY <1>1, <1>2, <1>3, <1>4 DEF ManagerTyped, ManagerInv, Ids
<1>. HIDE DEF id
<1>6. Active' = Active \cup {id} /\ Active \subseteq Ids
  BY <1>4, <1>5 DEF Active
<1>7. keys \in Seq(Keys)
  BY BlockingAssumption
<1>8. ASSUME NEW k \in Keys
      PROVE  /\ queues'[k] \in Seq(Ids') /\ Ascending(queues'[k])
             /\ Elems(queues'[k]) = {i \in Active' : k \in Elems(waiters'[i].keys)}
  <2>1. queues[k] \in Seq(Ids) /\ Ascending(queues[k])
        /\ Elems(queues[k]) = {i \in Active : k \in Elems(waiters[i].keys)}
    BY <1>1 DEF ManagerInv, ManagerTyped, QueuesMatch, Ascending
  <2>2. n(k) \in Nat /\ (n(k) > 0 <=> k \in Elems(keys))
    BY <1>7, TimesNamed
  <2>3. queues'[k] = Behind(queues[k], n(k), id)
    BY <1>3 DEF Behind
  <2>. DEFINE m == n(k)
              q == queues[k]
              V == Ids
              s == Behind(q, m, id)
  <2>. HIDE DEF n, m
  <2>4. m \in Nat /\ (m > 0 <=> k \in Elems(keys)) /\ queues'[k] = s
    BY <2>2, <2>3 DEF m
  <2>6. V \in SUBSET Int /\ q \in Seq(V) /\ Ascending(q) /\ id \in Int /\ \A v \in V : v <= id
    BY <1>2, <1>5, <2>1
  <2>. HIDE DEF q, V
  <2>5. s \in Seq(V \cup {id}) /\ Ascending(s)
        /\ \A x : x \in Elems(s) <=> x \in Elems(q) \/ (x = id /\ m > 0)
    BY <2>4, <2>6, CopiesAppended
  <2>. HIDE DEF s
  <2>. QED  BY <1>4, <1>5, <1>6, <2>1, <2>4, <2>5 DEF q, V
<1>9. queues' \in [Keys -> Seq(Ids')]
  BY <1>3, <1>8
<1>10. byConn[c] = {}
  BY <1>1 DEF ManagerInv, PausedIffBlocked
<1>11. byConn \in [Clients -> SUBSET Ids]
  BY <1>1 DEF ManagerInv, ManagerTyped
<1>12. byConn'[c] = {id} /\ (\A d \in Clients : d # c => byConn'[d] = byConn[d])
       /\ byConn' \in [Clients -> SUBSET Ids']
  BY <1>3, <1>5, <1>10, <1>11
<1>13. \A i \in Active : waiters[i].conn # c
  BY <1>1, <1>10 DEF ManagerInv, QueuesMatch
<1>14. \A d \in Clients : byConn'[d] = {i \in Active' : waiters'[i].conn = d}
  <2>1. \A d \in Clients : byConn[d] = {i \in Active : waiters[i].conn = d}
    BY <1>1 DEF ManagerInv, QueuesMatch
  <2>. QED  BY <1>4, <1>5, <1>6, <1>12, <1>13, <2>1
<1>15. total' = Cardinality(Active') /\ total' \in Nat
  <2>1. IsFiniteSet(Active) /\ Cardinality(Active) \in Nat  BY <1>1, <1>6, WaitersFacts
  <2>2. id \notin Active  BY <1>5, <1>6
  <2>3. Cardinality(Active \cup {id}) = Cardinality(Active) + 1
    BY <2>1, <2>2, FS_AddElement
  <2>4. total = Cardinality(Active)  BY <1>1 DEF ManagerInv, QueuesMatch
  <2>. QED  BY <1>3, <1>6, <2>1, <2>3, <2>4
<1>16. QueuesMatch'
  <2>1. \A k \in Keys : Ascending(queues'[k]) =>
          \A m, j \in DOMAIN queues'[k] : m < j => queues'[k][m] <= queues'[k][j]
    BY DEF Ascending
  <2>. QED  BY <1>8, <1>14, <1>15, <2>1 DEF QueuesMatch, Elems
<1>17. ManagerTyped'
  BY <1>1, <1>3, <1>5, <1>9, <1>12, <1>15 DEF ManagerTyped, ManagerInv, Waiter
<1>18. SingleReply'
  BY <1>1, <1>4, <1>5 DEF SingleReply, ManagerInv, Ids
<1>19. PausedIffBlocked'
  BY <1>1, <1>3, <1>12 DEF PausedIffBlocked, ManagerInv
<1>20. OneWaiterEach'
  BY <1>1, <1>4, <1>5, <1>6, <1>13 DEF OneWaiterEach, ManagerInv
<1>. QED  BY <1>16, <1>17, <1>18, <1>19, <1>20 DEF ManagerInv

\* BLPOP and BRPOP that find an item take it; the others register.
LEMMA BlockKeeps ==
    ASSUME IInv, NEW c \in Clients, NEW kind \in Kinds, NEW keys \in KeyLists, NEW timed \in BOOLEAN,
           Block(c, kind, keys, timed)
    PROVE  IInv'
<1>1. RestTyped /\ Deferred
  BY InvParts
<1>2. CASE Available(keys, lists) # {}
  <2>. DEFINE k == KeyServed(keys, lists)
  <2>1. keys \in Seq(Keys)  BY BlockingAssumption
  <2>2. k \in Keys /\ lists[k] # <<>>  BY <1>2, <2>1, KeyServedFacts
  <2>3. lists[k] \in Seq(Items)  BY <1>1, <2>2 DEF RestTyped
  <2>4. ItemOf(kind, lists[k]) \in Items /\ RestOf(kind, lists[k]) \in Seq(Items)
    BY <2>2, <2>3, PopFacts
  <2>5. lists' = [lists EXCEPT ![k] = RestOf(kind, lists[k])]
        /\ out' = out \cup {ItemOf(kind, lists[k])} /\ UNCHANGED managerVars
    BY <1>2 DEF Block
  <2>. HIDE DEF k
  <2>6. ManagerInv'
    BY <2>5, ManagerUnchanged DEF Block
  <2>7. RestTyped' /\ Deferred'
    BY <1>1, <2>2, <2>4, <2>5 DEF RestTyped, Deferred, Block
  <2>. QED  BY <2>6, <2>7, InvParts
<1>3. CASE Available(keys, lists) = {}
  <2>1. Register(c, kind, keys, timed)  BY <1>3 DEF Block
  <2>2. ManagerInv'  BY <2>1, RegisterKeeps DEF Block
  <2>3. RestTyped' /\ Deferred'  BY <1>1, <2>1 DEF RestTyped, Deferred, Block, Register
  <2>. QED  BY <2>2, <2>3, InvParts
<1>. QED  BY <1>2, <1>3

\* A timer answers its waiter only when nobody has.
LEMMA TimerKeeps ==
    ASSUME IInv, NEW id \in Ids, TimerFires(id)
    PROVE  IInv'
<1>1. RestTyped /\ Deferred /\ ManagerInv
  BY InvParts
<1>2. RestTyped' /\ Deferred'
  BY <1>1 DEF RestTyped, Deferred, TimerFires
<1>3. waiters \in Seq(Waiter) /\ waiters[id] \in Waiter
  BY <1>1 DEF ManagerInv, ManagerTyped, Ids
<1>4. CASE TimerLive(id)
  <2>1. id \in Active  BY <1>4 DEF TimerLive, Active
  <2>2. waiters[id].replies \in Seq(Replies) /\ Len(waiters[id].replies) = 0 /\ ~waiters[id].canceled
    BY <1>1, <1>3, <2>1 DEF ManagerInv, SingleReply, Active, Done, Waiter
  <2>. DEFINE R == Append(waiters[id].replies, <<>>)
              v == [waiters[id] EXCEPT !.timer = FALSE, !.completed = TRUE, !.replies = R]
  <2>3. waiters' = [waiters EXCEPT ![id] = v]
    BY <1>3, <1>4 DEF TimerFires
  <2>4. R \in Seq(Replies) /\ Len(R) = 1
    BY <2>2 DEF Replies
  <2>. HIDE DEF R
  <2>5. v \in Waiter /\ v.keys = waiters[id].keys /\ v.conn = waiters[id].conn /\ v.completed
        /\ ~v.canceled /\ Len(v.replies) = 1
    BY <1>3, <2>2, <2>4 DEF Waiter
  <2>. HIDE DEF v
  <2>6. waiters' \in Seq(Waiter) /\ DOMAIN waiters' = Ids /\ waiters'[id] = v
        /\ \A i \in Ids : i # id => waiters'[i] = waiters[i]
    BY <1>3, <2>3, <2>5 DEF Ids
  <2>7. Answered(id)
    BY <1>4, <2>5, <2>6 DEF Answered, TimerFires
  <2>8. ManagerInv'
    BY <1>4, <2>1, <2>7, AnsweredKeeps DEF TimerFires
  <2>. QED  BY <1>2, <2>8, InvParts
<1>5. CASE ~TimerLive(id)
  <2>. DEFINE v == [waiters[id] EXCEPT !.timer = FALSE]
  <2>1. waiters' = [waiters EXCEPT ![id] = v] /\ UNCHANGED <<queues, byConn, total, paused, conn>>
    BY <1>3, <1>5 DEF TimerFires
  <2>2. v \in Waiter /\ v.keys = waiters[id].keys /\ v.conn = waiters[id].conn
        /\ v.completed = waiters[id].completed /\ v.canceled = waiters[id].canceled
        /\ v.replies = waiters[id].replies
    BY <1>3 DEF Waiter
  <2>. HIDE DEF v
  <2>3. /\ waiters' \in Seq(Waiter) /\ Ids' = Ids
        /\ \A i \in Ids : /\ waiters'[i].keys = waiters[i].keys /\ waiters'[i].conn = waiters[i].conn
                          /\ waiters'[i].completed = waiters[i].completed
                          /\ waiters'[i].canceled = waiters[i].canceled
                          /\ waiters'[i].replies = waiters[i].replies
    BY <1>3, <2>1, <2>2 DEF Ids
  <2>4. Active' = Active /\ Active \subseteq Ids
    BY <2>3 DEF Active, Done
  <2>5. QueuesMatch'
    BY <1>1, <2>1, <2>3, <2>4 DEF ManagerInv, QueuesMatch, Elems
  <2>6. SingleReply' /\ PausedIffBlocked' /\ OneWaiterEach'
    BY <1>1, <2>1, <2>3, <2>4 DEF ManagerInv, SingleReply, PausedIffBlocked, OneWaiterEach
  <2>7. ManagerTyped'
    BY <1>1, <2>1, <2>3 DEF ManagerInv, ManagerTyped
  <2>. QED  BY <1>2, <2>5, <2>6, <2>7, InvParts DEF ManagerInv
<1>. QED  BY <1>4, <1>5

\* A connection that is lost still counts as open for its waiters, until its 'close' event.
LEMMA HangupKeeps ==
    ASSUME IInv, NEW c \in Clients, Hangup(c)
    PROVE  IInv'
<1>1. RestTyped /\ Deferred /\ ManagerInv
  BY InvParts
<1>2. RestTyped' /\ Deferred'
  BY <1>1 DEF RestTyped, Deferred, Hangup
<1>3. ManagerTyped' /\ QueuesMatch' /\ SingleReply' /\ OneWaiterEach'
  BY <1>1 DEF Hangup, ManagerInv, ManagerTyped, managerVars, Waiter, QueuesMatch, SingleReply,
              OneWaiterEach, Active, Ids, Done, Elems
<1>4. PausedIffBlocked'
  BY <1>1 DEF Hangup, ManagerInv, PausedIffBlocked, managerVars, RestTyped
<1>. QED  BY <1>2, <1>3, <1>4, InvParts DEF ManagerInv

\* The 'close' event forgets the waiters of its connection.
LEMMA CloseKeeps ==
    ASSUME IInv, NEW c \in Clients, Close(c)
    PROVE  IInv'
<1>1. RestTyped /\ Deferred /\ ManagerInv /\ TypeOK
  BY InvParts DEF IInv
<1>2. RestTyped' /\ Deferred'
  BY <1>1 DEF RestTyped, Deferred, Close
<1>. DEFINE G == byConn[c]
<1>3. G = {i \in Active : waiters[i].conn = c} /\ G \subseteq Active /\ Active \subseteq Ids
  BY <1>1 DEF ManagerInv, QueuesMatch, Active
<1>4. G = {i \in byConn[c] : ~waiters[i].completed}
  BY <1>3 DEF Active, Done
<1>. HIDE DEF G
<1>5. waiters' = [i \in Ids |-> IF i \in G
                    THEN [waiters[i] EXCEPT !.canceled = TRUE, !.timer = FALSE]
                    ELSE waiters[i]]
      /\ queues' = [k \in Keys |-> Spliced(queues[k], G)] /\ total' = total - Cardinality(G)
      /\ byConn' = [byConn EXCEPT ![c] = {}] /\ paused' = paused
      /\ conn' = [conn EXCEPT ![c] = "closed"]
  BY <1>4 DEF Close
<1>6. \A i \in Ids : waiters[i] \in Waiter
  BY <1>1, WaitersFacts
<1>7. /\ Ids' = Ids
      /\ \A i \in Ids : /\ waiters'[i] \in Waiter
                        /\ waiters'[i].keys = waiters[i].keys /\ waiters'[i].conn = waiters[i].conn
                        /\ waiters'[i].completed = waiters[i].completed
                        /\ waiters'[i].canceled = (waiters[i].canceled \/ i \in G)
                        /\ waiters'[i].replies = waiters[i].replies
  <2>1. Ids' = Ids  BY <1>5 DEF Ids
  <2>2. ASSUME NEW i \in Ids
        PROVE  /\ waiters'[i] \in Waiter
               /\ waiters'[i].keys = waiters[i].keys /\ waiters'[i].conn = waiters[i].conn
               /\ waiters'[i].completed = waiters[i].completed
               /\ waiters'[i].canceled = (waiters[i].canceled \/ i \in G)
               /\ waiters'[i].replies = waiters[i].replies
    <3>1. CASE i \in G
      <4>. DEFINE v == [waiters[i] EXCEPT !.canceled = TRUE, !.timer = FALSE]
      <4>1. waiters'[i] = v  BY <1>5, <3>1
      <4>2. v \in Waiter /\ v.keys = waiters[i].keys /\ v.conn = waiters[i].conn
            /\ v.completed = waiters[i].completed /\ v.canceled = TRUE
            /\ v.replies = waiters[i].replies
        BY <1>6 DEF Waiter
      <4>. HIDE DEF v
      <4>. QED  BY <3>1, <4>1, <4>2
    <3>2. CASE i \notin G
      <4>1. waiters'[i] = waiters[i]  BY <1>5, <3>2
      <4>2. waiters[i].canceled \in BOOLEAN  BY <1>6 DEF Waiter
      <4>. QED  BY <1>6, <3>2, <4>1, <4>2
    <3>. QED  BY <3>1, <3>2
  <2>. QED  BY <2>1, <2>2
<1>8. waiters' \in Seq(Waiter)
  <2>1. waiters \in Seq(Waiter) /\ Ids = 1..Len(waiters) /\ Len(waiters) \in Nat
    BY <1>1, WaitersFacts DEF ManagerInv, ManagerTyped
  <2>2. waiters' = [i \in Ids |-> waiters'[i]]  BY <1>5
  <2>. QED  BY <1>7, <2>1, <2>2
<1>9. Finished(G)
  BY <1>3, <1>7 DEF Finished, Done, Ids
<1>10. Forgotten(G)
  <2>1. ASSUME NEW k \in Keys
        PROVE  queues'[k] \in Seq(Ids) /\ Elems(queues'[k]) = Elems(queues[k]) \ G
               /\ Ascending(queues'[k])
    <3>1. queues[k] \in Seq(Ids) /\ Ascending(queues[k]) /\ Ids \in SUBSET Int
      BY <1>1, WaitersFacts DEF ManagerInv, ManagerTyped, QueuesMatch, Ascending
    <3>2. queues'[k] = Spliced(queues[k], G)  BY <1>5
    <3>. QED  BY <3>1, <3>2, SplicedKeeps
  <2>2. queues' \in [Keys -> Seq(Ids)]  BY <1>5, <2>1
  <2>3. byConn' \in [Clients -> SUBSET Ids]  BY <1>1, <1>5 DEF ManagerInv, ManagerTyped
  <2>4. ASSUME NEW d \in Clients PROVE byConn'[d] = byConn[d] \ G
    <3>1. byConn \in [Clients -> SUBSET Ids] /\ byConn[d] = {i \in Active : waiters[i].conn = d}
      BY <1>1 DEF ManagerInv, ManagerTyped, QueuesMatch
    <3>2. CASE d = c  BY <1>5, <3>1, <3>2 DEF G
    <3>3. CASE d # c  BY <1>3, <1>5, <3>1, <3>3
    <3>. QED  BY <3>2, <3>3
  <2>. QED  BY <1>5, <2>1, <2>2, <2>3, <2>4 DEF Forgotten
<1>11. QueuesMatch' /\ OneWaiterEach' /\ total' \in Nat
  BY <1>1, <1>3, <1>9, <1>10, ForgottenMatch DEF ManagerInv
<1>12. ManagerTyped'
  BY <1>1, <1>5, <1>7, <1>8, <1>10, <1>11 DEF ManagerInv, ManagerTyped, Forgotten
<1>13. SingleReply'
  BY <1>1, <1>3, <1>7 DEF ManagerInv, SingleReply, Active, Done
<1>14. PausedIffBlocked'
  BY <1>1, <1>5 DEF ManagerInv, ManagerTyped, PausedIffBlocked, RestTyped
<1>. QED  BY <1>2, <1>11, <1>12, <1>13, <1>14, InvParts DEF ManagerInv

\* A push brings its own, numbered, items.
LEMMA PushedFacts ==
    ASSUME RestTyped, NEW s \in Seq(Items), NEW side, NEW n \in 1..2, next + n <= MaxItems + 1
    PROVE  Pushed(s, side, n) \in Seq(Items) /\ Len(Pushed(s, side, n)) = Len(s) + n
<1>1. next \in Nat /\ next >= 1 /\ n \in Nat /\ MaxItems \in Nat
  BY BlockingAssumption DEF RestTyped
<1>. DEFINE up == [i \in 1..n |-> next + i - 1]
            down == [i \in 1..n |-> next + n - i]
<1>2. \A i \in 1..n : next + i - 1 \in Items /\ next + n - i \in Items
  BY <1>1 DEF Items
<1>3. up \in Seq(Items) /\ Len(up) = n /\ down \in Seq(Items) /\ Len(down) = n
  BY <1>1, <1>2
<1>. HIDE DEF up, down
<1>4. s \o up \in Seq(Items) /\ Len(s \o up) = Len(s) + n
      /\ down \o s \in Seq(Items) /\ Len(down \o s) = n + Len(s)
  BY <1>3
<1>. QED  BY <1>1, <1>4 DEF Pushed, up, down

\* LPUSH and RPUSH.
LEMMA PushKeeps ==
    ASSUME IInv, NEW k \in Keys, NEW side, NEW n \in 1..2, Push(k, side, n)
    PROVE  IInv'
<1>1. RestTyped /\ Deferred /\ ManagerInv
  BY InvParts
<1>. DEFINE L == Pushed(lists[k], side, n)
            l == [lists EXCEPT ![k] = L]
<1>2. L \in Seq(Items)
  BY <1>1, PushedFacts DEF Push, RestTyped
<1>3. IF mode = "script"
        THEN /\ lists' = l
             /\ pending' = IF k \in Elems(pending) THEN pending ELSE Append(pending, k)
             /\ UNCHANGED managerVars
        ELSE Wakeup(k, l) /\ UNCHANGED pending
  BY DEF Push
<1>. HIDE DEF L
<1>4. l \in [Keys -> Seq(Items)]
  BY <1>1, <1>2 DEF RestTyped
<1>. HIDE DEF l
<1>5. lists' \in [Keys -> Seq(Items)] /\ ManagerInv' /\ pending' \in Seq(Keys)
  <2>1. CASE mode = "script"
    <3>1. ManagerInv'  BY <1>3, <2>1, ManagerUnchanged DEF Push
    <3>2. pending \in Seq(Keys) /\ Append(pending, k) \in Seq(Keys)  BY <1>1 DEF RestTyped
    <3>. QED  BY <1>3, <1>4, <2>1, <3>1, <3>2
  <2>2. CASE mode # "script"
    <3>1. Wakeup(k, l) /\ pending' = pending /\ conn' = conn  BY <1>3, <2>2 DEF Push
    <3>2. lists' \in [Keys -> Seq(Items)] /\ ManagerInv'  BY <1>4, <3>1, WakeupKeeps
    <3>. QED  BY <1>1, <3>1, <3>2 DEF RestTyped
  <2>. QED  BY <2>1, <2>2
<1>6. Deferred'
  BY <1>1, <1>3 DEF Deferred, Push, Commands
<1>7. next' \in 1..MaxItems + 1 /\ bulk' \in 0..MaxBulk
  <2>1. MaxItems \in Nat /\ MaxBulk \in Nat  BY BlockingAssumption
  <2>2. next' = next + n /\ next + n <= MaxItems + 1 /\ next \in 1..MaxItems + 1
    BY <1>1 DEF Push, RestTyped
  <2>3. next' \in 1..MaxItems + 1  BY <2>1, <2>2
  <2>4. bulk' \in 0..MaxBulk  BY <1>1, <2>1 DEF Push, RestTyped
  <2>. QED  BY <2>3, <2>4
<1>8. RestTyped'
  BY <1>1, <1>5, <1>7 DEF RestTyped, Push
<1>. QED  BY <1>5, <1>6, <1>8, InvParts

\* LPOP and RPOP.
LEMMA PopKeeps ==
    ASSUME IInv, NEW k \in Keys, NEW kind, Pop(k, kind)
    PROVE  IInv'
<1>1. RestTyped /\ Deferred
  BY InvParts
<1>. DEFINE L == RestOf(kind, lists[k])
<1>2. L \in Seq(Items) /\ ItemOf(kind, lists[k]) \in Items
  BY <1>1, PopFacts DEF Pop, RestTyped
<1>3. lists' = [lists EXCEPT ![k] = L]
  BY DEF Pop
<1>. HIDE DEF L
<1>4. RestTyped' /\ Deferred'
  BY <1>1, <1>2, <1>3 DEF RestTyped, Deferred, Pop
<1>. QED  BY <1>4, ManagerUnchanged, InvParts DEF Pop

\* DEL, SET and RENAME.
LEMMA KeyCommandsKeep ==
    ASSUME IInv, NEW k \in Keys,
           \/ Del(k)
           \/ Set(k)
           \/ \E nk \in Keys : Rename(k, nk)
    PROVE  IInv'
<1>1. RestTyped /\ Deferred
  BY InvParts
<1>2. \A j \in Keys : Elems(lists[j]) \subseteq Items
  BY <1>1 DEF RestTyped, Elems
<1>3. CASE Del(k)
  <2>1. RestTyped' /\ Deferred'  BY <1>1, <1>2, <1>3 DEF RestTyped, Deferred, Del
  <2>. QED  BY <1>3, <2>1, ManagerUnchanged, InvParts DEF Del
<1>4. CASE Set(k)
  <2>1. RestTyped' /\ Deferred'  BY <1>1, <1>4 DEF RestTyped, Deferred, Set
  <2>. QED  BY <1>4, <2>1, ManagerUnchanged, InvParts DEF Set
<1>5. ASSUME NEW nk \in Keys, Rename(k, nk) PROVE IInv'
  <2>1. bulk' \in 0..MaxBulk  BY <1>1, <1>5, BlockingAssumption DEF RestTyped, Rename
  <2>2. strings' \subseteq Keys  BY <1>1, <1>5 DEF RestTyped, Rename
  <2>3. lists' \in [Keys -> Seq(Items)]
    <3>1. lists' = [lists EXCEPT ![nk] = lists[k], ![k] = <<>>]  BY <1>5 DEF Rename
    <3>2. lists \in [Keys -> Seq(Items)]  BY <1>1 DEF RestTyped
    <3>3. <<>> \in Seq(Items) /\ lists[k] \in Seq(Items)  BY <3>2
    <3>. QED  BY <3>1, <3>2, <3>3
  <2>4. RestTyped' /\ Deferred'
    BY <1>1, <1>2, <1>5, <2>1, <2>2, <2>3 DEF RestTyped, Deferred, Rename
  <2>. QED  BY <1>5, <2>4, ManagerUnchanged, InvParts DEF Rename
<1>. QED  BY <1>3, <1>4, <1>5

\* Scripts and the wakeups after them.
LEMMA ScriptsKeep ==
    ASSUME IInv, BeginScript \/ EndScript \/ FlushWakeup
    PROVE  IInv'
<1>1. RestTyped /\ Deferred
  BY InvParts
<1>2. CASE BeginScript
  <2>1. RestTyped' /\ Deferred'  BY <1>1, <1>2 DEF RestTyped, Deferred, BeginScript
  <2>. QED  BY <1>2, <2>1, ManagerUnchanged, InvParts DEF BeginScript
<1>3. CASE EndScript
  <2>1. RestTyped' /\ Deferred'  BY <1>1, <1>3 DEF RestTyped, Deferred, EndScript
  <2>. QED  BY <1>3, <2>1, ManagerUnchanged, InvParts DEF EndScript
<1>4. CASE FlushWakeup
  <2>1. pending \in Seq(Keys) /\ pending # <<>>
    BY <1>1, <1>4 DEF FlushWakeup, RestTyped, Deferred
  <2>2. Head(pending) \in Keys /\ Tail(pending) \in Seq(Keys)
        /\ (Len(pending) = 1 <=> Tail(pending) = <<>>)
    <3>1. Len(pending) \in Nat /\ Len(pending) > 0  BY <2>1
    <3>2. Head(pending) \in Keys /\ Tail(pending) \in Seq(Keys)  BY <2>1
    <3>3. Len(Tail(pending)) = Len(pending) - 1  BY <2>1
    <3>4. Tail(pending) = <<>> <=> Len(Tail(pending)) = 0  BY <3>2, EmptySeq
    <3>. QED  BY <3>1, <3>2, <3>3, <3>4
  <2>3. Wakeup(Head(pending), lists) /\ UNCHANGED conn
    BY <1>4 DEF FlushWakeup
  <2>4. ManagerInv' /\ lists' \in [Keys -> Seq(Items)]
    BY <1>1, <2>2, <2>3, WakeupKeeps DEF RestTyped
  <2>5. \/ UNCHANGED <<pending, mode>>
        \/ pending' = Tail(pending) /\ mode' = IF Len(pending) = 1 THEN "idle" ELSE "flush"
    BY <1>4 DEF FlushWakeup
  <2>6. RestTyped' /\ Deferred'
    BY <1>1, <1>4, <2>1, <2>2, <2>4, <2>5 DEF RestTyped, Deferred, FlushWakeup
  <2>. QED  BY <2>4, <2>6, InvParts
<1>. QED  BY <1>2, <1>3, <1>4

\* The invariant holds at the start
LEMMA InvInit == Init => IInv
<1>. SUFFICES ASSUME Init PROVE IInv
  OBVIOUS
<1>1. Ids = {} /\ Active = {}
  BY DEF Init, Ids, Active
<1>2. TypeOK
  BY <1>1, BlockingAssumption DEF Init, TypeOK
<1>3. QueuesMatch
  BY <1>1, FS_EmptySet DEF Init, QueuesMatch, Elems
<1>4. SingleReply /\ PausedIffBlocked /\ OneWaiterEach /\ Deferred
  BY <1>1 DEF Init, SingleReply, PausedIffBlocked, OneWaiterEach, Deferred
<1>. QED  BY <1>2, <1>3, <1>4 DEF IInv

\* and every step keeps it.
LEMMA InvStep == IInv /\ [Next]_vars => IInv'
<1>. SUFFICES ASSUME IInv, [Next]_vars PROVE IInv'
  OBVIOUS
<1>1. CASE UNCHANGED vars
  <2>1. RestTyped' /\ Deferred' /\ UNCHANGED managerVars /\ UNCHANGED conn
    BY <1>1, InvParts DEF RestTyped, Deferred, vars, managerVars
  <2>. QED  BY <2>1, ManagerUnchanged, InvParts
<1>2. ASSUME NEW c \in Clients, NEW kind \in Kinds, NEW keys \in KeyLists, NEW timed \in BOOLEAN,
             Block(c, kind, keys, timed)
      PROVE  IInv'
  BY <1>2, BlockKeeps
<1>3. ASSUME NEW c \in Clients, Hangup(c) \/ Close(c) PROVE IInv'
  BY <1>3, HangupKeeps, CloseKeeps
<1>4. ASSUME NEW id \in Ids, TimerFires(id) PROVE IInv'
  BY <1>4, TimerKeeps
<1>5. ASSUME NEW k \in Keys, NEW side \in {"LPUSH", "RPUSH"}, NEW n \in 1..2, Push(k, side, n)
      PROVE  IInv'
  BY <1>5, PushKeeps
<1>6. ASSUME NEW k \in Keys, NEW kind \in Kinds, Pop(k, kind) PROVE IInv'
  BY <1>6, PopKeeps
<1>7. ASSUME NEW k \in Keys, Del(k) \/ Set(k) \/ \E nk \in Keys : Rename(k, nk) PROVE IInv'
  BY <1>7, KeyCommandsKeep
<1>8. CASE BeginScript \/ EndScript \/ FlushWakeup
  BY <1>8, ScriptsKeep
<1>. QED  BY <1>1, <1>2, <1>3, <1>4, <1>5, <1>6, <1>7, <1>8 DEF Next

LEMMA Invariance == Spec => []IInv
BY InvInit, InvStep, PTL DEF Spec

-----------------------------------------------------------------------------
(* The theorems.                                                           *)

THEOREM TypeCorrect == Spec => []TypeOK
<1>1. IInv => TypeOK
  BY DEF IInv
<1>. QED  BY <1>1, Invariance, PTL

\* The queues, the sets of each connection and the total always match the waiters that still
\* wait: registering, serving, timing out and closing keep the manager's three records in step.
THEOREM QueuesAlwaysMatch == Spec => []QueuesMatch
<1>1. IInv => QueuesMatch
  BY DEF IInv
<1>. QED  BY <1>1, Invariance, PTL

\* A waiter completes at most once, however its timer, the pushes and the close of its
\* connection are interleaved.
THEOREM RepliesAreSingle == Spec => []SingleReply
<1>1. IInv => SingleReply
  BY DEF IInv
<1>. QED  BY <1>1, Invariance, PTL

\* A connection's socket is paused exactly while one of its waiters waits.
THEOREM PausedWhileBlocked == Spec => []PausedIffBlocked
<1>1. IInv => PausedIffBlocked
  BY DEF IInv
<1>. QED  BY <1>1, Invariance, PTL

-----------------------------------------------------------------------------
(* Nobody starves while every push is of one item: a key that has an item  *)
(* and a waiter is one whose wakeup is still to be made.                   *)

WaitedKeysDeferred ==
    bulk = 0 => \A i \in Active : \A k \in Elems(waiters[i].keys) :
                    lists[k] # <<>> => k \in Elems(pending)

\* Outside scripts no wakeup is left to be made.
LEMMA NobodyStarvesWhenIdle ==
    ASSUME IInv, WaitedKeysDeferred, bulk = 0, Idle
    PROVE  \A i \in Active : \A k \in Elems(waiters[i].keys) : lists[k] = <<>>
BY DEF IInv, WaitedKeysDeferred, Deferred, Idle, Elems

\* A push of one item outside scripts either finds no waiter, or serves the oldest waiter of that
\* key with that item of that key.
LEMMA PushServesTheOldest ==
    ASSUME IInv, WaitedKeysDeferred, NEW k \in Keys, NEW side, NEW n \in 1..2, Push(k, side, n),
           Idle, bulk' = 0
    PROVE  \/ UNCHANGED managerVars /\ queues[k] = <<>> /\ bulk = 0
              /\ \A j \in Keys : j # k => lists'[j] = lists[j]
           \/ LET l == [lists EXCEPT ![k] = Pushed(@, side, n)]
                  id == Head(queues[k])
              IN  /\ queues[k] # <<>> /\ id \in Active /\ Serve(id, l) /\ bulk = 0
                  /\ KeyServed(waiters[id].keys, l) = k
                  /\ \A j \in Keys : lists'[j] = <<>> \/ lists'[j] = lists[j]
<1>. DEFINE L == Pushed(lists[k], side, n)
            l == [lists EXCEPT ![k] = L]
            id == Head(queues[k])
            keys == waiters[id].keys
<1>1. RestTyped
  BY InvParts
<1>2. bulk = 0 /\ n = 1
  BY <1>1, BlockingAssumption DEF Push, RestTyped
<1>3. L \in Seq(Items) /\ Len(L) = Len(lists[k]) + 1
  BY <1>1, <1>2, PushedFacts DEF Push, RestTyped
<1>4. Wakeup(k, l)
  BY DEF Push, Idle
<1>. HIDE DEF L
<1>5. l[k] = L /\ (\A j \in Keys : j # k => l[j] = lists[j]) /\ L # <<>>
      /\ l \in [Keys -> Seq(Items)]
  <2>1. Len(lists[k]) \in Nat /\ lists \in [Keys -> Seq(Items)]  BY <1>1 DEF RestTyped
  <2>2. L # <<>>  BY <1>3, <2>1
  <2>. QED  BY <1>3, <2>1, <2>2
<1>6. CASE queues[k] = <<>>
  <2>1. lists' = l /\ UNCHANGED managerVars  BY <1>4, <1>6 DEF Wakeup
  <2>. QED  BY <1>2, <1>5, <1>6, <2>1
<1>7. CASE queues[k] # <<>>
  <2>1. id \in Active /\ k \in Elems(keys)
    BY <1>7, HeadFacts
  <2>2. keys \in Seq(Keys) /\ Elems(keys) \subseteq Keys
    BY <2>1, WaitersFacts DEF IInv, Active
  <2>3. \A j \in Elems(keys) : lists[j] = <<>>
    BY <1>2, <2>1, NobodyStarvesWhenIdle
  <2>. HIDE DEF id, keys, l
  <2>4. PICK p \in DOMAIN keys : keys[p] = k
    BY <2>1 DEF Elems
  <2>5. p \in Available(keys, l)
    BY <1>5, <2>4 DEF Available
  <2>6. Serve(id, l)
    BY <1>4, <1>7, <2>5, WakeupIs DEF id, keys
  <2>7. KeyServed(keys, l) \in Elems(keys) /\ l[KeyServed(keys, l)] # <<>>
    BY <2>2, <2>5, KeyServedFacts
  <2>8. KeyServed(keys, l) = k
    BY <1>5, <2>2, <2>3, <2>7
  <2>9. lists' = [l EXCEPT ![k] = RestOf(waiters[id].kind, L)]
    BY <1>5, <2>6, <2>8 DEF Serve, keys
  <2>10. RestOf(waiters[id].kind, L) \in Seq(Items) /\ Len(RestOf(waiters[id].kind, L)) = 0
    <3>1. Len(lists[k]) = 0  BY <2>1, <2>3
    <3>2. Len(L) = 1  BY <1>3, <3>1
    <3>. QED  BY <1>3, <1>5, <3>2, PopFacts
  <2>11. RestOf(waiters[id].kind, L) = <<>>
    BY <2>10, EmptySeq
  <2>12. \A j \in Keys : lists'[j] = <<>> \/ lists'[j] = lists[j]
    BY <1>5, <2>9, <2>11
  <2>. QED  BY <1>2, <1>7, <2>1, <2>6, <2>8, <2>12 DEF l, id, keys, L
<1>. QED  BY <1>6, <1>7

\* Steps after which no more is waited for, no list has become one, and no wakeup is forgotten.
LEMMA NothingNewToWaitFor ==
    ASSUME IInv, WaitedKeysDeferred, bulk' = 0 => bulk = 0,
           DOMAIN waiters' = Ids,
           \A i \in Ids : waiters'[i].keys = waiters[i].keys /\ (Done(waiters[i]) => Done(waiters'[i])),
           \A k \in Keys : lists'[k] # <<>> => lists[k] # <<>>,
           Elems(pending) \subseteq Elems(pending')
    PROVE  WaitedKeysDeferred'
<1>1. Active' \subseteq Active /\ Active \subseteq Ids
  BY DEF Active, Ids
<1>2. \A i \in Ids : Elems(waiters[i].keys) \subseteq Keys
  BY WaitersFacts DEF IInv
<1>. SUFFICES ASSUME bulk' = 0, NEW i \in Active', NEW k \in Elems(waiters'[i].keys), lists'[k] # <<>>
              PROVE  k \in Elems(pending')
  BY DEF WaitedKeysDeferred, Elems
<1>3. i \in Active /\ k \in Elems(waiters[i].keys) /\ k \in Keys /\ lists[k] # <<>>
  BY <1>1, <1>2
<1>. QED  BY <1>3 DEF WaitedKeysDeferred

\* The waiters after an answer.
LEMMA AnsweredFacts ==
    ASSUME IInv, NEW id \in Active, NEW l \in [Keys -> Seq(Items)],
           Available(waiters[id].keys, l) # {}, Serve(id, l)
    PROVE  /\ DOMAIN waiters' = Ids
           /\ \A i \in Ids : waiters'[i].keys = waiters[i].keys
                             /\ (Done(waiters'[i]) <=> Done(waiters[i]) \/ i = id)
           /\ \A k \in Keys : lists'[k] # <<>> => l[k] # <<>>
<1>1. Answered(id)
  BY ServeFacts
<1>2. waiters[id].keys \in Seq(Keys)
  BY WaitersFacts DEF IInv, Active
<1>3. KeyServed(waiters[id].keys, l) \in Keys /\ l[KeyServed(waiters[id].keys, l)] # <<>>
  BY <1>2, KeyServedFacts
<1>. QED  BY <1>1, <1>3 DEF Answered, Done, Serve

\* A push.
LEMMA PushDefers ==
    ASSUME IInv, WaitedKeysDeferred, NEW k \in Keys, NEW side, NEW n \in 1..2, Push(k, side, n)
    PROVE  WaitedKeysDeferred'
<1>1. RestTyped
  BY InvParts
<1>2. CASE mode = "script"
  <2>1. lists' = [lists EXCEPT ![k] = Pushed(@, side, n)] /\ UNCHANGED managerVars
        /\ pending' = IF k \in Elems(pending) THEN pending ELSE Append(pending, k)
    BY <1>2 DEF Push
  <2>2. bulk' = 0 => bulk = 0
    BY <1>1, BlockingAssumption DEF Push, RestTyped
  <2>3. Elems(pending) \cup {k} \subseteq Elems(pending')
    <3>1. CASE k \in Elems(pending)  BY <2>1, <3>1
    <3>2. CASE k \notin Elems(pending)
      <4>1. pending' = Append(pending, k) /\ pending \in Seq(Keys)  BY <1>1, <2>1, <3>2 DEF RestTyped
      <4>2. /\ DOMAIN pending \subseteq DOMAIN pending' /\ Len(pending) + 1 \in DOMAIN pending'
            /\ \A i \in DOMAIN pending : pending'[i] = pending[i]
            /\ pending'[Len(pending) + 1] = k
        BY <4>1
      <4>. QED  BY <4>2 DEF Elems
    <3>. QED  BY <3>1, <3>2
  <2>. SUFFICES ASSUME bulk' = 0, NEW i \in Active', NEW j \in Elems(waiters'[i].keys),
                       lists'[j] # <<>>
                PROVE  j \in Elems(pending')
    BY DEF WaitedKeysDeferred, Elems
  <2>4. i \in Active /\ j \in Elems(waiters[i].keys) /\ j \in Keys
    BY <2>1, WaitersFacts DEF managerVars, Active, Ids, IInv
  <2>5. CASE j = k
    BY <2>3, <2>5
  <2>6. CASE j # k
    <3>1. lists[j] # <<>>  BY <1>1, <2>1, <2>4, <2>6 DEF RestTyped
    <3>. QED  BY <2>2, <2>3, <2>4, <3>1 DEF WaitedKeysDeferred
  <2>. QED  BY <2>5, <2>6
<1>3. CASE mode # "script"
  <2>. SUFFICES ASSUME bulk' = 0, NEW i \in Active', NEW j \in Elems(waiters'[i].keys),
                       lists'[j] # <<>>
                PROVE  FALSE
    BY DEF WaitedKeysDeferred, Elems
  <2>1. Idle  BY <1>3 DEF Push, Commands, Idle
  <2>2. CASE UNCHANGED managerVars /\ queues[k] = <<>> /\ bulk = 0
             /\ \A m \in Keys : m # k => lists'[m] = lists[m]
    <3>1. i \in Active /\ j \in Elems(waiters[i].keys) /\ j \in Keys
      BY <2>2, WaitersFacts DEF managerVars, Active, Ids, IInv
    <3>2. j # k  BY <2>2, <3>1 DEF IInv, QueuesMatch, Elems
    <3>. QED  BY <2>1, <2>2, <3>1, <3>2, NobodyStarvesWhenIdle
  <2>3. CASE LET l == [lists EXCEPT ![k] = Pushed(@, side, n)]
                 id == Head(queues[k])
             IN  /\ queues[k] # <<>> /\ id \in Active /\ Serve(id, l) /\ bulk = 0
                 /\ KeyServed(waiters[id].keys, l) = k
                 /\ \A m \in Keys : lists'[m] = <<>> \/ lists'[m] = lists[m]
    <3>. DEFINE l == [lists EXCEPT ![k] = Pushed(@, side, n)]
                id == Head(queues[k])
    <3>1. id \in Active /\ Serve(id, l) /\ \A m \in Keys : lists'[m] = <<>> \/ lists'[m] = lists[m]
      BY <2>3
    <3>. HIDE DEF l, id
    <3>2. DOMAIN waiters' = Ids
          /\ \A x \in Ids : waiters'[x].keys = waiters[x].keys /\ (Done(waiters[x]) => Done(waiters'[x]))
      BY <3>1 DEF Serve, Resolve, Done, Ids
    <3>3. i \in Active /\ j \in Elems(waiters[i].keys) /\ j \in Keys
      BY <3>2, WaitersFacts DEF Active, Ids, IInv
    <3>. QED  BY <2>1, <2>3, <3>1, <3>3, NobodyStarvesWhenIdle
  <2>. QED  BY <2>1, <2>2, <2>3, PushServesTheOldest
<1>. QED  BY <1>2, <1>3

\* A wakeup after a script: the key stays as long as its queue gets shorter.
LEMMA FlushDefers ==
    ASSUME IInv, WaitedKeysDeferred, FlushWakeup
    PROVE  WaitedKeysDeferred'
<1>1. RestTyped /\ bulk' = bulk
  BY InvParts DEF FlushWakeup
<1>. DEFINE k == Head(pending)
            id == Head(queues[k])
<1>2. pending \in Seq(Keys) /\ pending # <<>>
  BY <1>1 DEF FlushWakeup, RestTyped, IInv, Deferred
<1>3. k \in Keys /\ Wakeup(k, lists) /\ lists \in [Keys -> Seq(Items)]
  BY <1>1, <1>2 DEF FlushWakeup, RestTyped
<1>4. IF Len(queues'[k]) < Len(queues[k]) THEN pending' = pending ELSE pending' = Tail(pending)
  BY DEF FlushWakeup, Again
<1>5. \A x \in Elems(pending) : x = k \/ x \in Elems(Tail(pending))
  <2>1. ASSUME NEW n \in DOMAIN pending PROVE pending[n] = k \/ pending[n] \in Elems(Tail(pending))
    <3>1. n \in 1..Len(pending) /\ Len(pending) \in Nat  BY <1>2
    <3>2. Len(Tail(pending)) = Len(pending) - 1
          /\ \A m \in 1..(Len(pending) - 1) : Tail(pending)[m] = pending[m + 1]
      BY <1>2
    <3>3. DOMAIN Tail(pending) = 1..(Len(pending) - 1)  BY <1>2, <3>2
    <3>4. CASE n = 1  BY <1>2, <3>4
    <3>5. CASE n # 1
      <4>1. n - 1 \in 1..(Len(pending) - 1) /\ (n - 1) + 1 = n  BY <3>1, <3>5
      <4>2. Tail(pending)[n - 1] = pending[n]  BY <3>2, <4>1
      <4>. QED  BY <3>3, <4>1, <4>2 DEF Elems
    <3>. QED  BY <3>4, <3>5
  <2>. QED  BY <2>1 DEF Elems
<1>6. queues[k] \in Seq(Ids) /\ Len(queues[k]) \in Nat
  BY <1>3 DEF IInv, TypeOK
<1>. HIDE DEF k
<1>7. CASE lists' = lists /\ UNCHANGED managerVars
           /\ (queues[k] = <<>> \/ Available(waiters[id].keys, lists) = {})
  <2>1. pending' = Tail(pending)
    BY <1>4, <1>6, <1>7 DEF managerVars
  <2>. SUFFICES ASSUME bulk' = 0, NEW i \in Active', NEW j \in Elems(waiters'[i].keys),
                       lists'[j] # <<>>
                PROVE  j \in Elems(pending')
    BY DEF WaitedKeysDeferred, Elems
  <2>2. i \in Active /\ j \in Elems(waiters[i].keys) /\ lists[j] # <<>>
    BY <1>7 DEF managerVars, Active, Ids
  <2>3. j \in Elems(pending)
    BY <1>1, <2>2 DEF WaitedKeysDeferred
  <2>4. j # k
    <3>1. SUFFICES ASSUME j = k PROVE FALSE
      OBVIOUS
    <3>2. i \in Elems(queues[k])
      BY <1>3, <2>2, <3>1 DEF IInv, QueuesMatch
    <3>3. queues[k] # <<>>
      BY <3>2 DEF Elems
    <3>4. id \in Active /\ k \in Elems(waiters[id].keys)
      BY <1>3, <3>3, HeadFacts
    <3>. HIDE DEF id
    <3>5. PICK p \in DOMAIN waiters[id].keys : waiters[id].keys[p] = k
      BY <3>4 DEF Elems
    <3>6. p \in Available(waiters[id].keys, lists)
      BY <2>2, <3>1, <3>5 DEF Available
    <3>. QED  BY <1>7, <3>3, <3>6
  <2>. QED  BY <1>5, <2>1, <2>3, <2>4
<1>8. CASE /\ queues[k] # <<>> /\ id \in Active
           /\ Available(waiters[id].keys, lists) # {} /\ Serve(id, lists)
  <2>1. k \in Elems(waiters[id].keys) /\ id \in Elems(queues[k]) /\ Ids \in SUBSET Int
    BY <1>3, <1>8, HeadFacts, WaitersFacts DEF IInv, QueuesMatch
  <2>. HIDE DEF id
  <2>2. queues'[k] = Spliced(queues[k], {id})
    BY <1>3, <1>8, <2>1 DEF Serve, RemoveWaiter, Unqueued
  <2>3. Len(queues'[k]) < Len(queues[k])
    BY <1>6, <2>1, <2>2, SplicedKeeps
  <2>4. pending' = pending
    BY <1>4, <2>3
  <2>. QED  BY <1>1, <1>3, <1>8, <2>4, AnsweredFacts, NothingNewToWaitFor
<1>. QED  BY <1>3, <1>7, <1>8, WakeupIs

\* A new waiter finds all its keys without items.
LEMMA BlockDefers ==
    ASSUME IInv, WaitedKeysDeferred, NEW c \in Clients, NEW kind \in Kinds, NEW keys \in KeyLists,
           NEW timed \in BOOLEAN, Block(c, kind, keys, timed)
    PROVE  WaitedKeysDeferred'
<1>1. RestTyped /\ pending' = pending /\ bulk' = bulk
  BY InvParts DEF Block
<1>2. CASE Available(keys, lists) # {}
  <2>. DEFINE k == KeyServed(keys, lists)
  <2>1. keys \in Seq(Keys)  BY BlockingAssumption
  <2>2. k \in Keys /\ lists[k] # <<>>  BY <1>2, <2>1, KeyServedFacts
  <2>3. lists' = [lists EXCEPT ![k] = RestOf(kind, @)] /\ UNCHANGED managerVars
    BY <1>2 DEF Block
  <2>. HIDE DEF k
  <2>4. DOMAIN waiters' = Ids /\ (\A j \in Keys : lists'[j] # <<>> => lists[j] # <<>>)
        /\ waiters' = waiters
    BY <1>1, <2>2, <2>3 DEF managerVars, Ids, RestTyped
  <2>. QED  BY <1>1, <2>4, NothingNewToWaitFor
<1>3. CASE Available(keys, lists) = {}
  <2>1. Register(c, kind, keys, timed)  BY <1>3 DEF Block
  <2>2. lists' = lists  BY <2>1 DEF Register
  <2>. DEFINE id == Len(waiters) + 1
              w == [conn |-> c, kind |-> kind, keys |-> keys, timer |-> timed,
                    completed |-> FALSE, canceled |-> FALSE, replies |-> <<>>]
  <2>3. waiters' = Append(waiters, w) /\ w.keys = keys  BY <2>1 DEF Register
  <2>. HIDE DEF w
  <2>4. waiters \in Seq(Waiter)  BY DEF IInv, TypeOK, Waiter
  <2>5. Ids' = Ids \cup {id} /\ waiters'[id] = w /\ (\A i \in Ids : waiters'[i] = waiters[i])
    BY <2>3, <2>4 DEF Ids
  <2>. SUFFICES ASSUME bulk' = 0, NEW i \in Active', NEW j \in Elems(waiters'[i].keys),
                       lists'[j] # <<>>
                PROVE  j \in Elems(pending')
    BY DEF WaitedKeysDeferred, Elems
  <2>6. CASE i = id
    BY <1>3, <2>2, <2>3, <2>5, <2>6 DEF Available, Elems
  <2>7. CASE i # id
    <3>1. i \in Active /\ j \in Elems(waiters[i].keys)  BY <2>5, <2>7 DEF Active
    <3>. QED  BY <1>1, <2>2, <3>1 DEF WaitedKeysDeferred
  <2>. QED  BY <2>6, <2>7
<1>. QED  BY <1>2, <1>3

\* What a timer changes of the waiters.
LEMMA TimerFacts ==
    ASSUME IInv, NEW id \in Ids, TimerFires(id)
    PROVE  /\ DOMAIN waiters' = Ids
           /\ \A i \in Ids : waiters'[i].keys = waiters[i].keys
                             /\ (Done(waiters[i]) => Done(waiters'[i]))
           /\ \A i \in Ids : i # id => waiters'[i] = waiters[i]
           /\ waiters'[id].replies = IF TimerLive(id) THEN Append(waiters[id].replies, <<>>)
                                    ELSE waiters[id].replies
<1>1. waiters \in Seq(Waiter) /\ waiters[id] \in Waiter
  BY WaitersFacts DEF IInv, TypeOK, Waiter
<1>. DEFINE R == Append(waiters[id].replies, <<>>)
            v == IF TimerLive(id)
                 THEN [waiters[id] EXCEPT !.timer = FALSE, !.completed = TRUE, !.replies = R]
                 ELSE [waiters[id] EXCEPT !.timer = FALSE]
<1>2. waiters' = [waiters EXCEPT ![id] = v]
  BY <1>1 DEF TimerFires
<1>. HIDE DEF R
<1>3. v.keys = waiters[id].keys /\ (Done(waiters[id]) => Done(v))
      /\ v.replies = IF TimerLive(id) THEN R ELSE waiters[id].replies
  BY <1>1 DEF Waiter, Done
<1>. HIDE DEF v
<1>4. DOMAIN waiters' = Ids /\ waiters'[id] = v /\ \A i \in Ids : i # id => waiters'[i] = waiters[i]
  BY <1>1, <1>2 DEF Ids
<1>. QED  BY <1>3, <1>4 DEF R

LEMMA DeferredStep == IInv /\ WaitedKeysDeferred /\ [Next]_vars => WaitedKeysDeferred'
<1>. SUFFICES ASSUME IInv, WaitedKeysDeferred, [Next]_vars PROVE WaitedKeysDeferred'
  OBVIOUS
<1>0. RestTyped /\ \A i \in Ids : waiters[i] \in Waiter
  BY InvParts, WaitersFacts DEF IInv
<1>. USE <1>0
<1>1. CASE UNCHANGED vars
  <2>1. UNCHANGED <<waiters, lists, bulk, pending>>  BY <1>1 DEF vars
  <2>. QED  BY <2>1, NothingNewToWaitFor DEF Ids
<1>2. ASSUME NEW c \in Clients, NEW kind \in Kinds, NEW keys \in KeyLists, NEW timed \in BOOLEAN,
             Block(c, kind, keys, timed)
      PROVE  WaitedKeysDeferred'
  BY <1>2, BlockDefers
<1>3. ASSUME NEW c \in Clients, Hangup(c) PROVE WaitedKeysDeferred'
  <2>1. UNCHANGED <<waiters, lists, bulk, pending>>  BY <1>3 DEF Hangup, managerVars
  <2>. QED  BY <2>1, NothingNewToWaitFor DEF Ids
<1>4. ASSUME NEW c \in Clients, Close(c) PROVE WaitedKeysDeferred'
  <2>. DEFINE G == {i \in byConn[c] : ~waiters[i].completed}
  <2>1. /\ waiters' = [i \in Ids |-> IF i \in G
                         THEN [waiters[i] EXCEPT !.canceled = TRUE, !.timer = FALSE]
                         ELSE waiters[i]]
        /\ UNCHANGED <<lists, bulk, pending>>
    BY <1>4 DEF Close
  <2>. HIDE DEF G
  <2>2. DOMAIN waiters' = Ids
        /\ \A i \in Ids : waiters'[i].keys = waiters[i].keys /\ (Done(waiters[i]) => Done(waiters'[i]))
    BY <2>1 DEF Done, Waiter
  <2>. QED  BY <2>1, <2>2, NothingNewToWaitFor
<1>5. ASSUME NEW id \in Ids, TimerFires(id) PROVE WaitedKeysDeferred'
  <2>1. UNCHANGED <<lists, bulk, pending>>  BY <1>5 DEF TimerFires
  <2>. QED  BY <1>5, <2>1, TimerFacts, NothingNewToWaitFor
<1>6. ASSUME NEW k \in Keys, NEW side \in {"LPUSH", "RPUSH"}, NEW n \in 1..2, Push(k, side, n)
      PROVE  WaitedKeysDeferred'
  BY <1>6, PushDefers
<1>7. ASSUME NEW k \in Keys, NEW kind \in Kinds, Pop(k, kind) PROVE WaitedKeysDeferred'
  <2>1. lists' = [lists EXCEPT ![k] = RestOf(kind, @)] /\ lists[k] # <<>>
        /\ UNCHANGED <<waiters, bulk, pending>>
    BY <1>7 DEF Pop, managerVars
  <2>2. \A j \in Keys : lists'[j] # <<>> => lists[j] # <<>>
    BY <2>1 DEF RestTyped
  <2>. QED  BY <2>1, <2>2, NothingNewToWaitFor DEF Ids
<1>8. ASSUME NEW k \in Keys, Del(k) \/ Set(k) PROVE WaitedKeysDeferred'
  <2>1. UNCHANGED <<waiters, bulk, pending>> /\ (\A j \in Keys : lists'[j] # <<>> => lists[j] # <<>>)
    BY <1>8 DEF Del, Set, managerVars, RestTyped
  <2>. QED  BY <2>1, NothingNewToWaitFor DEF Ids
<1>9. ASSUME NEW k \in Keys, NEW nk \in Keys, Rename(k, nk) PROVE WaitedKeysDeferred'
  <2>1. bulk' # 0  BY <1>9, BlockingAssumption DEF Rename, RestTyped
  <2>. QED  BY <2>1 DEF WaitedKeysDeferred
<1>10. CASE BeginScript \/ EndScript
  <2>1. UNCHANGED <<waiters, lists, bulk, pending>>
    BY <1>10 DEF BeginScript, EndScript, managerVars
  <2>. QED  BY <2>1, NothingNewToWaitFor DEF Ids
<1>11. CASE FlushWakeup
  BY <1>11, FlushDefers
<1>. QED
  BY <1>1, <1>2, <1>3, <1>4, <1>5, <1>6, <1>7, <1>8, <1>9, <1>10, <1>11 DEF Next

LEMMA DeferredInvariance == Spec => [](IInv /\ WaitedKeysDeferred)
<1>1. Init => WaitedKeysDeferred
  BY DEF Init, WaitedKeysDeferred, Active, Ids
<1>. QED  BY <1>1, InvInit, InvStep, DeferredStep, PTL DEF Spec

\* While every push is of one item and no list is renamed, nobody waits outside scripts for a key
\* whose list has an item: the one wakeup that wakeup() makes for each push is enough, also for
\* waiters on several keys, and flushWakeups makes all that a script put off.
THEOREM SinglePushesStarveNobody == Spec => []NoStarvedBySinglePushes
<1>1. IInv /\ WaitedKeysDeferred => NoStarvedBySinglePushes
  BY NobodyStarvesWhenIdle DEF NoStarvedBySinglePushes, NoStarvedWaiter, Starved
<1>. QED  BY <1>1, DeferredInvariance, PTL

\* Nobody is given anything in a step that leaves the replies of the active waiters alone.
LEMMA NobodyServed ==
    ASSUME IInv, \A i \in Active : waiters'[i].replies = waiters[i].replies
    PROVE  ServedInOrder
<1>1. \A i \in Active : waiters[i].replies \in Seq(Replies) /\ Len(waiters[i].replies) = 0
  BY WaitersFacts DEF IInv, SingleReply, Active, Done, Waiter
<1>2. \A i \in Active : waiters[i].replies = <<>>
  BY <1>1, EmptySeq
<1>. QED  BY <1>2 DEF ServedInOrder

\* First come, first served: outside scripts, while every push is of one item, an item of a key
\* goes to the oldest of all the waiters of that key.
THEOREM ServedFirstComeFirst == Spec => FirstComeFirstServed
<1>1. ASSUME IInv, WaitedKeysDeferred, [Next]_vars, Idle, bulk' = 0 PROVE ServedInOrder
  <2>0. RestTyped /\ (\A i \in Ids : waiters[i] \in Waiter) /\ Active \subseteq Ids
    BY <1>1, InvParts, WaitersFacts DEF IInv, Active
  <2>1. CASE UNCHANGED waiters
    BY <1>1, <2>1, NobodyServed
  <2>2. ASSUME NEW c \in Clients, NEW kind \in Kinds, NEW keys \in KeyLists, NEW timed \in BOOLEAN,
               Register(c, kind, keys, timed)
        PROVE  ServedInOrder
    <3>. DEFINE w == [conn |-> c, kind |-> kind, keys |-> keys, timer |-> timed,
                      completed |-> FALSE, canceled |-> FALSE, replies |-> <<>>]
    <3>1. waiters' = Append(waiters, w) /\ waiters \in Seq(Waiter)
      BY <1>1, <2>2 DEF Register, IInv, TypeOK, Waiter
    <3>. HIDE DEF w
    <3>2. \A i \in Ids : waiters'[i] = waiters[i]
      BY <3>1 DEF Ids
    <3>. QED  BY <1>1, <2>0, <3>2, NobodyServed
  <2>3. ASSUME NEW c \in Clients, Close(c) PROVE ServedInOrder
    <3>1. \A i \in Ids : waiters'[i].replies = waiters[i].replies
      BY <2>0, <2>3 DEF Close, Waiter
    <3>. QED  BY <1>1, <2>0, <3>1, NobodyServed
  <2>4. ASSUME NEW id \in Ids, TimerFires(id) PROVE ServedInOrder
    <3>1. CASE TimerLive(id)
      <4>1. id \in Active  BY <3>1 DEF TimerLive, Active
      <4>2. waiters[id].replies \in Seq(Replies) /\ Len(waiters[id].replies) = 0
        BY <1>1, <2>0, <4>1 DEF IInv, SingleReply, Active, Done, Waiter
      <4>. DEFINE R == Append(waiters[id].replies, <<>>)
      <4>3. R[1] = <<>>  BY <4>2 DEF Replies
      <4>4. waiters'[id].replies = R /\ \A i \in Ids : i # id => waiters'[i] = waiters[i]
        BY <1>1, <2>4, <3>1, TimerFacts
      <4>. HIDE DEF R
      <4>5. \A i \in Active : i # id => waiters[i].replies = <<>>
        <5>1. \A i \in Active : waiters[i].replies \in Seq(Replies) /\ Len(waiters[i].replies) = 0
          BY <1>1, <2>0 DEF IInv, SingleReply, Active, Done, Waiter
        <5>. QED  BY <5>1, EmptySeq
      <4>. QED  BY <2>0, <4>3, <4>4, <4>5 DEF ServedInOrder
    <3>2. CASE ~TimerLive(id)
      <4>1. \A i \in Ids : waiters'[i].replies = waiters[i].replies
        BY <1>1, <2>4, <3>2, TimerFacts
      <4>. QED  BY <1>1, <2>0, <4>1, NobodyServed
    <3>. QED  BY <3>1, <3>2
  <2>5. ASSUME NEW k \in Keys, NEW side \in {"LPUSH", "RPUSH"}, NEW n \in 1..2, Push(k, side, n)
        PROVE  ServedInOrder
    <3>. DEFINE l == [lists EXCEPT ![k] = Pushed(@, side, n)]
                id == Head(queues[k])
    <3>1. CASE UNCHANGED managerVars
      BY <1>1, <3>1, NobodyServed DEF managerVars
    <3>2. CASE queues[k] # <<>> /\ id \in Active /\ Serve(id, l)
               /\ KeyServed(waiters[id].keys, l) = k
      <4>1. \A j \in Active : k \in Elems(waiters[j].keys) => id <= j
        BY <1>1, <3>2, HeadFacts
      <4>2. PICK x : Resolve(id, <<k, x>>)
        BY <3>2 DEF Serve
      <4>. HIDE DEF l, id
      <4>3. \A i \in Active : waiters[i].replies \in Seq(Replies) /\ Len(waiters[i].replies) = 0
        BY <1>1, <2>0 DEF IInv, SingleReply, Active, Done, Waiter
      <4>4. \A i \in Active : waiters[i].replies = <<>>
        BY <4>3, EmptySeq
      <4>5. waiters'[id].replies = Append(waiters[id].replies, <<k, x>>)
            /\ \A i \in Ids : i # id => waiters'[i] = waiters[i]
        BY <2>0, <3>2, <4>2 DEF Resolve, Waiter, Ids
      <4>6. waiters'[id].replies[1][1] = k
        BY <3>2, <4>4, <4>5
      <4>. QED  BY <2>0, <4>1, <4>4, <4>5, <4>6 DEF ServedInOrder
    <3>. QED  BY <1>1, <2>5, <3>1, <3>2, PushServesTheOldest
  <2>6. [Next]_vars => \/ UNCHANGED waiters
                       \/ \E c \in Clients : \/ \E kind \in Kinds, keys \in KeyLists, timed \in BOOLEAN :
                                                    Register(c, kind, keys, timed)
                                             \/ Close(c)
                       \/ \E id \in Ids : TimerFires(id)
                       \/ \E k \in Keys, side \in {"LPUSH", "RPUSH"}, n \in 1..2 : Push(k, side, n)
    BY <1>1 DEF Next, vars, managerVars, Block, Hangup, Pop, Del, Set, Rename, BeginScript,
                EndScript, FlushWakeup, Idle
  <2>. QED  BY <1>1, <2>1, <2>2, <2>3, <2>4, <2>5, <2>6
<1>2. IInv /\ WaitedKeysDeferred /\ [Next]_vars => [(Idle /\ bulk' = 0) => ServedInOrder]_vars
  BY <1>1
<1>. QED  BY <1>2, DeferredInvariance, PTL DEF Spec, FirstComeFirstServed

-----------------------------------------------------------------------------
(* Every item is in one place.  Each item pushed is in one list, with one  *)
(* waiter or outside: the sets below are apart and make up all of them.    *)

Distinct(s) == \A m, n \in DOMAIN s : s[m] = s[n] => m = n
Sets(L) == [k \in Keys |-> Elems(L[k])]

\* The items that the replies of a waiter gave it.
Got == [w \in Ids |-> {x \in Items : \E n \in DOMAIN waiters[w].replies :
                                        Gives(waiters[w].replies[n], x)}]

\* E the items of each list, G of each waiter, O outside; m the next number.
Apart(E, G, O, m) ==
    /\ \A j, k \in Keys : \A x : x \in E[j] /\ x \in E[k] => j = k
    /\ \A v, w \in DOMAIN G : \A x : x \in G[v] /\ x \in G[w] => v = w
    /\ \A k \in Keys, w \in DOMAIN G : \A x : ~(x \in E[k] /\ x \in G[w])
    /\ \A k \in Keys : \A x \in E[k] : x \notin O
    /\ \A w \in DOMAIN G : \A x \in G[w] : x \notin O
    /\ \A x : x \in 1..m - 1 <=> \/ x \in O
                                 \/ \E k \in Keys : x \in E[k]
                                 \/ \E w \in DOMAIN G : x \in G[w]

Accounted(L, G, O, m) == (\A k \in Keys : Distinct(L[k])) /\ Apart(Sets(L), G, O, m)

ItemsInv == Accounted(lists, Got, out, next)

\* Items that leave a list for the outside are still accounted for,
LEMMA TakenOut ==
    ASSUME NEW E, NEW F, NEW G, NEW O, NEW m, Apart(E, G, O, m),
           NEW k \in Keys, NEW X, \A x \in X : x \in E[k],
           \A j \in Keys : j # k => F[j] = E[j],
           F[k] = E[k] \ X
    PROVE  Apart(F, G, O \cup X, m)
BY DEF Apart

\* and those that are pushed,
LEMMA Brought ==
    ASSUME NEW E, NEW F, NEW G, NEW O, NEW m \in Nat, m >= 1, Apart(E, G, O, m),
           NEW k \in Keys, NEW n \in Nat,
           \A j \in Keys : j # k => F[j] = E[j],
           F[k] = E[k] \cup m..(m + n - 1)
    PROVE  Apart(F, G, O, m + n)
<1>1. \A x : x \in m..(m + n - 1) => x \notin 1..m - 1
  OBVIOUS
<1>2. \A x : x \in 1..(m + n) - 1 <=> x \in 1..m - 1 \/ x \in m..(m + n - 1)
  OBVIOUS
<1>. DEFINE New == m..(m + n - 1)
            Old == 1..m - 1
            All == 1..(m + n) - 1
<1>. HIDE DEF New, Old, All
<1>3. (\A x : x \in New => x \notin Old) /\ (\A x : x \in All <=> x \in Old \/ x \in New)
      /\ F[k] = E[k] \cup New
  BY <1>1, <1>2 DEF New, Old, All
<1>. SUFFICES /\ \A i, j \in Keys : \A x : x \in F[i] /\ x \in F[j] => i = j
              /\ \A v, w \in DOMAIN G : \A x : x \in G[v] /\ x \in G[w] => v = w
              /\ \A i \in Keys, w \in DOMAIN G : \A x : ~(x \in F[i] /\ x \in G[w])
              /\ \A i \in Keys : \A x \in F[i] : x \notin O
              /\ \A w \in DOMAIN G : \A x \in G[w] : x \notin O
              /\ \A x : x \in All <=> \/ x \in O
                                      \/ \E i \in Keys : x \in F[i]
                                      \/ \E w \in DOMAIN G : x \in G[w]
  BY DEF Apart, All
<1>4. /\ \A i, j \in Keys : \A x : x \in E[i] /\ x \in E[j] => i = j
      /\ \A v, w \in DOMAIN G : \A x : x \in G[v] /\ x \in G[w] => v = w
      /\ \A i \in Keys, w \in DOMAIN G : \A x : ~(x \in E[i] /\ x \in G[w])
      /\ \A i \in Keys : \A x \in E[i] : x \notin O
      /\ \A w \in DOMAIN G : \A x \in G[w] : x \notin O
      /\ \A x : x \in Old <=> \/ x \in O
                              \/ \E i \in Keys : x \in E[i]
                              \/ \E w \in DOMAIN G : x \in G[w]
  BY DEF Apart, Old
<1>. QED  BY <1>3, <1>4

\* and those of a list that is renamed, while those of the list it replaces go.
LEMMA Renamed ==
    ASSUME NEW E, NEW F, NEW G, NEW O, NEW m, Apart(E, G, O, m),
           NEW k \in Keys, NEW nk \in Keys, k # nk,
           \A j \in Keys : j # k /\ j # nk => F[j] = E[j],
           F[k] = {}, F[nk] = E[k]
    PROVE  Apart(F, G, O \cup E[nk], m)
BY DEF Apart

\* lpop and rpop take one item out.
LEMMA PopSplits ==
    ASSUME NEW kind, NEW s \in Seq(Items), s # <<>>, Distinct(s)
    PROVE  /\ Distinct(RestOf(kind, s))
           /\ ItemOf(kind, s) \in Elems(s)
           /\ Elems(RestOf(kind, s)) = Elems(s) \ {ItemOf(kind, s)}
<1>1. Len(s) \in Nat /\ Len(s) > 0 /\ DOMAIN s = 1..Len(s) /\ Len(s) \in DOMAIN s /\ 1 \in DOMAIN s
  OBVIOUS
<1>2. CASE kind = "BLPOP"
  <2>. DEFINE t == Tail(s)
  <2>1. DOMAIN t = 1..(Len(s) - 1) /\ Head(s) = s[1] /\ \A i \in DOMAIN t : t[i] = s[i + 1]
    BY <1>1
  <2>. HIDE DEF t
  <2>2. \A i \in DOMAIN t : i + 1 \in DOMAIN s /\ i + 1 # 1
    BY <1>1, <2>1
  <2>3. \A i \in DOMAIN s : i = 1 \/ (i - 1 \in DOMAIN t /\ (i - 1) + 1 = i)
    BY <1>1, <2>1
  <2>4. Distinct(t)
    <3>1. \A m, n \in DOMAIN t : m + 1 = n + 1 => m = n  BY <2>1
    <3>. QED  BY <2>1, <2>2, <3>1 DEF Distinct
  <2>5. \A x : x \in Elems(t) => x \in Elems(s) /\ x # s[1]
    BY <1>1, <2>1, <2>2 DEF Elems, Distinct
  <2>6. \A x : x \in Elems(s) /\ x # s[1] => x \in Elems(t)
    BY <2>1, <2>3 DEF Elems
  <2>7. s[1] \in Elems(s)
    BY <1>1 DEF Elems
  <2>. QED  BY <1>2, <2>1, <2>4, <2>5, <2>6, <2>7 DEF t, ItemOf, RestOf
<1>3. CASE kind # "BLPOP"
  <2>. DEFINE t == SubSeq(s, 1, Len(s) - 1)
  <2>1. DOMAIN t = 1..(Len(s) - 1) /\ \A i \in DOMAIN t : t[i] = s[i]
    BY <1>1
  <2>. HIDE DEF t
  <2>2. \A i \in DOMAIN s : i \in DOMAIN t <=> i # Len(s)
    BY <1>1, <2>1
  <2>3. \A i \in DOMAIN t : i \in DOMAIN s
    BY <1>1, <2>1
  <2>4. Distinct(t)
    BY <2>1, <2>3 DEF Distinct
  <2>5. \A x : x \in Elems(t) <=> x \in Elems(s) /\ x # s[Len(s)]
    BY <1>1, <2>1, <2>2, <2>3 DEF Elems, Distinct
  <2>6. s[Len(s)] \in Elems(s)
    BY <1>1 DEF Elems
  <2>. QED  BY <1>3, <2>4, <2>5, <2>6 DEF t, ItemOf, RestOf
<1>. QED  BY <1>2, <1>3

\* A push brings the next numbers.
LEMMA PushSplits ==
    ASSUME RestTyped, NEW s \in Seq(Items), Distinct(s), \A x \in Elems(s) : x < next,
           NEW side, NEW n \in 1..2
    PROVE  /\ Distinct(Pushed(s, side, n))
           /\ Elems(Pushed(s, side, n)) = Elems(s) \cup next..(next + n - 1)
<1>1. next \in Nat /\ next >= 1 /\ n \in Nat /\ Len(s) \in Nat /\ DOMAIN s = 1..Len(s)
  BY BlockingAssumption DEF RestTyped
<1>5. s \in Seq(Int)
  <2>1. Items \subseteq Int  BY DEF Items
  <2>. QED  BY <2>1, SeqMonotonic
<1>2. \A i \in DOMAIN s : s[i] \in Int /\ s[i] < next
  <2>1. \A i \in DOMAIN s : s[i] \in Elems(s)  BY DEF Elems
  <2>. QED  BY <1>5, <2>1
<1>3. CASE side = "RPUSH"
  <2>. DEFINE up == [i \in 1..n |-> next + i - 1]
              t == s \o up
  <2>1. up \in Seq(Int) /\ Len(up) = n /\ \A i \in 1..n : up[i] = next + i - 1
    BY <1>1
  <2>. HIDE DEF up
  <2>2. DOMAIN t = 1..(Len(s) + n) /\ (\A i \in 1..Len(s) : t[i] = s[i])
        /\ \A i \in (Len(s) + 1)..(Len(s) + n) : t[i] = next + (i - Len(s)) - 1
    BY <1>1, <1>5, <2>1
  <2>. HIDE DEF t
  <2>3. Distinct(t)
    <3>. SUFFICES ASSUME NEW a \in DOMAIN t, NEW b \in DOMAIN t, t[a] = t[b] PROVE a = b
      BY DEF Distinct
    <3>1. CASE a \in 1..Len(s) /\ b \in 1..Len(s)
      BY <1>1, <2>2, <3>1 DEF Distinct
    <3>2. CASE a \in (Len(s) + 1)..(Len(s) + n) /\ b \in (Len(s) + 1)..(Len(s) + n)
      BY <1>1, <2>2, <3>2
    <3>3. CASE a \in 1..Len(s) /\ b \in (Len(s) + 1)..(Len(s) + n)
      BY <1>1, <1>2, <2>2, <3>3
    <3>4. CASE b \in 1..Len(s) /\ a \in (Len(s) + 1)..(Len(s) + n)
      BY <1>1, <1>2, <2>2, <3>4
    <3>. QED  BY <1>1, <2>2, <3>1, <3>2, <3>3, <3>4
  <2>4. ASSUME NEW x PROVE x \in Elems(t) <=> x \in Elems(s) \/ x \in next..(next + n - 1)
    <3>1. ASSUME NEW i \in DOMAIN t PROVE t[i] \in Elems(s) \/ t[i] \in next..(next + n - 1)
      <4>1. CASE i \in 1..Len(s)  BY <1>1, <2>2, <4>1 DEF Elems
      <4>2. CASE i \notin 1..Len(s)  BY <1>1, <2>2, <4>2
      <4>. QED  BY <4>1, <4>2
    <3>2. \A i \in DOMAIN s : i \in DOMAIN t /\ t[i] = s[i]  BY <1>1, <2>2
    <3>3. ASSUME NEW y \in next..(next + n - 1) PROVE \E i \in DOMAIN t : t[i] = y
      <4>. DEFINE i == Len(s) + (y - next) + 1
      <4>1. i \in (Len(s) + 1)..(Len(s) + n) /\ i \in DOMAIN t /\ next + (i - Len(s)) - 1 = y
        BY <1>1, <2>2
      <4>. QED  BY <2>2, <4>1
    <3>. QED  BY <3>1, <3>2, <3>3 DEF Elems
  <2>5. Pushed(s, side, n) = t
    BY <1>3 DEF Pushed, t, up
  <2>. QED  BY <2>3, <2>4, <2>5
<1>4. CASE side # "RPUSH"
  <2>. DEFINE down == [i \in 1..n |-> next + n - i]
              t == down \o s
  <2>1. down \in Seq(Int) /\ Len(down) = n /\ \A i \in 1..n : down[i] = next + n - i
    BY <1>1
  <2>. HIDE DEF down
  <2>2. DOMAIN t = 1..(n + Len(s)) /\ (\A i \in 1..n : t[i] = next + n - i)
        /\ \A i \in (n + 1)..(n + Len(s)) : t[i] = s[i - n]
    BY <1>1, <1>5, <2>1
  <2>. HIDE DEF t
  <2>6. \A i \in (n + 1)..(n + Len(s)) : i - n \in DOMAIN s /\ t[i] \in Int /\ t[i] < next
    BY <1>1, <1>2, <2>2
  <2>3. Distinct(t)
    <3>. SUFFICES ASSUME NEW a \in DOMAIN t, NEW b \in DOMAIN t, t[a] = t[b] PROVE a = b
      BY DEF Distinct
    <3>1. CASE a \in 1..n /\ b \in 1..n
      BY <1>1, <2>2, <3>1
    <3>2. CASE a \in (n + 1)..(n + Len(s)) /\ b \in (n + 1)..(n + Len(s))
      <4>1. a - n = b - n  BY <2>2, <2>6, <3>2 DEF Distinct
      <4>. QED  BY <1>1, <3>2, <4>1
    <3>3. CASE a \in 1..n /\ b \in (n + 1)..(n + Len(s))
      BY <1>1, <2>2, <2>6, <3>3
    <3>4. CASE b \in 1..n /\ a \in (n + 1)..(n + Len(s))
      BY <1>1, <2>2, <2>6, <3>4
    <3>. QED  BY <1>1, <2>2, <3>1, <3>2, <3>3, <3>4
  <2>4. ASSUME NEW x PROVE x \in Elems(t) <=> x \in Elems(s) \/ x \in next..(next + n - 1)
    <3>1. ASSUME NEW i \in DOMAIN t PROVE t[i] \in Elems(s) \/ t[i] \in next..(next + n - 1)
      <4>1. CASE i \in 1..n  BY <1>1, <2>2, <4>1
      <4>2. CASE i \notin 1..n
        <5>1. i \in (n + 1)..(n + Len(s))  BY <1>1, <2>2, <4>2
        <5>. QED  BY <2>2, <2>6, <5>1 DEF Elems
      <4>. QED  BY <4>1, <4>2
    <3>2. ASSUME NEW i \in DOMAIN s PROVE \E j \in DOMAIN t : t[j] = s[i]
      <4>1. i + n \in (n + 1)..(n + Len(s)) /\ i + n \in DOMAIN t /\ (i + n) - n = i
        BY <1>1, <2>2
      <4>. QED  BY <2>2, <4>1
    <3>3. ASSUME NEW y \in next..(next + n - 1) PROVE \E i \in DOMAIN t : t[i] = y
      <4>. DEFINE i == next + n - y
      <4>1. i \in 1..n /\ i \in DOMAIN t /\ next + n - i = y
        BY <1>1, <2>2
      <4>. QED  BY <2>2, <4>1
    <3>. QED  BY <3>1, <3>2, <3>3 DEF Elems
  <2>5. Pushed(s, side, n) = t
    BY <1>4 DEF Pushed, t, down
  <2>. QED  BY <2>3, <2>4, <2>5
<1>. QED  BY <1>3, <1>4

\* A new waiter has nothing.
LEMMA Joined ==
    ASSUME NEW E, NEW G, NEW H, NEW O, NEW m, Apart(E, G, O, m),
           NEW id, DOMAIN H = DOMAIN G \cup {id}, id \notin DOMAIN G, H[id] = {},
           \A w \in DOMAIN G : H[w] = G[w]
    PROVE  Apart(E, H, O, m)
BY DEF Apart

\* LPOP, RPOP, and BLPOP and BRPOP that find an item.
LEMMA PopAccounts ==
    ASSUME NEW L \in [Keys -> Seq(Items)], NEW M, NEW G, NEW O, NEW m, Accounted(L, G, O, m),
           NEW k \in Keys, L[k] # <<>>, NEW kind, M = [L EXCEPT ![k] = RestOf(kind, L[k])]
    PROVE  Accounted(M, G, O \cup {ItemOf(kind, L[k])}, m)
<1>. DEFINE R == RestOf(kind, L[k])
            x == ItemOf(kind, L[k])
<1>1. Distinct(R) /\ Elems(R) = Elems(L[k]) \ {x}
  BY PopSplits DEF Accounted
<1>. HIDE DEF R, x
<1>2. M[k] = R /\ \A j \in Keys : j # k => M[j] = L[j]
  BY DEF R
<1>3. Apart(Sets(L), G, O, m) /\ \A j \in Keys : Distinct(L[j])
  BY DEF Accounted
<1>4. Sets(M)[k] = Sets(L)[k] \ {x} /\ (\A j \in Keys : j # k => Sets(M)[j] = Sets(L)[j])
  BY <1>1, <1>2 DEF Sets
<1>5. \A y \in {x} : y \in Sets(L)[k]
  BY PopSplits, <1>3 DEF Sets, x
<1>6. Apart(Sets(M), G, O \cup {x}, m)
  BY <1>3, <1>4, <1>5, TakenOut
<1>7. \A j \in Keys : Distinct(M[j])
  BY <1>1, <1>2, <1>3
<1>. QED  BY <1>6, <1>7 DEF Accounted, x

\* The replies of the waiters are as they were, or a waiter has an empty one more.
LEMMA GotNothing ==
    ASSUME IInv, DOMAIN waiters' = Ids,
           \A i \in Ids : \/ waiters'[i].replies = waiters[i].replies
                          \/ waiters'[i].replies = Append(waiters[i].replies, <<>>)
    PROVE  Got' = Got
<1>1. ASSUME NEW w \in Ids, NEW x \in Items
      PROVE  (\E n \in DOMAIN waiters'[w].replies : Gives(waiters'[w].replies[n], x))
             <=> (\E n \in DOMAIN waiters[w].replies : Gives(waiters[w].replies[n], x))
  <2>. DEFINE r == waiters[w].replies
              s == waiters'[w].replies
  <2>1. r \in Seq(Replies)
    BY WaitersFacts DEF IInv, Waiter
  <2>. HIDE DEF r, s
  <2>2. s = r \/ s = Append(r, <<>>)
    BY DEF r, s
  <2>3. CASE s = Append(r, <<>>)
    <3>1. DOMAIN s = DOMAIN r \cup {Len(r) + 1} /\ s[Len(r) + 1] = <<>>
          /\ \A n \in DOMAIN r : s[n] = r[n]
      BY <2>1, <2>3 DEF Replies
    <3>. QED  BY <3>1 DEF Gives, r, s
  <2>. QED  BY <2>2, <2>3 DEF r, s
<1>. QED  BY <1>1 DEF Got, Ids

\* tryWake: the item goes from the list to the waiter.
LEMMA ServeAccounts ==
    ASSUME IInv, NEW id \in Active, NEW l \in [Keys -> Seq(Items)], NEW O, NEW m,
           Accounted(l, Got, O, m), Available(waiters[id].keys, l) # {}, Serve(id, l)
    PROVE  Accounted(lists', Got', O, m)
<1>. DEFINE served == waiters[id]
            key == KeyServed(served.keys, l)
            R == RestOf(served.kind, l[key])
            item == ItemOf(served.kind, l[key])
<1>0. id \in Ids /\ served \in Waiter /\ served.keys \in Seq(Keys) /\ served.replies \in Seq(Replies)
      /\ Len(served.replies) = 0
  BY WaitersFacts DEF IInv, SingleReply, Active, Done, Waiter
<1>1. key \in Keys /\ l[key] # <<>> /\ l[key] \in Seq(Items)
  BY <1>0, KeyServedFacts
<1>2. lists' = [l EXCEPT ![key] = R] /\ Resolve(id, <<key, item>>)
  BY DEF Serve
<1>. HIDE DEF key
<1>3. Distinct(R) /\ item \in Elems(l[key]) /\ Elems(R) = Elems(l[key]) \ {item} /\ item \in Items
  BY <1>1, PopSplits, PopFacts DEF Accounted
<1>. HIDE DEF R, item
<1>4. lists'[key] = R /\ \A j \in Keys : j # key => lists'[j] = l[j]
  BY <1>1, <1>2
<1>5. Apart(Sets(l), Got, O, m) /\ \A j \in Keys : Distinct(l[j])
  BY DEF Accounted
<1>6. DOMAIN waiters' = Ids /\ waiters'[id].replies = Append(served.replies, <<key, item>>)
      /\ \A i \in Ids : i # id => waiters'[i] = waiters[i]
  BY <1>0, <1>2 DEF Resolve, Waiter, Ids
<1>7. DOMAIN Got = Ids /\ DOMAIN Got' = Ids /\ (\A i \in Ids : i # id => Got'[i] = Got[i])
  BY <1>6 DEF Got, Ids
<1>8. served.replies = <<>>
  BY <1>0, EmptySeq
<1>9. Got[id] = {}
  BY <1>0, <1>8 DEF Got
<1>10. Got'[id] = {item}
  <2>1. DOMAIN waiters'[id].replies = {1} /\ waiters'[id].replies[1] = <<key, item>>
    BY <1>6, <1>8
  <2>2. \A y : Gives(<<key, item>>, y) <=> y = item
    BY DEF Gives
  <2>3. Got'[id] = {y \in Items : \E n \in DOMAIN waiters'[id].replies :
                                     Gives(waiters'[id].replies[n], y)}
    BY <1>0, <1>6 DEF Got, Ids
  <2>4. \A y : (\E n \in DOMAIN waiters'[id].replies : Gives(waiters'[id].replies[n], y)) <=> y = item
    BY <2>1, <2>2
  <2>. QED  BY <1>3, <2>3, <2>4
<1>11. DOMAIN lists' = Keys
  BY <1>2
<1>12. Sets(lists')[key] = Sets(l)[key] \ {item} /\ item \in Sets(l)[key]
       /\ \A j \in Keys : j # key => Sets(lists')[j] = Sets(l)[j]
  BY <1>1, <1>3, <1>4 DEF Sets
<1>13. Apart(Sets(lists'), Got', O, m)
  <2>1. \E F, H : F = Sets(lists') /\ H = Got'
    OBVIOUS
  <2>2. PICK F, H : F = Sets(lists') /\ H = Got'
    BY <2>1
  <2>3. \A j \in Keys : j # key => F[j] = Sets(l)[j]
    BY <1>12, <2>2
  <2>4. F[key] = Sets(l)[key] \ {item} /\ item \in Sets(l)[key]
    BY <1>12, <2>2
  <2>5. id \in DOMAIN Got /\ Got[id] = {} /\ H[id] = {item} /\ DOMAIN H = DOMAIN Got
        /\ \A v \in DOMAIN Got : v # id => H[v] = Got[v]
    BY <1>0, <1>7, <1>9, <1>10, <2>2
  <2>. HIDE DEF served
  <2>6. Apart(F, H, O, m)
    <3>1. Apart(Sets(l), Got, O, m) /\ key \in Keys
      BY <1>1, <1>5
    <3>2. \A i, j \in Keys : \A x : x \in F[i] /\ x \in F[j] => i = j
      BY <2>3, <2>4, <3>1 DEF Apart
    <3>3. \A u, v \in DOMAIN H : \A x : x \in H[u] /\ x \in H[v] => u = v
      BY <2>4, <2>5, <3>1 DEF Apart
    <3>4. \A i \in Keys, u \in DOMAIN H : \A x : ~(x \in F[i] /\ x \in H[u])
      BY <2>3, <2>4, <2>5, <3>1 DEF Apart
    <3>5. \A i \in Keys : \A x \in F[i] : x \notin O
      BY <2>3, <2>4, <3>1 DEF Apart
    <3>6. \A u \in DOMAIN H : \A x \in H[u] : x \notin O
      BY <2>4, <2>5, <3>1 DEF Apart
    <3>7. \A x : x \in 1..m - 1 <=> (x \in O \/ (\E i \in Keys : x \in F[i])
                                             \/ (\E u \in DOMAIN H : x \in H[u]))
      BY <2>3, <2>4, <2>5, <3>1 DEF Apart
    <3>. QED  BY <3>2, <3>3, <3>4, <3>5, <3>6, <3>7 DEF Apart
  <2>. QED  BY <2>2, <2>6
<1>14. \A j \in Keys : Distinct(lists'[j])
  BY <1>3, <1>4, <1>5
<1>. QED  BY <1>13, <1>14 DEF Accounted

\* A push, and the wakeup after it.
LEMMA PushAccounts ==
    ASSUME IInv, ItemsInv, NEW k \in Keys, NEW side, NEW n \in 1..2, Push(k, side, n)
    PROVE  ItemsInv'
<1>0. RestTyped /\ next \in Nat /\ next >= 1 /\ n \in Nat /\ lists \in [Keys -> Seq(Items)]
  BY InvParts, BlockingAssumption DEF RestTyped
<1>. DEFINE L == Pushed(lists[k], side, n)
            l == [lists EXCEPT ![k] = L]
<1>1. L \in Seq(Items)
  BY <1>0, PushedFacts DEF Push, RestTyped
<1>2. Apart(Sets(lists), Got, out, next) /\ \A j \in Keys : Distinct(lists[j])
  BY DEF ItemsInv, Accounted
<1>3. \A x \in Elems(lists[k]) : x < next
  <2>1. ASSUME NEW x \in Elems(lists[k]) PROVE x \in 1..next - 1
    <3>1. x \in Sets(lists)[k]  BY <2>1 DEF Sets
    <3>. QED  BY <1>2, <3>1 DEF Apart
  <2>. QED  BY <1>0, <2>1
<1>4. Distinct(L) /\ Elems(L) = Elems(lists[k]) \cup next..(next + n - 1)
  BY <1>0, <1>2, <1>3, PushSplits
<1>5. \/ lists' = l /\ UNCHANGED managerVars
      \/ Wakeup(k, l)
  BY DEF Push
<1>6. next' = next + n /\ out' = out
  BY DEF Push
<1>. HIDE DEF L
<1>7. l[k] = L /\ (\A j \in Keys : j # k => l[j] = lists[j]) /\ l \in [Keys -> Seq(Items)]
  BY <1>0, <1>1
<1>. HIDE DEF l
<1>8. Sets(l)[k] = Sets(lists)[k] \cup next..(next + n - 1)
      /\ \A j \in Keys : j # k => Sets(l)[j] = Sets(lists)[j]
  BY <1>4, <1>7 DEF Sets
<1>9. Apart(Sets(l), Got, out, next + n)
  BY <1>0, <1>2, <1>8, Brought
<1>10. Accounted(l, Got, out, next + n)
  BY <1>2, <1>4, <1>7, <1>9 DEF Accounted
<1>11. CASE lists' = l /\ UNCHANGED managerVars
  <2>1. Got' = Got  BY <1>11 DEF managerVars, Got, Ids
  <2>. QED  BY <1>6, <1>10, <1>11, <2>1 DEF ItemsInv
<1>12. CASE Wakeup(k, l)
  <2>1. CASE Head(queues[k]) \in Active /\ Available(waiters[Head(queues[k])].keys, l) # {}
             /\ Serve(Head(queues[k]), l)
    BY <1>6, <1>7, <1>10, <2>1, ServeAccounts DEF ItemsInv
  <2>. QED  BY <1>11, <1>12, <2>1, WakeupIs
<1>. QED  BY <1>5, <1>11, <1>12

LEMMA ItemsStep == IInv /\ ItemsInv /\ [Next]_vars => ItemsInv'
<1>. SUFFICES ASSUME IInv, ItemsInv, [Next]_vars PROVE ItemsInv'
  OBVIOUS
<1>0. RestTyped /\ lists \in [Keys -> Seq(Items)] /\ Accounted(lists, Got, out, next)
      /\ Apart(Sets(lists), Got, out, next) /\ \A j \in Keys : Distinct(lists[j])
  BY InvParts DEF RestTyped, ItemsInv, Accounted
<1>1. CASE UNCHANGED <<waiters, lists, out, next>>
  <2>1. Got' = Got  BY <1>1 DEF Got, Ids
  <2>. QED  BY <1>0, <1>1, <2>1 DEF ItemsInv
<1>2. ASSUME NEW c \in Clients, NEW kind \in Kinds, NEW keys \in KeyLists, NEW timed \in BOOLEAN,
             Block(c, kind, keys, timed)
      PROVE  ItemsInv'
  <2>1. CASE Available(keys, lists) # {}
    <3>. DEFINE k == KeyServed(keys, lists)
    <3>1. keys \in Seq(Keys)  BY BlockingAssumption
    <3>2. k \in Keys /\ lists[k] # <<>>  BY <2>1, <3>1, KeyServedFacts
    <3>3. lists' = [lists EXCEPT ![k] = RestOf(kind, lists[k])]
          /\ out' = out \cup {ItemOf(kind, lists[k])} /\ waiters' = waiters /\ next' = next
      BY <1>2, <2>1 DEF Block, managerVars
    <3>. HIDE DEF k
    <3>4. Got' = Got  BY <3>3 DEF Got, Ids
    <3>5. Accounted(lists', Got, out', next)  BY <1>0, <3>2, <3>3, PopAccounts
    <3>. QED  BY <3>3, <3>4, <3>5 DEF ItemsInv
  <2>2. CASE Available(keys, lists) = {}
    <3>. DEFINE id == Len(waiters) + 1
                w == [conn |-> c, kind |-> kind, keys |-> keys, timer |-> timed,
                      completed |-> FALSE, canceled |-> FALSE, replies |-> <<>>]
    <3>1. waiters' = Append(waiters, w) /\ w.replies = <<>> /\ waiters \in Seq(Waiter)
          /\ UNCHANGED <<lists, out, next>>
      BY <1>2, <2>2 DEF Block, Register, IInv, TypeOK, Waiter
    <3>. HIDE DEF w
    <3>2. Ids' = Ids \cup {id} /\ id \notin Ids /\ waiters'[id] = w
          /\ \A i \in Ids : waiters'[i] = waiters[i]
      BY <3>1 DEF Ids
    <3>3. DOMAIN Got = Ids /\ DOMAIN Got' = Ids'  BY DEF Got
    <3>. HIDE DEF id
    <3>4. Got'[id] = {} /\ \A i \in Ids : Got'[i] = Got[i]
      <4>1. \A i \in Ids : Got'[i] = Got[i]  BY <3>2 DEF Got
      <4>2. DOMAIN waiters'[id].replies = {}  BY <3>1, <3>2
      <4>3. Got'[id] = {x \in Items : \E n \in DOMAIN waiters'[id].replies :
                                         Gives(waiters'[id].replies[n], x)}
        BY <3>2 DEF Got
      <4>. QED  BY <4>1, <4>2, <4>3
    <3>5. Apart(Sets(lists), Got', out, next)
      BY <1>0, <3>2, <3>3, <3>4, Joined
    <3>. QED  BY <1>0, <3>1, <3>5 DEF ItemsInv, Accounted
  <2>. QED  BY <2>1, <2>2
<1>3. ASSUME NEW c \in Clients, Close(c) PROVE ItemsInv'
  <2>1. DOMAIN waiters' = Ids /\ (\A i \in Ids : waiters'[i].replies = waiters[i].replies)
        /\ UNCHANGED <<lists, out, next>>
    BY <1>3, WaitersFacts DEF Close, IInv, Waiter
  <2>2. Got' = Got  BY <2>1, GotNothing
  <2>. QED  BY <1>0, <2>1, <2>2 DEF ItemsInv
<1>4. ASSUME NEW id \in Ids, TimerFires(id) PROVE ItemsInv'
  <2>1. DOMAIN waiters' = Ids /\ \A i \in Ids : \/ waiters'[i].replies = waiters[i].replies
                                                \/ waiters'[i].replies = Append(waiters[i].replies, <<>>)
    BY <1>4, TimerFacts
  <2>2. UNCHANGED <<lists, out, next>>
    BY <1>4 DEF TimerFires
  <2>3. Got' = Got  BY <2>1, GotNothing
  <2>. QED  BY <1>0, <2>2, <2>3 DEF ItemsInv
<1>5. ASSUME NEW k \in Keys, NEW side \in {"LPUSH", "RPUSH"}, NEW n \in 1..2, Push(k, side, n)
      PROVE  ItemsInv'
  BY <1>5, PushAccounts
<1>6. ASSUME NEW k \in Keys, NEW kind \in Kinds, Pop(k, kind) PROVE ItemsInv'
  <2>1. lists' = [lists EXCEPT ![k] = RestOf(kind, lists[k])] /\ lists[k] # <<>>
        /\ out' = out \cup {ItemOf(kind, lists[k])} /\ waiters' = waiters /\ next' = next
    BY <1>6 DEF Pop, managerVars
  <2>2. Got' = Got  BY <2>1 DEF Got, Ids
  <2>3. Accounted(lists', Got, out', next)  BY <1>0, <2>1, PopAccounts
  <2>. QED  BY <2>1, <2>2, <2>3 DEF ItemsInv
<1>7. ASSUME NEW k \in Keys, Del(k) PROVE ItemsInv'
  <2>1. lists' = [lists EXCEPT ![k] = <<>>] /\ out' = out \cup Elems(lists[k])
        /\ waiters' = waiters /\ next' = next
    BY <1>7 DEF Del, managerVars
  <2>2. Got' = Got  BY <2>1 DEF Got, Ids
  <2>3. lists'[k] = <<>> /\ \A j \in Keys : j # k => lists'[j] = lists[j]
    BY <1>0, <2>1
  <2>. DEFINE X == Elems(lists[k])
  <2>4. Sets(lists')[k] = Sets(lists)[k] \ X /\ (\A x \in X : x \in Sets(lists)[k])
        /\ \A j \in Keys : j # k => Sets(lists')[j] = Sets(lists)[j]
    <3>1. Elems(<<>>) = {}  BY DEF Elems
    <3>. HIDE DEF X
    <3>2. Sets(lists)[k] = X  BY DEF Sets, X
    <3>3. Sets(lists')[k] = {}  BY <2>3, <3>1 DEF Sets
    <3>. QED  BY <2>3, <3>2, <3>3 DEF Sets
  <2>. HIDE DEF X
  <2>5. Apart(Sets(lists'), Got, out \cup X, next)
    BY <1>0, <2>4, TakenOut
  <2>6. \A j \in Keys : Distinct(lists'[j])
    BY <1>0, <2>3 DEF Distinct
  <2>. QED  BY <2>1, <2>2, <2>5, <2>6 DEF ItemsInv, Accounted, X
<1>8. ASSUME NEW k \in Keys, NEW nk \in Keys, Rename(k, nk) PROVE ItemsInv'
  <2>1. lists' = [lists EXCEPT ![nk] = lists[k], ![k] = <<>>] /\ out' = out \cup Elems(lists[nk])
        /\ waiters' = waiters /\ next' = next /\ k # nk
    BY <1>8 DEF Rename, managerVars
  <2>2. Got' = Got  BY <2>1 DEF Got, Ids
  <2>3. lists'[k] = <<>> /\ lists'[nk] = lists[k]
        /\ \A j \in Keys : j # k /\ j # nk => lists'[j] = lists[j]
    BY <1>0, <2>1
  <2>4. Sets(lists')[k] = {} /\ Sets(lists')[nk] = Sets(lists)[k]
        /\ Sets(lists)[nk] = Elems(lists[nk])
        /\ \A j \in Keys : j # k /\ j # nk => Sets(lists')[j] = Sets(lists)[j]
    <3>1. Elems(<<>>) = {}  BY DEF Elems
    <3>2. Sets(lists')[k] = {}  BY <2>3, <3>1 DEF Sets
    <3>. QED  BY <2>3, <3>2 DEF Sets
  <2>5. Apart(Sets(lists'), Got, out \cup Sets(lists)[nk], next)
    BY <1>0, <2>1, <2>4, Renamed
  <2>6. \A j \in Keys : Distinct(lists'[j])
    <3>1. Distinct(lists'[k]) /\ Distinct(lists'[nk])  BY <1>0, <2>3 DEF Distinct
    <3>. QED  BY <1>0, <2>3, <3>1
  <2>. QED  BY <2>1, <2>2, <2>4, <2>5, <2>6 DEF ItemsInv, Accounted
<1>9. CASE FlushWakeup
  <2>1. Head(pending) \in Keys /\ Wakeup(Head(pending), lists) /\ out' = out /\ next' = next
    BY <1>0, <1>9 DEF FlushWakeup, IInv, Deferred, RestTyped
  <2>2. CASE lists' = lists /\ UNCHANGED managerVars
    BY <1>1, <2>1, <2>2 DEF managerVars
  <2>. DEFINE id == Head(queues[Head(pending)])
  <2>3. CASE id \in Active /\ Available(waiters[id].keys, lists) # {} /\ Serve(id, lists)
    BY <1>0, <2>1, <2>3, ServeAccounts DEF ItemsInv
  <2>. QED  BY <2>1, <2>2, <2>3, WakeupIs
<1>10. [Next]_vars => \/ UNCHANGED <<waiters, lists, out, next>>
                      \/ \E c \in Clients :
                           \/ \E kind \in Kinds, keys \in KeyLists, timed \in BOOLEAN :
                                Block(c, kind, keys, timed)
                           \/ Close(c)
                      \/ \E id \in Ids : TimerFires(id)
                      \/ \E k \in Keys :
                           \/ \E side \in {"LPUSH", "RPUSH"}, n \in 1..2 : Push(k, side, n)
                           \/ \E kind \in Kinds : Pop(k, kind)
                           \/ Del(k)
                           \/ \E nk \in Keys : Rename(k, nk)
                      \/ FlushWakeup
  BY DEF Next, vars, managerVars, Hangup, Set, BeginScript, EndScript
<1>. QED
  BY <1>1, <1>2, <1>3, <1>4, <1>5, <1>6, <1>7, <1>8, <1>9, <1>10

LEMMA ItemsInit == Init => ItemsInv
<1>. SUFFICES ASSUME Init PROVE ItemsInv
  OBVIOUS
<1>1. DOMAIN Got = {} /\ out = {} /\ next = 1 /\ \A k \in Keys : lists[k] = <<>>
  BY DEF Init, Got, Ids
<1>2. (\A k \in Keys : Sets(lists)[k] = {}) /\ \A k \in Keys : Distinct(lists[k])
  BY <1>1 DEF Sets, Elems, Distinct
<1>3. 1..next - 1 = {}
  BY <1>1
<1>. QED  BY <1>1, <1>2, <1>3 DEF ItemsInv, Accounted, Apart

\* No item is lost and none is delivered twice: each item ever pushed is in one place of one
\* list, in the reply to one waiter, or was taken by another command, for any number of keys,
\* waiters and items.
THEOREM ItemsAreInOnePlace == Spec => []ItemsOnce
<1>1. ASSUME IInv, ItemsInv, NEW i \in 1..next - 1 PROVE Cardinality(Places(i)) = 1
  <2>. DEFINE L == ListPlaces(i)
              R == ReplyPlaces(i)
              O == {x \in {<<"out">>} : i \in out}
  <2>1. Places(i) = L \cup R \cup O  BY DEF Places
  <2>2. \A x : x \in L <=> \E k \in Keys : \E n \in DOMAIN lists[k] : lists[k][n] = i /\ x = <<"list", k, n>>
    BY DEF ListPlaces
  <2>3. \A x : x \in R <=> \E w \in Ids : \E n \in DOMAIN waiters[w].replies :
                              Gives(waiters[w].replies[n], i) /\ x = <<"reply", w, n>>
    BY DEF ReplyPlaces
  <2>4. \A x : x \in O <=> i \in out /\ x = <<"out">>
    OBVIOUS
  <2>. HIDE DEF L, R, O
  <2>5. Apart(Sets(lists), Got, out, next) /\ (\A k \in Keys : Distinct(lists[k])) /\ i \in Items
    <3>1. next \in 1..MaxItems + 1 /\ MaxItems \in Nat
      BY <1>1, BlockingAssumption DEF IInv, TypeOK
    <3>2. i \in Items  BY <3>1 DEF Items
    <3>. QED  BY <1>1, <3>2 DEF ItemsInv, Accounted
  <2>6. \A k \in Keys : i \in Sets(lists)[k] <=> \E n \in DOMAIN lists[k] : lists[k][n] = i
    BY DEF Sets, Elems
  <2>7. DOMAIN Got = Ids /\ \A w \in Ids : i \in Got[w] <=>
            \E n \in DOMAIN waiters[w].replies : Gives(waiters[w].replies[n], i)
    BY <2>5 DEF Got
  <2>8. \A w \in Ids : \A m, n \in DOMAIN waiters[w].replies : m = n
    <3>1. ASSUME NEW w \in Ids PROVE \A m, n \in DOMAIN waiters[w].replies : m = n
      <4>1. waiters[w].replies \in Seq(Replies)  BY <1>1, WaitersFacts DEF IInv, Waiter
      <4>2. Len(waiters[w].replies) \in {0, 1}  BY <1>1 DEF IInv, SingleReply
      <4>. QED  BY <4>1, <4>2
    <3>. QED  BY <3>1
  <2>9. \E p : Places(i) = {p}
    <3>1. CASE i \in out
      <4>1. L = {} /\ R = {}  BY <2>2, <2>3, <2>5, <2>6, <2>7, <3>1 DEF Apart
      <4>2. O = {<<"out">>}  BY <2>4, <3>1
      <4>. QED  BY <2>1, <4>1, <4>2
    <3>2. ASSUME NEW k \in Keys, NEW n \in DOMAIN lists[k], lists[k][n] = i
          PROVE  Places(i) = {<<"list", k, n>>}
      <4>1. i \in Sets(lists)[k]  BY <2>6, <3>2
      <4>2. O = {} /\ R = {}  BY <2>3, <2>4, <2>5, <2>7, <4>1 DEF Apart
      <4>3. \A j \in Keys : \A m \in DOMAIN lists[j] : lists[j][m] = i => j = k /\ m = n
        <5>1. ASSUME NEW j \in Keys, NEW m \in DOMAIN lists[j], lists[j][m] = i PROVE j = k /\ m = n
          <6>1. j = k  BY <2>5, <2>6, <4>1, <5>1 DEF Apart
          <6>. QED  BY <2>5, <3>2, <5>1, <6>1 DEF Distinct
        <5>. QED  BY <5>1
      <4>4. L = {<<"list", k, n>>}  BY <2>2, <3>2, <4>3
      <4>. QED  BY <2>1, <4>2, <4>4
    <3>3. ASSUME NEW w \in Ids, NEW n \in DOMAIN waiters[w].replies, Gives(waiters[w].replies[n], i)
          PROVE  Places(i) = {<<"reply", w, n>>}
      <4>1. i \in Got[w]  BY <2>7, <3>3
      <4>2. O = {} /\ L = {}  BY <2>2, <2>4, <2>5, <2>6, <2>7, <4>1 DEF Apart
      <4>3. \A v \in Ids : \A m \in DOMAIN waiters[v].replies :
               Gives(waiters[v].replies[m], i) => v = w /\ m = n
        BY <2>5, <2>7, <2>8, <4>1 DEF Apart
      <4>4. R = {<<"reply", w, n>>}  BY <2>3, <3>3, <4>3
      <4>. QED  BY <2>1, <4>2, <4>4
    <3>4. i \in out \/ (\E k \in Keys : i \in Sets(lists)[k]) \/ (\E w \in Ids : i \in Got[w])
      BY <2>5, <2>7 DEF Apart
    <3>. QED  BY <2>6, <2>7, <3>1, <3>2, <3>3, <3>4
  <2>. QED  BY <2>9, FS_Singleton
<1>2. IInv /\ ItemsInv => ItemsOnce
  BY <1>1 DEF ItemsOnce
<1>. QED  BY <1>2, ItemsInit, ItemsStep, InvInit, InvStep, PTL DEF Spec
=============================================================================

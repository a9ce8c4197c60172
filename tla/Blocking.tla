------------------------------- MODULE Blocking -------------------------------
(***************************************************************************)
(* BLPOP and BRPOP: the waiters of blocking/manager.js, their queues, the  *)
(* connections they pause, and the list commands that wake them.           *)
(*                                                                         *)
(* Everything runs on one thread: a command, a timer and a 'close' event   *)
(* are one action each.  A Lua script runs several commands as one, and    *)
(* the wakeups its pushes call for are made when it has ended; so it is a  *)
(* run of steps (mode "script", then "flush") during which nothing else    *)
(* happens.                                                                *)
(*                                                                         *)
(* Items are numbered as they are pushed; an item is in a list, in the     *)
(* reply to a waiter, or has left by another command (out).  Commands of   *)
(* connections that never block come from outside Clients.                 *)
(***************************************************************************)
EXTENDS Integers, Sequences, FiniteSets

CONSTANTS
    Clients,          \* the connections that issue BLPOP and BRPOP
    Keys,
    StringKeys,       \* the keys that clients SET as well
    Kinds,            \* the blocking commands in use, from {"BLPOP", "BRPOP"}
    KeyLists,         \* the key arguments of BLPOP and BRPOP: sequences of keys
    maxWaitersPerKey, maxTotalWaiters, maxKeysPerWait,
    Leavers,          \* bound: the clients that may disconnect
    MaxItems,         \* bound: items ever pushed
    MaxWaits,         \* bound: waiters ever registered
    MaxBulk           \* bound: pushes of two items, and renames

ASSUME BlockingAssumption ==
    /\ Kinds \subseteq {"BLPOP", "BRPOP"}
    /\ StringKeys \subseteq Keys
    /\ Leavers \subseteq Clients
    /\ KeyLists \subseteq Seq(Keys) \ {<<>>}
    /\ {maxWaitersPerKey, maxTotalWaiters, maxKeysPerWait} \subseteq Nat
    /\ {MaxItems, MaxWaits, MaxBulk} \subseteq Nat

VARIABLES
    lists,     \* key -> the items of its list, <<>> for no list
    strings,   \* the keys that hold a string
    waiters,   \* every waiter registered so far, by number
    queues,    \* waitersByKey: key -> sequence of waiter numbers
    byConn,    \* waitersByConnection: client -> set of waiter numbers
    total,     \* totalWaiters
    conn,      \* client -> "open", "gone" (its 'close' event is still to come) or "closed"
    paused,    \* the clients whose socket is paused
    out,       \* items that left by a command other than a wakeup
    next,      \* the number of the next item
    bulk,      \* how many pushes of two items and renames there have been
    mode,      \* "idle", "script" or "flush"
    pending    \* deferredKeys, in insertion order

managerVars == <<waiters, queues, byConn, total, paused>>
vars == <<lists, strings, waiters, queues, byConn, total, conn, paused, out, next, bulk, mode, pending>>

Init ==
    /\ lists = [k \in Keys |-> <<>>]
    /\ strings = {}
    /\ waiters = <<>>
    /\ queues = [k \in Keys |-> <<>>]
    /\ byConn = [c \in Clients |-> {}]
    /\ total = 0
    /\ conn = [c \in Clients |-> "open"]
    /\ paused = {}
    /\ out = {}
    /\ next = 1
    /\ bulk = 0
    /\ mode = "idle"
    /\ pending = <<>>

-----------------------------------------------------------------------------
(* The waiters.                                                            *)

Elems(s) == {s[i] : i \in DOMAIN s}
Ids == DOMAIN waiters
Done(w) == w.completed \/ w.canceled
Active == {i \in Ids : ~Done(waiters[i])}

\* The places of keys whose list has an item; a key of another type is skipped.
Available(keys, l) == {i \in DOMAIN keys : l[keys[i]] # <<>>}
FirstOf(S) == CHOOSE i \in S : \A j \in S : i <= j

\* lpop or rpop of one item.
ItemOf(kind, s) == IF kind = "BLPOP" THEN Head(s) ELSE s[Len(s)]
\* Mutant: the item deleted is not the one that is returned.
RestOfOther(kind, s) == IF kind = "BLPOP" THEN SubSeq(s, 1, Len(s) - 1) ELSE Tail(s)
RestOf(kind, s) == IF kind = "BLPOP" THEN Tail(s) ELSE SubSeq(s, 1, Len(s) - 1)

\* A queue without the waiters of S: they are spliced out one after the other.
Spliced(q, S) ==
    LET kept[n \in 0..Len(q)] ==
            IF n = 0 THEN <<>>
            ELSE IF q[n] \in S THEN kept[n - 1] ELSE Append(kept[n - 1], q[n])
    IN  kept[Len(q)]

\* Mutant: the waiter is taken only from the queue of one key.
UnqueuedFromFirst(id) == [queues EXCEPT ![waiters[id].keys[1]] = Spliced(@, {id})]
\* removeWaiterFromQueues: from the queue of each of its keys, the counters with it.
Unqueued(id) ==
    [k \in Keys |-> IF k \in Elems(waiters[id].keys) THEN Spliced(queues[k], {id}) ELSE queues[k]]
RemoveWaiter(id) ==
    /\ queues' = Unqueued(id)
    /\ byConn' = [byConn EXCEPT ![waiters[id].conn] = @ \ {id}]
    /\ total' = total - 1

\* Mutant: the reply without the resume.
ResolveStaysPaused(id, reply) ==
    /\ waiters' = [waiters EXCEPT ![id].completed = TRUE,
                                  ![id].replies = Append(@, reply)]
    /\ UNCHANGED paused
\* resolve: the reply is written and the socket resumed.
Resolve(id, reply) ==
    /\ waiters' = [waiters EXCEPT ![id].completed = TRUE,
                                  ![id].replies = Append(@, reply)]
    /\ paused' = paused \ {waiters[id].conn}

KeyServed(keys, l) == keys[FirstOf(Available(keys, l))]

\* tryWake, with the lists l: the keys of the waiter in order, from the first that has one.
Serve(id, l) ==
    LET w == waiters[id]
        k == KeyServed(w.keys, l)
    IN  /\ lists' = [l EXCEPT ![k] = RestOf(w.kind, @)]
        /\ Resolve(id, <<k, ItemOf(w.kind, l[k])>>)
        /\ RemoveWaiter(id)

\* Mutant: the youngest waiter of the queue.
Youngest(q) == q[Len(q)]
Oldest(q) == Head(q)

\* wakeup, outside a script: at most one waiter, the oldest of the key.
Wakeup(k, l) ==
    IF queues[k] = <<>> THEN lists' = l /\ UNCHANGED managerVars
    ELSE LET id == Oldest(queues[k])
         IN  IF Done(waiters[id])
               THEN lists' = l /\ RemoveWaiter(id) /\ UNCHANGED <<waiters, paused>>
             ELSE IF Available(waiters[id].keys, l) = {}
               THEN lists' = l /\ UNCHANGED managerVars
             ELSE Serve(id, l)

-----------------------------------------------------------------------------
(* The blocking commands, timers and disconnections.                       *)

Idle == mode = "idle"

\* BLPOP, BRPOP with no item to give: registerWaiter, then the socket is paused.  Beyond a
\* limit the reply is an error and nothing changes.
Register(c, kind, keys, timed) ==
    /\ Len(keys) <= maxKeysPerWait
    /\ total < maxTotalWaiters
    /\ \A k \in Elems(keys) : Len(queues[k]) < maxWaitersPerKey
    /\ LET id == Len(waiters) + 1
       IN  /\ waiters' = Append(waiters, [conn |-> c, kind |-> kind, keys |-> keys,
                             timer |-> timed, completed |-> FALSE, canceled |-> FALSE,
                             replies |-> <<>>])
           /\ queues' = [k \in Keys |-> queues[k] \o
                           [i \in 1..Cardinality({j \in DOMAIN keys : keys[j] = k}) |-> id]]
           /\ byConn' = [byConn EXCEPT ![c] = @ \cup {id}]
           /\ total' = total + 1
           /\ paused' = paused \cup {c}
    /\ UNCHANGED <<lists, out>>

\* A key of another type among the arguments is an error.
Block(c, kind, keys, timed) ==
    /\ Idle
    /\ conn[c] = "open" /\ c \notin paused
    /\ Elems(keys) \cap strings = {}
    /\ IF Available(keys, lists) # {}
         THEN LET k == KeyServed(keys, lists)
              IN  /\ lists' = [lists EXCEPT ![k] = RestOf(kind, @)]
                  /\ out' = out \cup {ItemOf(kind, lists[k])}
                  /\ UNCHANGED managerVars
         ELSE Len(waiters) < MaxWaits /\ Register(c, kind, keys, timed)
    /\ UNCHANGED <<strings, conn, next, bulk, mode, pending>>

\* Mutants: a timer that does not look whether its waiter was served, or looks the wrong way.
AlwaysLive(id) == TRUE
LiveWhenDone(id) == Done(waiters[id])
TimerLive(id) == ~Done(waiters[id])

\* The timer of a waiter fires, also after the waiter was served, for serving does not clear it.
TimerFires(id) ==
    /\ Idle
    /\ waiters[id].timer
    /\ IF TimerLive(id)
         THEN /\ waiters' = [waiters EXCEPT ![id].timer = FALSE, ![id].completed = TRUE,
                                            ![id].replies = Append(@, <<>>)]
              /\ paused' = paused \ {waiters[id].conn}
              /\ RemoveWaiter(id)
         ELSE /\ waiters' = [waiters EXCEPT ![id].timer = FALSE]
              /\ UNCHANGED <<queues, byConn, total, paused>>
    /\ UNCHANGED <<lists, strings, conn, out, next, bulk, mode, pending>>

\* The peer goes away; the server learns of it later.
Hangup(c) ==
    /\ Idle
    /\ conn[c] = "open"
    /\ conn' = [conn EXCEPT ![c] = "gone"]
    /\ UNCHANGED <<lists, strings, managerVars, out, next, bulk, mode, pending>>

\* The 'close' event, and cancel: every waiter of the connection that is not completed.
Close(c) ==
    /\ Idle
    /\ conn[c] = "gone"
    /\ conn' = [conn EXCEPT ![c] = "closed"]
    /\ LET gone == {i \in byConn[c] : ~waiters[i].completed}
       IN  /\ waiters' = [i \in Ids |-> IF i \in gone
                            THEN [waiters[i] EXCEPT !.canceled = TRUE, !.timer = FALSE]
                            ELSE waiters[i]]
           /\ queues' = [k \in Keys |-> Spliced(queues[k], gone)]
           /\ total' = total - Cardinality(gone)
    /\ byConn' = [byConn EXCEPT ![c] = {}]
    /\ UNCHANGED <<lists, strings, paused, out, next, bulk, mode, pending>>

-----------------------------------------------------------------------------
(* The list commands of other connections and of scripts.                  *)

Commands == mode \in {"idle", "script"}

\* LPUSH, RPUSH of n items: the transaction, then wakeup, which a script defers.
Pushed(s, side, n) ==
    IF side = "RPUSH" THEN s \o [i \in 1..n |-> next + i - 1]
                      ELSE [i \in 1..n |-> next + n - i] \o s

Push(k, side, n) ==
    /\ Commands
    /\ k \notin strings
    /\ next + n <= MaxItems + 1
    /\ n > 1 => bulk < MaxBulk
    /\ next' = next + n
    /\ bulk' = IF n > 1 THEN bulk + 1 ELSE bulk
    /\ LET l == [lists EXCEPT ![k] = Pushed(@, side, n)]
       IN  IF mode = "script"
             THEN /\ lists' = l
                  /\ pending' = IF k \in Elems(pending) THEN pending ELSE Append(pending, k)
                  /\ UNCHANGED managerVars
             ELSE Wakeup(k, l) /\ UNCHANGED pending
    /\ UNCHANGED <<strings, conn, out, mode>>

\* LPOP, RPOP.
Pop(k, kind) ==
    /\ Commands
    /\ lists[k] # <<>>
    /\ out' = out \cup {ItemOf(kind, lists[k])}
    /\ lists' = [lists EXCEPT ![k] = RestOf(kind, @)]
    /\ UNCHANGED <<strings, managerVars, conn, next, bulk, mode, pending>>

\* DEL of a list or a string; also the expiry of the key, which is deleted when next looked at.
Del(k) ==
    /\ Commands
    /\ lists[k] # <<>> \/ k \in strings
    /\ out' = out \cup Elems(lists[k])
    /\ lists' = [lists EXCEPT ![k] = <<>>]
    /\ strings' = strings \ {k}
    /\ UNCHANGED <<managerVars, conn, next, bulk, mode, pending>>

\* SET of a key that holds no list.
Set(k) ==
    /\ Commands
    /\ lists[k] = <<>>
    /\ strings' = strings \cup {k}
    /\ UNCHANGED <<lists, managerVars, conn, out, next, bulk, mode, pending>>

\* RENAME: what nk held goes; nobody is woken.
Rename(k, nk) ==
    /\ Commands
    /\ k # nk
    /\ lists[k] # <<>> \/ k \in strings
    /\ bulk < MaxBulk
    /\ bulk' = bulk + 1
    /\ out' = out \cup Elems(lists[nk])
    /\ lists' = [lists EXCEPT ![nk] = lists[k], ![k] = <<>>]
    /\ strings' = IF k \in strings THEN (strings \ {k}) \cup {nk} ELSE strings \ {nk}
    /\ UNCHANGED <<managerVars, conn, next, mode, pending>>

-----------------------------------------------------------------------------
(* Scripts: runScript defers the wakeups, and makes them at the end.       *)

BeginScript ==
    /\ Idle
    /\ mode' = "script"
    /\ UNCHANGED <<lists, strings, managerVars, conn, out, next, bulk, pending>>

\* Returned, failed or timed out: the finally clause flushes what was deferred.
EndScript ==
    /\ mode = "script"
    /\ mode' = IF pending = <<>> THEN "idle" ELSE "flush"
    /\ UNCHANGED <<lists, strings, managerVars, conn, out, next, bulk, pending>>

\* Mutant: one wakeup for each key, however many items the script pushed.
OnceEach(before, after) == FALSE
\* The loop of flushWakeups goes on with a key while its queue gets shorter.
Again(before, after) == after < before

FlushWakeup ==
    /\ mode = "flush"
    /\ LET k == Head(pending)
       IN  /\ Wakeup(k, lists)
           /\ IF Again(Len(queues[k]), Len(queues'[k])) THEN UNCHANGED <<pending, mode>>
              ELSE /\ pending' = Tail(pending)
                   /\ mode' = IF Len(pending) = 1 THEN "idle" ELSE "flush"
    /\ UNCHANGED <<strings, conn, out, next, bulk>>

-----------------------------------------------------------------------------
Next ==
    \/ \E c \in Clients :
         \/ \E kind \in Kinds, keys \in KeyLists, timed \in BOOLEAN : Block(c, kind, keys, timed)
         \/ c \in Leavers /\ Hangup(c)
         \/ Close(c)
    \/ \E id \in Ids : TimerFires(id)
    \/ \E k \in Keys :
         \/ \E side \in {"LPUSH", "RPUSH"}, n \in 1..2 : Push(k, side, n)
         \/ \E kind \in Kinds : Pop(k, kind)
         \/ Del(k)
         \/ k \in StringKeys /\ Set(k)
         \/ \E nk \in Keys : Rename(k, nk)
    \/ BeginScript \/ EndScript \/ FlushWakeup

Spec == Init /\ [][Next]_vars

\* Node's event loop comes to the due timers and the 'close' events between any two scripts,
\* however many there are; a script ends, at its deadline if not before.
FairSpec ==
    /\ Spec
    /\ \A id \in 1..MaxWaits : SF_vars(id \in Ids /\ TimerFires(id))
    /\ \A c \in Clients : SF_vars(Close(c))
    /\ WF_vars(EndScript)
    /\ WF_vars(FlushWakeup)

-----------------------------------------------------------------------------
(* Properties.                                                             *)

Items == 1..MaxItems
Replies == {<<>>} \cup (Keys \X Items)

TypeOK ==
    /\ lists \in [Keys -> Seq(Items)]
    /\ strings \subseteq Keys
    /\ waiters \in Seq([conn : Clients, kind : Kinds, keys : KeyLists, timer : BOOLEAN,
                        completed : BOOLEAN, canceled : BOOLEAN, replies : Seq(Replies)])
    /\ queues \in [Keys -> Seq(Ids)]
    /\ byConn \in [Clients -> SUBSET Ids]
    /\ total \in Nat
    /\ conn \in [Clients -> {"open", "gone", "closed"}]
    /\ paused \subseteq Clients
    /\ out \subseteq Items
    /\ next \in 1..MaxItems + 1
    /\ bulk \in 0..MaxBulk
    /\ mode \in {"idle", "script", "flush"}
    /\ pending \in Seq(Keys)

\* The queues, the sets of each connection and the total agree with the waiters that are
\* neither completed nor canceled, in the order they came; no finished waiter stays in a queue
\* to be woken or to count against a limit.
QueuesMatch ==
    /\ \A k \in Keys :
         /\ Elems(queues[k]) = {i \in Active : k \in Elems(waiters[i].keys)}
         /\ \A m, n \in DOMAIN queues[k] : m < n => queues[k][m] <= queues[k][n]
    /\ \A c \in Clients : byConn[c] = {i \in Active : waiters[i].conn = c}
    /\ total = Cardinality(Active)

\* spec/10, E.9.1: a waiter completes at most once, however many keys it is on and whether its
\* timer or a push comes first; a canceled one gets no reply.
SingleReply ==
    \A i \in Ids :
        Len(waiters[i].replies) = IF waiters[i].completed /\ ~waiters[i].canceled THEN 1 ELSE 0

\* spec/10, E.13.8: no item is delivered twice and none is lost: each is in one place of one
\* list, in the reply to one waiter, or was popped or deleted by another command.
Gives(reply, i) == reply # <<>> /\ reply[2] = i
ListPlaces(i) ==
    UNION {{<<"list", k, n>> : n \in {m \in DOMAIN lists[k] : lists[k][m] = i}} : k \in Keys}
ReplyPlaces(i) ==
    UNION {{<<"reply", w, n>> : n \in {m \in DOMAIN waiters[w].replies :
                                         Gives(waiters[w].replies[m], i)}} : w \in Ids}
Places(i) == ListPlaces(i) \cup ReplyPlaces(i) \cup {x \in {<<"out">>} : i \in out}
ItemsOnce == \A i \in 1..next - 1 : Cardinality(Places(i)) = 1

\* A connection reads its socket again exactly when it is not waiting: it neither hangs after
\* its reply nor runs a command while it is blocked.
PausedIffBlocked == \A c \in Clients : conn[c] # "closed" => (c \in paused <=> byConn[c] # {})

\* Outside scripts, nobody waits for a key whose list has an item.
Starved(i) == \E k \in Elems(waiters[i].keys) : lists[k] # <<>>
NoStarvedWaiter == Idle => \A i \in Active : ~Starved(i)

\* The same while every push is of one item and no list is renamed: then one wakeup for each
\* push is enough, also across the keys of a waiter and after a script with several pushes.
NoStarvedBySinglePushes == bulk = 0 => NoStarvedWaiter

\* An item of a key is given to a waiter only when no older waiter waits for that key.
ServedInOrder ==
    \A i \in Active :
        LET r == waiters'[i].replies
        IN  (r # <<>> /\ r[1] # <<>>) =>
              \A j \in Active : r[1][1] \in Elems(waiters[j].keys) => i <= j

\* FIFO per key outside scripts, while every push is of one item and no list is renamed.
FirstComeFirstServed == [][(Idle /\ bulk' = 0) => ServedInOrder]_vars

\* A timed waiter is answered and a disconnected one forgotten, in the end, whatever the pushes
\* and the other waiters do.
WaitEnds ==
    \A id \in 1..MaxWaits :
        (id \in Active /\ (waiters[id].timer \/ conn[waiters[id].conn] = "gone"))
            ~> (id \notin Active)
=============================================================================

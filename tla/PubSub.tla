-------------------------------- MODULE PubSub --------------------------------
(***************************************************************************)
(* Publish/subscribe: the broker (pubsub/broker.js), the bounded output of *)
(* a connection that has been a subscriber (pubsub/output.js), and the     *)
(* handlers of a connection (server/connection.js) with the commands that  *)
(* bear on them.                                                           *)
(*                                                                         *)
(* A 'data' event brings a chunk of commands.  One action handles one      *)
(* command; until the chunk is done nothing else happens but that the      *)
(* kernel takes what the socket holds (Flush).  Messages come from         *)
(* connections outside Clients.  Commands without a part in this are       *)
(* "OTHER"; BLPOP may find the lists empty, and then waits for the manager *)
(* of the module Blocking.  No client sends MONITOR.  A frame is what one  *)
(* write hands to the socket; its size is 1 unless it is a message.        *)
(***************************************************************************)
EXTENDS Integers, SequencesExt

CONSTANTS
    Clients,
    Channels,
    Patterns,
    Matching,          \* pattern -> the channels it matches (pubsub/match.js)
    Chunks,            \* client -> the chunks it may send: sequences of commands
    Sizes,             \* of the messages
    maxPendingBytes,   \* pubSubConfig
    highWaterMark,     \* of a socket: write returns FALSE from there on
    Leavers,           \* the clients that may close or lose their connection
    Stalled,           \* the clients that may stop reading
    MaxInput           \* bound: chunks received and messages published

Names == Channels \cup Patterns
Ops == {"SUBSCRIBE", "UNSUBSCRIBE", "PSUBSCRIBE", "PUNSUBSCRIBE", "PING", "OTHER", "BLPOP", "QUIT"}

ASSUME PubSubAssumption ==
    /\ Channels \cap Patterns = {}
    /\ Matching \in [Patterns -> SUBSET Channels]
    /\ \A c \in Clients : \A chunk \in Chunks[c] :
         /\ chunk # <<>> /\ chunk \in Seq([op : Ops, names : Seq(Names)])
         /\ \A cmd \in ToSet(chunk) :   \* others are refused (subscribe.js:2)
              cmd.op \in {"SUBSCRIBE", "PSUBSCRIBE"} => cmd.names # <<>>
    /\ Sizes \subseteq Nat \ {0}
    /\ {maxPendingBytes, highWaterMark} \subseteq Nat \ {0}
    /\ Leavers \cup Stalled \subseteq Clients
    /\ MaxInput \in Nat

VARIABLES
    registry,       \* channel or pattern -> its subscribers, {} for no entry
    patternOrder,   \* the active patterns, in the order of their map
    byConnection,   \* client -> what it is subscribed to, in order
    known,          \* the clients that have an entry in byConnection
    pubSubMode,     \* the clients whose context is in pubSubMode
    conn,           \* client -> its socket and its output
    waiting,        \* the clients paused by a BLPOP
    todo,           \* client -> the commands of its chunk still to be handled
    owed,           \* client -> how many commands of its own it has no answer to
    inputs          \* how many chunks and messages there have been

brokerVars == <<registry, patternOrder, byConnection, known>>
vars == <<brokerVars, pubSubMode, conn, waiting, todo, owed, inputs>>

Init ==
    /\ registry = [n \in Names |-> {}]
    /\ patternOrder = <<>>
    /\ byConnection = [c \in Clients |-> <<>>]
    /\ known = {}
    /\ pubSubMode = {}
    /\ conn = [c \in Clients |->
                 [socket    |-> "open",  \* then "finishing", "destroyed", "closed"
                  wire      |-> <<>>,    \* written to the socket, not yet taken by the kernel
                  needDrain |-> FALSE,   \* a 'drain' event is due when the wire is empty
                  output    |-> FALSE,   \* pubSubOutput exists
                  queue     |-> <<>>, queued |-> 0, blocked |-> FALSE, ending |-> FALSE]]
    /\ waiting = {}
    /\ todo = [c \in Clients |-> <<>>]
    /\ owed = [c \in Clients |-> 0]
    /\ inputs = 0

-----------------------------------------------------------------------------
(* Writing.                                                                *)

Bytes(frames) ==
    LET total[n \in 0..Len(frames)] == IF n = 0 THEN 0 ELSE total[n - 1] + frames[n].size
    IN  total[Len(frames)]

Full(o) == Bytes(o.wire) >= highWaterMark
\* socket.write: the frame is buffered in any case; a full buffer calls for a drain.
SocketWrite(o, frame) ==
    LET w == [o EXCEPT !.wire = Append(@, frame)]
    IN  [w EXCEPT !.needDrain = @ \/ Full(w)]
\* socket.end: what is on the wire still goes out.
SocketEnd(o) == IF o.socket = "open" THEN [o EXCEPT !.socket = "finishing"] ELSE o
\* clear, and the socket lost with what it holds.
Destroyed(o) == [o EXCEPT !.socket = "destroyed", !.wire = <<>>, !.needDrain = FALSE,
                          !.queue = <<>>, !.queued = 0]

\* Mutant: queuedBytes is not increased.
QueuedUncounted(o, frame) == [o EXCEPT !.queue = Append(@, frame)]
Queued(o, frame) == [o EXCEPT !.queue = Append(@, frame), !.queued = @ + frame.size]
Accepted(o, frame) ==
    IF o.blocked THEN Queued(o, frame)
                 ELSE LET w == SocketWrite(o, frame) IN [w EXCEPT !.blocked = Full(w)]
\* Mutant: without writableLength.
ExceedsQueueOnly(o, frame) == o.queued + frame.size > maxPendingBytes
Exceeds(o, frame) == o.queued + Bytes(o.wire) + frame.size > maxPendingBytes
Refuses(o) == o.ending \/ o.socket # "open"
\* write of the output.
OutputWrite(o, frame) ==
    IF Refuses(o) THEN o
    ELSE IF Exceeds(o, frame) THEN Destroyed(o) ELSE Accepted(o, frame)

WritePubSub(o, frames) ==
    LET written[n \in 0..Len(frames)] ==
            IF n = 0 THEN [o EXCEPT !.output = TRUE] ELSE OutputWrite(written[n - 1], frames[n])
    IN  IF frames = <<>> THEN o ELSE written[Len(frames)]
WriteResponse(o, frame) ==
    IF o.output THEN OutputWrite(o, frame)
    ELSE IF o.socket = "open" THEN SocketWrite(o, frame) ELSE o

\* end of the output: the socket ends when the queue is empty, now or in drain.
OutputEnd(o) ==
    LET e == [o EXCEPT !.ending = TRUE]
    IN  IF o.queue = <<>> THEN SocketEnd(e) ELSE e

\* Mutant: one frame for each drain.
DrainableOne(queue) == IF queue = <<>> THEN 0 ELSE 1
\* The frames that drain writes: to the one that fills the wire again.
Drainable(queue) ==
    LET fills == {n \in DOMAIN queue : Bytes(SubSeq(queue, 1, n)) >= highWaterMark}
    IN  IF fills = {} THEN Len(queue) ELSE Min(fills)
\* Mutant: the output counts as unblocked after a drain, whatever is left in the queue.
DrainedUnblocked(o) ==
    LET n == Drainable(o.queue)
        out == SubSeq(o.queue, 1, n)
    IN  [o EXCEPT !.wire = out, !.needDrain = Bytes(out) >= highWaterMark, !.blocked = FALSE,
                  !.queue = SubSeq(@, n + 1, Len(@)), !.queued = @ - Bytes(out)]
\* Mutant: a queue emptied by drain does not end the socket.
DrainedOpen(o) ==
    LET n == Drainable(o.queue)
        out == SubSeq(o.queue, 1, n)
    IN  [o EXCEPT !.wire = out, !.needDrain = Bytes(out) >= highWaterMark,
                  !.blocked = Bytes(out) >= highWaterMark,
                  !.queue = SubSeq(@, n + 1, Len(@)), !.queued = @ - Bytes(out)]
Drained(o) ==
    LET n == Drainable(o.queue)
        out == SubSeq(o.queue, 1, n)
        d == [o EXCEPT !.wire = out, !.needDrain = Bytes(out) >= highWaterMark,
                       !.blocked = Bytes(out) >= highWaterMark,
                       !.queue = SubSeq(@, n + 1, Len(@)), !.queued = @ - Bytes(out)]
    IN  IF d.queue = <<>> /\ d.ending THEN SocketEnd(d) ELSE d

Frame(kind, name, body, size) == [kind |-> kind, name |-> name, body |-> body, size |-> size]
Plain(kind) == Frame(kind, "", 0, 1)

-----------------------------------------------------------------------------
(* The commands of a chunk.                                                *)

Idle == \A c \in Clients : todo[c] = <<>>

\* The client's next command is one of these.
Handles(c, ops) == todo[c] # <<>> /\ Head(todo[c]).op \in ops

\* What is left of the chunk: nothing once the socket is destroyed.
Rest(c, o) == IF o.socket = "destroyed" THEN <<>> ELSE Tail(todo[c])
Answered(c, o) ==
    /\ conn' = [conn EXCEPT ![c] = o]
    /\ todo' = [todo EXCEPT ![c] = Rest(c, o)]
    /\ owed' = [owed EXCEPT ![c] = @ - 1]
\* pushes: the rest of the chunk is dropped as soon as one is refused.
Pushed(c, frames) ==
    LET o == WritePubSub(conn[c], frames)
    IN  /\ conn' = [conn EXCEPT ![c] = o]
        /\ todo' = [todo EXCEPT ![c] = IF Refuses(o) THEN <<>> ELSE Tail(@)]
        /\ owed' = [owed EXCEPT ![c] = @ - 1]

\* The names of a sequence at some of its positions, in their order.
Chosen(names, positions) ==
    LET chosen[n \in 0..Len(names)] ==
            IF n = 0 THEN <<>>
            ELSE IF n \in positions THEN Append(chosen[n - 1], names[n]) ELSE chosen[n - 1]
    IN  chosen[Len(names)]
Only(names, set) == Chosen(names, {i \in DOMAIN names : names[i] \in set})

Kind(op) == IF op \in {"SUBSCRIBE", "UNSUBSCRIBE"} THEN Channels ELSE Patterns
Own(c, op) == Only(byConnection[c], Kind(op))

\* One acknowledgement for each name, with the number of subscriptions after it.
Acks(kind, names, subs, adding) ==
    [i \in DOMAIN names |->
       LET named == {names[j] : j \in 1..i}
       IN  Frame(kind, names[i],
                 Cardinality(IF adding THEN subs \cup named ELSE subs \ named), 1)]

\* The names that c has not subscribed to, each once.
NewNames(c, names) ==
    Chosen(names, {i \in DOMAIN names : /\ ~Contains(byConnection[c], names[i])
                                        /\ \A j \in 1..(i - 1) : names[j] # names[i]})

\* Into both maps; a pattern that had no entry gets one, behind the others.
Enlist(c, new) ==
    /\ registry' = [n \in Names |-> IF Contains(new, n) THEN registry[n] \cup {c} ELSE registry[n]]
    /\ patternOrder' = patternOrder \o Only(new, {p \in Patterns : registry[p] = {}})
    /\ byConnection' = [byConnection EXCEPT ![c] = @ \o new]
    /\ known' = known \cup {c}

\* countFor decides.
UpdateMode(c) ==
    pubSubMode' = IF byConnection'[c] # <<>> THEN pubSubMode \cup {c} ELSE pubSubMode \ {c}

\* SUBSCRIBE and PSUBSCRIBE.
Subscribe(c) ==
    /\ Handles(c, {"SUBSCRIBE", "PSUBSCRIBE"})
    /\ LET cmd == Head(todo[c])
           kind == IF cmd.op = "SUBSCRIBE" THEN "subscribe" ELSE "psubscribe"
       IN  /\ Enlist(c, NewNames(c, cmd.names))
           /\ Pushed(c, Acks(kind, cmd.names, ToSet(byConnection[c]), TRUE))
    /\ UpdateMode(c)
    /\ UNCHANGED <<waiting, inputs>>

\* Mutant: the connection stays among the subscribers.
DelistOneWay(c, leaving) ==
    /\ UNCHANGED <<registry, patternOrder>>
    /\ byConnection' = [byConnection EXCEPT ![c] = Only(@, Names \ leaving)]
    /\ known' = IF byConnection'[c] = <<>> THEN known \ {c} ELSE known \cup {c}
\* Out of both maps, and entries without subscribers with them.
Delist(c, leaving) ==
    /\ registry' = [n \in Names |-> IF n \in leaving THEN registry[n] \ {c} ELSE registry[n]]
    /\ patternOrder' = Only(patternOrder, {p \in Patterns : registry'[p] # {}})
    /\ byConnection' = [byConnection EXCEPT ![c] = Only(@, Names \ leaving)]
    /\ known' = IF byConnection'[c] = <<>> THEN known \ {c} ELSE known \cup {c}

\* UNSUBSCRIBE and PUNSUBSCRIBE, from the names given or from all of the kind.
Unsubscribe(c) ==
    /\ Handles(c, {"UNSUBSCRIBE", "PUNSUBSCRIBE"})
    /\ LET cmd == Head(todo[c])
           kind == IF cmd.op = "UNSUBSCRIBE" THEN "unsubscribe" ELSE "punsubscribe"
           names == IF cmd.names = <<>> THEN Own(c, cmd.op) ELSE cmd.names
           subs == ToSet(byConnection[c])
       IN  /\ Delist(c, ToSet(names) \cap subs)
           /\ Pushed(c, IF names = <<>> THEN <<Frame(kind, "", Cardinality(subs), 1)>>
                        ELSE Acks(kind, names, subs, FALSE))
    /\ UpdateMode(c)
    /\ UNCHANGED <<waiting, inputs>>

\* PING: a push in pubSubMode.
Ping(c) ==
    /\ Handles(c, {"PING"})
    /\ IF c \in pubSubMode THEN Pushed(c, <<Plain("pong")>>)
                           ELSE Answered(c, WriteResponse(conn[c], Plain("reply")))
    /\ UNCHANGED <<brokerVars, pubSubMode, waiting, inputs>>

\* Any other command that is answered at once: by its reply, or by an error in pubSubMode.
Other(c) ==
    /\ Handles(c, {"OTHER", "BLPOP"})
    /\ Answered(c, WriteResponse(conn[c], Plain("reply")))
    /\ UNCHANGED <<brokerVars, pubSubMode, waiting, inputs>>

\* BLPOP finds no item: the connection pauses, and the rest of the chunk is dropped.
Block(c) ==
    /\ Handles(c, {"BLPOP"})
    /\ c \notin pubSubMode
    /\ waiting' = waiting \cup {c}
    /\ todo' = [todo EXCEPT ![c] = <<>>]
    /\ UNCHANGED <<brokerVars, pubSubMode, conn, owed, inputs>>

\* QUIT: OK, then the end, after what is queued; the rest of the chunk is dropped.
Quit(c) ==
    /\ Handles(c, {"QUIT"})
    /\ LET o == WriteResponse(conn[c], Plain("OK"))
       IN  conn' = [conn EXCEPT ![c] = IF o.output THEN OutputEnd(o) ELSE SocketEnd(o)]
    /\ todo' = [todo EXCEPT ![c] = <<>>]
    /\ owed' = [owed EXCEPT ![c] = 0]
    /\ UNCHANGED <<brokerVars, pubSubMode, waiting, inputs>>

Execute(c) == Subscribe(c) \/ Unsubscribe(c) \/ Ping(c) \/ Other(c) \/ Block(c) \/ Quit(c)

-----------------------------------------------------------------------------
(* What happens between chunks.                                            *)

Receive(c) ==
    /\ Idle
    /\ inputs < MaxInput
    /\ conn[c].socket \in {"open", "finishing"}
    /\ c \notin waiting
    /\ \E chunk \in Chunks[c] :
         /\ todo' = [todo EXCEPT ![c] = chunk]
         /\ owed' = [owed EXCEPT ![c] = @ + Len(chunk)]
    /\ inputs' = inputs + 1
    /\ UNCHANGED <<brokerVars, pubSubMode, conn, waiting>>

\* The frames of a message for c: as a subscriber of the channel, then for each pattern.
Messages(c, channel, body, size) ==
    LET direct == IF c \in registry[channel] THEN <<Frame("message", channel, body, size)>> ELSE <<>>
        matches == Only(patternOrder, {p \in Patterns : channel \in Matching[p] /\ c \in registry[p]})
    IN  direct \o [i \in DOMAIN matches |-> Frame("pmessage", matches[i], body, size)]

\* A connection outside Clients publishes; message number inputs.
Publish(channel, size) ==
    /\ Idle
    /\ inputs < MaxInput
    /\ conn' = [c \in Clients |-> WritePubSub(conn[c], Messages(c, channel, inputs, size))]
    /\ inputs' = inputs + 1
    /\ UNCHANGED <<brokerVars, pubSubMode, waiting, todo, owed>>

\* The blocking manager answers: an item, or the timeout.
Wake(c) ==
    /\ Idle
    /\ c \in waiting
    /\ conn' = [conn EXCEPT ![c] = WriteResponse(@, Plain("reply"))]
    /\ waiting' = waiting \ {c}
    /\ owed' = [owed EXCEPT ![c] = @ - 1]
    /\ UNCHANGED <<brokerVars, pubSubMode, todo, inputs>>

\* The kernel takes a frame, as the client reads.
Flush(c) ==
    /\ conn[c].wire # <<>>
    /\ conn' = [conn EXCEPT ![c].wire = Tail(@)]
    /\ UNCHANGED <<brokerVars, pubSubMode, waiting, todo, owed, inputs>>

\* The 'drain' event of a socket that has not been ended.
Drain(c) ==
    /\ Idle
    /\ conn[c].socket = "open"
    /\ conn[c].needDrain
    /\ conn[c].wire = <<>>
    /\ conn' = [conn EXCEPT ![c] = IF @.output THEN Drained(@) ELSE [@ EXCEPT !.needDrain = FALSE]]
    /\ UNCHANGED <<brokerVars, pubSubMode, waiting, todo, owed, inputs>>

\* The peer closes or is lost; after the server's own end it closes when it has everything.
Leave(c) ==
    /\ Idle
    /\ \/ c \in Leavers /\ conn[c].socket \in {"open", "finishing"}
       \/ conn[c].socket = "finishing" /\ conn[c].wire = <<>>
    /\ conn' = [conn EXCEPT ![c] = Destroyed(@)]
    /\ UNCHANGED <<brokerVars, pubSubMode, waiting, todo, owed, inputs>>

\* The 'close' event: out of the blocking manager and out of the broker.
Close(c) ==
    /\ Idle
    /\ conn[c].socket = "destroyed"
    /\ conn' = [conn EXCEPT ![c].socket = "closed"]
    /\ waiting' = waiting \ {c}
    /\ Delist(c, ToSet(byConnection[c]))
    /\ UNCHANGED <<pubSubMode, todo, owed, inputs>>

Next ==
    \/ \E c \in Clients :
         Execute(c) \/ Receive(c) \/ Wake(c) \/ Flush(c) \/ Drain(c) \/ Leave(c) \/ Close(c)
    \/ \E channel \in Channels, size \in Sizes : Publish(channel, size)

\* Handlers run to their end; the event loop comes to 'drain' events between handlers; the
\* clients outside Stalled go on reading.
Fairness ==
    /\ WF_vars(\E c \in Clients : Execute(c))
    /\ \A c \in Clients \ Stalled : SF_vars(Drain(c)) /\ WF_vars(Flush(c))

Spec == Init /\ [][Next]_vars /\ Fairness

-----------------------------------------------------------------------------
(* Properties.                                                             *)

Commands == UNION {ToSet(chunk) : chunk \in UNION {Chunks[c] : c \in Clients}}
Kinds == {"subscribe", "unsubscribe", "psubscribe", "punsubscribe", "message", "pmessage",
          "reply", "pong", "OK"}
Frames == [kind : Kinds, name : Names \cup {""}, body : Nat, size : Nat \ {0}]
Connections == [socket : {"open", "finishing", "destroyed", "closed"}, wire : Seq(Frames),
                needDrain : BOOLEAN, output : BOOLEAN, queue : Seq(Frames), queued : Nat,
                blocked : BOOLEAN, ending : BOOLEAN]

\* Every variable has its type: frames on the wire and in the queue of every connection, the
\* broker's maps over known names and clients.
TypeOK ==
    /\ registry \in [Names -> SUBSET Clients]
    /\ patternOrder \in Seq(Patterns)
    /\ byConnection \in [Clients -> Seq(Names)]
    /\ known \subseteq Clients
    /\ pubSubMode \subseteq Clients
    /\ conn \in [Clients -> Connections]
    /\ waiting \subseteq Clients
    /\ todo \in [Clients -> Seq(Commands)]
    /\ owed \in [Clients -> Nat]
    /\ inputs \in 0..MaxInput

\* The broker's maps say the same in both directions and keep no empty entry, the patterns'
\* map has each active pattern once, and a connection is in pubSubMode exactly while it has a
\* subscription; what a connection had goes with its 'close' event, however it came to it.
MapsAgree ==
    /\ \A c \in Clients :
         /\ \A n \in Names : c \in registry[n] <=> Contains(byConnection[c], n)
         /\ IsInjective(byConnection[c])
         /\ c \in known <=> byConnection[c] # <<>>
         /\ IF conn[c].socket = "closed" THEN c \notin known
                                         ELSE c \in pubSubMode <=> c \in known
    /\ IsInjective(patternOrder)
    /\ ToSet(patternOrder) = {p \in Patterns : registry[p] # {}}

\* README.md:477: what waits for a connection that has been a subscriber, in the queue and in
\* the socket, is within the limit, as counted and in fact; and nothing waits in the queue of
\* a connection unless a 'drain' event is due that will write it.
OutputIsSound ==
    \A c \in Clients :
      LET o == conn[c]
      IN  /\ o.queued = Bytes(o.queue)
          /\ o.socket = "open" /\ o.output => o.queued + Bytes(o.wire) <= maxPendingBytes
          /\ o.queue # <<>> => o.blocked /\ o.needDrain /\ o.socket = "open"

\* What waits for a connection, as Delivery has it: the wire, then the queue; its subscriptions
\* end for it when it quits or is lost, though the broker has them until the 'close' event.
Link(c) == CASE conn[c].socket = "open" -> IF conn[c].ending THEN "quitting" ELSE "open"
             [] conn[c].socket = "finishing" -> "quitting"
             [] OTHER -> "gone"
Promise == INSTANCE Delivery WITH
    link    <- [c \in Clients |-> Link(c)],
    subs    <- [c \in Clients |-> IF Link(c) = "open" THEN ToSet(byConnection[c]) ELSE {}],
    pending <- [c \in Clients |-> conn[c].wire \o conn[c].queue],
    bounded <- {c \in Clients : conn[c].output /\ Link(c) = "open"},
    Bodies  <- 0..MaxInput

\* The broker, the output and the connection implement Delivery: order is kept through wire,
\* queue and drain, every subscription that matches gets the message once, a slow subscriber is
\* cut off at the limit and no other, and after QUIT what was queued arrives and nothing else.
ImplementsDelivery == Promise!Spec

\* A subscriber that reads gets what is queued for it, however little another reads; or it
\* leaves, or is cut off.
QueueEmpties ==
    \A c \in Clients \ Stalled : conn[c].queue # <<>> ~> conn[c].queue = <<>>

\* QUIT ends the connection of a client that reads, and then its subscriptions are gone.
QuitCompletes ==
    \A c \in Clients \ Stalled : conn[c].ending ~> conn[c].socket # "open"

\* What a client that reads is owed comes, by a drain behind its other frames or its QUIT.
ReadersAreServed == QueueEmpties /\ QuitCompletes

\* resp/parser.js:3: "Handles fragmented input and multiple complete commands per chunk": a
\* client that is not blocked has an answer to every command of its chunks that are done.
EveryCommandAnswered ==
    \A c \in Clients : conn[c].socket = "open" /\ ~conn[c].ending /\ c \notin waiting
                         => owed[c] = Len(todo[c])
=============================================================================

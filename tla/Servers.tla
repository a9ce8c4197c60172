------------------------------ MODULE Servers ------------------------------
(***************************************************************************)
(* Starting and closing the servers of one process: createRESPlite and     *)
(* createRESPliteGroup (embed.js), startServer (index.js) and the          *)
(* scripting plugin (scripting/plugin.js), which belongs to one server     *)
(* from its attach() to its close() and keeps the scripts that ran.        *)
(* Listening and the end of a socket are awaited; a start may fail at      *)
(* each step.  Commands other than those of scripts are left out.          *)
(***************************************************************************)
EXTENDS Integers, SequencesExt

CONSTANTS
    Embedded,      \* servers made by createRESPlite, alone
    Group,         \* servers made by createRESPliteGroup, in this order
    Cli,           \* servers made by startServer
    Plugins, NoPlugin,
    PluginOf,      \* server -> the plugin of its options, or NoPlugin
    Clients,
    Scripts, Size,             \* scripts, and script -> its bytes
    MaxCachedScripts, MaxCacheBytes

Servers == Embedded \cup Range(Group) \cup Cli
NoOwner == "no owner"
TheGroup == "group"

ASSUME ServersAssumption ==
    /\ IsInjective(Group)
    /\ Embedded \cap Range(Group) = {} /\ Cli \cap (Embedded \cup Range(Group)) = {}
    /\ {NoOwner, TheGroup} \cap Servers = {}
    /\ PluginOf \in [Servers -> Plugins \cup {NoPlugin}] /\ NoPlugin \notin Plugins
    /\ Size \in [Scripts -> Nat]
    /\ MaxCachedScripts \in Nat \ {0} /\ MaxCacheBytes \in Nat
    /\ \A s \in Scripts : Size[s] <= MaxCacheBytes

VARIABLES
    phase,       \* server -> "new", "opening", "serving", "closing", "closed", "failed",
                 \* "leaked": it failed with its database open, or "broken": it listens, with
                 \* everything behind it closed
    db,          \* servers with an open database
    sweeping,    \* servers with a running sweeper
    conns,       \* server -> clients in its set of connections
    sockets,     \* server -> clients with a socket that has not ended
    handlers,    \* who is called on a signal: servers, and the group
    exits,       \* servers that end the process when they are closed
    group,       \* "new", "starting", "rollback", "up", "closing", "closed" or "failed"
    owner,       \* plugin -> its server, or NoOwner
    closed,      \* plugins that are closed
    cache,       \* plugin -> its scripts, the one evicted next first
    cacheBytes,  \* plugin -> bytes it counts
    used,        \* history: plugin -> the scripts used since FLUSH, each once, the last one last
    exited       \* the process is gone

pluginVars == <<owner, closed, cache, cacheBytes, used>>
vars == <<phase, db, sweeping, conns, sockets, handlers, exits, group, pluginVars, exited>>

Init ==
    /\ phase = [s \in Servers |-> "new"]
    /\ db = {} /\ sweeping = {}
    /\ conns = [s \in Servers |-> {}] /\ sockets = [s \in Servers |-> {}]
    /\ handlers = {} /\ exits = {} /\ group = "new"
    /\ owner = [p \in Plugins |-> NoOwner] /\ closed = {}
    /\ cache = [p \in Plugins |-> <<>>] /\ cacheBytes = [p \in Plugins |-> 0]
    /\ used = [p \in Plugins |-> <<>>]
    /\ exited = FALSE

-----------------------------------------------------------------------------
(* The plugin.                                                             *)

PluginsOf(s) == {PluginOf[s]} \ {NoPlugin}
CanAttach(s) == \A p \in PluginsOf(s) : p \notin closed /\ owner[p] \in {NoOwner, s}
Attach(s) ==
    /\ owner' = [p \in Plugins |-> IF p \in PluginsOf(s) THEN s ELSE owner[p]]
    /\ UNCHANGED <<closed, cache, cacheBytes, used>>
ClosePlugins(ps) ==
    /\ closed' = closed \cup ps
    /\ owner' = [p \in Plugins |-> IF p \in ps THEN NoOwner ELSE owner[p]]
    /\ cache' = [p \in Plugins |-> IF p \in ps THEN <<>> ELSE cache[p]]
    /\ cacheBytes' = [p \in Plugins |-> IF p \in ps THEN 0 ELSE cacheBytes[p]]
    /\ used' = [p \in Plugins |-> IF p \in ps THEN <<>> ELSE used[p]]

Bytes(scripts) ==
    LET total[n \in 0..Len(scripts)] == IF n = 0 THEN 0 ELSE total[n - 1] + Size[scripts[n]]
    IN  total[Len(scripts)]

\* A new script goes to the end, when as many of the first ones have gone as must.
Add(p, s) ==
    LET scripts == cache[p]
        left(i) == SubSeq(scripts, i + 1, Len(scripts))
        bytes(i) == cacheBytes[p] - Bytes(SubSeq(scripts, 1, i))
        gone == Min({i \in 0..Len(scripts) : /\ Len(left(i)) < MaxCachedScripts
                                             /\ bytes(i) + Size[s] <= MaxCacheBytes})
    IN  /\ cache' = [cache EXCEPT ![p] = Append(left(gone), s)]
        /\ cacheBytes' = [cacheBytes EXCEPT ![p] = bytes(gone) + Size[s]]
\* Mutant: a script found in the cache stays where it is.
RememberNew(p, s) == IF Contains(cache[p], s) THEN UNCHANGED <<cache, cacheBytes>> ELSE Add(p, s)
Remember(p, s) ==
    IF Contains(cache[p], s)
      THEN cache' = [cache EXCEPT ![p] = Append(RemoveFirst(@, s), s)] /\ UNCHANGED cacheBytes
      ELSE Add(p, s)

-----------------------------------------------------------------------------
(* Starting.                                                               *)

\* A command policy is refused, or the file of the database: what is open is closed.  openDb keeps
\* the handle to itself until the pragmas and the schema are in: when those are refused, by a
\* file that is busy or is no database, nobody can close it.
Refused(s) ==
    /\ \/ phase' = [phase EXCEPT ![s] = "failed"] /\ UNCHANGED db
       \/ phase' = [phase EXCEPT ![s] = "leaked"] /\ db' = db \cup {s}
    /\ ClosePlugins(PluginsOf(s))
    /\ UNCHANGED sweeping
Opened(s) ==
    /\ phase' = [phase EXCEPT ![s] = "opening"]
    /\ Attach(s)
    /\ db' = db \cup {s} /\ sweeping' = sweeping \cup ({s} \cap Cli)
\* Mutant: attach() is within the try block.
OpenTry(s) == Refused(s) \/ (CanAttach(s) /\ Opened(s))
\* Up to listen() there is no await.  A plugin that cannot be attached is left alone.
Open(s) ==
    \/ CanAttach(s) /\ (Refused(s) \/ Opened(s))
    \/ /\ ~CanAttach(s)
       /\ phase' = [phase EXCEPT ![s] = "failed"]
       /\ UNCHANGED <<db, sweeping, pluginVars>>
Start(s) ==
    /\ ~exited /\ phase[s] = "new"
    /\ \/ s \in Embedded \cup Cli
       \/ /\ group = "starting"
          /\ \E i \in DOMAIN Group : /\ Group[i] = s
                                     /\ \A j \in 1..(i - 1) : phase[Group[j]] = "serving"
    /\ Open(s)
    /\ UNCHANGED <<conns, sockets, handlers, exits, group, exited>>

\* Every server that is no member of a group has gracefulShutdown on.  startServer sets its handlers
\* before listen(), whose outcome comes on the next tick, before any signal.
Listening(s) ==
    /\ ~exited /\ phase[s] = "opening"
    /\ phase' = [phase EXCEPT ![s] = "serving"]
    /\ handlers' = handlers \cup ({s} \ Range(Group))
    /\ UNCHANGED <<db, sweeping, conns, sockets, exits, group, pluginVars, exited>>
Release(s) ==
    /\ db' = db \ {s} /\ sweeping' = sweeping \ {s} /\ handlers' = handlers \ {s}
    /\ ClosePlugins(PluginsOf(s))
\* The port is taken: what was opened is closed.  startServer throws it from an event, which ends
\* the process unless the application catches it.
ListenFails(s) ==
    /\ ~exited /\ phase[s] = "opening"
    /\ phase' = [phase EXCEPT ![s] = "failed"]
    /\ Release(s)
    /\ IF s \in Cli THEN exited' \in BOOLEAN ELSE UNCHANGED exited
    /\ UNCHANGED <<conns, sockets, exits, group>>
\* A connection cannot be accepted, for want of file descriptors.  The listener of startServer for
\* the port that is taken is still there and releases everything behind a server that goes on
\* listening; of the other servers nobody listens, so the process ends unless the application
\* catches the error.
AcceptFails(s) ==
    /\ ~exited
    /\ \/ /\ s \in Cli /\ phase[s] = "serving"
          /\ phase' = [phase EXCEPT ![s] = "broken"]
          /\ Release(s)
          /\ exited' \in BOOLEAN
       \/ /\ phase[s] = "broken" \/ (phase[s] = "serving" /\ s \notin Cli)
          /\ exited' = TRUE
          /\ UNCHANGED <<phase, db, sweeping, handlers, pluginVars>>
    /\ UNCHANGED <<conns, sockets, exits, group>>

-----------------------------------------------------------------------------
(* Connections and scripts.                                                *)

Connect(s, c) ==
    /\ ~exited /\ phase[s] \in {"serving", "broken"}
    /\ \A t \in Servers : c \notin sockets[t]
    /\ conns' = [conns EXCEPT ![s] = @ \cup {c}]
    /\ sockets' = [sockets EXCEPT ![s] = @ \cup {c}]
    /\ UNCHANGED <<phase, db, sweeping, handlers, exits, group, pluginVars, exited>>
\* Mutant: nobody listens for the end of a socket.
SocketEndsUnseen(s, c) ==
    /\ ~exited /\ c \in sockets[s]
    /\ sockets' = [sockets EXCEPT ![s] = @ \ {c}]
    /\ UNCHANGED <<phase, db, sweeping, conns, handlers, exits, group, pluginVars, exited>>
\* A socket ends: the client went, or it was destroyed.
SocketEnds(s, c) ==
    /\ ~exited /\ c \in sockets[s]
    /\ sockets' = [sockets EXCEPT ![s] = @ \ {c}]
    /\ conns' = [conns EXCEPT ![s] = @ \ {c}]
    /\ UNCHANGED <<phase, db, sweeping, handlers, exits, group, pluginVars, exited>>

CanRun(s) == phase[s] = "serving" /\ conns[s] # {} /\ PluginOf[s] # NoPlugin
\* EVAL and SCRIPT LOAD of a script that compiles, EVALSHA of one in the cache.
RunScript(s, script) ==
    LET p == PluginOf[s]
    IN  /\ ~exited /\ CanRun(s)
        /\ Remember(p, script)
        /\ used' = [used EXCEPT ![p] = Append(RemoveFirst(@, script), script)]
        /\ UNCHANGED <<phase, db, sweeping, conns, sockets, handlers, exits, group, owner, closed, exited>>
ScriptFlush(s) ==
    /\ ~exited /\ CanRun(s)
    /\ cache' = [cache EXCEPT ![PluginOf[s]] = <<>>]
    /\ cacheBytes' = [cacheBytes EXCEPT ![PluginOf[s]] = 0]
    /\ used' = [used EXCEPT ![PluginOf[s]] = <<>>]
    /\ UNCHANGED <<phase, db, sweeping, conns, sockets, handlers, exits, group, owner, closed, exited>>

-----------------------------------------------------------------------------
(* Closing.                                                                *)

\* Mutant: the server closes, the clients may stay.
CloseListener(ss) ==
    /\ phase' = [s \in Servers |-> IF s \in ss /\ phase[s] = "serving" THEN "closing" ELSE phase[s]]
    /\ sweeping' = sweeping \ ss
    /\ UNCHANGED <<conns, db, sockets, pluginVars, exited>>
\* close() of those of ss that serve; again it does nothing.  Their sockets are destroyed.
Close(ss) ==
    LET now == {s \in ss : phase[s] = "serving"}
    IN  /\ phase' = [s \in Servers |-> IF s \in now THEN "closing" ELSE phase[s]]
        /\ conns' = [s \in Servers |-> IF s \in now THEN {} ELSE conns[s]]
        /\ sweeping' = sweeping \ now
        /\ UNCHANGED <<db, sockets, pluginVars, exited>>

\* The application closes a server, of a group when it has it, or the group.
CloseServer(s) ==
    /\ ~exited /\ phase[s] = "serving"
    /\ s \in Embedded \/ (s \in Range(Group) /\ group = "up")
    /\ Close({s})
    /\ handlers' = handlers \ {s}
    /\ UNCHANGED <<exits, group>>
CloseGroup ==
    /\ ~exited /\ group = "up" /\ group' = "closing"
    /\ Close(Range(Group))
    /\ handlers' = handlers \ {TheGroup}
    /\ UNCHANGED exits

\* SIGTERM or SIGINT calls every handler there is: a server that is alone ends the process when it
\* is closed, a group does not.
Signal ==
    LET alone == handlers \ {TheGroup}
        called == alone \cup (IF TheGroup \in handlers THEN Range(Group) ELSE {})
    IN  /\ ~exited /\ handlers # {} /\ handlers' = {}
        /\ Close(called)
        /\ exits' = exits \cup alone
        /\ group' = IF TheGroup \in handlers THEN "closing" ELSE group

\* The callback of server.close() comes when every socket has ended.
Closed(s) ==
    /\ ~exited /\ phase[s] = "closing" /\ sockets[s] = {}
    /\ phase' = [phase EXCEPT ![s] = "closed"]
    /\ db' = db \ {s}
    /\ ClosePlugins(PluginsOf(s))
    /\ exited' = (s \in exits)
    /\ UNCHANGED <<sweeping, conns, sockets, handlers, exits, group>>

-----------------------------------------------------------------------------
(* The group: its servers start one by one, and one that fails undoes it.  *)

Failed(s) == phase[s] \in {"failed", "leaked"}
Over(s) == Failed(s) \/ phase[s] \in {"new", "closed"}
GroupStarts ==
    /\ ~exited /\ group = "new" /\ group' = "starting"
    /\ UNCHANGED <<phase, db, sweeping, conns, sockets, handlers, exits, pluginVars, exited>>
GroupIsUp ==
    /\ ~exited /\ group = "starting" /\ \A s \in Range(Group) : phase[s] = "serving"
    /\ group' = "up" /\ handlers' = handlers \cup {TheGroup}
    /\ UNCHANGED <<phase, db, sweeping, conns, sockets, exits, pluginVars, exited>>
RollBack ==
    /\ ~exited /\ group = "starting" /\ \E s \in Range(Group) : Failed(s)
    /\ group' = "rollback" /\ Close(Range(Group))
    /\ UNCHANGED <<handlers, exits>>
GroupIsOver ==
    /\ ~exited /\ group \in {"rollback", "closing"} /\ \A s \in Range(Group) : Over(s)
    /\ group' = IF group = "rollback" THEN "failed" ELSE "closed"
    /\ UNCHANGED <<phase, db, sweeping, conns, sockets, handlers, exits, pluginVars, exited>>

-----------------------------------------------------------------------------
Awaited ==
    \/ \E s \in Servers : Listening(s) \/ ListenFails(s) \/ Closed(s)
    \/ \E s \in Servers : s \in Range(Group) /\ Start(s)
    \/ \E s \in Servers, c \in Clients : c \notin conns[s] /\ SocketEnds(s, c)
    \/ GroupIsUp \/ RollBack \/ GroupIsOver
Next ==
    \/ Awaited
    \/ \E s \in Servers : Start(s) \/ AcceptFails(s) \/ ScriptFlush(s) \/ CloseServer(s)
    \/ \E s \in Servers, c \in Clients : Connect(s, c) \/ SocketEnds(s, c)
    \/ \E s \in Servers, script \in Scripts : RunScript(s, script)
    \/ GroupStarts \/ CloseGroup \/ Signal
Spec == Init /\ [][Next]_vars
FairSpec == Spec /\ WF_vars(Awaited)

-----------------------------------------------------------------------------
(* Properties.                                                             *)

\* The state of servers, plugins and the group; the set of connections has no socket that ended.
TypeOK ==
    /\ phase \in [Servers -> {"new", "opening", "serving", "closing", "closed", "failed",
                          "leaked", "broken"}]
    /\ db \subseteq Servers /\ sweeping \subseteq Cli
    /\ sockets \in [Servers -> SUBSET Clients]
    /\ \A s \in Servers : conns[s] \subseteq sockets[s]
    /\ handlers \subseteq Servers \cup {TheGroup} /\ exits \subseteq Servers
    /\ group \in {"new", "starting", "rollback", "up", "closing", "closed", "failed"}
    /\ owner \in [Plugins -> Servers \cup {NoOwner}] /\ closed \subseteq Plugins
    /\ \A p \in Plugins : Range(cache[p]) \cup Range(used[p]) \subseteq Scripts
    /\ cacheBytes \in [Plugins -> Nat] /\ exited \in BOOLEAN

\* What a server has open is what its phase asks for.
Sound(s) ==
    LET open == phase[s] \in {"opening", "serving", "closing"}
    IN  /\ (s \in db) <=> (open \/ phase[s] = "leaked")
        /\ (s \in sweeping) <=> (s \in Cli /\ phase[s] \in {"opening", "serving"})
        /\ \A p \in PluginsOf(s) : ((owner[p] = s) <=> open) /\ (open => p \notin closed)
        /\ sockets[s] # {} => phase[s] \in {"serving", "closing", "broken"}
        /\ s \in handlers => phase[s] = "serving"
        /\ phase[s] = "broken" => s \in Cli

\* embed.js, index.js: a server that listens or still has sockets has its database, its plugin
\* and, from startServer, its sweeper, whatever other servers fail or close meanwhile; one that
\* failed or is closed has left open no database, plugin or sweeper, no handler and no socket; and a
\* group that failed has left no server (embed.js:210 "rolls back servers already started when a
\* later instance fails").  There are two exceptions, no more: a server whose pragmas or schema were
\* refused keeps the handle of its database ("leaked"), and one of startServer that had an error
\* while it listened goes on without all of these ("broken").
OpenWhileServing ==
    /\ \A s \in Servers : Sound(s)
    /\ group \in {"failed", "closed"} =>
         TheGroup \notin handlers /\ \A s \in Range(Group) : Over(s)

\* plugin.js: the cache keeps within its limits and knows its bytes, and a script leaves it only
\* for scripts used after it: those left are the last ones used.
RecentScripts ==
    \A p \in Plugins :
        /\ cacheBytes[p] = Bytes(cache[p]) /\ cacheBytes[p] <= MaxCacheBytes
        /\ Len(cache[p]) <= MaxCachedScripts
        /\ IsSuffix(cache[p], used[p])
        /\ used[p] # <<>> => cache[p] # <<>>

\* close() resolves and a group that is starting, rolled back or closed comes to an end, whatever
\* the clients do.
CloseEnds ==
    /\ \A s \in Servers : (phase[s] = "closing") ~> (phase[s] = "closed" \/ exited)
    /\ (group \in {"starting", "rollback", "closing"})
         ~> (group \in {"up", "failed", "closed"} \/ exited)
=============================================================================

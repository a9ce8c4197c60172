---------------------------- MODULE ServersProofs ----------------------------
(***************************************************************************)
(* OpenWhileServing, RecentScripts and TypeOK hold in every reachable      *)
(* state of Servers, for any servers, any group, any plugins, whichever    *)
(* servers share them, and any scripts and limits of the cache.            *)
(***************************************************************************)
EXTENDS Servers, NaturalsInduction, WellFoundedInduction, SequenceTheorems, TLAPS

\* Types of the variables that tell what is open.
TypeInv ==
    /\ phase \in [Servers -> {"new", "opening", "serving", "closing", "closed", "failed",
                          "leaked", "broken"}]
    /\ db \subseteq Servers /\ sweeping \subseteq Cli
    /\ conns \in [Servers -> SUBSET Clients] /\ sockets \in [Servers -> SUBSET Clients]
    /\ owner \in [Plugins -> Servers \cup {NoOwner}] /\ closed \subseteq Plugins

\* The group is called on a signal while it is up, its servers never.
GroupIsCalled ==
    /\ TheGroup \in handlers => group = "up"
    /\ handlers \cap Range(Group) = {}

IInv == TypeInv /\ OpenWhileServing /\ GroupIsCalled

\* The servers of a group are servers, neither alone nor of startServer; NoOwner and the group
\* are no servers.
LEMMA KindsApart ==
    /\ Range(Group) \subseteq Servers /\ Cli \subseteq Servers
    /\ \A s \in Range(Group) : s \notin Embedded /\ s \notin Cli
    /\ \A s \in Servers : s # NoOwner /\ s # TheGroup
BY ServersAssumption DEF Servers

\* A server has plugins of those there are.
LEMMA PluginsOfServer == \A s \in Servers : PluginsOf(s) \subseteq Plugins
BY ServersAssumption DEF PluginsOf

\* At first nothing is open.
LEMMA InitInv == Init => IInv
<1>. SUFFICES ASSUME Init PROVE IInv
  OBVIOUS
<1>. USE DEF Init
<1>1. TypeInv
  BY DEF TypeInv
<1>2. OpenWhileServing
  BY KindsApart, PluginsOfServer DEF OpenWhileServing, Sound
<1>3. GroupIsCalled
  BY DEF GroupIsCalled
<1>. QED  BY <1>1, <1>2, <1>3 DEF IInv

\* Every step keeps it: a start attaches a plugin only from nobody, a failure and a close take
\* away what belongs to the server and nothing else, and a group that is over has no server up.
LEMMA StepInv == IInv /\ [Next]_vars => IInv'
<1>. SUFFICES ASSUME IInv, [Next]_vars PROVE IInv'
  OBVIOUS
<1>. USE DEF IInv
<1>1. ASSUME NEW s \in Servers, Start(s) PROVE IInv'
  <2>. USE <1>1 DEF Start, Open, Refused, Opened, CanAttach, Attach, ClosePlugins, pluginVars
  <2>1. TypeInv'
    BY PluginsOfServer DEF TypeInv
  <2>4. ASSUME NEW t \in Servers PROVE Sound(t)'
    BY KindsApart, PluginsOfServer DEF TypeInv, OpenWhileServing, Sound, GroupIsCalled
  <2>5. (group \in {"failed", "closed"} =>
          TheGroup \notin handlers /\ \A t \in Range(Group) : Over(t))'
    BY KindsApart DEF TypeInv, OpenWhileServing, GroupIsCalled, Over, Failed
  <2>2. OpenWhileServing'
    BY <2>4, <2>5 DEF OpenWhileServing
  <2>3. GroupIsCalled'
    BY KindsApart DEF GroupIsCalled
  <2>. QED  BY <2>1, <2>2, <2>3 DEF IInv
<1>2. ASSUME NEW s \in Servers, Listening(s) PROVE IInv'
  <2>. USE <1>2 DEF Listening, pluginVars
  <2>1. TypeInv'
    BY PluginsOfServer DEF TypeInv
  <2>2. OpenWhileServing'
    BY KindsApart, PluginsOfServer DEF TypeInv, OpenWhileServing, Sound, GroupIsCalled, Over, Failed
  <2>3. GroupIsCalled'
    BY KindsApart DEF GroupIsCalled
  <2>. QED  BY <2>1, <2>2, <2>3 DEF IInv
<1>3. ASSUME NEW s \in Servers, ListenFails(s) PROVE IInv'
  <2>. USE <1>3 DEF ListenFails, Release, ClosePlugins
  <2>1. TypeInv'
    BY PluginsOfServer DEF TypeInv
  <2>4. ASSUME NEW t \in Servers PROVE Sound(t)'
    BY KindsApart, PluginsOfServer DEF TypeInv, OpenWhileServing, Sound, GroupIsCalled
  <2>5. (group \in {"failed", "closed"} =>
          TheGroup \notin handlers /\ \A t \in Range(Group) : Over(t))'
    BY KindsApart DEF TypeInv, OpenWhileServing, GroupIsCalled, Over, Failed
  <2>2. OpenWhileServing'
    BY <2>4, <2>5 DEF OpenWhileServing
  <2>3. GroupIsCalled'
    BY KindsApart DEF GroupIsCalled
  <2>. QED  BY <2>1, <2>2, <2>3 DEF IInv
<1>4. ASSUME NEW s \in Servers, NEW c \in Clients, Connect(s, c) PROVE IInv'
  <2>. USE <1>4 DEF Connect, pluginVars
  <2>1. TypeInv'
    BY PluginsOfServer DEF TypeInv
  <2>2. OpenWhileServing'
    BY KindsApart, PluginsOfServer DEF TypeInv, OpenWhileServing, Sound, GroupIsCalled, Over, Failed
  <2>3. GroupIsCalled'
    BY KindsApart DEF GroupIsCalled
  <2>. QED  BY <2>1, <2>2, <2>3 DEF IInv
<1>5. ASSUME NEW s \in Servers, NEW c \in Clients, SocketEnds(s, c) PROVE IInv'
  <2>. USE <1>5 DEF SocketEnds, pluginVars
  <2>1. TypeInv'
    BY PluginsOfServer DEF TypeInv
  <2>2. OpenWhileServing'
    BY KindsApart, PluginsOfServer DEF TypeInv, OpenWhileServing, Sound, GroupIsCalled, Over, Failed
  <2>3. GroupIsCalled'
    BY KindsApart DEF GroupIsCalled
  <2>. QED  BY <2>1, <2>2, <2>3 DEF IInv
<1>6. ASSUME NEW s \in Servers, NEW script \in Scripts, RunScript(s, script) PROVE IInv'
  <2>. USE <1>6 DEF RunScript
  <2>1. TypeInv'
    BY PluginsOfServer DEF TypeInv
  <2>2. OpenWhileServing'
    BY KindsApart, PluginsOfServer DEF TypeInv, OpenWhileServing, Sound, GroupIsCalled, Over, Failed
  <2>3. GroupIsCalled'
    BY KindsApart DEF GroupIsCalled
  <2>. QED  BY <2>1, <2>2, <2>3 DEF IInv
<1>7. ASSUME NEW s \in Servers, ScriptFlush(s) PROVE IInv'
  <2>. USE <1>7 DEF ScriptFlush
  <2>1. TypeInv'
    BY PluginsOfServer DEF TypeInv
  <2>2. OpenWhileServing'
    BY KindsApart, PluginsOfServer DEF TypeInv, OpenWhileServing, Sound, GroupIsCalled, Over, Failed
  <2>3. GroupIsCalled'
    BY KindsApart DEF GroupIsCalled
  <2>. QED  BY <2>1, <2>2, <2>3 DEF IInv
<1>8. ASSUME NEW s \in Servers, CloseServer(s) PROVE IInv'
  <2>. USE <1>8 DEF CloseServer, Close, pluginVars
  <2>1. TypeInv'
    BY PluginsOfServer DEF TypeInv
  <2>4. ASSUME NEW t \in Servers PROVE Sound(t)'
    BY KindsApart, PluginsOfServer DEF TypeInv, OpenWhileServing, Sound, GroupIsCalled
  <2>5. (group \in {"failed", "closed"} =>
          TheGroup \notin handlers /\ \A t \in Range(Group) : Over(t))'
    BY KindsApart DEF TypeInv, OpenWhileServing, GroupIsCalled, Over, Failed
  <2>2. OpenWhileServing'
    BY <2>4, <2>5 DEF OpenWhileServing
  <2>3. GroupIsCalled'
    BY KindsApart DEF GroupIsCalled
  <2>. QED  BY <2>1, <2>2, <2>3 DEF IInv
<1>9. ASSUME CloseGroup PROVE IInv'
  <2>. USE <1>9 DEF CloseGroup, Close, pluginVars
  <2>1. TypeInv'
    BY PluginsOfServer DEF TypeInv
  <2>4. ASSUME NEW t \in Servers PROVE Sound(t)'
    BY KindsApart, PluginsOfServer DEF TypeInv, OpenWhileServing, Sound, GroupIsCalled
  <2>5. (group \in {"failed", "closed"} =>
          TheGroup \notin handlers /\ \A t \in Range(Group) : Over(t))'
    BY KindsApart DEF TypeInv, OpenWhileServing, GroupIsCalled, Over, Failed
  <2>2. OpenWhileServing'
    BY <2>4, <2>5 DEF OpenWhileServing
  <2>3. GroupIsCalled'
    BY KindsApart DEF GroupIsCalled
  <2>. QED  BY <2>1, <2>2, <2>3 DEF IInv
<1>10. ASSUME Signal PROVE IInv'
  <2>. USE <1>10 DEF Signal, Close, pluginVars
  <2>1. TypeInv'
    BY PluginsOfServer DEF TypeInv
  <2>4. ASSUME NEW t \in Servers PROVE Sound(t)'
    BY KindsApart, PluginsOfServer DEF TypeInv, OpenWhileServing, Sound, GroupIsCalled
  <2>5. (group \in {"failed", "closed"} =>
          TheGroup \notin handlers /\ \A t \in Range(Group) : Over(t))'
    BY KindsApart DEF TypeInv, OpenWhileServing, GroupIsCalled, Over, Failed
  <2>2. OpenWhileServing'
    BY <2>4, <2>5 DEF OpenWhileServing
  <2>3. GroupIsCalled'
    BY KindsApart DEF GroupIsCalled
  <2>. QED  BY <2>1, <2>2, <2>3 DEF IInv
<1>11. ASSUME NEW s \in Servers, Closed(s) PROVE IInv'
  <2>. USE <1>11 DEF Closed, ClosePlugins
  <2>1. TypeInv'
    BY PluginsOfServer DEF TypeInv
  <2>4. ASSUME NEW t \in Servers PROVE Sound(t)'
    BY KindsApart, PluginsOfServer DEF TypeInv, OpenWhileServing, Sound, GroupIsCalled
  <2>5. (group \in {"failed", "closed"} =>
          TheGroup \notin handlers /\ \A t \in Range(Group) : Over(t))'
    BY KindsApart DEF TypeInv, OpenWhileServing, GroupIsCalled, Over, Failed
  <2>2. OpenWhileServing'
    BY <2>4, <2>5 DEF OpenWhileServing
  <2>3. GroupIsCalled'
    BY KindsApart DEF GroupIsCalled
  <2>. QED  BY <2>1, <2>2, <2>3 DEF IInv
<1>12. ASSUME GroupStarts PROVE IInv'
  <2>. USE <1>12 DEF GroupStarts, pluginVars
  <2>1. TypeInv'
    BY PluginsOfServer DEF TypeInv
  <2>2. OpenWhileServing'
    BY KindsApart, PluginsOfServer DEF TypeInv, OpenWhileServing, Sound, GroupIsCalled, Over, Failed
  <2>3. GroupIsCalled'
    BY KindsApart DEF GroupIsCalled
  <2>. QED  BY <2>1, <2>2, <2>3 DEF IInv
<1>13. ASSUME GroupIsUp PROVE IInv'
  <2>. USE <1>13 DEF GroupIsUp, pluginVars
  <2>1. TypeInv'
    BY PluginsOfServer DEF TypeInv
  <2>2. OpenWhileServing'
    BY KindsApart, PluginsOfServer DEF TypeInv, OpenWhileServing, Sound, GroupIsCalled, Over, Failed
  <2>3. GroupIsCalled'
    BY KindsApart DEF GroupIsCalled
  <2>. QED  BY <2>1, <2>2, <2>3 DEF IInv
<1>14. ASSUME RollBack PROVE IInv'
  <2>. USE <1>14 DEF RollBack, Close, pluginVars
  <2>1. TypeInv'
    BY PluginsOfServer DEF TypeInv
  <2>2. OpenWhileServing'
    BY KindsApart, PluginsOfServer DEF TypeInv, OpenWhileServing, Sound, GroupIsCalled, Over, Failed
  <2>3. GroupIsCalled'
    BY KindsApart DEF GroupIsCalled
  <2>. QED  BY <2>1, <2>2, <2>3 DEF IInv
<1>15. ASSUME GroupIsOver PROVE IInv'
  <2>. USE <1>15 DEF GroupIsOver, pluginVars
  <2>1. TypeInv'
    BY PluginsOfServer DEF TypeInv
  <2>2. OpenWhileServing'
    BY KindsApart, PluginsOfServer DEF TypeInv, OpenWhileServing, Sound, GroupIsCalled, Over, Failed
  <2>3. GroupIsCalled'
    BY KindsApart DEF GroupIsCalled
  <2>. QED  BY <2>1, <2>2, <2>3 DEF IInv
<1>16. ASSUME UNCHANGED vars PROVE IInv'
  <2>. USE <1>16 DEF vars, pluginVars
  <2>1. TypeInv'
    BY PluginsOfServer DEF TypeInv
  <2>2. OpenWhileServing'
    BY KindsApart, PluginsOfServer DEF TypeInv, OpenWhileServing, Sound, GroupIsCalled, Over, Failed
  <2>3. GroupIsCalled'
    BY KindsApart DEF GroupIsCalled
  <2>. QED  BY <2>1, <2>2, <2>3 DEF IInv
<1>17. ASSUME NEW s \in Servers, AcceptFails(s) PROVE IInv'
  <2>. USE <1>17 DEF AcceptFails, Release, ClosePlugins, pluginVars
  <2>1. TypeInv'
    BY PluginsOfServer DEF TypeInv
  <2>4. ASSUME NEW t \in Servers PROVE Sound(t)'
    BY KindsApart, PluginsOfServer DEF TypeInv, OpenWhileServing, Sound, GroupIsCalled
  <2>5. (group \in {"failed", "closed"} =>
          TheGroup \notin handlers /\ \A t \in Range(Group) : Over(t))'
    BY KindsApart DEF TypeInv, OpenWhileServing, GroupIsCalled, Over, Failed
  <2>2. OpenWhileServing'
    BY <2>4, <2>5 DEF OpenWhileServing
  <2>3. GroupIsCalled'
    BY KindsApart DEF GroupIsCalled
  <2>. QED  BY <2>1, <2>2, <2>3 DEF IInv
<1>. QED
  BY <1>1, <1>2, <1>3, <1>4, <1>5, <1>6, <1>7, <1>8, <1>9, <1>10, <1>11, <1>12, <1>13, <1>14, <1>15,
     <1>16, <1>17 DEF Next, Awaited

\* embed.js, index.js: whatever starts, fails, rolls back and closes, in whatever order and with
\* whatever plugins shared, what is open belongs to a server that is up, and a failed or closed
\* server or group has left nothing, but for the two exceptions of OpenWhileServing: the database
\* handle of a server whose pragmas or schema were refused, and a server of startServer that had
\* an error while it listened, which goes on with everything behind it closed.
THEOREM NothingLeftOpen == Spec => []OpenWhileServing
<1>1. Spec => []IInv
  BY InitInv, StepInv, PTL DEF Spec
<1>2. IInv => OpenWhileServing
  BY DEF IInv
<1>. QED  BY <1>1, <1>2, PTL

-----------------------------------------------------------------------------
(* The scripts of a plugin.  What a loop over a sequence computes is proved *)
(* from the shortest prefix that refutes it: there is none.                *)

\* A set of natural numbers that is not empty has a least element.
LEMMA LeastNumber ==
    ASSUME NEW T \in SUBSET Nat, T # {}
    PROVE  \E n \in T : \A m \in T : n <= m
<1>. DEFINE R == OpToRel(<, Nat)
<1>1. IsWellFoundedOn(R, Nat)
  BY NatLessThanWellFounded
<1>2. \A m, n \in Nat : m < n => <<m, n>> \in R
  BY DEF OpToRel
<1>. HIDE DEF R
<1>3. PICK n \in T : \A m \in T : ~(<<m, n>> \in R)
  BY <1>1, WFMin
<1>4. \A m \in T : ~(m < n)
  BY <1>2, <1>3
<1>. QED  BY <1>4

\* f is what the loop of Bytes computes over the first N scripts.
Adding(s, N, f) ==
    f = [n \in 0..N |-> IF n = 0 THEN 0 ELSE f[n - 1] + Size[s[n]]]

\* It computes something for every number of scripts.
LEMMA AddingComputes ==
    ASSUME NEW s, NEW N \in Nat PROVE \E f : Adding(s, N, f)
<1>. DEFINE T == {M \in Nat : ~\E f : Adding(s, M, f)}
<1>1. ASSUME NEW M \in T, \A K \in T : M <= K PROVE FALSE
  <2>1. CASE M = 0
    <3>. DEFINE g == [n \in 0..0 |-> 0]
    <3>1. Adding(s, 0, g)  BY DEF Adding
    <3>. QED  BY <1>1, <2>1, <3>1
  <2>2. CASE M # 0
    <3>1. M - 1 \in Nat /\ M - 1 \notin T  BY <1>1, <2>2
    <3>2. PICK f : Adding(s, M - 1, f)  BY <3>1
    <3>. DEFINE g == [n \in 0..M |-> IF n # M THEN f[n] ELSE f[M - 1] + Size[s[M]]]
    <3>3. ASSUME NEW n \in 0..M
          PROVE  g[n] = IF n = 0 THEN 0 ELSE g[n - 1] + Size[s[n]]
      <4>1. CASE n = M
        <5>1. g[M - 1] = f[M - 1]  BY <2>2
        <5>. QED  BY <2>2, <4>1, <5>1
      <4>2. CASE n # M /\ n # 0
        <5>1. n \in 0..(M - 1) /\ n - 1 \in 0..M /\ n - 1 # M  BY <4>2
        <5>2. f[n] = f[n - 1] + Size[s[n]]
          BY <3>2, <4>2, <5>1 DEF Adding
        <5>3. g[n - 1] = f[n - 1] /\ g[n] = f[n]  BY <4>2, <5>1
        <5>. QED  BY <4>2, <5>2, <5>3
      <4>3. CASE n # M /\ n = 0
        <5>1. f[0] = 0  BY <2>2, <3>2 DEF Adding
        <5>. QED  BY <4>3, <5>1
      <4>. QED  BY <4>1, <4>2, <4>3
    <3>4. g = [n \in 0..M |-> g[n]]  OBVIOUS
    <3>. HIDE DEF g
    <3>5. Adding(s, M, g)  BY <3>3, <3>4 DEF Adding
    <3>. QED  BY <1>1, <3>5
  <2>. QED  BY <2>1, <2>2
<1>2. T = {}
  <2>. HIDE DEF T
  <2>1. T \in SUBSET Nat  BY DEF T
  <2>. QED  BY <1>1, <2>1, LeastNumber
<1>. QED  BY <1>2

\* The running totals of a sequence of scripts: Bytes is the last of them.
Totals(s, f) ==
    /\ f \in [0..Len(s) -> Nat]
    /\ f[0] = 0
    /\ \A n \in 1..Len(s) : f[n] = f[n - 1] + Size[s[n]]
    /\ Bytes(s) = f[Len(s)]

\* The scripts of a sequence have a size.
LEMMA ScriptSizes ==
    ASSUME NEW s \in Seq(Scripts), NEW n \in 1..Len(s)
    PROVE  s[n] \in Scripts /\ Size[s[n]] \in Nat
<1>1. s[n] \in Scripts
  BY ElementOfSeq
<1>2. \A script \in Scripts : Size[script] \in Nat
  BY ServersAssumption
<1>. QED
  BY <1>1, <1>2

\* Every sequence of scripts has them.
LEMMA HasTotals == ASSUME NEW s \in Seq(Scripts) PROVE \E f : Totals(s, f)
<1>. DEFINE f == CHOOSE g : Adding(s, Len(s), g)
            T == {n \in 0..Len(s) : f[n] \notin Nat}
<1>0. Len(s) \in Nat /\ \A n \in 1..Len(s) : Size[s[n]] \in Nat
  BY ScriptSizes
<1>1. Bytes(s) = f[Len(s)]
  BY DEF Bytes, Adding
<1>2. Adding(s, Len(s), f)
  BY <1>0, AddingComputes
<1>. HIDE DEF f
<1>3. f = [n \in 0..Len(s) |-> IF n = 0 THEN 0 ELSE f[n - 1] + Size[s[n]]]
  BY <1>2 DEF Adding
<1>4. f[0] = 0
  BY <1>0, <1>3
<1>5. ASSUME NEW n \in 1..Len(s) PROVE f[n] = f[n - 1] + Size[s[n]]
  <2>1. n \in 0..Len(s) /\ n # 0  BY <1>0
  <2>. QED  BY <1>3, <2>1
<1>6. T = {}
  <2>1. ASSUME NEW n \in T, \A m \in T : n <= m PROVE FALSE
    <3>1. n \in 1..Len(s)  BY <1>0, <1>4
    <3>2. n - 1 \in 0..Len(s) /\ ~(n <= n - 1)  BY <3>1, <1>0
    <3>3. f[n - 1] \in Nat  BY <2>1, <3>2
    <3>. QED  BY <1>0, <1>5, <3>1, <3>3
  <2>. HIDE DEF T
  <2>2. T \in SUBSET Nat  BY <1>0 DEF T
  <2>. QED  BY <2>1, <2>2, LeastNumber
<1>7. f \in [0..Len(s) -> Nat]
  BY <1>3, <1>6
<1>. QED
  BY <1>1, <1>4, <1>5, <1>7 DEF Totals

\* The bytes of a stretch t of s are the difference of two of its totals.
LEMMA StretchBytes ==
    ASSUME NEW s \in Seq(Scripts), NEW f, Totals(s, f), NEW t \in Seq(Scripts), NEW k \in Nat,
           k + Len(t) <= Len(s), \A i \in 1..Len(t) : t[i] = s[k + i]
    PROVE  Bytes(t) = f[k + Len(t)] - f[k]
<1>1. PICK g : Totals(t, g)
  BY HasTotals
<1>. DEFINE T == {n \in 0..Len(t) : g[n] # f[k + n] - f[k]}
<1>2. Len(s) \in Nat /\ Len(t) \in Nat
  OBVIOUS
<1>3. \A n \in 0..Len(t) : g[n] \in Nat /\ f[k + n] \in Nat
  <2>1. ASSUME NEW n \in 0..Len(t) PROVE g[n] \in Nat /\ f[k + n] \in Nat
    <3>1. k + n \in 0..Len(s)  BY <1>2
    <3>. QED  BY <1>1, <3>1 DEF Totals
  <2>. QED  BY <2>1
<1>4. g[0] = f[k + 0] - f[k]
  BY <1>1, <1>2, <1>3 DEF Totals
<1>5. ASSUME NEW n \in 1..Len(t) PROVE g[n] = g[n - 1] + Size[t[n]] /\ f[k + n] = f[k + (n - 1)] + Size[t[n]]
  <2>1. k + n \in 1..Len(s) /\ (k + n) - 1 = k + (n - 1)  BY <1>2
  <2>. QED  BY <1>1, <2>1 DEF Totals
<1>6. T = {}
  <2>1. ASSUME NEW n \in T, \A m \in T : n <= m PROVE FALSE
    <3>0. n # 0  BY <1>4, <2>1
    <3>1. n \in 1..Len(t)  BY <1>2, <3>0
    <3>2. n - 1 \in 0..Len(t) /\ ~(n <= n - 1)  BY <3>1, <1>2
    <3>3. g[n - 1] = f[k + (n - 1)] - f[k]  BY <2>1, <3>2
    <3>4. Size[t[n]] \in Nat  BY <3>1, ScriptSizes
    <3>5. 0 \in 0..Len(t) /\ k + 0 = k  BY <1>2
    <3>6. f[k] \in Nat  BY <1>3, <3>5
    <3>7. f[k + (n - 1)] \in Nat  BY <1>3, <3>2
    <3>8. g[n] = g[n - 1] + Size[t[n]] /\ f[k + n] = f[k + (n - 1)] + Size[t[n]]
      BY <1>5, <3>1
    <3>. QED  BY <2>1, <3>3, <3>4, <3>6, <3>7, <3>8
  <2>. HIDE DEF T
  <2>2. T \in SUBSET Nat  BY <1>2 DEF T
  <2>. QED  BY <2>1, <2>2, LeastNumber
<1>7. Len(t) \in 0..Len(t) /\ Bytes(t) = g[Len(t)]
  BY <1>1, <1>2 DEF Totals
<1>. QED
  BY <1>6, <1>7

\* The bytes of a sequence of scripts: a number, 0 for none.
LEMMA BytesType ==
    /\ \A s \in Seq(Scripts) : Bytes(s) \in Nat
    /\ Bytes(<<>>) = 0
<1>1. ASSUME NEW s \in Seq(Scripts) PROVE Bytes(s) \in Nat
  <2>1. PICK f : Totals(s, f)  BY HasTotals
  <2>. QED  BY <2>1 DEF Totals
<1>2. <<>> \in Seq(Scripts) /\ Len(<<>>) = 0
  OBVIOUS
<1>3. PICK f : Totals(<<>>, f)
  BY <1>2, HasTotals
<1>. QED
  BY <1>1, <1>2, <1>3 DEF Totals

\* The bytes of two sequences one behind the other.
LEMMA BytesOfConcat ==
    ASSUME NEW a \in Seq(Scripts), NEW b \in Seq(Scripts)
    PROVE  Bytes(a \o b) = Bytes(a) + Bytes(b)
<1>. DEFINE s == a \o b
<1>1. /\ s \in Seq(Scripts) /\ Len(s) = Len(a) + Len(b)
      /\ Len(a) \in Nat /\ Len(b) \in Nat
      /\ \A i \in 1..Len(a) : a[i] = s[i]
      /\ \A i \in 1..Len(b) : b[i] = s[Len(a) + i]
  BY ConcatProperties
<1>2. PICK f : Totals(s, f)
  BY <1>1, HasTotals
<1>. HIDE DEF s
<1>3. \A i \in 1..Len(a) : a[i] = s[0 + i]
  BY <1>1
<1>4. Bytes(a) = f[0 + Len(a)] - f[0]
  BY <1>1, <1>2, <1>3, StretchBytes
<1>5. Bytes(b) = f[Len(a) + Len(b)] - f[Len(a)]
  BY <1>1, <1>2, StretchBytes
<1>6. f[0] = 0 /\ f \in [0..Len(s) -> Nat] /\ Bytes(s) = f[Len(s)]
  BY <1>2 DEF Totals
<1>7. Len(a) \in 0..Len(s) /\ Len(s) \in 0..Len(s) /\ 0 + Len(a) = Len(a)
  BY <1>1
<1>8. f[Len(a)] \in Nat /\ f[Len(s)] \in Nat
  BY <1>6, <1>7
<1>. QED  BY <1>1, <1>4, <1>5, <1>6, <1>7, <1>8 DEF s

\* The bytes of one script.
LEMMA BytesOfOne ==
    ASSUME NEW s \in Scripts
    PROVE  Bytes(<<s>>) = Size[s]
<1>1. <<s>> \in Seq(Scripts) /\ Len(<<s>>) = 1 /\ <<s>>[1] = s
  OBVIOUS
<1>2. PICK f : Totals(<<s>>, f)
  BY <1>1, HasTotals
<1>3. f[0] = 0 /\ f[1] = f[1 - 1] + Size[s] /\ Bytes(<<s>>) = f[1]
  BY <1>1, <1>2 DEF Totals
<1>4. Size[s] \in Nat
  BY ServersAssumption
<1>. QED  BY <1>3, <1>4

\* A script used again leaves its place for the end: nothing else moves past another.
LEMMA FirstRemoved ==
    ASSUME NEW q \in Seq(Scripts), IsInjective(q), NEW i \in 1..Len(q)
    PROVE  /\ RemoveFirst(q, q[i]) = SubSeq(q, 1, i - 1) \o SubSeq(q, i + 1, Len(q))
           /\ RemoveFirst(q, q[i]) \in Seq(Scripts)
           /\ Len(RemoveFirst(q, q[i])) = Len(q) - 1
           /\ \A j \in 1..(Len(q) - 1) :
                 RemoveFirst(q, q[i])[j] = IF j < i THEN q[j] ELSE q[j + 1]
<1>. DEFINE I == {n \in 1..Len(q) : q[n] = q[i]}
            a == SubSeq(q, 1, i - 1)
            b == SubSeq(q, i + 1, Len(q))
<1>1. \A n \in I : n = i
  BY DEF IsInjective
<1>2. i \in I /\ I # {} /\ i \in Int
  OBVIOUS
<1>3. SelectInSeq(q, LAMBDA v : v = q[i]) = Min(I)
  BY <1>2 DEF SelectInSeq
<1>4. Min(I) = i
  <2>. HIDE DEF I
  <2>1. i \in I /\ \A y \in I : i <= y
    BY <1>1, <1>2
  <2>2. Min(I) \in I
    BY <2>1, Zenon DEF Min
  <2>. QED  BY <1>1, <2>2
<1>5. RemoveFirst(q, q[i]) = a \o b
  BY <1>3, <1>4 DEF RemoveFirst, RemoveAt
<1>6. Len(q) \in Nat /\ i \in Nat /\ i >= 1 /\ i <= Len(q)
  OBVIOUS
<1>7. a \in Seq(Scripts) /\ Len(a) = i - 1 /\ \A j \in 1..(i - 1) : a[j] = q[j]
  BY <1>6, SubSeqProperties
<1>8. b \in Seq(Scripts) /\ Len(b) = Len(q) - i /\ \A j \in 1..(Len(q) - i) : b[j] = q[i + j]
  BY <1>6, SubSeqProperties
<1>. HIDE DEF a, b
<1>9. /\ a \o b \in Seq(Scripts) /\ Len(a \o b) = Len(a) + Len(b)
      /\ \A j \in 1..Len(a) : (a \o b)[j] = a[j]
      /\ \A j \in 1..Len(b) : (a \o b)[Len(a) + j] = b[j]
  <2>1. a \in Seq(Scripts) /\ b \in Seq(Scripts)
    BY <1>7, <1>8
  <2>. QED  BY <2>1, ConcatProperties
<1>10. Len(a \o b) = Len(q) - 1
  BY <1>6, <1>7, <1>8, <1>9
<1>11. ASSUME NEW j \in 1..(Len(q) - 1) PROVE (a \o b)[j] = IF j < i THEN q[j] ELSE q[j + 1]
  <2>1. CASE j < i
    <3>1. j \in 1..Len(a) /\ j \in 1..(i - 1)  BY <1>6, <1>7, <2>1
    <3>. QED  BY <1>7, <1>9, <2>1, <3>1
  <2>2. CASE ~(j < i)
    <3>. DEFINE m == j - (i - 1)
    <3>1. m \in 1..(Len(q) - i) /\ Len(a) + m = j /\ i + m = j + 1  BY <1>6, <1>7, <2>2
    <3>. HIDE DEF m
    <3>2. (a \o b)[Len(a) + m] = b[m] /\ b[m] = q[i + m]  BY <1>8, <1>9, <3>1
    <3>. QED  BY <2>2, <3>1, <3>2
  <2>. QED  BY <2>1, <2>2
<1>. QED  BY <1>5, <1>9, <1>10, <1>11 DEF a, b

\* The bytes of the two parts of a sequence.
LEMMA BytesOfParts ==
    ASSUME NEW q \in Seq(Scripts), NEW n \in 0..Len(q)
    PROVE  /\ SubSeq(q, 1, n) \in Seq(Scripts) /\ SubSeq(q, n + 1, Len(q)) \in Seq(Scripts)
           /\ Len(SubSeq(q, n + 1, Len(q))) = Len(q) - n
           /\ \A j \in 1..(Len(q) - n) : SubSeq(q, n + 1, Len(q))[j] = q[n + j]
           /\ Bytes(SubSeq(q, 1, n)) + Bytes(SubSeq(q, n + 1, Len(q))) = Bytes(q)
<1>. DEFINE a == SubSeq(q, 1, n)
            b == SubSeq(q, n + 1, Len(q))
<1>1. Len(q) \in Nat /\ n \in Nat /\ n <= Len(q)
  OBVIOUS
<1>2. a \in Seq(Scripts) /\ Len(a) = n /\ \A j \in 1..n : a[j] = q[0 + j]
  BY <1>1, SubSeqProperties
<1>3. b \in Seq(Scripts) /\ Len(b) = Len(q) - n /\ \A j \in 1..(Len(q) - n) : b[j] = q[n + j]
  BY <1>1, SubSeqProperties
<1>4. PICK f : Totals(q, f)
  BY HasTotals
<1>. HIDE DEF a, b
<1>5. Bytes(a) = f[0 + n] - f[0]
  BY <1>1, <1>2, <1>4, StretchBytes
<1>6. n + (Len(q) - n) = Len(q)
  BY <1>1
<1>7. Bytes(b) = f[Len(q)] - f[n]
  <2>1. n \in Nat /\ n + Len(b) = Len(q) /\ n + Len(b) <= Len(q)
    BY <1>1, <1>3
  <2>2. \A j \in 1..Len(b) : b[j] = q[n + j]
    BY <1>3
  <2>3. Bytes(b) = f[n + Len(b)] - f[n]
    BY <1>3, <1>4, <2>1, <2>2, StretchBytes
  <2>. QED  BY <2>1, <2>3
<1>8. f[0] = 0 /\ f \in [0..Len(q) -> Nat] /\ Bytes(q) = f[Len(q)]
  BY <1>4 DEF Totals
<1>9. f[n] \in Nat /\ f[Len(q)] \in Nat /\ 0 + n = n
  BY <1>1, <1>8
<1>10. Bytes(a) + Bytes(b) = Bytes(q)
  BY <1>5, <1>7, <1>8, <1>9
<1>. QED  BY <1>2, <1>3, <1>10 DEF a, b

\* A script that moves to the end changes no bytes.
LEMMA BytesOfRemoved ==
    ASSUME NEW q \in Seq(Scripts), IsInjective(q), NEW i \in 1..Len(q)
    PROVE  Bytes(RemoveFirst(q, q[i])) + Size[q[i]] = Bytes(q)
<1>. DEFINE a == SubSeq(q, 1, i - 1)
            b == SubSeq(q, i + 1, Len(q))
<1>1. Len(q) \in Nat /\ i \in Nat /\ i >= 1 /\ i <= Len(q)
  OBVIOUS
<1>2. a \in Seq(Scripts) /\ Len(a) = i - 1 /\ \A j \in 1..(i - 1) : a[j] = q[0 + j]
  BY <1>1, SubSeqProperties
<1>3. b \in Seq(Scripts) /\ Len(b) = Len(q) - i /\ \A j \in 1..(Len(q) - i) : b[j] = q[i + j]
  BY <1>1, SubSeqProperties
<1>4. RemoveFirst(q, q[i]) = a \o b
  BY FirstRemoved
<1>5. PICK f : Totals(q, f)
  BY HasTotals
<1>. HIDE DEF a, b
<1>6. Bytes(RemoveFirst(q, q[i])) = Bytes(a) + Bytes(b)
  BY <1>2, <1>3, <1>4, BytesOfConcat
<1>7. 0 + (i - 1) = i - 1 /\ i + (Len(q) - i) = Len(q) /\ 0 + (i - 1) <= Len(q)
  BY <1>1
<1>8. Bytes(a) = f[i - 1] - f[0]
  BY <1>1, <1>2, <1>5, <1>7, StretchBytes
<1>9. Bytes(b) = f[Len(q)] - f[i]
  <2>1. i \in Nat /\ i + Len(b) = Len(q) /\ i + Len(b) <= Len(q)
    BY <1>1, <1>3
  <2>2. \A j \in 1..Len(b) : b[j] = q[i + j]
    BY <1>3
  <2>3. Bytes(b) = f[i + Len(b)] - f[i]
    BY <1>3, <1>5, <2>1, <2>2, StretchBytes
  <2>. QED  BY <2>1, <2>3
<1>10. /\ f[0] = 0 /\ f \in [0..Len(q) -> Nat] /\ Bytes(q) = f[Len(q)]
       /\ f[i] = f[i - 1] + Size[q[i]]
  BY <1>5 DEF Totals
<1>11. i - 1 \in 0..Len(q) /\ i \in 0..Len(q) /\ Len(q) \in 0..Len(q)
  BY <1>1
<1>12. f[i - 1] \in Nat /\ f[i] \in Nat /\ f[Len(q)] \in Nat
  BY <1>10, <1>11
<1>13. Size[q[i]] \in Nat
  BY ScriptSizes
<1>. QED  BY <1>6, <1>8, <1>9, <1>10, <1>12, <1>13

-----------------------------------------------------------------------------
(* The cache of a plugin.                                                  *)

\* The sequence c ends the sequence u.
Ends(c, u) == Len(c) <= Len(u) /\ \A i \in 1..Len(c) : c[i] = u[Len(u) - Len(c) + i]

LEMMA EndsIsSuffix ==
    ASSUME NEW c \in Seq(Scripts), NEW u \in Seq(Scripts), Ends(c, u)
    PROVE  IsSuffix(c, u)
<1>. DEFINE rc == Reverse(c)
            ru == Reverse(u)
<1>0. Len(c) \in Nat /\ Len(u) \in Nat /\ Len(c) <= Len(u)
  BY DEF Ends
<1>1. rc \in Seq(Scripts) /\ ru \in Seq(Scripts) /\ Len(rc) = Len(c) /\ Len(ru) = Len(u)
  <2>1. \A i \in 1..Len(c) : c[Len(c) - i + 1] \in Scripts
    <3>1. ASSUME NEW i \in 1..Len(c) PROVE c[Len(c) - i + 1] \in Scripts
      <4>1. Len(c) - i + 1 \in 1..Len(c)  BY <1>0
      <4>. QED  BY <4>1, ElementOfSeq
    <3>. QED  BY <3>1
  <2>2. \A i \in 1..Len(u) : u[Len(u) - i + 1] \in Scripts
    <3>1. ASSUME NEW i \in 1..Len(u) PROVE u[Len(u) - i + 1] \in Scripts
      <4>1. Len(u) - i + 1 \in 1..Len(u)  BY <1>0
      <4>. QED  BY <4>1, ElementOfSeq
    <3>. QED  BY <3>1
  <2>. QED  BY <1>0, <2>1, <2>2 DEF Reverse
<1>2. \A i \in 1..Len(c) : rc[i] = ru[i]
  <2>1. ASSUME NEW i \in 1..Len(c) PROVE rc[i] = ru[i]
    <3>1. i \in 1..Len(u) /\ Len(c) - i + 1 \in 1..Len(c)  BY <1>0
    <3>2. rc[i] = c[Len(c) - i + 1] /\ ru[i] = u[Len(u) - i + 1]
      BY <1>0, <3>1 DEF Reverse
    <3>3. c[Len(c) - i + 1] = u[Len(u) - Len(c) + (Len(c) - i + 1)]
      BY <3>1 DEF Ends
    <3>4. Len(u) - Len(c) + (Len(c) - i + 1) = Len(u) - i + 1  BY <1>0
    <3>. QED  BY <3>2, <3>3, <3>4
  <2>. QED  BY <2>1
<1>. HIDE DEF rc, ru
<1>3. SubSeq(rc, 1, Len(rc)) = SubSeq(ru, 1, Len(rc))
  <2>1. SubSeq(rc, 1, Len(rc)) = [i \in 1..Len(c) |-> rc[i]]  BY <1>0, <1>1
  <2>2. SubSeq(ru, 1, Len(rc)) = [i \in 1..Len(c) |-> ru[i]]  BY <1>0, <1>1
  <2>. QED  BY <1>2, <2>1, <2>2
<1>. QED  BY <1>0, <1>1, <1>3 DEF IsSuffix, IsPrefix, rc, ru

\* The same script added to both.
LEMMA EndsAppended ==
    ASSUME NEW c \in Seq(Scripts), NEW u \in Seq(Scripts), Ends(c, u), NEW s \in Scripts
    PROVE  Ends(Append(c, s), Append(u, s))
<1>1. Len(c) \in Nat /\ Len(u) \in Nat /\ Len(c) <= Len(u)
  BY DEF Ends
<1>2. Len(Append(c, s)) = Len(c) + 1 /\ Len(Append(u, s)) = Len(u) + 1
  OBVIOUS
<1>3. ASSUME NEW i \in 1..(Len(c) + 1)
      PROVE  Append(c, s)[i] = Append(u, s)[Len(u) + 1 - (Len(c) + 1) + i]
  <2>1. Len(u) + 1 - (Len(c) + 1) + i = Len(u) - Len(c) + i  BY <1>1
  <2>2. CASE i = Len(c) + 1
    <3>1. Len(u) - Len(c) + i = Len(u) + 1  BY <1>1, <2>2
    <3>. QED  BY <1>1, <2>1, <2>2, <3>1
  <2>3. CASE i # Len(c) + 1
    <3>1. i \in 1..Len(c) /\ Len(u) - Len(c) + i \in 1..Len(u)  BY <1>1, <2>3
    <3>2. c[i] = u[Len(u) - Len(c) + i]  BY <3>1 DEF Ends
    <3>. QED  BY <1>1, <2>1, <3>1, <3>2
  <2>. QED  BY <2>2, <2>3
<1>. QED  BY <1>1, <1>2, <1>3 DEF Ends

\* What the cache c of b bytes and the scripts u used since the last flush always are.
Kept(c, b, u) ==
    /\ c \in Seq(Scripts) /\ u \in Seq(Scripts)
    /\ IsInjective(u) /\ Ends(c, u)
    /\ b = Bytes(c) /\ b <= MaxCacheBytes /\ Len(c) <= MaxCachedScripts
    /\ u # <<>> => c # <<>>

\* Without any script.
LEMMA KeptEmpty == Kept(<<>>, 0, <<>>)
<1>1. <<>> \in Seq(Scripts) /\ Len(<<>>) = 0
  OBVIOUS
<1>2. Bytes(<<>>) = 0
  BY BytesType
<1>3. IsInjective(<<>>)
  BY DEF IsInjective
<1>4. Ends(<<>>, <<>>)
  BY <1>1 DEF Ends
<1>. QED  BY <1>1, <1>2, <1>3, <1>4, ServersAssumption DEF Kept

\* A script that is used is the last of those used, which has each once.
LEMMA UsedOnce ==
    ASSUME NEW u \in Seq(Scripts), IsInjective(u), NEW s \in Scripts
    PROVE  /\ RemoveFirst(u, s) \in Seq(Scripts)
           /\ IsInjective(Append(RemoveFirst(u, s), s))
<1>. DEFINE r == RemoveFirst(u, s)
<1>1. r \in Seq(Scripts) /\ IsInjective(r) /\ \A j \in 1..Len(r) : r[j] # s
  <2>1. CASE ~ \E i \in 1..Len(u) : u[i] = s
    <3>1. r = u
      BY <2>1 DEF RemoveFirst
    <3>. QED  BY <2>1, <3>1
  <2>2. ASSUME NEW i \in 1..Len(u), u[i] = s
        PROVE  r \in Seq(Scripts) /\ IsInjective(r) /\ \A j \in 1..Len(r) : r[j] # s
    <3>1. Len(u) \in Nat /\ i \in Nat
      OBVIOUS
    <3>2. /\ r \in Seq(Scripts) /\ Len(r) = Len(u) - 1
          /\ \A j \in 1..(Len(u) - 1) : r[j] = IF j < i THEN u[j] ELSE u[j + 1]
      BY <2>2, FirstRemoved
    <3>. HIDE DEF r
    <3>3. ASSUME NEW j \in 1..Len(r) PROVE r[j] # s
      <4>1. j \in DOMAIN u /\ j + 1 \in DOMAIN u /\ i \in DOMAIN u  BY <3>1, <3>2
      <4>2. j < i => j # i  BY <3>1
      <4>3. ~(j < i) => j + 1 # i  BY <3>1
      <4>. QED  BY <2>2, <3>2, <4>1, <4>2, <4>3 DEF IsInjective
    <3>4. ASSUME NEW j \in 1..Len(r), NEW k \in 1..Len(r), r[j] = r[k] PROVE j = k
      <4>. DEFINE m == IF j < i THEN j ELSE j + 1
                  n == IF k < i THEN k ELSE k + 1
      <4>1. m \in DOMAIN u /\ n \in DOMAIN u  BY <3>1, <3>2
      <4>2. u[m] = u[n]  BY <3>2, <3>4
      <4>3. m = n  BY <4>1, <4>2 DEF IsInjective
      <4>. QED  BY <3>1, <4>3
    <3>5. DOMAIN r = 1..Len(r)  BY <3>2
    <3>. QED  BY <3>2, <3>3, <3>4, <3>5 DEF IsInjective
  <2>. QED  BY <2>1, <2>2
<1>. HIDE DEF r
<1>. DEFINE t == Append(r, s)
<1>2. Len(r) \in Nat /\ DOMAIN t = 1..(Len(r) + 1) /\ t[Len(r) + 1] = s
      /\ (\A j \in 1..Len(r) : t[j] = r[j]) /\ DOMAIN r = 1..Len(r)
  BY <1>1
<1>3. ASSUME NEW j \in DOMAIN t, NEW k \in DOMAIN t, t[j] = t[k] PROVE j = k
  <2>. HIDE DEF t
  <2>1. CASE j = Len(r) + 1 /\ k # Len(r) + 1
    <3>1. k \in 1..Len(r)  BY <1>2, <2>1
    <3>. QED  BY <1>1, <1>2, <1>3, <2>1, <3>1
  <2>2. CASE j # Len(r) + 1 /\ k = Len(r) + 1
    <3>1. j \in 1..Len(r)  BY <1>2, <2>2
    <3>. QED  BY <1>1, <1>2, <1>3, <2>2, <3>1
  <2>3. CASE j # Len(r) + 1 /\ k # Len(r) + 1
    <3>1. j \in 1..Len(r) /\ k \in 1..Len(r)  BY <1>2, <2>3
    <3>2. r[j] = r[k]  BY <1>2, <1>3, <3>1
    <3>. QED  BY <1>1, <1>2, <3>1, <3>2 DEF IsInjective
  <2>. QED  BY <2>1, <2>2, <2>3
<1>4. IsInjective(t)
  BY <1>3 DEF IsInjective
<1>. QED  BY <1>1, <1>4 DEF r

\* A sequence that ends one without repetition has none.
LEMMA EndsInjective ==
    ASSUME NEW c \in Seq(Scripts), NEW u \in Seq(Scripts), Ends(c, u), IsInjective(u)
    PROVE  IsInjective(c)
<1>. DEFINE d == Len(u) - Len(c)
<1>1. /\ Len(c) \in Nat /\ Len(u) \in Nat /\ Len(c) <= Len(u) /\ d \in Nat
      /\ \A i \in 1..Len(c) : c[i] = u[d + i]
  BY DEF Ends
<1>2. ASSUME NEW i \in 1..Len(c), NEW j \in 1..Len(c), c[i] = c[j] PROVE i = j
  <2>1. d + i \in DOMAIN u /\ d + j \in DOMAIN u  BY <1>1
  <2>2. u[d + i] = u[d + j]  BY <1>1, <1>2
  <2>. HIDE DEF d
  <2>3. d + i = d + j  BY <2>1, <2>2 DEF IsInjective
  <2>. QED  BY <1>1, <2>3
<1>3. DOMAIN c = 1..Len(c)
  OBVIOUS
<1>. QED  BY <1>2, <1>3 DEF IsInjective

\* What comes before a suffix can lose a script, and the suffix itself its own.
LEMMA EndsRemoved ==
    ASSUME NEW c \in Seq(Scripts), NEW u \in Seq(Scripts), Ends(c, u), IsInjective(u),
           NEW s \in Scripts
    PROVE  IF Contains(c, s) THEN Ends(RemoveFirst(c, s), RemoveFirst(u, s))
                             ELSE Ends(c, RemoveFirst(u, s))
<1>. DEFINE d == Len(u) - Len(c)
            ru == RemoveFirst(u, s)
            rc == RemoveFirst(c, s)
<1>1. /\ Len(c) \in Nat /\ Len(u) \in Nat /\ Len(c) <= Len(u) /\ d \in Nat
      /\ \A i \in 1..Len(c) : c[i] = u[d + i]
  BY DEF Ends
<1>2. IsInjective(c)
  BY EndsInjective
<1>3. CASE Contains(c, s)
  <2>1. PICK i \in 1..Len(c) : c[i] = s
    BY <1>3 DEF Contains
  <2>. DEFINE m == d + i
  <2>2. m \in 1..Len(u) /\ u[m] = s
    BY <1>1, <2>1
  <2>3. Len(rc) = Len(c) - 1 /\ \A j \in 1..(Len(c) - 1) : rc[j] = IF j < i THEN c[j] ELSE c[j + 1]
    BY <1>2, <2>1, FirstRemoved
  <2>4. Len(ru) = Len(u) - 1 /\ \A j \in 1..(Len(u) - 1) : ru[j] = IF j < m THEN u[j] ELSE u[j + 1]
    <3>. HIDE DEF m
    <3>. QED  BY <2>2, FirstRemoved
  <2>. HIDE DEF rc, ru
  <2>5. Len(rc) <= Len(ru) /\ Len(ru) - Len(rc) = d
    BY <1>1, <2>3, <2>4
  <2>6. ASSUME NEW j \in 1..Len(rc) PROVE rc[j] = ru[d + j]
    <3>1. j \in 1..(Len(c) - 1) /\ d + j \in 1..(Len(u) - 1) /\ j \in 1..Len(c) /\ j + 1 \in 1..Len(c)
      BY <1>1, <2>3
    <3>2. j < i <=> d + j < m
      BY <1>1
    <3>3. c[j] = u[d + j] /\ c[j + 1] = u[(d + j) + 1]
      <4>1. d + (j + 1) = (d + j) + 1
        BY <1>1, <3>1
      <4>. HIDE DEF d
      <4>. QED  BY <1>1, <3>1, <4>1
    <3>4. rc[j] = (IF j < i THEN c[j] ELSE c[j + 1])
      BY <2>3, <3>1
    <3>5. ru[d + j] = (IF d + j < m THEN u[d + j] ELSE u[(d + j) + 1])
      BY <2>4, <3>1
    <3>. QED  BY <3>2, <3>3, <3>4, <3>5
  <2>. QED  BY <1>3, <2>5, <2>6 DEF Ends, rc, ru
<1>4. CASE ~Contains(c, s)
  <2>1. CASE ~ \E i \in 1..Len(u) : u[i] = s
    <3>1. ru = u
      BY <2>1 DEF RemoveFirst
    <3>. QED  BY <1>4, <3>1
  <2>2. CASE \E i \in 1..Len(u) : u[i] = s
    <3>1. PICK m \in 1..Len(u) : u[m] = s
      BY <2>2
    <3>2. m <= d
      <4>1. CASE m > d
        <5>1. m - d \in 1..Len(c) /\ d + (m - d) = m  BY <1>1, <4>1
        <5>2. c[m - d] = s  BY <1>1, <3>1, <5>1
        <5>. QED  BY <1>4, <5>1, <5>2 DEF Contains
      <4>. QED  BY <1>1, <4>1
    <3>3. Len(ru) = Len(u) - 1 /\ \A j \in 1..(Len(u) - 1) : ru[j] = IF j < m THEN u[j] ELSE u[j + 1]
      BY <3>1, FirstRemoved
    <3>. HIDE DEF ru
    <3>4. Len(c) <= Len(ru)
      BY <1>1, <3>1, <3>2, <3>3
    <3>5. ASSUME NEW j \in 1..Len(c) PROVE c[j] = ru[Len(ru) - Len(c) + j]
      <4>. DEFINE n == Len(ru) - Len(c) + j
      <4>1. n \in 1..(Len(u) - 1) /\ ~(n < m) /\ n + 1 = d + j
        BY <1>1, <3>1, <3>2, <3>3
      <4>. HIDE DEF n, d
      <4>2. ru[n] = u[d + j]
        BY <3>3, <4>1
      <4>. QED  BY <1>1, <4>2 DEF n
    <3>. QED  BY <1>4, <3>4, <3>5 DEF Ends, ru
  <2>. QED  BY <2>1, <2>2
<1>. QED  BY <1>3, <1>4

\* A script that is in the cache goes to its end.
LEMMA KeptWhenFound ==
    ASSUME NEW c, NEW b, NEW u, Kept(c, b, u), NEW s \in Scripts, Contains(c, s)
    PROVE  Kept(Append(RemoveFirst(c, s), s), b, Append(RemoveFirst(u, s), s))
<1>. USE DEF Kept
<1>. DEFINE rc == RemoveFirst(c, s)
            ru == RemoveFirst(u, s)
<1>1. IsInjective(c)
  BY EndsInjective
<1>2. PICK i \in 1..Len(c) : c[i] = s
  BY DEF Contains
<1>3. rc \in Seq(Scripts) /\ Len(rc) = Len(c) - 1
  BY <1>1, <1>2, FirstRemoved
<1>4. Bytes(rc) + Size[s] = Bytes(c)
  BY <1>1, <1>2, BytesOfRemoved
<1>5. ru \in Seq(Scripts) /\ IsInjective(Append(ru, s))
  BY UsedOnce
<1>6. Ends(rc, ru)
  BY EndsRemoved
<1>. HIDE DEF rc, ru
<1>7. Ends(Append(rc, s), Append(ru, s))
  BY <1>3, <1>5, <1>6, EndsAppended
<1>8. Append(rc, s) = rc \o <<s>> /\ <<s>> \in Seq(Scripts)
  BY <1>3
<1>9. Bytes(Append(rc, s)) = Bytes(c)
  BY <1>3, <1>4, <1>8, BytesOfConcat, BytesOfOne
<1>10. Append(rc, s) \in Seq(Scripts) /\ Len(Append(rc, s)) = Len(c) /\ Append(rc, s) # <<>>
  BY <1>3
<1>11. Append(ru, s) \in Seq(Scripts)
  BY <1>5
<1>. QED  BY <1>5, <1>7, <1>9, <1>10, <1>11 DEF rc, ru

\* A script behind others.
LEMMA Appended ==
    ASSUME NEW q \in Seq(Scripts), NEW s \in Scripts
    PROVE  Append(q, s) \in Seq(Scripts) /\ Append(q, s) # <<>> /\ Len(Append(q, s)) = Len(q) + 1
BY AppendProperties

\* The least number of a set of natural numbers.
LEMMA MinOfNumbers ==
    ASSUME NEW T \in SUBSET Nat, T # {}
    PROVE  Min(T) \in T
<1>1. PICK n \in T : \A m \in T : n <= m
  BY LeastNumber
<1>. QED  BY <1>1, Zenon DEF Min

\* A new script goes to the end when as many of the first ones have gone as must: it fits at last
\* in the empty cache.
LEMMA KeptWhenNew ==
    ASSUME NEW c, NEW b, NEW u, Kept(c, b, u), NEW s \in Scripts, ~Contains(c, s)
    PROVE  LET left(i) == SubSeq(c, i + 1, Len(c))
               bytes(i) == b - Bytes(SubSeq(c, 1, i))
               gone == Min({i \in 0..Len(c) : /\ Len(left(i)) < MaxCachedScripts
                                              /\ bytes(i) + Size[s] <= MaxCacheBytes})
           IN  Kept(Append(left(gone), s), bytes(gone) + Size[s], Append(RemoveFirst(u, s), s))
<1>. USE DEF Kept
<1>. DEFINE left(i) == SubSeq(c, i + 1, Len(c))
            bytes(i) == b - Bytes(SubSeq(c, 1, i))
            T == {i \in 0..Len(c) : /\ Len(left(i)) < MaxCachedScripts
                                    /\ bytes(i) + Size[s] <= MaxCacheBytes}
            gone == Min(T)
            ru == RemoveFirst(u, s)
<1>0. /\ Len(c) \in Nat /\ Size[s] \in Nat /\ Size[s] <= MaxCacheBytes
      /\ MaxCachedScripts \in Nat \ {0} /\ MaxCacheBytes \in Nat
  BY ServersAssumption
<1>1. ASSUME NEW i \in 0..Len(c)
      PROVE  /\ left(i) \in Seq(Scripts) /\ Len(left(i)) = Len(c) - i
             /\ \A j \in 1..(Len(c) - i) : left(i)[j] = c[i + j]
             /\ bytes(i) = Bytes(left(i))
  <2>1. /\ left(i) \in Seq(Scripts) /\ Len(left(i)) = Len(c) - i
        /\ \A j \in 1..(Len(c) - i) : left(i)[j] = c[i + j]
        /\ SubSeq(c, 1, i) \in Seq(Scripts)
        /\ Bytes(SubSeq(c, 1, i)) + Bytes(left(i)) = Bytes(c)
    BY BytesOfParts
  <2>2. Bytes(SubSeq(c, 1, i)) \in Nat /\ Bytes(left(i)) \in Nat /\ Bytes(c) \in Nat
    BY <2>1, BytesType
  <2>3. bytes(i) = Bytes(left(i))
    BY <2>1, <2>2
  <2>. QED  BY <2>1, <2>3
<1>. HIDE DEF left, bytes
<1>2. gone \in 0..Len(c) /\ Len(left(gone)) < MaxCachedScripts /\ bytes(gone) + Size[s] <= MaxCacheBytes
  <2>1. Len(c) \in 0..Len(c)
    BY <1>0
  <2>2. left(Len(c)) \in Seq(Scripts) /\ Len(left(Len(c))) = 0
    BY <1>0, <1>1, <2>1
  <2>3. left(Len(c)) = <<>>
    BY <2>2, EmptySeq
  <2>4. bytes(Len(c)) = 0
    BY <1>1, <2>1, <2>3, BytesType
  <2>5. Len(c) \in T
    BY <1>0, <2>1, <2>2, <2>4
  <2>6. T \in SUBSET Nat /\ T # {}
    BY <1>0, <2>5
  <2>7. gone \in T
    <3>. HIDE DEF T
    <3>. QED  BY <2>6, MinOfNumbers
  <2>. QED  BY <2>7
<1>. DEFINE n == gone
<1>3. n \in 0..Len(c) /\ Len(left(n)) < MaxCachedScripts /\ bytes(n) + Size[s] <= MaxCacheBytes
  BY <1>2
<1>4. Kept(Append(left(n), s), bytes(n) + Size[s], Append(ru, s))
  <2>. HIDE DEF n
  <2>1. /\ left(n) \in Seq(Scripts) /\ Len(left(n)) = Len(c) - n
        /\ \A j \in 1..(Len(c) - n) : left(n)[j] = c[n + j]
        /\ bytes(n) = Bytes(left(n))
    BY <1>1, <1>3
  <2>2. ru \in Seq(Scripts) /\ IsInjective(Append(ru, s))
    BY UsedOnce
  <2>3. Ends(c, ru)
    BY EndsRemoved
  <2>. HIDE DEF ru
  <2>4. Ends(left(n), ru)
    <3>1. n \in Nat /\ n <= Len(c) /\ Len(ru) \in Nat /\ Len(c) <= Len(ru)
      BY <1>0, <1>3, <2>2, <2>3 DEF Ends
    <3>2. ASSUME NEW j \in 1..Len(left(n)) PROVE left(n)[j] = ru[Len(ru) - Len(left(n)) + j]
      <4>1. j \in 1..(Len(c) - n) /\ n + j \in 1..Len(c)
        BY <1>0, <2>1, <3>1
      <4>2. c[n + j] = ru[Len(ru) - Len(c) + (n + j)]
        BY <2>3, <4>1 DEF Ends
      <4>3. Len(ru) - Len(c) + (n + j) = Len(ru) - Len(left(n)) + j
        BY <1>0, <2>1, <3>1
      <4>. QED  BY <2>1, <4>1, <4>2, <4>3
    <3>3. Len(left(n)) <= Len(ru)
      BY <1>0, <2>1, <3>1
    <3>. QED  BY <3>2, <3>3 DEF Ends
  <2>5. Ends(Append(left(n), s), Append(ru, s))
    BY <2>1, <2>2, <2>4, EndsAppended
  <2>6. Append(left(n), s) = left(n) \o <<s>> /\ <<s>> \in Seq(Scripts)
    BY <2>1
  <2>7. Bytes(Append(left(n), s)) = bytes(n) + Size[s]
    BY <2>1, <2>6, BytesOfConcat, BytesOfOne
  <2>8. /\ Append(left(n), s) \in Seq(Scripts) /\ Append(left(n), s) # <<>>
        /\ Len(Append(left(n), s)) = Len(left(n)) + 1
    BY <2>1, Appended
  <2>9. Len(left(n)) + 1 <= MaxCachedScripts
    BY <1>0, <1>3, <2>1
  <2>10. Append(ru, s) \in Seq(Scripts)
    BY <2>2
  <2>. QED  BY <1>3, <2>2, <2>5, <2>7, <2>8, <2>9, <2>10
<1>. QED  BY <1>4 DEF left, bytes

\* Every plugin's cache is what it always is.
ScriptsInv ==
    /\ cache \in [Plugins -> Seq(Scripts)] /\ used \in [Plugins -> Seq(Scripts)]
    /\ cacheBytes \in [Plugins -> Nat]
    /\ \A p \in Plugins : Kept(cache[p], cacheBytes[p], used[p])

\* What changes the scripts of one plugin keeps it.
LEMMA OnePluginKeeps ==
    ASSUME ScriptsInv, NEW p \in Plugins, NEW c, NEW b, NEW u, Kept(c, b, u),
           cache' = [cache EXCEPT ![p] = c], cacheBytes' = [cacheBytes EXCEPT ![p] = b],
           used' = [used EXCEPT ![p] = u]
    PROVE  ScriptsInv'
<1>1. c \in Seq(Scripts) /\ u \in Seq(Scripts) /\ b \in Nat
  BY BytesType DEF Kept
<1>2. /\ cache' \in [Plugins -> Seq(Scripts)] /\ used' \in [Plugins -> Seq(Scripts)]
      /\ cacheBytes' \in [Plugins -> Nat]
  BY <1>1 DEF ScriptsInv
<1>3. ASSUME NEW q \in Plugins PROVE Kept(cache'[q], cacheBytes'[q], used'[q])
  BY DEF ScriptsInv
<1>. QED  BY <1>2, <1>3 DEF ScriptsInv

LEMMA ClosePluginsKeeps ==
    ASSUME ScriptsInv, NEW ps, ClosePlugins(ps)
    PROVE  ScriptsInv'
<1>1. <<>> \in Seq(Scripts)
  OBVIOUS
<1>2. /\ cache' \in [Plugins -> Seq(Scripts)] /\ used' \in [Plugins -> Seq(Scripts)]
      /\ cacheBytes' \in [Plugins -> Nat]
  BY <1>1 DEF ScriptsInv, ClosePlugins
<1>3. ASSUME NEW q \in Plugins PROVE Kept(cache'[q], cacheBytes'[q], used'[q])
  BY KeptEmpty DEF ScriptsInv, ClosePlugins
<1>. QED  BY <1>2, <1>3 DEF ScriptsInv

LEMMA RunScriptKeeps ==
    ASSUME ScriptsInv, NEW s \in Servers, NEW script \in Scripts, RunScript(s, script)
    PROVE  ScriptsInv'
<1>. DEFINE p == PluginOf[s]
            c == cache[p]
            b == cacheBytes[p]
            u == used[p]
<1>1. p \in Plugins /\ Kept(c, b, u) /\ cache \in [Plugins -> Seq(Scripts)]
      /\ cacheBytes \in [Plugins -> Nat] /\ used \in [Plugins -> Seq(Scripts)]
  BY ServersAssumption DEF RunScript, CanRun, ScriptsInv
<1>2. Remember(p, script) /\ used' = [used EXCEPT ![p] = Append(RemoveFirst(u, script), script)]
  BY DEF RunScript
<1>3. CASE Contains(c, script)
  <2>1. Kept(Append(RemoveFirst(c, script), script), b, Append(RemoveFirst(u, script), script))
    BY <1>1, <1>3, KeptWhenFound
  <2>2. cache' = [cache EXCEPT ![p] = Append(RemoveFirst(c, script), script)]
        /\ cacheBytes' = cacheBytes
    BY <1>2, <1>3 DEF Remember
  <2>3. cacheBytes' = [cacheBytes EXCEPT ![p] = b]
    BY <1>1, <2>2
  <2>. HIDE DEF p, c, b, u
  <2>. QED  BY <1>1, <1>2, <2>1, <2>2, <2>3, OnePluginKeeps
<1>4. CASE ~Contains(c, script)
  <2>. DEFINE left(i) == SubSeq(c, i + 1, Len(c))
              bytes(i) == b - Bytes(SubSeq(c, 1, i))
              gone == Min({i \in 0..Len(c) : /\ Len(left(i)) < MaxCachedScripts
                                             /\ bytes(i) + Size[script] <= MaxCacheBytes})
  <2>1. Kept(Append(left(gone), script), bytes(gone) + Size[script],
             Append(RemoveFirst(u, script), script))
    <3>. HIDE DEF p, c, b, u
    <3>. QED  BY <1>1, <1>4, KeptWhenNew
  <2>2. /\ cache' = [cache EXCEPT ![p] = Append(left(gone), script)]
        /\ cacheBytes' = [cacheBytes EXCEPT ![p] = bytes(gone) + Size[script]]
    BY <1>2, <1>4 DEF Remember, Add
  <2>. HIDE DEF p, c, b, u, gone, left, bytes
  <2>. QED  BY <1>1, <1>2, <2>1, <2>2, OnePluginKeeps
<1>. QED  BY <1>3, <1>4

LEMMA ScriptFlushKeeps ==
    ASSUME ScriptsInv, NEW s \in Servers, ScriptFlush(s)
    PROVE  ScriptsInv'
<1>1. PluginOf[s] \in Plugins
  BY ServersAssumption DEF ScriptFlush, CanRun
<1>. QED  BY <1>1, KeptEmpty, OnePluginKeeps DEF ScriptFlush

\* At first no plugin has a script.
LEMMA InitScripts == Init => ScriptsInv
<1>1. <<>> \in Seq(Scripts)
  OBVIOUS
<1>. QED  BY <1>1, KeptEmpty DEF Init, ScriptsInv

\* Every step keeps it: scripts run, are flushed and go with their plugin, and nothing else
\* touches the cache.
LEMMA StepScripts == ScriptsInv /\ [Next]_vars => ScriptsInv'
<1>. SUFFICES ASSUME ScriptsInv, [Next]_vars PROVE ScriptsInv'
  OBVIOUS
<1>0. ASSUME UNCHANGED <<cache, cacheBytes, used>> PROVE ScriptsInv'
  BY <1>0 DEF ScriptsInv
<1>1. ASSUME NEW s \in Servers, Start(s) PROVE ScriptsInv'
  BY <1>0, <1>1, ClosePluginsKeeps DEF Start, Open, Refused, Opened, Attach, pluginVars
<1>2. ASSUME NEW s \in Servers, Listening(s) PROVE ScriptsInv'
  BY <1>0, <1>2 DEF Listening, pluginVars
<1>3. ASSUME NEW s \in Servers, ListenFails(s) PROVE ScriptsInv'
  BY <1>3, ClosePluginsKeeps DEF ListenFails, Release
<1>4. ASSUME NEW s \in Servers, NEW c \in Clients, Connect(s, c) \/ SocketEnds(s, c)
      PROVE  ScriptsInv'
  BY <1>0, <1>4 DEF Connect, SocketEnds, pluginVars
<1>5. ASSUME NEW s \in Servers, CloseServer(s) PROVE ScriptsInv'
  BY <1>0, <1>5 DEF CloseServer, Close, pluginVars
<1>6. ASSUME CloseGroup \/ Signal \/ RollBack PROVE ScriptsInv'
  BY <1>0, <1>6 DEF CloseGroup, Signal, RollBack, Close, pluginVars
<1>7. ASSUME NEW s \in Servers, Closed(s) PROVE ScriptsInv'
  BY <1>7, ClosePluginsKeeps DEF Closed
<1>8. ASSUME GroupStarts \/ GroupIsUp \/ GroupIsOver \/ UNCHANGED vars PROVE ScriptsInv'
  BY <1>0, <1>8 DEF GroupStarts, GroupIsUp, GroupIsOver, pluginVars, vars
<1>9. ASSUME NEW s \in Servers, NEW script \in Scripts, RunScript(s, script) PROVE ScriptsInv'
  BY <1>9, RunScriptKeeps
<1>10. ASSUME NEW s \in Servers, ScriptFlush(s) PROVE ScriptsInv'
  BY <1>10, ScriptFlushKeeps
<1>11. ASSUME NEW s \in Servers, AcceptFails(s) PROVE ScriptsInv'
  BY <1>0, <1>11, ClosePluginsKeeps DEF AcceptFails, Release, pluginVars
<1>. QED
  BY <1>1, <1>2, <1>3, <1>4, <1>5, <1>6, <1>7, <1>8, <1>9, <1>10, <1>11 DEF Next, Awaited

\* scripting/plugin.js: whatever scripts are run, found again, evicted or flushed, the cache is
\* within both its limits, its bytes are those of the scripts it holds, and it holds the scripts
\* used last.
THEOREM CacheKeepsRecentScripts == Spec => []RecentScripts
<1>1. Spec => []ScriptsInv
  BY InitScripts, StepScripts, PTL DEF Spec
<1>2. ScriptsInv => RecentScripts
  BY EndsIsSuffix DEF ScriptsInv, Kept, RecentScripts
<1>. QED  BY <1>1, <1>2, PTL

-----------------------------------------------------------------------------
(* Types.                                                                  *)

\* The types of the other variables.
OtherTypes ==
    /\ \A s \in Servers : conns[s] \subseteq sockets[s]
    /\ handlers \subseteq Servers \cup {TheGroup} /\ exits \subseteq Servers
    /\ group \in {"new", "starting", "rollback", "up", "closing", "closed", "failed"}
    /\ exited \in BOOLEAN

\* A socket that ends leaves the set of connections with it, and only servers that listen have a
\* handler or end the process.
LEMMA StepTypes == IInv /\ OtherTypes /\ [Next]_vars => OtherTypes'
<1>. SUFFICES ASSUME IInv, OtherTypes, [Next]_vars PROVE OtherTypes'
  OBVIOUS
<1>. USE DEF OtherTypes
<1>0. /\ phase \in [Servers -> {"new", "opening", "serving", "closing", "closed", "failed",
                          "leaked", "broken"}]
      /\ conns \in [Servers -> SUBSET Clients] /\ sockets \in [Servers -> SUBSET Clients]
  BY DEF IInv, TypeInv
<1>1. ASSUME NEW s \in Servers, Start(s) PROVE OtherTypes'
  BY <1>1 DEF Start
<1>2. ASSUME NEW s \in Servers, Listening(s) PROVE OtherTypes'
  BY <1>2 DEF Listening
<1>3. ASSUME NEW s \in Servers, ListenFails(s) PROVE OtherTypes'
  BY <1>3 DEF ListenFails, Release
<1>4. ASSUME NEW s \in Servers, NEW c \in Clients, Connect(s, c) PROVE OtherTypes'
  BY <1>0, <1>4 DEF Connect
<1>5. ASSUME NEW s \in Servers, NEW c \in Clients, SocketEnds(s, c) PROVE OtherTypes'
  BY <1>0, <1>5 DEF SocketEnds
<1>6. ASSUME NEW s \in Servers, NEW script \in Scripts, RunScript(s, script) PROVE OtherTypes'
  BY <1>6 DEF RunScript
<1>7. ASSUME NEW s \in Servers, ScriptFlush(s) PROVE OtherTypes'
  BY <1>7 DEF ScriptFlush
<1>8. ASSUME NEW ss, Close(ss)
      PROVE  (\A s \in Servers : conns'[s] \subseteq sockets'[s]) /\ exited' \in BOOLEAN
  BY <1>0, <1>8 DEF Close
<1>9. ASSUME NEW s \in Servers, CloseServer(s) PROVE OtherTypes'
  BY <1>8, <1>9 DEF CloseServer
<1>10. ASSUME CloseGroup PROVE OtherTypes'
  BY <1>8, <1>10 DEF CloseGroup
<1>11. ASSUME Signal PROVE OtherTypes'
  BY <1>8, <1>11 DEF Signal
<1>12. ASSUME NEW s \in Servers, Closed(s) PROVE OtherTypes'
  BY <1>12 DEF Closed
<1>13. ASSUME GroupStarts PROVE OtherTypes'
  BY <1>13 DEF GroupStarts
<1>14. ASSUME GroupIsUp PROVE OtherTypes'
  BY <1>14 DEF GroupIsUp
<1>15. ASSUME RollBack PROVE OtherTypes'
  BY <1>8, <1>15 DEF RollBack
<1>16. ASSUME GroupIsOver PROVE OtherTypes'
  BY <1>16 DEF GroupIsOver
<1>17. ASSUME UNCHANGED vars PROVE OtherTypes'
  BY <1>17 DEF vars
<1>18. ASSUME NEW s \in Servers, AcceptFails(s) PROVE OtherTypes'
  BY <1>18 DEF AcceptFails, Release
<1>. QED
  BY <1>1, <1>2, <1>3, <1>4, <1>5, <1>6, <1>7, <1>9, <1>10, <1>11, <1>12, <1>13, <1>14, <1>15,
     <1>16, <1>17, <1>18 DEF Next, Awaited

\* Every variable has its type in every reachable state, and no server counts a connection whose
\* socket has ended.
THEOREM TypeCorrect == Spec => []TypeOK
<1>1. Init => OtherTypes
  BY DEF Init, OtherTypes
<1>2. IInv /\ ScriptsInv /\ OtherTypes => TypeOK
  <2>. SUFFICES ASSUME IInv, ScriptsInv, OtherTypes PROVE TypeOK
    OBVIOUS
  <2>1. ASSUME NEW p \in Plugins PROVE Range(cache[p]) \cup Range(used[p]) \subseteq Scripts
    <3>1. cache[p] \in Seq(Scripts) /\ used[p] \in Seq(Scripts)
      BY DEF ScriptsInv
    <3>. QED  BY <3>1 DEF Range
  <2>. QED  BY <2>1 DEF IInv, TypeInv, ScriptsInv, OtherTypes, TypeOK
<1>. QED  BY <1>1, <1>2, InitInv, StepInv, InitScripts, StepScripts, StepTypes, PTL DEF Spec
=============================================================================

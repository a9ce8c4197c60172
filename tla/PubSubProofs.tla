----------------------------- MODULE PubSubProofs -----------------------------
(***************************************************************************)
(* The broker's maps and the bounded outputs of PubSub in every reachable  *)
(* state, for any clients, channels, patterns, chunks and limits, and that *)
(* the broker with its outputs delivers as Delivery promises.              *)
(***************************************************************************)
EXTENDS PubSub, FiniteSetTheorems, SequenceTheorems, NaturalsInduction, TLAPS

-----------------------------------------------------------------------------
(* Loops over a sequence.  What a loop computes is proved from the shortest *)
(* prefix that refutes it: there is none.                                   *)

\* A set of natural numbers that is not empty has a least element.
LEMMA LeastNumber ==
    ASSUME NEW T \in SUBSET Nat, T # {}
    PROVE  \E n \in T : \A m \in T : n <= m
<1>. DEFINE R == OpToRel(<, Nat)
<1>1. IsWellFoundedOn(R, Nat)
  BY NatLessThanWellFounded
<1>2. \A m, n \in Nat : m < n => <<m, n>> \in R
  BY DEF OpToRel
<1>. HIDE DEF R
<1>3. PICK n \in T : \A m \in T : ~(<<m, n>> \in R)
  BY <1>1, WFMin
<1>4. \A m \in T : ~(m < n)
  BY <1>2, <1>3
<1>. QED  BY <1>4

\* f is what the loop of Chosen computes over the first N names.
Choosing(names, positions, N, f) ==
    f = [n \in 0..N |-> IF n = 0 THEN <<>>
                        ELSE IF n \in positions THEN Append(f[n - 1], names[n]) ELSE f[n - 1]]

\* It computes something for every number of names.
LEMMA ChoosingComputes ==
    ASSUME NEW q, NEW P, NEW N \in Nat PROVE \E f : Choosing(q, P, N, f)
<1>. DEFINE T == {M \in Nat : ~\E f : Choosing(q, P, M, f)}
<1>1. ASSUME NEW M \in T, \A K \in T : M <= K PROVE FALSE
  <2>1. CASE M = 0
    <3>. DEFINE g == [n \in 0..0 |-> <<>>]
    <3>1. Choosing(q, P, 0, g)  BY DEF Choosing
    <3>. QED  BY <1>1, <2>1, <3>1
  <2>2. CASE M # 0
    <3>1. M - 1 \in Nat /\ M - 1 \notin T  BY <1>1, <2>2
    <3>2. PICK f : Choosing(q, P, M - 1, f)  BY <3>1
    <3>. DEFINE g == [n \in 0..M |->
                        IF n # M THEN f[n]
                        ELSE IF M \in P THEN Append(f[M - 1], q[M]) ELSE f[M - 1]]
    <3>3. ASSUME NEW n \in 0..M
          PROVE  g[n] = IF n = 0 THEN <<>>
                        ELSE IF n \in P THEN Append(g[n - 1], q[n]) ELSE g[n - 1]
      <4>1. CASE n = M
        <5>1. g[M - 1] = f[M - 1]  BY <2>2
        <5>. QED  BY <2>2, <4>1, <5>1
      <4>2. CASE n # M /\ n # 0
        <5>1. n \in 0..(M - 1) /\ n - 1 \in 0..M /\ n - 1 # M  BY <4>2
        <5>2. f[n] = IF n \in P THEN Append(f[n - 1], q[n]) ELSE f[n - 1]
          BY <3>2, <4>2, <5>1 DEF Choosing
        <5>3. g[n - 1] = f[n - 1] /\ g[n] = f[n]  BY <4>2, <5>1
        <5>. QED  BY <4>2, <5>2, <5>3
      <4>3. CASE n # M /\ n = 0
        <5>1. f[0] = <<>>  BY <2>2, <3>2 DEF Choosing
        <5>. QED  BY <4>3, <5>1
      <4>. QED  BY <4>1, <4>2, <4>3
    <3>4. g = [n \in 0..M |-> g[n]]  OBVIOUS
    <3>. HIDE DEF g
    <3>5. Choosing(q, P, M, g)  BY <3>3, <3>4 DEF Choosing
    <3>. QED  BY <1>1, <3>5
  <2>. QED  BY <2>1, <2>2
<1>2. T = {}
  <2>. HIDE DEF T
  <2>1. T \in SUBSET Nat  BY DEF T
  <2>. QED  BY <1>1, <2>1, LeastNumber
<1>. QED  BY <1>2

\* Chosen returns the elements at the positions, and each once if no two positions share one.
LEMMA ChosenElements ==
    ASSUME NEW V, NEW q \in Seq(V), NEW P
    PROVE  /\ Chosen(q, P) \in Seq(V)
           /\ \A x : x \in ToSet(Chosen(q, P)) <=> \E i \in DOMAIN q : i \in P /\ q[i] = x
           /\ (\A i, j \in DOMAIN q : i \in P /\ j \in P /\ q[i] = q[j] => i = j)
                => IsInjective(Chosen(q, P))
<1>. DEFINE kept == CHOOSE f : Choosing(q, P, Len(q), f)
            Apart == \A i, j \in DOMAIN q : i \in P /\ j \in P /\ q[i] = q[j] => i = j
            G(n) == /\ kept[n] \in Seq(V)
                    /\ \A x : x \in ToSet(kept[n]) <=> \E i \in 1..n : i \in P /\ q[i] = x
                    /\ Apart => IsInjective(kept[n])
            T == {n \in 0..Len(q) : ~G(n)}
<1>0. Len(q) \in Nat  OBVIOUS
<1>1. Chosen(q, P) = kept[Len(q)]
  BY DEF Chosen, Choosing
<1>2. Choosing(q, P, Len(q), kept)
  BY <1>0, ChoosingComputes
<1>. HIDE DEF kept
<1>3. kept[0] = <<>>
  BY <1>0, <1>2 DEF Choosing
<1>4. ASSUME NEW n \in 1..Len(q)
      PROVE  kept[n] = IF n \in P THEN Append(kept[n - 1], q[n]) ELSE kept[n - 1]
  <2>1. n \in 0..Len(q) /\ n # 0  BY <1>0
  <2>. QED  BY <1>2, <2>1 DEF Choosing
<1>5. ASSUME NEW n \in 1..Len(q), G(n - 1) PROVE G(n)
  <2>. DEFINE s == kept[n - 1]
              t == kept[n]
  <2>0. n \in Nat /\ n - 1 \in Nat /\ q[n] \in V /\ 1..n = 1..(n - 1) \cup {n}
    OBVIOUS
  <2>1. s \in Seq(V)  BY <1>5
  <2>2. CASE n \notin P
    <3>1. t = s  BY <1>4, <2>2
    <3>. QED  BY <1>5, <2>0, <2>2, <3>1
  <2>3. CASE n \in P
    <3>1. t = Append(s, q[n])  BY <1>4, <2>3
    <3>. HIDE DEF s, t
    <3>2. t \in Seq(V) /\ Len(t) = Len(s) + 1 /\ DOMAIN t = DOMAIN s \cup {Len(s) + 1}
          /\ t[Len(s) + 1] = q[n] /\ (\A i \in DOMAIN s : t[i] = s[i])
      BY <2>0, <2>1, <3>1
    <3>3. \A x : x \in ToSet(t) <=> x \in ToSet(s) \/ x = q[n]
      BY <3>2 DEF ToSet
    <3>4. \A x : x \in ToSet(t) <=> \E i \in 1..n : i \in P /\ q[i] = x
      BY <1>5, <2>0, <2>3, <3>3 DEF s
    <3>5. ASSUME Apart PROVE IsInjective(t)
      <4>1. IsInjective(s)  BY <1>5, <3>5 DEF s
      <4>2. ASSUME NEW i \in DOMAIN s PROVE s[i] # q[n]
        <5>1. s[i] \in ToSet(s)  BY DEF ToSet
        <5>2. PICK j \in 1..(n - 1) : j \in P /\ q[j] = s[i]  BY <1>5, <5>1 DEF s
        <5>3. j \in DOMAIN q /\ n \in DOMAIN q /\ j < n  BY <2>0
        <5>. QED  BY <2>3, <3>5, <5>2, <5>3
      <4>. QED  BY <3>2, <4>1, <4>2 DEF IsInjective
    <3>. QED  BY <3>2, <3>4, <3>5 DEF t
  <2>. QED  BY <2>2, <2>3
<1>6. G(0)
  BY <1>3 DEF ToSet, IsInjective
<1>7. T = {}
  <2>1. ASSUME NEW n \in T, \A m \in T : n <= m PROVE FALSE
    <3>1. n \in 1..Len(q)  BY <1>6
    <3>. HIDE DEF G
    <3>2. n - 1 \in 0..Len(q) /\ ~(n <= n - 1)  BY <3>1
    <3>3. G(n - 1)  BY <2>1, <3>2
    <3>. QED  BY <1>5, <3>1, <3>3
  <2>. HIDE DEF T
  <2>2. T \in SUBSET Nat  BY DEF T
  <2>. QED  BY <2>1, <2>2, LeastNumber
<1>8. G(Len(q))
  <2>. HIDE DEF G
  <2>. QED  BY <1>0, <1>7
<1>9. DOMAIN q = 1..Len(q)
  OBVIOUS
<1>. QED  BY <1>1, <1>8, <1>9

\* Only returns the elements that are in the set, and no element twice that was there once.
LEMMA OnlyElements ==
    ASSUME NEW V, NEW q \in Seq(V), NEW S
    PROVE  /\ Only(q, S) \in Seq(V)
           /\ \A x : x \in ToSet(Only(q, S)) <=> x \in ToSet(q) /\ x \in S
           /\ IsInjective(q) => IsInjective(Only(q, S))
<1>. DEFINE P == {i \in DOMAIN q : q[i] \in S}
<1>1. Only(q, S) = Chosen(q, P)
  BY DEF Only
<1>2. \A x : (\E i \in DOMAIN q : i \in P /\ q[i] = x) <=> x \in ToSet(q) /\ x \in S
  BY DEF ToSet
<1>3. IsInjective(q) => \A i, j \in DOMAIN q : i \in P /\ j \in P /\ q[i] = q[j] => i = j
  BY DEF IsInjective
<1>. HIDE DEF P
<1>. QED
  BY <1>1, <1>2, <1>3, ChosenElements

\* f is what the loop of Bytes computes over the first N frames.
Adding(s, N, f) ==
    f = [n \in 0..N |-> IF n = 0 THEN 0 ELSE f[n - 1] + s[n].size]

\* It computes something for every number of frames.
LEMMA AddingComputes ==
    ASSUME NEW s, NEW N \in Nat PROVE \E f : Adding(s, N, f)
<1>. DEFINE T == {M \in Nat : ~\E f : Adding(s, M, f)}
<1>1. ASSUME NEW M \in T, \A K \in T : M <= K PROVE FALSE
  <2>1. CASE M = 0
    <3>. DEFINE g == [n \in 0..0 |-> 0]
    <3>1. Adding(s, 0, g)  BY DEF Adding
    <3>. QED  BY <1>1, <2>1, <3>1
  <2>2. CASE M # 0
    <3>1. M - 1 \in Nat /\ M - 1 \notin T  BY <1>1, <2>2
    <3>2. PICK f : Adding(s, M - 1, f)  BY <3>1
    <3>. DEFINE g == [n \in 0..M |-> IF n # M THEN f[n] ELSE f[M - 1] + s[M].size]
    <3>3. ASSUME NEW n \in 0..M
          PROVE  g[n] = IF n = 0 THEN 0 ELSE g[n - 1] + s[n].size
      <4>1. CASE n = M
        <5>1. g[M - 1] = f[M - 1]  BY <2>2
        <5>. QED  BY <2>2, <4>1, <5>1
      <4>2. CASE n # M /\ n # 0
        <5>1. n \in 0..(M - 1) /\ n - 1 \in 0..M /\ n - 1 # M  BY <4>2
        <5>2. f[n] = f[n - 1] + s[n].size
          BY <3>2, <4>2, <5>1 DEF Adding
        <5>3. g[n - 1] = f[n - 1] /\ g[n] = f[n]  BY <4>2, <5>1
        <5>. QED  BY <4>2, <5>2, <5>3
      <4>3. CASE n # M /\ n = 0
        <5>1. f[0] = 0  BY <2>2, <3>2 DEF Adding
        <5>. QED  BY <4>3, <5>1
      <4>. QED  BY <4>1, <4>2, <4>3
    <3>4. g = [n \in 0..M |-> g[n]]  OBVIOUS
    <3>. HIDE DEF g
    <3>5. Adding(s, M, g)  BY <3>3, <3>4 DEF Adding
    <3>. QED  BY <1>1, <3>5
  <2>. QED  BY <2>1, <2>2
<1>2. T = {}
  <2>. HIDE DEF T
  <2>1. T \in SUBSET Nat  BY DEF T
  <2>. QED  BY <1>1, <2>1, LeastNumber
<1>. QED  BY <1>2

\* f is what the loop of WritePubSub computes over the first N frames.
Writing(o, frames, N, f) ==
    f = [n \in 0..N |-> IF n = 0 THEN [o EXCEPT !.output = TRUE] ELSE OutputWrite(f[n - 1], frames[n])]

\* ... and so does this one.
LEMMA WritingComputes ==
    ASSUME NEW o, NEW frames, NEW N \in Nat PROVE \E f : Writing(o, frames, N, f)
<1>. DEFINE T == {M \in Nat : ~\E f : Writing(o, frames, M, f)}
<1>1. ASSUME NEW M \in T, \A K \in T : M <= K PROVE FALSE
  <2>1. CASE M = 0
    <3>. DEFINE g == [n \in 0..0 |-> [o EXCEPT !.output = TRUE]]
    <3>1. Writing(o, frames, 0, g)  BY DEF Writing
    <3>. QED  BY <1>1, <2>1, <3>1
  <2>2. CASE M # 0
    <3>1. M - 1 \in Nat /\ M - 1 \notin T  BY <1>1, <2>2
    <3>2. PICK f : Writing(o, frames, M - 1, f)  BY <3>1
    <3>. DEFINE g == [n \in 0..M |-> IF n # M THEN f[n] ELSE OutputWrite(f[M - 1], frames[M])]
    <3>3. ASSUME NEW n \in 0..M
          PROVE  g[n] = IF n = 0 THEN [o EXCEPT !.output = TRUE] ELSE OutputWrite(g[n - 1], frames[n])
      <4>1. CASE n = M
        <5>1. g[M - 1] = f[M - 1]  BY <2>2
        <5>. QED  BY <2>2, <4>1, <5>1
      <4>2. CASE n # M /\ n # 0
        <5>1. n \in 0..(M - 1) /\ n - 1 \in 0..M /\ n - 1 # M  BY <4>2
        <5>2. f[n] = OutputWrite(f[n - 1], frames[n])
          BY <3>2, <4>2, <5>1 DEF Writing
        <5>3. g[n - 1] = f[n - 1] /\ g[n] = f[n]  BY <4>2, <5>1
        <5>. QED  BY <4>2, <5>2, <5>3
      <4>3. CASE n # M /\ n = 0
        <5>1. f[0] = [o EXCEPT !.output = TRUE]  BY <2>2, <3>2 DEF Writing
        <5>. QED  BY <4>3, <5>1
      <4>. QED  BY <4>1, <4>2, <4>3
    <3>4. g = [n \in 0..M |-> g[n]]  OBVIOUS
    <3>. HIDE DEF g
    <3>5. Writing(o, frames, M, g)  BY <3>3, <3>4 DEF Writing
    <3>. QED  BY <1>1, <3>5
  <2>. QED  BY <2>1, <2>2
<1>2. T = {}
  <2>. HIDE DEF T
  <2>1. T \in SUBSET Nat  BY DEF T
  <2>. QED  BY <1>1, <2>1, LeastNumber
<1>. QED  BY <1>2

-----------------------------------------------------------------------------
(* Bytes.                                                                  *)

\* The running totals of a sequence of frames: Bytes is the last of them.
Totals(s, f) ==
    /\ f \in [0..Len(s) -> Nat]
    /\ f[0] = 0
    /\ \A n \in 1..Len(s) : f[n] = f[n - 1] + s[n].size
    /\ Bytes(s) = f[Len(s)]

\* The frames of a sequence have a size.
LEMMA FrameSizes ==
    ASSUME NEW s \in Seq(Frames), NEW n \in 1..Len(s)
    PROVE  s[n] \in Frames /\ s[n].size \in Nat
<1>1. s[n] \in Frames
  BY ElementOfSeq
<1>2. \A frame \in Frames : frame.size \in Nat
  BY DEF Frames
<1>. QED
  BY <1>1, <1>2

\* Every sequence of frames has them.
LEMMA HasTotals == ASSUME NEW s \in Seq(Frames) PROVE \E f : Totals(s, f)
<1>. DEFINE f == CHOOSE g : Adding(s, Len(s), g)
            T == {n \in 0..Len(s) : f[n] \notin Nat}
<1>0. Len(s) \in Nat /\ \A n \in 1..Len(s) : s[n].size \in Nat
  BY FrameSizes
<1>1. Bytes(s) = f[Len(s)]
  BY DEF Bytes, Adding
<1>2. Adding(s, Len(s), f)
  BY <1>0, AddingComputes
<1>. HIDE DEF f
<1>3. f = [n \in 0..Len(s) |-> IF n = 0 THEN 0 ELSE f[n - 1] + s[n].size]
  BY <1>2 DEF Adding
<1>4. f[0] = 0
  BY <1>0, <1>3
<1>5. ASSUME NEW n \in 1..Len(s) PROVE f[n] = f[n - 1] + s[n].size
  <2>1. n \in 0..Len(s) /\ n # 0  BY <1>0
  <2>. QED  BY <1>3, <2>1
<1>6. T = {}
  <2>1. ASSUME NEW n \in T, \A m \in T : n <= m PROVE FALSE
    <3>1. n \in 1..Len(s)  BY <1>0, <1>4
    <3>2. n - 1 \in 0..Len(s) /\ ~(n <= n - 1)  BY <3>1, <1>0
    <3>3. f[n - 1] \in Nat  BY <2>1, <3>2
    <3>. QED  BY <1>0, <1>5, <3>1, <3>3
  <2>. HIDE DEF T
  <2>2. T \in SUBSET Nat  BY <1>0 DEF T
  <2>. QED  BY <2>1, <2>2, LeastNumber
<1>7. f \in [0..Len(s) -> Nat]
  BY <1>3, <1>6
<1>. QED
  BY <1>1, <1>4, <1>5, <1>7 DEF Totals

\* The bytes of a stretch t of s are the difference of two of its totals.
LEMMA StretchBytes ==
    ASSUME NEW s \in Seq(Frames), NEW f, Totals(s, f), NEW t \in Seq(Frames), NEW k \in Nat,
           k + Len(t) <= Len(s), \A i \in 1..Len(t) : t[i] = s[k + i]
    PROVE  Bytes(t) = f[k + Len(t)] - f[k]
<1>1. PICK g : Totals(t, g)
  BY HasTotals
<1>. DEFINE T == {n \in 0..Len(t) : g[n] # f[k + n] - f[k]}
<1>2. Len(s) \in Nat /\ Len(t) \in Nat
  OBVIOUS
<1>3. \A n \in 0..Len(t) : g[n] \in Nat /\ f[k + n] \in Nat
  <2>1. ASSUME NEW n \in 0..Len(t) PROVE g[n] \in Nat /\ f[k + n] \in Nat
    <3>1. k + n \in 0..Len(s)  BY <1>2
    <3>. QED  BY <1>1, <3>1 DEF Totals
  <2>. QED  BY <2>1
<1>4. g[0] = f[k + 0] - f[k]
  BY <1>1, <1>2, <1>3 DEF Totals
<1>5. ASSUME NEW n \in 1..Len(t) PROVE g[n] = g[n - 1] + t[n].size /\ f[k + n] = f[k + (n - 1)] + t[n].size
  <2>1. k + n \in 1..Len(s) /\ (k + n) - 1 = k + (n - 1)  BY <1>2
  <2>. QED  BY <1>1, <2>1 DEF Totals
<1>6. T = {}
  <2>1. ASSUME NEW n \in T, \A m \in T : n <= m PROVE FALSE
    <3>0. n \in 0..Len(t) /\ n # 0
      <4>1. n \in 0..Len(t) /\ g[n] # f[k + n] - f[k]  BY <2>1 DEF T
      <4>. QED  BY <4>1, <1>4
    <3>1. n \in 1..Len(t)  BY <1>2, <3>0
    <3>2. n - 1 \in 0..Len(t) /\ ~(n <= n - 1)  BY <3>1, <1>2
    <3>3. g[n - 1] = f[k + (n - 1)] - f[k]  BY <2>1, <3>2
    <3>4. t[n].size \in Nat  BY <3>1, FrameSizes
    <3>5. 0 \in 0..Len(t) /\ k + 0 = k  BY <1>2
    <3>6. f[k] \in Nat  BY <1>3, <3>5
    <3>7. f[k + (n - 1)] \in Nat  BY <1>3, <3>2
    <3>8. g[n] = g[n - 1] + t[n].size /\ f[k + n] = f[k + (n - 1)] + t[n].size
      BY <1>5, <3>1
    <3>. QED  BY <2>1, <3>3, <3>4, <3>6, <3>7, <3>8
  <2>. HIDE DEF T
  <2>2. T \in SUBSET Nat  BY <1>2 DEF T
  <2>. QED  BY <2>1, <2>2, LeastNumber
<1>7. Len(t) \in 0..Len(t) /\ Bytes(t) = g[Len(t)]
  BY <1>1, <1>2 DEF Totals
<1>. QED
  BY <1>6, <1>7

\* The bytes of a sequence of frames: a number, 0 for none.
LEMMA BytesType ==
    /\ \A s \in Seq(Frames) : Bytes(s) \in Nat
    /\ Bytes(<<>>) = 0
<1>1. ASSUME NEW s \in Seq(Frames) PROVE Bytes(s) \in Nat
  <2>1. PICK f : Totals(s, f)  BY HasTotals
  <2>. QED  BY <2>1 DEF Totals
<1>2. <<>> \in Seq(Frames) /\ Len(<<>>) = 0
  OBVIOUS
<1>3. PICK f : Totals(<<>>, f)
  BY <1>2, HasTotals
<1>. QED
  BY <1>1, <1>2, <1>3 DEF Totals

\* A frame at the end adds its size, and without its first frame a sequence has no more bytes.
LEMMA BytesOfAppend ==
    ASSUME NEW s \in Seq(Frames), NEW frame \in Frames
    PROVE  Bytes(Append(s, frame)) = Bytes(s) + frame.size
<1>. DEFINE t == Append(s, frame)
<1>1. t \in Seq(Frames) /\ Len(t) = Len(s) + 1 /\ Len(s) \in Nat /\ t[Len(t)] = frame
      /\ \A i \in 1..Len(s) : s[i] = t[0 + i]
  OBVIOUS
<1>. HIDE DEF t
<1>2. PICK f : Totals(t, f)
  BY <1>1, HasTotals
<1>3. Bytes(s) = f[0 + Len(s)] - f[0]
  BY <1>1, <1>2, StretchBytes
<1>4. Bytes(t) = f[Len(t) - 1] + frame.size /\ f[0] = 0 /\ f[Len(s)] \in Nat
  BY <1>1, <1>2 DEF Totals
<1>. QED
  BY <1>1, <1>3, <1>4 DEF t

LEMMA BytesOfTail ==
    ASSUME NEW s \in Seq(Frames), s # <<>>
    PROVE  Bytes(Tail(s)) <= Bytes(s)
<1>1. Tail(s) \in Seq(Frames) /\ Len(s) \in Nat /\ Len(s) >= 1 /\ Len(Tail(s)) = Len(s) - 1
      /\ \A i \in 1..Len(Tail(s)) : Tail(s)[i] = s[1 + i]
  BY HeadTailProperties, EmptySeq
<1>2. PICK f : Totals(s, f)
  BY HasTotals
<1>. DEFINE t == Tail(s)
<1>. HIDE DEF t
<1>3. t \in Seq(Frames) /\ 1 \in Nat /\ 1 + Len(t) <= Len(s) /\ \A i \in 1..Len(t) : t[i] = s[1 + i]
  BY <1>1 DEF t
<1>5. Bytes(t) = f[1 + Len(t)] - f[1]
  BY <1>2, <1>3, StretchBytes
<1>4. f[1] \in Nat /\ f[Len(s)] \in Nat /\ Bytes(s) = f[Len(s)]
  BY <1>1, <1>2 DEF Totals
<1>. QED
  BY <1>1, <1>4, <1>5 DEF t

\* A sequence cut in two has the bytes of its two parts.
LEMMA BytesOfParts ==
    ASSUME NEW s \in Seq(Frames), NEW n \in 0..Len(s)
    PROVE  Bytes(SubSeq(s, 1, n)) + Bytes(SubSeq(s, n + 1, Len(s))) = Bytes(s)
<1>. DEFINE a == SubSeq(s, 1, n)
            b == SubSeq(s, n + 1, Len(s))
<1>1. Len(s) \in Nat /\ n \in Nat /\ n <= Len(s)
  OBVIOUS
<1>2. a \in Seq(Frames) /\ Len(a) = n /\ \A i \in 1..n : a[i] = s[0 + i]
  BY <1>1, SubSeqProperties
<1>3. b \in Seq(Frames) /\ Len(b) = Len(s) - n /\ \A i \in 1..Len(b) : b[i] = s[n + i]
  BY <1>1, SubSeqProperties
<1>. HIDE DEF a, b
<1>4. PICK f : Totals(s, f)
  BY HasTotals
<1>5. Bytes(a) = f[0 + n] - f[0]
  BY <1>1, <1>2, <1>4, StretchBytes
<1>6. Bytes(b) = f[n + Len(b)] - f[n]
  <2>1. n + Len(b) <= Len(s)  BY <1>1, <1>3
  <2>. QED  BY <1>1, <1>3, <1>4, <2>1, StretchBytes
<1>7. f[0] = 0 /\ f[n] \in Nat /\ f[Len(s)] \in Nat /\ Bytes(s) = f[Len(s)]
  BY <1>1, <1>4 DEF Totals
<1>. QED
  BY <1>1, <1>3, <1>5, <1>6, <1>7 DEF a, b

-----------------------------------------------------------------------------
(* The output.                                                             *)

\* What holds of an output between any two writes: queuedBytes is right, and what is queued waits
\* for a 'drain' event that is due; without an output nothing waits.
Steady(o) ==
    /\ o.queued = Bytes(o.queue)
    /\ o.queue # <<>> => o.blocked /\ o.needDrain /\ o.socket = "open"
    /\ o.blocked /\ o.socket = "open" => o.needDrain
    /\ ~o.output => ~o.blocked /\ o.queue = <<>> /\ ~o.ending
Bounded(o) == o.socket = "open" /\ o.output => o.queued + Bytes(o.wire) <= maxPendingBytes
Sound(o) == o \in Connections /\ Steady(o) /\ Bounded(o)
\* Only the 'close' event makes a socket "closed".
SameClosed(o, w) == w.socket = "closed" <=> o.socket = "closed"

\* A connection has its fields, and is what they are.
LEMMA Fields ==
    ASSUME NEW o
    PROVE  o \in Connections <=>
             /\ o = [socket |-> o.socket, wire |-> o.wire, needDrain |-> o.needDrain,
                     output |-> o.output, queue |-> o.queue, queued |-> o.queued,
                     blocked |-> o.blocked, ending |-> o.ending]
             /\ o.socket \in {"open", "finishing", "destroyed", "closed"}
             /\ o.wire \in Seq(Frames) /\ o.queue \in Seq(Frames) /\ o.queued \in Nat
             /\ o.needDrain \in BOOLEAN /\ o.output \in BOOLEAN /\ o.blocked \in BOOLEAN
             /\ o.ending \in BOOLEAN
<1>. QED  BY DEF Connections

\* The limits are numbers.
LEMMA Limits == maxPendingBytes \in Nat /\ highWaterMark \in Nat \ {0}
<1>. QED  BY PubSubAssumption

\* A frame written to the socket: without an output no limit applies, and a full socket owes a
\* 'drain' event.
LEMMA SocketWriteFields ==
    ASSUME NEW o \in Connections, NEW frame \in Frames
    PROVE  LET w == SocketWrite(o, frame)
           IN  /\ w \in Connections
               /\ w = [o EXCEPT !.wire = w.wire, !.needDrain = w.needDrain]
               /\ Bytes(w.wire) = Bytes(o.wire) + frame.size
               /\ w.needDrain <=> o.needDrain \/ Full(w)
<1>. DEFINE x == Append(o.wire, frame)
            u == [o EXCEPT !.wire = x]
            w == SocketWrite(o, frame)
            drain == o.needDrain \/ Full(u)
<1>1. o.wire \in Seq(Frames) /\ o.needDrain \in BOOLEAN
  BY DEF Connections
<1>2. x \in Seq(Frames) /\ Bytes(x) = Bytes(o.wire) + frame.size
  BY <1>1, BytesOfAppend
<1>3. w = [u EXCEPT !.needDrain = drain]
  <2>1. u.needDrain = o.needDrain  BY DEF Connections
  <2>. QED  BY <2>1 DEF SocketWrite
<1>4. drain \in BOOLEAN
  BY <1>1 DEF Full
<1>. HIDE DEF x, drain
<1>5. w = [o EXCEPT !.wire = x, !.needDrain = drain]
  BY <1>3 DEF Connections
<1>6. u.wire = x /\ w.wire = x /\ w.needDrain = drain
  BY <1>5 DEF Connections
<1>7. w \in Connections
  BY <1>2, <1>4, <1>5 DEF Connections
<1>8. Full(w) <=> Full(u)
  BY <1>6 DEF Full
<1>. HIDE DEF w, u
<1>9. w.needDrain <=> o.needDrain \/ Full(w)
  BY <1>6, <1>8 DEF drain
<1>. QED
  BY <1>2, <1>5, <1>6, <1>7, <1>9 DEF w

LEMMA SocketWriteSound ==
    ASSUME NEW o, Sound(o), NEW frame \in Frames, ~o.output
    PROVE  Sound(SocketWrite(o, frame)) /\ SameClosed(o, SocketWrite(o, frame))
<1>. DEFINE w == SocketWrite(o, frame)
<1>1. o \in Connections
  BY DEF Sound
<1>2. w \in Connections /\ w = [o EXCEPT !.wire = w.wire, !.needDrain = w.needDrain]
  BY <1>1, SocketWriteFields
<1>. HIDE DEF w
<1>3. w.socket = o.socket /\ w.output = o.output /\ w.queue = o.queue /\ w.queued = o.queued
      /\ w.blocked = o.blocked /\ w.ending = o.ending
  BY <1>1, <1>2 DEF Connections
<1>. QED
  BY <1>2, <1>3 DEF w, Sound, Steady, Bounded, SameClosed

LEMMA DestroyedSound ==
    ASSUME NEW o \in Connections, Steady(o)
    PROVE  Sound(Destroyed(o)) /\ Destroyed(o).socket = "destroyed" /\ (o.output => Destroyed(o).output)
<1>. DEFINE w == Destroyed(o)
<1>1. w = [o EXCEPT !.socket = "destroyed", !.wire = <<>>, !.needDrain = FALSE,
                    !.queue = <<>>, !.queued = 0]
  BY DEF Destroyed
<1>2. <<>> \in Seq(Frames)
  OBVIOUS
<1>. HIDE DEF w
<1>3. w \in Connections
  BY <1>1, <1>2 DEF Connections
<1>4. w.socket = "destroyed" /\ w.queue = <<>> /\ w.queued = 0 /\ w.blocked = o.blocked
      /\ w.output = o.output /\ w.ending = o.ending
  BY <1>1 DEF Connections
<1>5. w.queued = Bytes(w.queue)
  BY <1>4, BytesType
<1>. QED
  BY <1>3, <1>4, <1>5 DEF w, Sound, Steady, Bounded

\* write of the output keeps it sound: what it accepts is within the limit, and queued only
\* behind a frame that waits for a 'drain' event.
LEMMA OutputWriteSound ==
    ASSUME NEW o \in Connections, Steady(o), o.ending => Bounded(o), o.output, NEW frame \in Frames
    PROVE  LET w == OutputWrite(o, frame) IN Sound(w) /\ SameClosed(o, w) /\ w.output
<1>1. CASE Refuses(o)
  <2>1. OutputWrite(o, frame) = o  BY <1>1 DEF OutputWrite
  <2>. QED  BY <1>1, <2>1 DEF Sound, Bounded, Refuses, SameClosed
<1>2. CASE ~Refuses(o) /\ Exceeds(o, frame)
  <2>1. OutputWrite(o, frame) = Destroyed(o)  BY <1>2 DEF OutputWrite
  <2>. QED  BY <1>2, <2>1, DestroyedSound DEF SameClosed, Refuses
<1>3. CASE ~Refuses(o) /\ ~Exceeds(o, frame) /\ o.blocked
  <2>. DEFINE x == Append(o.queue, frame)
              w == [o EXCEPT !.queue = x, !.queued = o.queued + frame.size]
  <2>1. OutputWrite(o, frame) = w
    BY <1>3 DEF OutputWrite, Accepted, Queued, Connections
  <2>2. o.queue \in Seq(Frames) /\ o.queued \in Nat /\ frame.size \in Nat
    BY DEF Connections, Frames
  <2>3. x \in Seq(Frames) /\ Bytes(x) = Bytes(o.queue) + frame.size
    BY <2>2, BytesOfAppend
  <2>. HIDE DEF x
  <2>. DEFINE bytes == o.queued + frame.size
  <2>0. bytes \in Nat
    BY <2>2
  <2>. HIDE DEF bytes
  <2>4. [o EXCEPT !.queue = x, !.queued = bytes] \in Connections
    BY <2>0, <2>3 DEF Connections
  <2>5. w.socket = o.socket /\ w.output = o.output /\ w.queue = x /\ w.queued = o.queued + frame.size
        /\ w.blocked = o.blocked /\ w.ending = o.ending /\ w.needDrain = o.needDrain /\ w.wire = o.wire
    BY DEF Connections
  <2>. HIDE DEF w
  <2>6. o.socket = "open" /\ o.needDrain
    BY <1>3 DEF Steady, Refuses
  <2>7. Steady(w)
    BY <1>3, <2>3, <2>5, <2>6 DEF Steady
  <2>8. Bytes(o.wire) \in Nat
    BY BytesType DEF Connections
  <2>9. Bounded(w)
    BY <1>3, <2>2, <2>5, <2>8, Limits DEF Bounded, Exceeds
  <2>. QED  BY <2>1, <2>4, <2>5, <2>7, <2>9 DEF Sound, SameClosed, bytes, w
<1>4. CASE ~Refuses(o) /\ ~Exceeds(o, frame) /\ ~o.blocked
  <2>. DEFINE u == SocketWrite(o, frame)
              w == [u EXCEPT !.blocked = Full(u)]
  <2>1. OutputWrite(o, frame) = w
    BY <1>4 DEF OutputWrite, Accepted
  <2>2. u \in Connections /\ u = [o EXCEPT !.wire = u.wire, !.needDrain = u.needDrain]
        /\ Bytes(u.wire) = Bytes(o.wire) + frame.size /\ (u.needDrain <=> o.needDrain \/ Full(u))
    BY SocketWriteFields
  <2>. HIDE DEF u
  <2>. DEFINE full == Full(u)
  <2>0. full \in BOOLEAN
    BY DEF Full
  <2>. HIDE DEF full
  <2>3. u.socket = o.socket /\ u.output = o.output /\ u.queue = o.queue /\ u.queued = o.queued
        /\ u.ending = o.ending
    BY <2>2 DEF Connections
  <2>4. w \in Connections /\ w.socket = u.socket /\ w.output = u.output /\ w.queue = u.queue
        /\ w.queued = u.queued /\ w.ending = u.ending /\ w.needDrain = u.needDrain /\ w.wire = u.wire
        /\ w.blocked = full
    <3>1. w = [u EXCEPT !.blocked = full]  BY DEF full
    <3>. HIDE DEF w
    <3>. QED  BY <2>0, <2>2, <3>1 DEF Connections
  <2>. HIDE DEF w
  <2>5. o.queue = <<>>
    BY <1>4 DEF Steady
  <2>6. Steady(w)
    BY <2>2, <2>3, <2>4, <2>5 DEF Steady, full
  <2>7. Bytes(o.wire) \in Nat /\ o.queued \in Nat /\ frame.size \in Nat
    BY BytesType DEF Connections, Frames
  <2>8. Bounded(w)
    BY <1>4, <2>2, <2>3, <2>4, <2>7, Limits DEF Bounded, Exceeds
  <2>. QED  BY <2>1, <2>3, <2>4, <2>6, <2>8 DEF Sound, SameClosed
<1>. QED  BY <1>1, <1>2, <1>3, <1>4

\* writePubSub, which makes the output when there is none, and pushes frame after frame.
LEMMA WritePubSubSound ==
    ASSUME NEW o, Sound(o), NEW frames \in Seq(Frames)
    PROVE  Sound(WritePubSub(o, frames)) /\ SameClosed(o, WritePubSub(o, frames))
<1>0. CASE frames = <<>>
  BY <1>0 DEF WritePubSub, SameClosed
<1>1. CASE frames # <<>>
  <2>. DEFINE f == CHOOSE g : Writing(o, frames, Len(frames), g)
              b == [o EXCEPT !.output = TRUE]
              G(n) == Sound(f[n]) /\ SameClosed(o, f[n]) /\ f[n].output
              T == {n \in 1..Len(frames) : ~G(n)}
  <2>1. Len(frames) \in Nat /\ Len(frames) >= 1
    BY <1>1, EmptySeq
  <2>2. WritePubSub(o, frames) = f[Len(frames)]
    BY <1>1 DEF WritePubSub, Writing
  <2>3. Writing(o, frames, Len(frames), f)
    BY <2>1, WritingComputes
  <2>. HIDE DEF f
  <2>4. f[0] = b
    BY <2>1, <2>3 DEF Writing
  <2>5. ASSUME NEW n \in 1..Len(frames) PROVE f[n] = OutputWrite(f[n - 1], frames[n])
    <3>1. n \in 0..Len(frames) /\ n # 0  BY <2>1
    <3>. QED  BY <2>3, <3>1 DEF Writing
  <2>6. b \in Connections /\ Steady(b) /\ (b.ending => Bounded(b)) /\ SameClosed(o, b) /\ b.output
    <3>1. o \in Connections /\ Steady(o) /\ Bounded(o)
      BY DEF Sound
    <3>2. b \in Connections /\ b.socket = o.socket /\ b.queue = o.queue /\ b.queued = o.queued
          /\ b.blocked = o.blocked /\ b.needDrain = o.needDrain /\ b.ending = o.ending
          /\ b.wire = o.wire /\ b.output
      BY <3>1 DEF Connections
    <3>. HIDE DEF b
    <3>. QED  BY <3>1, <3>2 DEF Steady, Bounded, SameClosed
  <2>7. T = {}
    <3>1. ASSUME NEW n \in T, \A m \in T : n <= m PROVE FALSE
      <4>1. n \in 1..Len(frames) /\ ~G(n)
        OBVIOUS
      <4>2. frames[n] \in Frames
        BY <4>1, ElementOfSeq
      <4>. HIDE DEF b
      <4>3. CASE n = 1
        <5>1. f[1] = OutputWrite(b, frames[1])  BY <2>4, <2>5, <4>1, <4>3
        <5>2. G(1)  BY <2>6, <4>2, <4>3, <5>1, OutputWriteSound DEF SameClosed
        <5>. QED  BY <4>1, <4>3, <5>2
      <4>4. CASE n # 1
        <5>1. n - 1 \in 1..Len(frames) /\ ~(n <= n - 1)  BY <4>1, <4>4
        <5>2. G(n - 1)  BY <3>1, <5>1
        <5>3. f[n - 1] \in Connections /\ Steady(f[n - 1]) /\ Bounded(f[n - 1])
          BY <5>2 DEF Sound
        <5>4. f[n] = OutputWrite(f[n - 1], frames[n])  BY <2>5, <4>1
        <5>5. G(n)  BY <4>2, <5>2, <5>3, <5>4, OutputWriteSound DEF SameClosed
        <5>. QED  BY <4>1, <5>5
      <4>. QED  BY <4>3, <4>4
    <3>. HIDE DEF T
    <3>2. T \in SUBSET Nat  BY DEF T
    <3>. QED  BY <3>1, <3>2, LeastNumber
  <2>8. G(Len(frames))
    BY <2>1, <2>7
  <2>. QED  BY <2>2, <2>8
<1>. QED  BY <1>0, <1>1

\* writeResponse, through the output or straight to the socket.
LEMMA WriteResponseSound ==
    ASSUME NEW o, Sound(o), NEW frame \in Frames
    PROVE  Sound(WriteResponse(o, frame)) /\ SameClosed(o, WriteResponse(o, frame))
<1>0. o \in Connections /\ Steady(o) /\ Bounded(o)
  BY DEF Sound
<1>1. CASE o.output
  BY <1>0, <1>1, OutputWriteSound DEF WriteResponse
<1>2. CASE ~o.output /\ o.socket = "open"
  BY <1>2, SocketWriteSound DEF WriteResponse
<1>3. CASE ~o.output /\ o.socket # "open"
  BY <1>3 DEF WriteResponse, SameClosed
<1>. QED  BY <1>1, <1>2, <1>3

\* The socket is ended only with an empty queue, and nothing is queued after it.
LEMMA SocketEndSound ==
    ASSUME NEW o, Sound(o), o.queue = <<>>
    PROVE  Sound(SocketEnd(o)) /\ SameClosed(o, SocketEnd(o))
<1>0. o \in Connections
  BY DEF Sound
<1>1. CASE o.socket = "open"
  <2>. DEFINE w == [o EXCEPT !.socket = "finishing"]
  <2>1. SocketEnd(o) = w
    BY <1>1 DEF SocketEnd
  <2>2. w \in Connections /\ w.socket = "finishing" /\ w.output = o.output /\ w.queue = o.queue
        /\ w.queued = o.queued /\ w.ending = o.ending /\ w.blocked = o.blocked
    BY <1>0 DEF Connections
  <2>. HIDE DEF w
  <2>. QED  BY <1>1, <2>1, <2>2 DEF Sound, Steady, Bounded, SameClosed
<1>2. CASE o.socket # "open"
  BY <1>2 DEF SocketEnd, SameClosed
<1>. QED  BY <1>1, <1>2

LEMMA OutputEndSound ==
    ASSUME NEW o, Sound(o), o.output
    PROVE  Sound(OutputEnd(o)) /\ SameClosed(o, OutputEnd(o))
<1>. DEFINE w == [o EXCEPT !.ending = TRUE]
<1>0. o \in Connections
  BY DEF Sound
<1>1. w \in Connections /\ w.socket = o.socket /\ w.output = o.output /\ w.queue = o.queue
      /\ w.queued = o.queued /\ w.blocked = o.blocked /\ w.needDrain = o.needDrain
      /\ w.wire = o.wire
  BY <1>0 DEF Connections
<1>2. OutputEnd(o) = IF o.queue = <<>> THEN SocketEnd(w) ELSE w
  BY DEF OutputEnd
<1>. HIDE DEF w
<1>3. Sound(w) /\ SameClosed(o, w)
  BY <1>1 DEF Sound, Steady, Bounded, SameClosed
<1>. QED
  BY <1>1, <1>2, <1>3, SocketEndSound DEF SameClosed

\* QUIT.
LEMMA QuitSound ==
    ASSUME NEW o, Sound(o)
    PROVE  LET w == IF o.output THEN OutputEnd(o) ELSE SocketEnd(o) IN Sound(w) /\ SameClosed(o, w)
<1>1. ~o.output => o.queue = <<>>
  BY DEF Sound, Steady
<1>. QED
  BY <1>1, OutputEndSound, SocketEndSound

\* The frames that drain writes: all of them, or so many that the last one fills the socket.
LEMMA DrainableFills ==
    ASSUME NEW queue \in Seq(Frames)
    PROVE  /\ Drainable(queue) \in 0..Len(queue)
           /\ Drainable(queue) # Len(queue)
                => Bytes(SubSeq(queue, 1, Drainable(queue))) >= highWaterMark
<1>. DEFINE fills == {n \in DOMAIN queue : Bytes(SubSeq(queue, 1, n)) >= highWaterMark}
<1>1. Len(queue) \in Nat /\ DOMAIN queue = 1..Len(queue)
  OBVIOUS
<1>2. Drainable(queue) = IF fills = {} THEN Len(queue) ELSE Min(fills)
  BY DEF Drainable
<1>3. ASSUME fills # {} PROVE Min(fills) \in fills
  <2>. HIDE DEF fills
  <2>1. fills \in SUBSET Nat
    BY <1>1 DEF fills
  <2>2. PICK n \in fills : \A m \in fills : n <= m
    BY <1>3, <2>1, LeastNumber
  <2>. QED  BY <2>2 DEF Min
<1>4. \A n \in fills : n \in 0..Len(queue) /\ Bytes(SubSeq(queue, 1, n)) >= highWaterMark
  BY <1>1
<1>. HIDE DEF fills
<1>. QED
  BY <1>1, <1>2, <1>3, <1>4

\* drain keeps the output sound: what is left in the queue waits behind a full socket.
LEMMA DrainedSound ==
    ASSUME NEW o, Sound(o), o.socket = "open", o.wire = <<>>, o.output
    PROVE  Sound(Drained(o)) /\ SameClosed(o, Drained(o))
<1>. DEFINE n == Drainable(o.queue)
            out == SubSeq(o.queue, 1, n)
            rest == SubSeq(o.queue, n + 1, Len(o.queue))
            full == Bytes(out) >= highWaterMark
            left == o.queued - Bytes(out)
            d == [o EXCEPT !.wire = out, !.needDrain = full, !.blocked = full,
                           !.queue = rest, !.queued = left]
<1>0. o \in Connections /\ o.queue \in Seq(Frames) /\ o.queued = Bytes(o.queue) /\ o.queued \in Nat
      /\ o.queued + Bytes(o.wire) <= maxPendingBytes /\ Len(o.queue) \in Nat
  BY DEF Sound, Connections, Steady, Bounded
<1>1. Drained(o) = IF d.queue = <<>> /\ d.ending THEN SocketEnd(d) ELSE d
  BY DEF Drained
<1>2. n \in 0..Len(o.queue) /\ (n # Len(o.queue) => full)
  BY <1>0, DrainableFills
<1>3. out \in Seq(Frames) /\ rest \in Seq(Frames) /\ (n = Len(o.queue) => rest = <<>>)
  <2>. HIDE DEF n
  <2>1. \A i \in 1..n : o.queue[i] \in Frames  BY <1>0, <1>2, ElementOfSeq
  <2>2. \A i \in (n + 1)..Len(o.queue) : o.queue[i] \in Frames
    <3>1. \A i \in (n + 1)..Len(o.queue) : i \in 1..Len(o.queue)  BY <1>0, <1>2
    <3>. QED  BY <1>0, <3>1, ElementOfSeq
  <2>3. out \in Seq(Frames)  BY <1>0, <1>2, <2>1, SubSeqProperties
  <2>4. rest \in Seq(Frames)  BY <1>0, <1>2, <2>2, SubSeqProperties
  <2>5. n = Len(o.queue) => rest = <<>>  BY <1>0, <1>2, SubSeqEmpty
  <2>. QED  BY <2>3, <2>4, <2>5
<1>4. Bytes(out) + Bytes(rest) = Bytes(o.queue)
  BY <1>0, <1>2, BytesOfParts
<1>. HIDE DEF n, out, rest
<1>5. Bytes(out) \in Nat /\ Bytes(rest) \in Nat /\ left = Bytes(rest) /\ left \in Nat
      /\ full \in BOOLEAN
  <2>1. Bytes(out) \in Nat /\ Bytes(rest) \in Nat  BY <1>3, BytesType
  <2>. QED  BY <1>0, <1>4, <2>1
<1>. HIDE DEF full, left
<1>6. d \in Connections /\ d.socket = "open" /\ d.wire = out /\ d.needDrain = full
      /\ d.blocked = full /\ d.queue = rest /\ d.queued = left /\ d.output
      /\ d.ending = o.ending
  BY <1>0, <1>3, <1>5 DEF Connections
<1>. HIDE DEF d
<1>7. Steady(d)
  BY <1>2, <1>3, <1>5, <1>6 DEF Steady
<1>8. Bounded(d)
  <2>1. Bytes(o.wire) = 0  BY BytesType
  <2>2. left + Bytes(out) = o.queued  BY <1>0, <1>4, <1>5
  <2>. QED  BY <1>0, <1>6, <2>1, <2>2, Limits DEF Bounded
<1>9. Sound(d) /\ SameClosed(o, d)
  BY <1>6, <1>7, <1>8 DEF Sound, SameClosed
<1>. QED
  BY <1>1, <1>9, SocketEndSound DEF SameClosed

\* The kernel takes the first frame of the wire.
LEMMA FlushSound ==
    ASSUME NEW o, Sound(o), o.wire # <<>>
    PROVE  Sound([o EXCEPT !.wire = Tail(o.wire)])
<1>. DEFINE x == Tail(o.wire)
            w == [o EXCEPT !.wire = x]
<1>0. o \in Connections /\ o.wire \in Seq(Frames) /\ o.queued \in Nat
  BY DEF Sound, Connections
<1>1. x \in Seq(Frames) /\ Bytes(x) <= Bytes(o.wire) /\ Bytes(x) \in Nat /\ Bytes(o.wire) \in Nat
  BY <1>0, HeadTailProperties, BytesOfTail, BytesType
<1>. HIDE DEF x
<1>2. w \in Connections /\ w.socket = o.socket /\ w.output = o.output /\ w.queue = o.queue
      /\ w.queued = o.queued /\ w.blocked = o.blocked /\ w.needDrain = o.needDrain
      /\ w.wire = x /\ w.ending = o.ending
  BY <1>0, <1>1 DEF Connections
<1>. HIDE DEF w
<1>3. Sound(w)
  BY <1>0, <1>1, <1>2, Limits DEF Sound, Steady, Bounded
<1>. QED
  BY <1>3 DEF w, x

\* A socket without an output owes no 'drain' event any more.
LEMMA PlainDrainSound ==
    ASSUME NEW o, Sound(o), ~o.output
    PROVE  Sound([o EXCEPT !.needDrain = FALSE])
<1>. DEFINE w == [o EXCEPT !.needDrain = FALSE]
<1>0. o \in Connections
  BY DEF Sound
<1>1. w \in Connections /\ w.socket = o.socket /\ w.output = o.output /\ w.queue = o.queue
      /\ w.queued = o.queued /\ w.blocked = o.blocked /\ w.ending = o.ending
  BY <1>0 DEF Connections
<1>. HIDE DEF w
<1>2. Sound(w)
  BY <1>1 DEF Sound, Steady, Bounded
<1>. QED
  BY <1>2 DEF w

-----------------------------------------------------------------------------
(* The inductive invariant.                                                *)

\* The maps of the broker.
Broker ==
    /\ registry \in [Names -> SUBSET Clients]
    /\ patternOrder \in Seq(Patterns)
    /\ byConnection \in [Clients -> Seq(Names)]
    /\ known \subseteq Clients
    /\ \A c \in Clients :
         /\ \A n \in Names : c \in registry[n] <=> n \in ToSet(byConnection[c])
         /\ IsInjective(byConnection[c])
         /\ c \in known <=> byConnection[c] # <<>>
    /\ IsInjective(patternOrder)
    /\ ToSet(patternOrder) = {p \in Patterns : registry[p] # {}}

\* pubSubMode follows countFor until the 'close' event, which leaves nothing.
Modes ==
    /\ pubSubMode \subseteq Clients
    /\ \A c \in Clients : IF conn[c].socket = "closed" THEN c \notin known
                                                       ELSE c \in pubSubMode <=> c \in known

Outputs ==
    /\ conn \in [Clients -> Connections]
    /\ \A c \in Clients : Sound(conn[c])

\* A chunk is worked on only while the socket lives and is not paused; each of its commands is
\* owed an answer, and so is the BLPOP that waits.
Chunked ==
    /\ waiting \subseteq Clients
    /\ todo \in [Clients -> Seq(Commands)]
    /\ owed \in [Clients -> Nat]
    /\ inputs \in 0..MaxInput
    /\ \A c \in Clients :
         /\ todo[c] # <<>> => conn[c].socket \in {"open", "finishing"} /\ c \notin waiting
         /\ owed[c] >= Len(todo[c])
         /\ c \in waiting => owed[c] >= 1

IInv == Broker /\ Modes /\ Outputs /\ Chunked

\* It is the type invariant, and the properties of the maps and of the outputs.
LEMMA InvShows == ASSUME IInv PROVE TypeOK /\ MapsAgree /\ OutputIsSound
<1>1. TypeOK
  BY DEF IInv, Broker, Modes, Outputs, Chunked, TypeOK
<1>2. MapsAgree
  <2>1. \A c \in Clients, n \in Names : n \in ToSet(byConnection[c]) <=> Contains(byConnection[c], n)
    BY DEF IInv, Broker, ToSet, Contains
  <2>. QED  BY <2>1 DEF IInv, Broker, Modes, MapsAgree
<1>3. OutputIsSound
  BY DEF IInv, Outputs, Sound, Steady, Bounded, OutputIsSound
<1>. QED  BY <1>1, <1>2, <1>3

\* It holds at the start.
LEMMA InvInit == Init => IInv
<1>. SUFFICES ASSUME Init PROVE IInv
  OBVIOUS
<1>0. \A V : <<>> \in Seq(V) /\ Len(<<>>) = 0
  OBVIOUS
<1>1. Broker
  <2>1. patternOrder = <<>> /\ ToSet(<<>>) = {} /\ IsInjective(<<>>)
    BY DEF Init, ToSet, IsInjective
  <2>2. registry \in [Names -> SUBSET Clients] /\ byConnection \in [Clients -> Seq(Names)]
        /\ patternOrder \in Seq(Patterns)
    BY <1>0, <2>1 DEF Init
  <2>3. ASSUME NEW c \in Clients
        PROVE  /\ \A n \in Names : c \in registry[n] <=> n \in ToSet(byConnection[c])
               /\ IsInjective(byConnection[c])
               /\ c \in known <=> byConnection[c] # <<>>
    BY <2>1 DEF Init
  <2>4. IsInjective(patternOrder) /\ ToSet(patternOrder) = {p \in Patterns : registry[p] # {}}
        /\ known \subseteq Clients
    BY <2>1 DEF Init, Names
  <2>. QED  BY <2>2, <2>3, <2>4 DEF Broker
<1>2. ASSUME NEW c \in Clients PROVE conn[c] \in Connections /\ Sound(conn[c]) /\ conn[c].socket = "open"
  <2>1. conn[c] \in Connections  BY <1>0 DEF Init, Connections
  <2>2. Steady(conn[c]) /\ Bounded(conn[c])  BY BytesType, Limits DEF Init, Steady, Bounded
  <2>. QED  BY <2>1, <2>2 DEF Init, Sound
<1>3. Outputs /\ Modes
  BY <1>2 DEF Init, Outputs, Modes
<1>4. Chunked
  <2>1. todo \in [Clients -> Seq(Commands)]  BY <1>0 DEF Init
  <2>2. inputs \in 0..MaxInput  BY PubSubAssumption DEF Init
  <2>. QED  BY <1>0, <2>1, <2>2 DEF Init, Chunked
<1>. QED  BY <1>1, <1>3, <1>4 DEF IInv

-----------------------------------------------------------------------------
(* The broker.                                                             *)

\* The elements of two sequences behind each other.
LEMMA ConcatElements ==
    ASSUME NEW V, NEW a \in Seq(V), NEW b \in Seq(V)
    PROVE  /\ a \o b \in Seq(V)
           /\ ToSet(a \o b) = ToSet(a) \cup ToSet(b)
           /\ IsInjective(a) /\ IsInjective(b) /\ ToSet(a) \cap ToSet(b) = {} => IsInjective(a \o b)
           /\ a \o b = <<>> <=> a = <<>> /\ b = <<>>
<1>. DEFINE c == a \o b
<1>1. c \in Seq(V) /\ Len(c) = Len(a) + Len(b) /\ Len(a) \in Nat /\ Len(b) \in Nat
      /\ DOMAIN a = 1..Len(a) /\ DOMAIN b = 1..Len(b) /\ DOMAIN c = 1..Len(c)
      /\ \A i \in 1..Len(c) : c[i] = IF i <= Len(a) THEN a[i] ELSE b[i - Len(a)]
  BY ConcatProperties
<1>. HIDE DEF c
<1>2. ToSet(c) \subseteq ToSet(a) \cup ToSet(b)
  <2>1. ASSUME NEW i \in 1..Len(c) PROVE c[i] \in ToSet(a) \cup ToSet(b)
    <3>1. CASE i <= Len(a)  BY <1>1, <3>1 DEF ToSet
    <3>2. CASE ~(i <= Len(a))
      <4>1. i - Len(a) \in DOMAIN b  BY <1>1, <3>2
      <4>. QED  BY <1>1, <3>2, <4>1 DEF ToSet
    <3>. QED  BY <3>1, <3>2
  <2>. QED  BY <1>1, <2>1 DEF ToSet
<1>3. ToSet(a) \subseteq ToSet(c)
  <2>1. ASSUME NEW i \in DOMAIN a PROVE i \in DOMAIN c /\ c[i] = a[i]
    <3>1. i \in 1..Len(c) /\ i <= Len(a)  BY <1>1
    <3>. QED  BY <1>1, <3>1
  <2>. QED  BY <2>1 DEF ToSet
<1>4. ToSet(b) \subseteq ToSet(c)
  <2>1. ASSUME NEW i \in DOMAIN b PROVE i + Len(a) \in DOMAIN c /\ c[i + Len(a)] = b[i]
    <3>1. i + Len(a) \in 1..Len(c) /\ ~(i + Len(a) <= Len(a)) /\ (i + Len(a)) - Len(a) = i  BY <1>1
    <3>. QED  BY <1>1, <3>1
  <2>. QED  BY <2>1 DEF ToSet
<1>5. ASSUME IsInjective(a), IsInjective(b), ToSet(a) \cap ToSet(b) = {} PROVE IsInjective(c)
  <2>1. ASSUME NEW i \in DOMAIN c, NEW j \in DOMAIN c, c[i] = c[j] PROVE i = j
    <3>1. CASE i <= Len(a) /\ j <= Len(a)
      <4>1. i \in DOMAIN a /\ j \in DOMAIN a /\ a[i] = a[j]  BY <1>1, <2>1, <3>1
      <4>. QED  BY <1>5, <4>1 DEF IsInjective
    <3>2. CASE ~(i <= Len(a)) /\ ~(j <= Len(a))
      <4>0. i \in 1..Len(c) /\ j \in 1..Len(c)  BY <1>1
      <4>3. c[i] = b[i - Len(a)] /\ c[j] = b[j - Len(a)]  BY <1>1, <3>2, <4>0
      <4>4. i - Len(a) \in 1..Len(b) /\ j - Len(a) \in 1..Len(b)  BY <1>1, <3>2, <4>0
      <4>1. i - Len(a) \in DOMAIN b /\ j - Len(a) \in DOMAIN b /\ b[i - Len(a)] = b[j - Len(a)]
        BY <1>1, <2>1, <4>3, <4>4
      <4>2. i - Len(a) = j - Len(a)  BY <1>5, <4>1 DEF IsInjective
      <4>. QED  BY <1>1, <4>2
    <3>3. CASE i <= Len(a) /\ ~(j <= Len(a))
      <4>1. i \in DOMAIN a /\ j - Len(a) \in DOMAIN b /\ a[i] = b[j - Len(a)]  BY <1>1, <2>1, <3>3
      <4>. QED  BY <1>5, <4>1 DEF ToSet
    <3>4. CASE ~(i <= Len(a)) /\ j <= Len(a)
      <4>1. j \in DOMAIN a /\ i - Len(a) \in DOMAIN b /\ a[j] = b[i - Len(a)]  BY <1>1, <2>1, <3>4
      <4>. QED  BY <1>5, <4>1 DEF ToSet
    <3>. QED  BY <3>1, <3>2, <3>3, <3>4
  <2>. QED  BY <2>1 DEF IsInjective
<1>6. c = <<>> <=> a = <<>> /\ b = <<>>
  BY <1>1, EmptySeq
<1>. QED  BY <1>1, <1>2, <1>3, <1>4, <1>5, <1>6 DEF c

\* Names that are new to c, each once, go into both maps.
LEMMA EnlistSteps ==
    ASSUME Broker, NEW c \in Clients, NEW new \in Seq(Names), IsInjective(new),
           \A n \in ToSet(new) : n \notin ToSet(byConnection[c]),
           byConnection[c] # <<>> \/ new # <<>>, Enlist(c, new)
    PROVE  Broker' /\ c \in known' /\ byConnection'[c] # <<>> /\ known' \ {c} = known \ {c}
<1>. DEFINE mine == byConnection[c]
            fresh == Only(new, {p \in Patterns : registry[p] = {}})
<1>0. mine \in Seq(Names) /\ IsInjective(mine) /\ ToSet(mine) \cap ToSet(new) = {}
  BY DEF Broker
<1>1. \A n \in Names : Contains(new, n) <=> n \in ToSet(new)
  BY DEF Contains, ToSet
<1>2. registry' = [n \in Names |-> IF n \in ToSet(new) THEN registry[n] \cup {c} ELSE registry[n]]
  BY <1>1 DEF Enlist
<1>3. mine \o new \in Seq(Names) /\ ToSet(mine \o new) = ToSet(mine) \cup ToSet(new)
      /\ IsInjective(mine \o new) /\ mine \o new # <<>>
  BY <1>0, ConcatElements
<1>4. byConnection' = [byConnection EXCEPT ![c] = mine \o new]
  BY DEF Enlist
<1>5. fresh \in Seq(Names) /\ IsInjective(fresh)
      /\ \A x : x \in ToSet(fresh) <=> x \in ToSet(new) /\ x \in Patterns /\ registry[x] = {}
  BY OnlyElements
<1>6. fresh \in Seq(Patterns)
  <2>. HIDE DEF fresh
  <2>1. \A i \in DOMAIN fresh : fresh[i] \in Patterns  BY <1>5 DEF ToSet
  <2>. QED  BY <1>5, <2>1
<1>7. patternOrder' = patternOrder \o fresh
  BY DEF Enlist
<1>. HIDE DEF mine, fresh
<1>8. patternOrder \in Seq(Patterns) /\ IsInjective(patternOrder)
      /\ ToSet(patternOrder) = {p \in Patterns : registry[p] # {}}
  BY DEF Broker
<1>9. patternOrder' \in Seq(Patterns) /\ IsInjective(patternOrder')
      /\ ToSet(patternOrder') = ToSet(patternOrder) \cup ToSet(fresh)
  <2>1. ToSet(patternOrder) \cap ToSet(fresh) = {}  BY <1>5, <1>8
  <2>. QED  BY <1>5, <1>6, <1>7, <1>8, <2>1, ConcatElements
<1>10. \A p \in Patterns : registry'[p] # {} <=> p \in ToSet(patternOrder')
  BY <1>2, <1>5, <1>8, <1>9 DEF Names, Broker
<1>11. ToSet(patternOrder') = {p \in Patterns : registry'[p] # {}}
  BY <1>5, <1>8, <1>9, <1>10
<1>12. registry' \in [Names -> SUBSET Clients]
  BY <1>2 DEF Broker
<1>13. byConnection' \in [Clients -> Seq(Names)] /\ byConnection'[c] = mine \o new
       /\ \A d \in Clients \ {c} : byConnection'[d] = byConnection[d]
  BY <1>3, <1>4 DEF Broker
<1>14. known' = known \cup {c}
  BY DEF Enlist
<1>15. ASSUME NEW d \in Clients
       PROVE  /\ \A n \in Names : d \in registry'[n] <=> n \in ToSet(byConnection'[d])
              /\ IsInjective(byConnection'[d])
              /\ d \in known' <=> byConnection'[d] # <<>>
  BY <1>2, <1>3, <1>13, <1>14 DEF Broker, mine
<1>16. known' \subseteq Clients
  BY <1>14 DEF Broker
<1>. QED
  BY <1>3, <1>9, <1>11, <1>12, <1>13, <1>14, <1>15, <1>16 DEF Broker

\* Names leave both maps, and a pattern without subscribers its place in the order.
LEMMA DelistSteps ==
    ASSUME Broker, NEW c \in Clients, NEW leaving, Delist(c, leaving)
    PROVE  /\ Broker'
           /\ c \in known' <=> byConnection'[c] # <<>>
           /\ known' \ {c} = known \ {c}
           /\ ToSet(byConnection'[c]) = ToSet(byConnection[c]) \ leaving
<1>. DEFINE mine == Only(byConnection[c], Names \ leaving)
            active == {p \in Patterns : registry'[p] # {}}
<1>1. byConnection[c] \in Seq(Names) /\ IsInjective(byConnection[c])
      /\ patternOrder \in Seq(Patterns) /\ IsInjective(patternOrder)
      /\ ToSet(patternOrder) = {p \in Patterns : registry[p] # {}}
  BY DEF Broker
<1>2. mine \in Seq(Names) /\ IsInjective(mine)
      /\ \A x : x \in ToSet(mine) <=> x \in ToSet(byConnection[c]) /\ x \in Names \ leaving
  BY <1>1, OnlyElements
<1>3. \A x \in ToSet(byConnection[c]) : x \in Names
  BY <1>1 DEF ToSet
<1>4. byConnection' = [byConnection EXCEPT ![c] = mine]
  BY DEF Delist
<1>5. registry' = [n \in Names |-> IF n \in leaving THEN registry[n] \ {c} ELSE registry[n]]
  BY DEF Delist
<1>6. patternOrder' = Only(patternOrder, active)
  BY DEF Delist
<1>. HIDE DEF mine, active
<1>7. patternOrder' \in Seq(Patterns) /\ IsInjective(patternOrder')
      /\ \A x : x \in ToSet(patternOrder') <=> x \in ToSet(patternOrder) /\ x \in active
  BY <1>1, <1>6, OnlyElements
<1>8. \A p \in Patterns : registry'[p] \subseteq registry[p]
  BY <1>5 DEF Names
<1>9. ToSet(patternOrder') = {p \in Patterns : registry'[p] # {}}
  BY <1>1, <1>7, <1>8 DEF active
<1>10. registry' \in [Names -> SUBSET Clients]
  BY <1>5 DEF Broker
<1>11. byConnection' \in [Clients -> Seq(Names)] /\ byConnection'[c] = mine
       /\ \A d \in Clients \ {c} : byConnection'[d] = byConnection[d]
  BY <1>2, <1>4 DEF Broker
<1>12. known' = IF byConnection'[c] = <<>> THEN known \ {c} ELSE known \cup {c}
  BY DEF Delist
<1>13. ASSUME NEW d \in Clients
       PROVE  /\ \A n \in Names : d \in registry'[n] <=> n \in ToSet(byConnection'[d])
              /\ IsInjective(byConnection'[d])
              /\ d \in known' <=> byConnection'[d] # <<>>
  BY <1>2, <1>5, <1>11, <1>12 DEF Broker
<1>14. known' \subseteq Clients
  BY <1>12 DEF Broker
<1>15. ToSet(byConnection'[c]) = ToSet(byConnection[c]) \ leaving
  BY <1>2, <1>3, <1>11
<1>16. Broker'
  BY <1>7, <1>9, <1>10, <1>11, <1>13, <1>14 DEF Broker
<1>. QED
  BY <1>12, <1>13, <1>15, <1>16

-----------------------------------------------------------------------------
(* The actions.                                                            *)

\* What a client may send.
LEMMA CommandShape ==
    ASSUME NEW cmd \in Commands
    PROVE  /\ cmd.names \in Seq(Names)
           /\ cmd.op \in {"SUBSCRIBE", "PSUBSCRIBE"} => cmd.names # <<>>
<1>1. PICK c \in Clients : \E chunk \in Chunks[c] : cmd \in ToSet(chunk)
  BY DEF Commands
<1>5. PICK chunk \in Chunks[c] : cmd \in ToSet(chunk)
  BY <1>1
<1>2. chunk \in Seq([op : Ops, names : Seq(Names)])
  BY PubSubAssumption
<1>3. cmd \in [op : Ops, names : Seq(Names)]
  <2>. DEFINE S == [op : Ops, names : Seq(Names)]
  <2>. HIDE DEF S
  <2>1. chunk \in Seq(S)  BY <1>2 DEF S
  <2>2. \A i \in DOMAIN chunk : chunk[i] \in S  BY <2>1
  <2>3. cmd \in S  BY <1>5, <2>2 DEF ToSet
  <2>. QED  BY <2>3 DEF S
<1>4. cmd.op \in {"SUBSCRIBE", "PSUBSCRIBE"} => cmd.names # <<>>
  BY <1>5, PubSubAssumption
<1>. QED  BY <1>3, <1>4

\* The head and the rest of a chunk that is worked on.
LEMMA ChunkRest ==
    ASSUME Chunked, NEW c \in Clients, todo[c] # <<>>
    PROVE  /\ Head(todo[c]) \in Commands
           /\ Tail(todo[c]) \in Seq(Commands) /\ Len(Tail(todo[c])) = Len(todo[c]) - 1
           /\ <<>> \in Seq(Commands) /\ Len(<<>>) = 0
           /\ Len(todo[c]) \in Nat /\ Len(todo[c]) >= 1 /\ owed[c] \in Nat /\ owed[c] >= Len(todo[c])
           /\ c \notin waiting
<1>1. todo[c] \in Seq(Commands)
  BY DEF Chunked
<1>2. Len(todo[c]) \in Nat /\ Len(todo[c]) >= 1
  BY <1>1, EmptySeq
<1>. QED
  BY <1>1, <1>2, HeadTailProperties DEF Chunked

\* No connection comes to its 'close' event.
SocketsStay == \A c \in Clients : SameClosed(conn[c], conn'[c])

\* One command of c is done, or dropped with the rest of its chunk: the output is o, and an answer
\* is no longer owed.
Stepped(c, o, left) ==
    /\ conn' = [conn EXCEPT ![c] = o]
    /\ todo' = [todo EXCEPT ![c] = left]
    /\ owed' = [owed EXCEPT ![c] = @ - 1]

LEMMA SteppedKeeps ==
    ASSUME Outputs, Chunked, NEW c \in Clients, todo[c] # <<>>, UNCHANGED <<waiting, inputs>>,
           NEW o, Sound(o), SameClosed(conn[c], o), NEW left, Stepped(c, o, left),
           left = <<>> \/ (left = Tail(todo[c]) /\ o.socket # "destroyed")
    PROVE  Outputs' /\ Chunked' /\ SocketsStay
<1>0. o \in Connections /\ o.socket \in {"open", "finishing", "destroyed", "closed"}
  BY DEF Sound, Connections
<1>1. conn' \in [Clients -> Connections] /\ conn'[c] = o
      /\ \A d \in Clients \ {c} : conn'[d] = conn[d]
  BY <1>0 DEF Outputs, Stepped
<1>2. \A d \in Clients : Sound(conn'[d]) /\ SameClosed(conn[d], conn'[d])
  BY <1>1 DEF Outputs, SameClosed
<1>3. left \in Seq(Commands) /\ Len(left) \in Nat /\ Len(left) <= owed[c] - 1 /\ owed[c] \in Nat
      /\ c \notin waiting
  <2>1. left \in Seq(Commands) /\ Len(left) \in Nat /\ Len(left) <= Len(todo[c]) - 1
    <3>1. CASE left = <<>>  BY <3>1, ChunkRest
    <3>2. CASE left = Tail(todo[c])  BY <3>2, ChunkRest
    <3>. QED  BY <3>1, <3>2
  <2>. QED  BY <2>1, ChunkRest
<1>4. todo' \in [Clients -> Seq(Commands)] /\ todo'[c] = left
      /\ \A d \in Clients \ {c} : todo'[d] = todo[d]
  BY <1>3 DEF Chunked, Stepped
<1>5. owed' \in [Clients -> Nat] /\ owed'[c] = owed[c] - 1
      /\ \A d \in Clients \ {c} : owed'[d] = owed[d]
  BY <1>3 DEF Chunked, Stepped
<1>6. conn[c].socket \in {"open", "finishing"}
  BY DEF Chunked
<1>7. left # <<>> => o.socket \in {"open", "finishing"}
  BY <1>0, <1>6 DEF SameClosed
<1>8. Chunked'
  <2>1. ASSUME NEW d \in Clients
        PROVE  /\ todo'[d] # <<>> => conn'[d].socket \in {"open", "finishing"} /\ d \notin waiting
               /\ owed'[d] >= Len(todo'[d])
               /\ d \in waiting => owed'[d] >= 1
    <3>1. CASE d = c  BY <1>1, <1>3, <1>4, <1>5, <1>7, <3>1
    <3>2. CASE d # c  BY <1>1, <1>4, <1>5, <3>2 DEF Chunked
    <3>. QED  BY <3>1, <3>2
  <2>. QED  BY <1>4, <1>5, <2>1 DEF Chunked
<1>. QED
  BY <1>1, <1>2, <1>8 DEF Outputs, SocketsStay

\* writeResult, of a reply and of pushes.
LEMMA AnsweredKeeps ==
    ASSUME Outputs, Chunked, NEW c \in Clients, todo[c] # <<>>, UNCHANGED <<waiting, inputs>>,
           NEW frame \in Frames, Answered(c, WriteResponse(conn[c], frame))
    PROVE  Outputs' /\ Chunked' /\ SocketsStay
<1>. DEFINE o == WriteResponse(conn[c], frame)
            left == Rest(c, o)
<1>1. Sound(o) /\ SameClosed(conn[c], o)
  BY WriteResponseSound DEF Outputs
<1>. HIDE DEF o
<1>2. left = <<>> \/ (left = Tail(todo[c]) /\ o.socket # "destroyed")
  BY DEF Rest
<1>3. Stepped(c, o, left)
  BY DEF Answered, Stepped, o
<1>. HIDE DEF left
<1>. QED
  BY <1>1, <1>2, <1>3, SteppedKeeps

LEMMA PushedKeeps ==
    ASSUME Outputs, Chunked, NEW c \in Clients, todo[c] # <<>>, UNCHANGED <<waiting, inputs>>,
           NEW frames \in Seq(Frames), Pushed(c, frames)
    PROVE  Outputs' /\ Chunked' /\ SocketsStay
<1>. DEFINE o == WritePubSub(conn[c], frames)
            left == IF Refuses(o) THEN <<>> ELSE Tail(todo[c])
<1>1. Sound(o) /\ SameClosed(conn[c], o)
  BY WritePubSubSound DEF Outputs
<1>2. todo' = [todo EXCEPT ![c] = left]
  BY DEF Pushed, Chunked
<1>3. Stepped(c, o, left)
  BY <1>2 DEF Pushed, Stepped
<1>. HIDE DEF o
<1>4. left = <<>> \/ (left = Tail(todo[c]) /\ o.socket # "destroyed")
  BY DEF Refuses
<1>. HIDE DEF left
<1>. QED
  BY <1>1, <1>3, <1>4, SteppedKeeps

\* The modes of the others stay as they are, and that of c follows its subscriptions.
LEMMA ModesFollow ==
    ASSUME Modes, SocketsStay, NEW c \in Clients, conn[c].socket # "closed",
           c \in known' <=> byConnection'[c] # <<>>, known' \ {c} = known \ {c}, UpdateMode(c)
    PROVE  Modes'
<1>1. c \in pubSubMode' <=> c \in known'
  BY DEF UpdateMode
<1>2. \A d \in Clients \ {c} : (d \in pubSubMode' <=> d \in pubSubMode) /\ (d \in known' <=> d \in known)
  BY DEF UpdateMode
<1>3. \A d \in Clients : conn'[d].socket = "closed" <=> conn[d].socket = "closed"
  BY DEF SocketsStay, SameClosed
<1>4. pubSubMode' \subseteq Clients
  BY DEF Modes, UpdateMode
<1>. QED
  BY <1>1, <1>2, <1>3, <1>4 DEF Modes

LEMMA ModesStay == ASSUME Modes, SocketsStay, UNCHANGED <<known, pubSubMode>> PROVE Modes'
<1>. QED  BY DEF Modes, SocketsStay, SameClosed

LEMMA BrokerStays == ASSUME Broker, UNCHANGED brokerVars PROVE Broker'
<1>. QED  BY DEF Broker, brokerVars

\* Frames.
LEMMA FrameType ==
    ASSUME NEW kind \in Kinds, NEW name \in Names \cup {""}, NEW body \in Nat, NEW size \in Nat \ {0}
    PROVE  Frame(kind, name, body, size) \in Frames
<1>. QED  BY DEF Frame, Frames

\* The acknowledgements are frames.
LEMMA AcksType ==
    ASSUME NEW kind \in Kinds, NEW names \in Seq(Names), NEW subs, IsFiniteSet(subs),
           NEW adding
    PROVE  Acks(kind, names, subs, adding) \in Seq(Frames)
<1>. DEFINE named(i) == {names[j] : j \in 1..i}
            count(i) == Cardinality(IF adding THEN subs \cup named(i) ELSE subs \ named(i))
<1>1. ASSUME NEW i \in DOMAIN names
      PROVE  Frame(kind, names[i], count(i), 1) \in Frames
  <2>1. i \in Nat
    OBVIOUS
  <2>2. IsFiniteSet(named(i))
    <3>1. IsFiniteSet(1..i)  BY <2>1, FS_Interval
    <3>2. [j \in 1..i |-> names[j]] \in Surjection(1..i, named(i))  BY DEF Surjection
    <3>. QED  BY <3>1, <3>2, FS_Surjection
  <2>. HIDE DEF named
  <2>3. IsFiniteSet(subs \cup named(i)) /\ IsFiniteSet(subs \ named(i))
    BY <2>2, FS_Union, FS_Difference
  <2>4. count(i) \in Nat
    BY <2>3, FS_CardinalityType
  <2>5. names[i] \in Names
    OBVIOUS
  <2>. HIDE DEF count
  <2>6. names[i] \in Names \cup {""}
    BY <2>5, Zenon
  <2>7. 1 \in Nat \ {0}
    OBVIOUS
  <2>. QED  BY <2>4, <2>6, <2>7, FrameType
<1>2. Acks(kind, names, subs, adding) = [i \in 1..Len(names) |-> Frame(kind, names[i], count(i), 1)]
  BY DEF Acks
<1>3. Len(names) \in Nat /\ DOMAIN names = 1..Len(names)
  OBVIOUS
<1>. HIDE DEF count
<1>. QED
  BY <1>1, <1>2, <1>3

\* What a connection is subscribed to is finite.
LEMMA SubsFinite == ASSUME NEW names \in Seq(Names) PROVE IsFiniteSet(ToSet(names))
<1>1. IsFiniteSet(DOMAIN names)
  <2>1. DOMAIN names = 1..Len(names) /\ Len(names) \in Nat  OBVIOUS
  <2>. QED  BY <2>1, FS_Interval
<1>2. [i \in DOMAIN names |-> names[i]] \in Surjection(DOMAIN names, ToSet(names))
  BY DEF Surjection, ToSet
<1>. QED
  BY <1>1, <1>2, FS_Surjection

\* One frame.
LEMMA PlainType == \A kind \in Kinds : Plain(kind) \in Frames /\ <<Plain(kind)>> \in Seq(Frames)
<1>1. "" \in Names \cup {""} /\ 0 \in Nat /\ 1 \in Nat \ {0}
  OBVIOUS
<1>2. ASSUME NEW kind \in Kinds PROVE Plain(kind) \in Frames
  BY <1>1, FrameType DEF Plain
<1>3. ASSUME NEW frame \in Frames PROVE <<frame>> \in Seq(Frames)
  OBVIOUS
<1>. QED  BY <1>2, <1>3

\* The frames of a message.
LEMMA MessagesType ==
    ASSUME Broker, NEW c \in Clients, NEW channel \in Channels, NEW body \in Nat, NEW size \in Sizes
    PROVE  Messages(c, channel, body, size) \in Seq(Frames)
<1>. DEFINE direct == IF c \in registry[channel] THEN <<Frame("message", channel, body, size)>> ELSE <<>>
            matches == Only(patternOrder, {p \in Patterns : channel \in Matching[p] /\ c \in registry[p]})
            others == [i \in DOMAIN matches |-> Frame("pmessage", matches[i], body, size)]
<1>0. size \in Nat \ {0}
  BY PubSubAssumption
<1>1. \A kind \in Kinds, name \in Names : Frame(kind, name, body, size) \in Frames
  <2>1. \A name \in Names : name \in Names \cup {""}  BY Zenon
  <2>. QED  BY <1>0, <2>1, FrameType
<1>2. channel \in Names /\ \A p \in Patterns : p \in Names
  BY DEF Names
<1>3. "message" \in Kinds /\ "pmessage" \in Kinds
  BY DEF Kinds
<1>4. direct \in Seq(Frames)
  <2>1. \A frame \in Frames : <<frame>> \in Seq(Frames)  OBVIOUS
  <2>2. <<>> \in Seq(Frames)  OBVIOUS
  <2>3. Frame("message", channel, body, size) \in Frames  BY <1>1, <1>2, <1>3
  <2>. QED  BY <2>1, <2>2, <2>3
<1>5. matches \in Seq(Patterns)
  <2>1. patternOrder \in Seq(Patterns)  BY DEF Broker
  <2>. QED  BY <2>1, OnlyElements
<1>6. others \in Seq(Frames)
  <2>. HIDE DEF matches
  <2>1. DOMAIN matches = 1..Len(matches) /\ Len(matches) \in Nat  BY <1>5
  <2>2. \A i \in DOMAIN matches : matches[i] \in Patterns  BY <1>5
  <2>3. \A i \in DOMAIN matches : Frame("pmessage", matches[i], body, size) \in Frames
    BY <1>1, <1>2, <1>3, <2>2
  <2>. QED  BY <2>1, <2>3
<1>7. Messages(c, channel, body, size) = direct \o others
  BY DEF Messages
<1>. HIDE DEF direct, others
<1>. QED
  BY <1>4, <1>6, <1>7, ConcatProperties

\* A client with a command to be handled is not closed.
LEMMA Handling ==
    ASSUME Chunked, NEW c \in Clients, NEW ops, Handles(c, ops)
    PROVE  /\ todo[c] # <<>> /\ conn[c].socket # "closed" /\ c \notin waiting
           /\ Head(todo[c]).op \in ops /\ Head(todo[c]) \in Commands
<1>1. todo[c] # <<>> /\ Head(todo[c]).op \in ops
  BY DEF Handles
<1>. QED
  BY <1>1, ChunkRest DEF Chunked

LEMMA SubscribeSteps ==
    ASSUME IInv, NEW c \in Clients, Subscribe(c)
    PROVE  IInv'
<1>. DEFINE cmd == Head(todo[c])
            kind == IF cmd.op = "SUBSCRIBE" THEN "subscribe" ELSE "psubscribe"
            new == NewNames(c, cmd.names)
            frames == Acks(kind, cmd.names, ToSet(byConnection[c]), TRUE)
            P == {i \in DOMAIN cmd.names : /\ ~Contains(byConnection[c], cmd.names[i])
                                           /\ \A j \in 1..(i - 1) : cmd.names[j] # cmd.names[i]}
<1>0. Broker /\ Modes /\ Outputs /\ Chunked
  BY DEF IInv
<1>1. Handles(c, {"SUBSCRIBE", "PSUBSCRIBE"}) /\ UpdateMode(c) /\ UNCHANGED <<waiting, inputs>>
      /\ Enlist(c, new) /\ Pushed(c, frames)
  BY DEF Subscribe
<1>2. todo[c] # <<>> /\ conn[c].socket # "closed" /\ cmd \in Commands
      /\ cmd.op \in {"SUBSCRIBE", "PSUBSCRIBE"}
  BY <1>0, <1>1, Handling
<1>3. cmd.names \in Seq(Names) /\ cmd.names # <<>>
  BY <1>2, CommandShape
<1>4. byConnection[c] \in Seq(Names)
  BY <1>0 DEF Broker
<1>5. kind \in Kinds /\ IsFiniteSet(ToSet(byConnection[c]))
  BY <1>4, SubsFinite DEF Kinds
<1>6. frames \in Seq(Frames)
  <2>. HIDE DEF kind, cmd
  <2>. QED  BY <1>3, <1>5, AcksType
<1>7. new = Chosen(cmd.names, P)
  BY DEF NewNames
<1>. HIDE DEF cmd, kind, frames, new
<1>8. \A x : Contains(byConnection[c], x) <=> x \in ToSet(byConnection[c])
  BY <1>4 DEF Contains, ToSet
<1>9. \A i, j \in DOMAIN cmd.names : i \in P /\ j \in P /\ cmd.names[i] = cmd.names[j] => i = j
  <2>1. ASSUME NEW i \in DOMAIN cmd.names, NEW j \in DOMAIN cmd.names, i \in P, j \in P, i < j
        PROVE  cmd.names[i] # cmd.names[j]
    <3>1. i \in 1..(j - 1)  BY <1>3, <2>1
    <3>. QED  BY <2>1, <3>1
  <2>2. \A i, j \in DOMAIN cmd.names : i < j \/ j < i \/ i = j
    BY <1>3
  <2>. HIDE DEF P
  <2>. QED  BY <2>1, <2>2
<1>10. \A i \in DOMAIN cmd.names : i \in P => cmd.names[i] \notin ToSet(byConnection[c])
  BY <1>8
<1>11. byConnection[c] # <<>> \/ 1 \in P
  <2>1. 1 \in DOMAIN cmd.names  BY <1>3, EmptySeq
  <2>2. ASSUME byConnection[c] = <<>> PROVE 1 \in P
    <3>1. \A x : ~Contains(byConnection[c], x)  BY <1>8, <2>2 DEF ToSet
    <3>. QED  BY <2>1, <3>1
  <2>. QED  BY <2>2
<1>. HIDE DEF P
<1>12. new \in Seq(Names) /\ IsInjective(new)
       /\ \A x : x \in ToSet(new) <=> \E i \in DOMAIN cmd.names : i \in P /\ cmd.names[i] = x
  BY <1>3, <1>7, <1>9, ChosenElements
<1>13. \A n \in ToSet(new) : n \notin ToSet(byConnection[c])
  BY <1>10, <1>12
<1>14. byConnection[c] # <<>> \/ new # <<>>
  <2>1. 1 \in DOMAIN cmd.names  BY <1>3, EmptySeq
  <2>2. ASSUME 1 \in P PROVE new # <<>>
    <3>1. cmd.names[1] \in ToSet(new)  BY <1>12, <2>1, <2>2
    <3>. QED  BY <3>1 DEF ToSet
  <2>. QED  BY <1>11, <2>2
<1>15. Broker' /\ c \in known' /\ byConnection'[c] # <<>> /\ known' \ {c} = known \ {c}
  BY <1>0, <1>1, <1>12, <1>13, <1>14, EnlistSteps
<1>16. Outputs' /\ Chunked' /\ SocketsStay
  BY <1>0, <1>1, <1>2, <1>6, PushedKeeps
<1>17. Modes'
  BY <1>0, <1>1, <1>2, <1>15, <1>16, ModesFollow
<1>. QED
  BY <1>15, <1>16, <1>17 DEF IInv

LEMMA UnsubscribeSteps ==
    ASSUME IInv, NEW c \in Clients, Unsubscribe(c)
    PROVE  IInv'
<1>. DEFINE cmd == Head(todo[c])
            kind == IF cmd.op = "UNSUBSCRIBE" THEN "unsubscribe" ELSE "punsubscribe"
            names == IF cmd.names = <<>> THEN Own(c, cmd.op) ELSE cmd.names
            subs == ToSet(byConnection[c])
            frames == IF names = <<>> THEN <<Frame(kind, "", Cardinality(subs), 1)>>
                      ELSE Acks(kind, names, subs, FALSE)
<1>0. Broker /\ Modes /\ Outputs /\ Chunked
  BY DEF IInv
<1>1. Handles(c, {"UNSUBSCRIBE", "PUNSUBSCRIBE"}) /\ UpdateMode(c) /\ UNCHANGED <<waiting, inputs>>
      /\ Delist(c, ToSet(names) \cap subs) /\ Pushed(c, frames)
  BY DEF Unsubscribe
<1>2. todo[c] # <<>> /\ conn[c].socket # "closed" /\ cmd \in Commands
  BY <1>0, <1>1, Handling
<1>3. byConnection[c] \in Seq(Names)
  BY <1>0 DEF Broker
<1>4. names \in Seq(Names)
  <2>1. cmd.names \in Seq(Names)  BY <1>2, CommandShape
  <2>2. Own(c, cmd.op) \in Seq(Names)  BY <1>3, OnlyElements DEF Own
  <2>. HIDE DEF cmd
  <2>. QED  BY <2>1, <2>2
<1>5. kind \in Kinds /\ IsFiniteSet(subs)
  BY <1>3, SubsFinite DEF Kinds
<1>. HIDE DEF cmd, kind, names, subs
<1>6. frames \in Seq(Frames)
  <2>1. Cardinality(subs) \in Nat  BY <1>5, FS_CardinalityType
  <2>2. "" \in Names \cup {""}  BY Zenon
  <2>3. 1 \in Nat \ {0}  OBVIOUS
  <2>4. Frame(kind, "", Cardinality(subs), 1) \in Frames  BY <1>5, <2>1, <2>2, <2>3, FrameType
  <2>5. \A frame \in Frames : <<frame>> \in Seq(Frames)  OBVIOUS
  <2>6. Acks(kind, names, subs, FALSE) \in Seq(Frames)  BY <1>4, <1>5, AcksType
  <2>. QED  BY <2>4, <2>5, <2>6
<1>. HIDE DEF frames
<1>7. Broker' /\ (c \in known' <=> byConnection'[c] # <<>>) /\ known' \ {c} = known \ {c}
  BY <1>0, <1>1, DelistSteps
<1>8. Outputs' /\ Chunked' /\ SocketsStay
  BY <1>0, <1>1, <1>2, <1>6, PushedKeeps
<1>9. Modes'
  BY <1>0, <1>1, <1>2, <1>7, <1>8, ModesFollow
<1>. QED
  BY <1>7, <1>8, <1>9 DEF IInv

\* Outside a chunk only the output of c changes, and nothing of its chunk.
LEMMA OutputKeeps ==
    ASSUME Outputs, Chunked, NEW c \in Clients, NEW o, Sound(o), conn' = [conn EXCEPT ![c] = o],
           Idle \/ o.socket = conn[c].socket, UNCHANGED <<todo, inputs>>,
           waiting' \subseteq waiting, owed' \in [Clients -> Nat],
           \A d \in Clients : owed'[d] >= Len(todo[d]) /\ (d \in waiting' => owed'[d] >= 1)
    PROVE  Outputs' /\ Chunked' /\ (SameClosed(conn[c], o) => SocketsStay)
<1>1. conn' \in [Clients -> Connections] /\ conn'[c] = o
      /\ \A d \in Clients \ {c} : conn'[d] = conn[d]
  BY DEF Outputs, Sound
<1>2. Outputs'
  BY <1>1 DEF Outputs
<1>3. ASSUME NEW d \in Clients, todo[d] # <<>>
      PROVE  conn'[d].socket \in {"open", "finishing"} /\ d \notin waiting'
  BY <1>1, <1>3 DEF Chunked, Idle
<1>4. Chunked'
  BY <1>3 DEF Chunked
<1>. QED
  BY <1>1, <1>2, <1>4 DEF SocketsStay, SameClosed

\* ... with nothing owed that was not owed before.
LEMMA OwedStays ==
    ASSUME Chunked, UNCHANGED owed
    PROVE  /\ owed' \in [Clients -> Nat]
           /\ \A d \in Clients : owed'[d] >= Len(todo[d]) /\ (d \in waiting => owed'[d] >= 1)
<1>. QED  BY DEF Chunked

LEMMA PingSteps == ASSUME IInv, NEW c \in Clients, Ping(c) PROVE IInv'
<1>0. Broker /\ Modes /\ Outputs /\ Chunked
  BY DEF IInv
<1>1. Handles(c, {"PING"}) /\ UNCHANGED brokerVars /\ UNCHANGED <<known, pubSubMode>>
      /\ UNCHANGED <<waiting, inputs>>
  BY DEF Ping, brokerVars
<1>2. todo[c] # <<>>
  BY <1>0, <1>1, Handling
<1>3. Plain("pong") \in Frames /\ <<Plain("pong")>> \in Seq(Frames) /\ Plain("reply") \in Frames
  <2>1. "pong" \in Kinds /\ "reply" \in Kinds  BY DEF Kinds
  <2>. QED  BY <2>1, PlainType
<1>4. Outputs' /\ Chunked' /\ SocketsStay
  <2>1. CASE Pushed(c, <<Plain("pong")>>)
    BY <1>0, <1>1, <1>2, <1>3, <2>1, PushedKeeps
  <2>2. CASE Answered(c, WriteResponse(conn[c], Plain("reply")))
    BY <1>0, <1>1, <1>2, <1>3, <2>2, AnsweredKeeps
  <2>. QED  BY <2>1, <2>2 DEF Ping
<1>. QED
  BY <1>0, <1>1, <1>4, BrokerStays, ModesStay DEF IInv

LEMMA OtherSteps == ASSUME IInv, NEW c \in Clients, Other(c) PROVE IInv'
<1>0. Broker /\ Modes /\ Outputs /\ Chunked
  BY DEF IInv
<1>1. Handles(c, {"OTHER", "BLPOP"}) /\ UNCHANGED brokerVars /\ UNCHANGED <<known, pubSubMode>>
      /\ UNCHANGED <<waiting, inputs>> /\ Answered(c, WriteResponse(conn[c], Plain("reply")))
  BY DEF Other, brokerVars
<1>2. todo[c] # <<>>
  BY <1>0, <1>1, Handling
<1>3. Plain("reply") \in Frames
  <2>1. "reply" \in Kinds  BY DEF Kinds
  <2>. QED  BY <2>1, PlainType
<1>4. Outputs' /\ Chunked' /\ SocketsStay
  BY <1>0, <1>1, <1>2, <1>3, AnsweredKeeps
<1>. QED
  BY <1>0, <1>1, <1>4, BrokerStays, ModesStay DEF IInv

LEMMA BlockSteps == ASSUME IInv, NEW c \in Clients, Block(c) PROVE IInv'
<1>0. Broker /\ Modes /\ Outputs /\ Chunked
  BY DEF IInv
<1>1. Handles(c, {"BLPOP"}) /\ UNCHANGED brokerVars /\ UNCHANGED <<known, pubSubMode>>
      /\ UNCHANGED <<conn, owed, inputs>> /\ waiting' = waiting \cup {c}
      /\ todo' = [todo EXCEPT ![c] = <<>>]
  BY DEF Block, brokerVars
<1>2. todo[c] # <<>>
  BY <1>0, <1>1, Handling
<1>3. <<>> \in Seq(Commands) /\ Len(<<>>) = 0 /\ owed[c] >= 1
  BY <1>0, <1>2, ChunkRest
<1>4. todo' \in [Clients -> Seq(Commands)] /\ todo'[c] = <<>>
      /\ \A d \in Clients \ {c} : todo'[d] = todo[d]
  BY <1>0, <1>1, <1>3 DEF Chunked
<1>5. Chunked'
  <2>1. ASSUME NEW d \in Clients
        PROVE  /\ todo'[d] # <<>> => conn'[d].socket \in {"open", "finishing"} /\ d \notin waiting'
               /\ owed'[d] >= Len(todo'[d])
               /\ d \in waiting' => owed'[d] >= 1
    <3>1. CASE d = c  BY <1>0, <1>1, <1>3, <1>4, <3>1 DEF Chunked
    <3>2. CASE d # c  BY <1>0, <1>1, <1>4, <3>2 DEF Chunked
    <3>. QED  BY <3>1, <3>2
  <2>2. waiting' \subseteq Clients /\ owed' \in [Clients -> Nat] /\ inputs' \in 0..MaxInput
    BY <1>0, <1>1 DEF Chunked
  <2>. QED  BY <1>4, <2>1, <2>2 DEF Chunked
<1>6. Outputs' /\ SocketsStay
  BY <1>0, <1>1 DEF Outputs, SocketsStay, SameClosed
<1>. QED
  BY <1>0, <1>1, <1>5, <1>6, BrokerStays, ModesStay DEF IInv

LEMMA QuitSteps == ASSUME IInv, NEW c \in Clients, Quit(c) PROVE IInv'
<1>. DEFINE o == WriteResponse(conn[c], Plain("OK"))
            w == IF o.output THEN OutputEnd(o) ELSE SocketEnd(o)
<1>0. Broker /\ Modes /\ Outputs /\ Chunked
  BY DEF IInv
<1>1. Handles(c, {"QUIT"}) /\ UNCHANGED brokerVars /\ UNCHANGED <<known, pubSubMode>>
      /\ UNCHANGED <<waiting, inputs>> /\ conn' = [conn EXCEPT ![c] = w]
      /\ todo' = [todo EXCEPT ![c] = <<>>] /\ owed' = [owed EXCEPT ![c] = 0]
  BY DEF Quit, brokerVars
<1>2. todo[c] # <<>> /\ c \notin waiting
  BY <1>0, <1>1, Handling
<1>3. Sound(o) /\ SameClosed(conn[c], o)
  <2>1. "OK" \in Kinds  BY DEF Kinds
  <2>2. Plain("OK") \in Frames  BY <2>1, PlainType
  <2>. QED  BY <1>0, <2>2, WriteResponseSound DEF Outputs
<1>. HIDE DEF o
<1>4. Sound(w) /\ SameClosed(conn[c], w)
  BY <1>3, QuitSound DEF SameClosed
<1>. HIDE DEF w
<1>5. conn' \in [Clients -> Connections] /\ conn'[c] = w
      /\ \A d \in Clients \ {c} : conn'[d] = conn[d]
  BY <1>0, <1>1, <1>4 DEF Outputs, Sound
<1>6. Outputs' /\ SocketsStay
  BY <1>0, <1>4, <1>5 DEF Outputs, SocketsStay, SameClosed
<1>7. <<>> \in Seq(Commands) /\ Len(<<>>) = 0
  OBVIOUS
<1>8. todo' \in [Clients -> Seq(Commands)] /\ todo'[c] = <<>>
      /\ (\A d \in Clients \ {c} : todo'[d] = todo[d])
      /\ owed' \in [Clients -> Nat] /\ owed'[c] = 0
      /\ \A d \in Clients \ {c} : owed'[d] = owed[d]
  BY <1>0, <1>1, <1>7 DEF Chunked
<1>9. Chunked'
  <2>1. ASSUME NEW d \in Clients
        PROVE  /\ todo'[d] # <<>> => conn'[d].socket \in {"open", "finishing"} /\ d \notin waiting
               /\ owed'[d] >= Len(todo'[d])
               /\ d \in waiting => owed'[d] >= 1
    <3>1. CASE d = c  BY <1>2, <1>7, <1>8, <3>1
    <3>2. CASE d # c  BY <1>0, <1>5, <1>8, <3>2 DEF Chunked
    <3>. QED  BY <3>1, <3>2
  <2>. QED  BY <1>0, <1>1, <1>8, <2>1 DEF Chunked
<1>. QED
  BY <1>0, <1>1, <1>6, <1>9, BrokerStays, ModesStay DEF IInv

LEMMA ReceiveSteps == ASSUME IInv, NEW c \in Clients, Receive(c) PROVE IInv'
<1>0. Broker /\ Modes /\ Outputs /\ Chunked
  BY DEF IInv
<1>1. UNCHANGED brokerVars /\ UNCHANGED <<known, pubSubMode>> /\ UNCHANGED <<conn, waiting>>
      /\ c \notin waiting /\ conn[c].socket \in {"open", "finishing"}
      /\ inputs < MaxInput /\ inputs' = inputs + 1
  BY DEF Receive, brokerVars
<1>2. PICK chunk \in Chunks[c] : /\ todo' = [todo EXCEPT ![c] = chunk]
                                 /\ owed' = [owed EXCEPT ![c] = @ + Len(chunk)]
  BY DEF Receive
<1>3. chunk \in Seq(Commands)
  <2>. DEFINE S == [op : Ops, names : Seq(Names)]
  <2>. HIDE DEF S
  <2>1. chunk \in Seq(S)  BY PubSubAssumption DEF S
  <2>2. \A i \in DOMAIN chunk : chunk[i] \in Commands
    <3>1. ToSet(chunk) \subseteq Commands  BY DEF Commands
    <3>. QED  BY <3>1 DEF ToSet
  <2>. QED  BY <2>1, <2>2
<1>4. Len(chunk) \in Nat /\ owed[c] \in Nat /\ MaxInput \in Nat
  BY <1>0, <1>3, PubSubAssumption DEF Chunked
<1>5. todo' \in [Clients -> Seq(Commands)] /\ todo'[c] = chunk
      /\ \A d \in Clients \ {c} : todo'[d] = todo[d]
  BY <1>0, <1>2, <1>3 DEF Chunked
<1>6. owed' \in [Clients -> Nat] /\ owed'[c] = owed[c] + Len(chunk)
      /\ \A d \in Clients \ {c} : owed'[d] = owed[d]
  BY <1>0, <1>2, <1>4 DEF Chunked
<1>7. Chunked'
  <2>1. ASSUME NEW d \in Clients
        PROVE  /\ todo'[d] # <<>> => conn'[d].socket \in {"open", "finishing"} /\ d \notin waiting'
               /\ owed'[d] >= Len(todo'[d])
               /\ d \in waiting' => owed'[d] >= 1
    <3>1. CASE d = c  BY <1>1, <1>4, <1>5, <1>6, <3>1
    <3>2. CASE d # c  BY <1>0, <1>1, <1>5, <1>6, <3>2 DEF Chunked
    <3>. QED  BY <3>1, <3>2
  <2>2. waiting' \subseteq Clients /\ inputs' \in 0..MaxInput
    BY <1>0, <1>1, <1>4 DEF Chunked
  <2>. QED  BY <1>5, <1>6, <2>1, <2>2 DEF Chunked
<1>8. Outputs' /\ SocketsStay
  BY <1>0, <1>1 DEF Outputs, SocketsStay, SameClosed
<1>. QED
  BY <1>0, <1>1, <1>7, <1>8, BrokerStays, ModesStay DEF IInv

LEMMA PublishSteps ==
    ASSUME IInv, NEW channel \in Channels, NEW size \in Sizes, Publish(channel, size) PROVE IInv'
<1>0. Broker /\ Modes /\ Outputs /\ Chunked
  BY DEF IInv
<1>1. Idle /\ UNCHANGED brokerVars /\ UNCHANGED <<known, pubSubMode>>
      /\ UNCHANGED <<waiting, todo, owed>> /\ inputs < MaxInput /\ inputs' = inputs + 1
  BY DEF Publish, brokerVars
<1>2. ASSUME NEW d \in Clients
      PROVE  conn'[d] \in Connections /\ Sound(conn'[d]) /\ SameClosed(conn[d], conn'[d])
  <2>. DEFINE frames == Messages(d, channel, inputs, size)
              w == WritePubSub(conn[d], frames)
  <2>1. inputs \in Nat  BY <1>0 DEF Chunked
  <2>2. frames \in Seq(Frames)  BY <1>0, <2>1, MessagesType
  <2>3. conn'[d] = w  BY DEF Publish
  <2>. HIDE DEF frames
  <2>4. Sound(conn[d])  BY <1>0 DEF Outputs
  <2>5. Sound(w) /\ SameClosed(conn[d], w)  BY <2>2, <2>4, WritePubSubSound
  <2>6. w \in Connections  BY <2>5 DEF Sound
  <2>. QED  BY <2>3, <2>5, <2>6
<1>3. conn' \in [Clients -> Connections]
  <2>1. conn' = [d \in Clients |-> conn'[d]]  BY DEF Publish
  <2>. QED  BY <1>2, <2>1
<1>4. Outputs' /\ SocketsStay
  BY <1>2, <1>3 DEF Outputs, SocketsStay
<1>5. inputs' \in 0..MaxInput
  BY <1>0, <1>1, PubSubAssumption DEF Chunked
<1>6. Chunked'
  BY <1>0, <1>1, <1>5 DEF Chunked, Idle
<1>. QED
  BY <1>0, <1>1, <1>4, <1>6, BrokerStays, ModesStay DEF IInv

LEMMA WakeSteps == ASSUME IInv, NEW c \in Clients, Wake(c) PROVE IInv'
<1>. DEFINE o == WriteResponse(conn[c], Plain("reply"))
<1>0. Broker /\ Modes /\ Outputs /\ Chunked
  BY DEF IInv
<1>1. Idle /\ UNCHANGED brokerVars /\ UNCHANGED <<known, pubSubMode>> /\ UNCHANGED <<todo, inputs>>
      /\ c \in waiting /\ waiting' = waiting \ {c} /\ owed' = [owed EXCEPT ![c] = @ - 1]
  BY DEF Wake, brokerVars
<1>2. conn' = [conn EXCEPT ![c] = o]
  BY <1>0 DEF Wake, Outputs
<1>3. Sound(o) /\ SameClosed(conn[c], o)
  <2>1. "reply" \in Kinds  BY DEF Kinds
  <2>2. Plain("reply") \in Frames  BY <2>1, PlainType
  <2>. QED  BY <1>0, <2>2, WriteResponseSound DEF Outputs
<1>. HIDE DEF o
<1>4. owed[c] \in Nat /\ owed[c] >= 1 /\ todo[c] = <<>> /\ Len(<<>>) = 0
  BY <1>0, <1>1 DEF Chunked, Idle
<1>5. owed' \in [Clients -> Nat] /\ owed'[c] = owed[c] - 1
      /\ \A d \in Clients \ {c} : owed'[d] = owed[d]
  BY <1>0, <1>1, <1>4 DEF Chunked
<1>6. ASSUME NEW d \in Clients
      PROVE  owed'[d] >= Len(todo[d]) /\ (d \in waiting' => owed'[d] >= 1)
  <2>1. CASE d = c  BY <1>1, <1>4, <1>5, <2>1
  <2>2. CASE d # c  BY <1>0, <1>1, <1>5, <2>2 DEF Chunked
  <2>. QED  BY <2>1, <2>2
<1>7. waiting' \subseteq waiting
  BY <1>1
<1>8. Outputs' /\ Chunked' /\ SocketsStay
  BY <1>0, <1>1, <1>2, <1>3, <1>5, <1>6, <1>7, OutputKeeps
<1>. QED
  BY <1>0, <1>1, <1>8, BrokerStays, ModesStay DEF IInv

LEMMA FlushSteps == ASSUME IInv, NEW c \in Clients, Flush(c) PROVE IInv'
<1>. DEFINE o == [conn[c] EXCEPT !.wire = Tail(conn[c].wire)]
<1>0. Broker /\ Modes /\ Outputs /\ Chunked
  BY DEF IInv
<1>1. UNCHANGED brokerVars /\ UNCHANGED <<known, pubSubMode>> /\ UNCHANGED <<todo, inputs>>
      /\ UNCHANGED <<waiting, owed>> /\ conn[c].wire # <<>>
  BY DEF Flush, brokerVars
<1>2. conn[c] \in Connections /\ Sound(conn[c])
  BY <1>0 DEF Outputs
<1>3. conn' = [conn EXCEPT ![c] = o]
  BY <1>0, <1>2 DEF Flush, Outputs, Connections
<1>4. Sound(o)
  BY <1>1, <1>2, FlushSound
<1>5. o.socket = conn[c].socket
  BY <1>2 DEF Connections
<1>. HIDE DEF o
<1>6. Outputs' /\ Chunked' /\ SocketsStay
  <2>1. SameClosed(conn[c], o)  BY <1>5 DEF SameClosed
  <2>. QED  BY <1>0, <1>1, <1>3, <1>4, <1>5, <2>1, OutputKeeps, OwedStays
<1>. QED
  BY <1>0, <1>1, <1>6, BrokerStays, ModesStay DEF IInv

LEMMA DrainSteps == ASSUME IInv, NEW c \in Clients, Drain(c) PROVE IInv'
<1>. DEFINE o == IF conn[c].output THEN Drained(conn[c]) ELSE [conn[c] EXCEPT !.needDrain = FALSE]
<1>0. Broker /\ Modes /\ Outputs /\ Chunked
  BY DEF IInv
<1>1. UNCHANGED brokerVars /\ UNCHANGED <<known, pubSubMode>> /\ UNCHANGED <<todo, inputs>>
      /\ UNCHANGED <<waiting, owed>> /\ conn[c].wire = <<>> /\ conn[c].socket = "open" /\ Idle
  BY DEF Drain, brokerVars
<1>2. conn[c] \in Connections /\ Sound(conn[c])
  BY <1>0 DEF Outputs
<1>3. conn' = [conn EXCEPT ![c] = o]
  BY <1>0, <1>2 DEF Drain, Outputs
<1>4. Sound(o) /\ SameClosed(conn[c], o)
  <2>1. CASE conn[c].output
    BY <1>1, <1>2, <2>1, DrainedSound
  <2>2. CASE ~conn[c].output
    <3>1. o = [conn[c] EXCEPT !.needDrain = FALSE]  BY <2>2
    <3>. HIDE DEF o
    <3>2. o.socket = conn[c].socket  BY <1>2, <3>1 DEF Connections
    <3>. QED  BY <1>2, <2>2, <3>1, <3>2, PlainDrainSound DEF SameClosed
  <2>. QED  BY <2>1, <2>2
<1>. HIDE DEF o
<1>5. Outputs' /\ Chunked' /\ SocketsStay
  BY <1>0, <1>1, <1>3, <1>4, OutputKeeps, OwedStays
<1>. QED
  BY <1>0, <1>1, <1>5, BrokerStays, ModesStay DEF IInv

LEMMA LeaveSteps == ASSUME IInv, NEW c \in Clients, Leave(c) PROVE IInv'
<1>. DEFINE o == Destroyed(conn[c])
<1>0. Broker /\ Modes /\ Outputs /\ Chunked
  BY DEF IInv
<1>1. UNCHANGED brokerVars /\ UNCHANGED <<known, pubSubMode>> /\ UNCHANGED <<todo, inputs>>
      /\ UNCHANGED <<waiting, owed>> /\ conn[c].socket # "closed" /\ Idle
  BY DEF Leave, brokerVars
<1>2. conn[c] \in Connections /\ Sound(conn[c]) /\ Steady(conn[c])
  BY <1>0 DEF Outputs, Sound
<1>3. conn' = [conn EXCEPT ![c] = o]
  BY <1>0 DEF Leave, Outputs
<1>4. Sound(o) /\ SameClosed(conn[c], o)
  BY <1>1, <1>2, DestroyedSound DEF SameClosed
<1>. HIDE DEF o
<1>5. Outputs' /\ Chunked' /\ SocketsStay
  BY <1>0, <1>1, <1>3, <1>4, OutputKeeps, OwedStays
<1>. QED
  BY <1>0, <1>1, <1>5, BrokerStays, ModesStay DEF IInv

\* The 'close' event leaves no subscription.
LEMMA CloseSteps == ASSUME IInv, NEW c \in Clients, Close(c) PROVE IInv'
<1>. DEFINE o == [conn[c] EXCEPT !.socket = "closed"]
<1>0. Broker /\ Modes /\ Outputs /\ Chunked
  BY DEF IInv
<1>1. UNCHANGED pubSubMode /\ UNCHANGED <<todo, inputs>> /\ UNCHANGED owed
      /\ conn[c].socket = "destroyed" /\ Idle /\ waiting' = waiting \ {c}
      /\ Delist(c, ToSet(byConnection[c]))
  BY DEF Close
<1>2. conn[c] \in Connections /\ Sound(conn[c])
  BY <1>0 DEF Outputs
<1>3. conn' = [conn EXCEPT ![c] = o]
  BY <1>0, <1>2 DEF Close, Outputs, Connections
<1>4. o \in Connections /\ o.socket = "closed" /\ o.output = conn[c].output
      /\ o.queue = conn[c].queue /\ o.queued = conn[c].queued /\ o.blocked = conn[c].blocked
      /\ o.ending = conn[c].ending
  BY <1>2 DEF Connections
<1>. HIDE DEF o
<1>5. Sound(o)
  BY <1>1, <1>2, <1>4 DEF Sound, Steady, Bounded
<1>6. Outputs' /\ Chunked'
  <2>1. waiting' \subseteq waiting  BY <1>1
  <2>. QED  BY <1>0, <1>1, <1>3, <1>5, <2>1, OutputKeeps, OwedStays
<1>7. Broker' /\ (c \in known' <=> byConnection'[c] # <<>>) /\ known' \ {c} = known \ {c}
      /\ ToSet(byConnection'[c]) = {}
  <2>1. Broker' /\ (c \in known' <=> byConnection'[c] # <<>>) /\ known' \ {c} = known \ {c}
        /\ ToSet(byConnection'[c]) = ToSet(byConnection[c]) \ ToSet(byConnection[c])
    BY <1>0, <1>1, DelistSteps
  <2>. QED  BY <2>1
<1>8. c \notin known'
  <2>1. byConnection'[c] \in Seq(Names)  BY <1>7 DEF Broker
  <2>2. byConnection'[c] = <<>>
    <3>. DEFINE s == byConnection'[c]
    <3>1. s \in Seq(Names) /\ ToSet(s) = {}  BY <1>7, <2>1
    <3>. HIDE DEF s
    <3>2. Len(s) \in Nat /\ DOMAIN s = 1..Len(s)  BY <3>1
    <3>3. 1 \notin 1..Len(s)  BY <3>1, <3>2 DEF ToSet
    <3>4. Len(s) = 0  BY <3>2, <3>3
    <3>5. s = <<>>  BY <3>1, <3>4, EmptySeq
    <3>. QED  BY <3>5 DEF s
  <2>. QED  BY <1>7, <2>2
<1>9. conn'[c] = o /\ \A d \in Clients \ {c} : conn'[d] = conn[d]
  BY <1>0, <1>3 DEF Outputs
<1>10. Modes'
  <2>1. \A d \in Clients \ {c} : d \in known' <=> d \in known  BY <1>7
  <2>. QED  BY <1>0, <1>1, <1>4, <1>8, <1>9, <2>1 DEF Modes
<1>. QED
  BY <1>6, <1>7, <1>10 DEF IInv

-----------------------------------------------------------------------------
(* The theorems.                                                           *)

\* Every step keeps the invariant.
LEMMA InvStep == IInv /\ [Next]_vars => IInv'
<1>. SUFFICES ASSUME IInv, [Next]_vars PROVE IInv'
  OBVIOUS
<1>1. CASE UNCHANGED vars
  <2>1. UNCHANGED brokerVars /\ UNCHANGED <<pubSubMode, conn, waiting, todo, owed, inputs>>
    BY <1>1 DEF vars
  <2>2. Broker'  BY <2>1, BrokerStays DEF IInv
  <2>3. Modes'  BY <2>1 DEF IInv, Modes, brokerVars
  <2>4. Outputs' /\ Chunked'  BY <2>1 DEF IInv, Outputs, Chunked
  <2>. QED  BY <2>2, <2>3, <2>4 DEF IInv
<1>2. ASSUME NEW c \in Clients, Execute(c) PROVE IInv'
  BY <1>2, SubscribeSteps, UnsubscribeSteps, PingSteps, OtherSteps, BlockSteps, QuitSteps DEF Execute
<1>3. ASSUME NEW c \in Clients, Receive(c) PROVE IInv'  BY <1>3, ReceiveSteps
<1>4. ASSUME NEW c \in Clients, Wake(c) PROVE IInv'  BY <1>4, WakeSteps
<1>5. ASSUME NEW c \in Clients, Flush(c) PROVE IInv'  BY <1>5, FlushSteps
<1>6. ASSUME NEW c \in Clients, Drain(c) PROVE IInv'  BY <1>6, DrainSteps
<1>7. ASSUME NEW c \in Clients, Leave(c) PROVE IInv'  BY <1>7, LeaveSteps
<1>8. ASSUME NEW c \in Clients, Close(c) PROVE IInv'  BY <1>8, CloseSteps
<1>9. ASSUME NEW channel \in Channels, NEW size \in Sizes, Publish(channel, size) PROVE IInv'
  BY <1>9, PublishSteps
<1>. QED
  BY <1>1, <1>2, <1>3, <1>4, <1>5, <1>6, <1>7, <1>8, <1>9 DEF Next

\* Every variable keeps its type: what is written and queued are frames, and no more answers are
\* given than are owed.
THEOREM TypeCorrect == Spec => []TypeOK
<1>. QED  BY InvInit, InvStep, InvShows, PTL DEF Spec

\* Whatever chunks come and connections go, the broker's maps say the same in both directions,
\* without empty entries, and pubSubMode with them.
THEOREM MapsAlwaysAgree == Spec => []MapsAgree
<1>. QED  BY InvInit, InvStep, InvShows, PTL DEF Spec

\* queuedBytes is always right, no more than maxPendingBytes ever waits for a connection that has
\* been a subscriber, and nothing waits in a queue that no 'drain' event will come for.
THEOREM OutputsStaySound == Spec => []OutputIsSound
<1>. QED  BY InvInit, InvStep, InvShows, PTL DEF Spec

-----------------------------------------------------------------------------
(* The view that Delivery has of a connection.                             *)

Subs(c) == IF Link(c) = "open" THEN ToSet(byConnection[c]) ELSE {}
Pending(c) == conn[c].wire \o conn[c].queue
Bound(c) == conn[c].output /\ Link(c) = "open"

\* Delivery sees no change in d.
Same(d) == /\ Link(d)' = Link(d) /\ Subs(d)' = Subs(d)
           /\ Pending(d)' = Pending(d) /\ (Bound(d)' <=> Bound(d))
\* The frames go to c, within its limit if it has one; or c is cut off, with so many bytes too many.
Goes(c, frames) ==
    /\ Link(c)' = Link(c)
    /\ Pending(c)' = Pending(c) \o frames
    /\ Bound(c)' => Bytes(Pending(c) \o frames) <= maxPendingBytes
Falls(c, bytes) ==
    /\ Link(c)' = "gone"
    /\ Pending(c)' = <<>>
    /\ Bytes(Pending(c)) + bytes > maxPendingBytes

LEMMA SameBytes == \A s : Promise!Bytes(s) = Bytes(s)
<1>. QED  BY DEF Promise!Bytes, Bytes

LEMMA SameStutters == ASSUME \A d \in Clients : Same(d) PROVE UNCHANGED Promise!vars
<1>. QED  BY DEF Promise!vars, Same, Subs, Pending, Bound

LEMMA GoesAppends ==
    ASSUME NEW c \in Clients, NEW frames, Goes(c, frames) PROVE Promise!Appended(c, frames)
<1>. QED  BY SameBytes DEF Promise!Appended, Goes, Pending, Bound

LEMMA FallsCutsOff ==
    ASSUME NEW c \in Clients, NEW bytes, Falls(c, bytes) PROVE Promise!CutOff(c, bytes)
<1>. QED  BY SameBytes DEF Promise!CutOff, Falls, Pending

LEMMA OthersUntouched ==
    ASSUME NEW c \in Clients, \A d \in Clients \ {c} : Same(d) PROVE Promise!Untouched(Clients \ {c})
<1>. QED  BY DEF Promise!Untouched, Same, Subs, Pending

LEMMA AnswerMaps ==
    ASSUME NEW c \in Clients, \A d \in Clients \ {c} : Same(d), Link(c) = "open",
           \/ /\ \E kind \in {"reply", "pong"} : Goes(c, <<Plain(kind)>>)
              /\ Subs(c)' = Subs(c) /\ (Bound(c)' <=> Bound(c))
           \/ Falls(c, 1) /\ Bound(c)
    PROVE  Promise!Answer(c)
<1>0. Promise!Untouched(Clients \ {c})
  BY OthersUntouched
<1>1. CASE /\ \E kind \in {"reply", "pong"} : Goes(c, <<Plain(kind)>>)
           /\ Subs(c)' = Subs(c) /\ (Bound(c)' <=> Bound(c))
  <2>1. PICK kind \in {"reply", "pong"} : Goes(c, <<Plain(kind)>>)  BY <1>1
  <2>2. Promise!Appended(c, <<Plain(kind)>>)  BY <2>1, GoesAppends
  <2>3. Plain(kind) = [kind |-> kind, name |-> "", body |-> 0, size |-> 1]  BY DEF Plain, Frame
  <2>4. Link(c)' = "open"  BY <2>1 DEF Goes
  <2>. QED  BY <1>0, <1>1, <2>2, <2>3, <2>4 DEF Promise!Answer, Promise!StillOpen, Same, Bound, Subs
<1>2. CASE Falls(c, 1) /\ Bound(c)
  <2>1. Promise!CutOff(c, 1)  BY <1>2, FallsCutsOff
  <2>2. Link(c)' = "gone"  BY <1>2 DEF Falls
  <2>. QED  BY <1>0, <1>2, <2>1, <2>2 DEF Promise!Answer, Promise!StillOpen, Same, Bound, Subs
<1>. QED  BY <1>1, <1>2

LEMMA QuitMaps ==
    ASSUME NEW c \in Clients, \A d \in Clients \ {c} : Same(d), Link(c) = "open",
           \/ /\ Link(c)' = "quitting" /\ Pending(c)' = Append(Pending(c), Plain("OK"))
              /\ Bound(c) => Bytes(Pending(c)) < maxPendingBytes
           \/ Falls(c, 1) /\ Bound(c)
    PROVE  Promise!Quit(c)
<1>0. Promise!Untouched(Clients \ {c})
  BY OthersUntouched
<1>1. CASE /\ Link(c)' = "quitting" /\ Pending(c)' = Append(Pending(c), Plain("OK"))
           /\ Bound(c) => Bytes(Pending(c)) < maxPendingBytes
  <2>3. Plain("OK") = [kind |-> "OK", name |-> "", body |-> 0, size |-> 1]  BY DEF Plain, Frame
  <2>. QED  BY <1>0, <1>1, <2>3, SameBytes DEF Promise!Quit, Promise!StillOpen, Same, Bound, Subs, Pending
<1>2. CASE Falls(c, 1) /\ Bound(c)
  <2>1. Promise!CutOff(c, 1)  BY <1>2, FallsCutsOff
  <2>2. Link(c)' = "gone"  BY <1>2 DEF Falls
  <2>. QED  BY <1>0, <1>2, <2>1, <2>2 DEF Promise!Quit, Promise!StillOpen, Same, Bound, Subs
<1>. QED  BY <1>1, <1>2

LEMMA LeaveMaps ==
    ASSUME NEW c \in Clients, \A d \in Clients \ {c} : Same(d), Link(c) # "gone",
           Link(c)' = "gone", Pending(c)' = <<>>
    PROVE  Promise!Leave(c)
<1>. QED  BY DEF Promise!Leave, Promise!StillOpen, Same, Bound, Subs, Pending

LEMMA TakeMaps ==
    ASSUME NEW c \in Clients, \A d \in Clients \ {c} : Same(d), Pending(c) # <<>>,
           Pending(c)' = Tail(Pending(c)), Link(c)' = Link(c), Subs(c)' = Subs(c),
           Bound(c)' <=> Bound(c)
    PROVE  Promise!Take(c)
<1>. QED  BY DEF Promise!Take, Same, Bound, Subs, Pending

\* A sequence ends with what was put behind it.
LEMMA EndOfConcat ==
    ASSUME NEW V, NEW s \in Seq(V), NEW t \in Seq(V), t # <<>>
    PROVE  /\ Len(s) + 1 \in 1..Len(s \o t)
           /\ SubSeq(s \o t, Len(s) + 1, Len(s \o t)) = t
<1>. DEFINE u == s \o t
            e == SubSeq(u, Len(s) + 1, Len(u))
<1>1. u \in Seq(V) /\ Len(u) = Len(s) + Len(t) /\ Len(s) \in Nat /\ Len(t) \in Nat /\ Len(t) >= 1
  BY EmptySeq
<1>2. \A i \in 1..Len(t) : u[Len(s) + i] = t[i]
  OBVIOUS
<1>. HIDE DEF u
<1>3. e \in Seq(V) /\ Len(e) = Len(t) /\ \A i \in 1..Len(t) : e[i] = u[Len(s) + i]
  <2>1. Len(s) + 1 \in 1..(Len(u) + 1) /\ Len(u) \in (Len(s) + 1 - 1)..Len(u)
    BY <1>1
  <2>2. \A i \in 1..Len(t) : u[Len(s) + 1 + i - 1] = u[Len(s) + i]  BY <1>1
  <2>. QED  BY <1>1, <2>1, <2>2, SubSeqProperties
<1>. HIDE DEF e
<1>4. e = t
  BY <1>2, <1>3, SeqEqual
<1>. QED  BY <1>1, <1>4 DEF u, e

LEMMA ResubscribeMaps ==
    ASSUME NEW c \in Clients, \A d \in Clients \ {c} : Same(d), Link(c) = "open",
           Pending(c) \in Seq(Frames),
           \/ /\ \E acks \in Seq(Frames) :
                   /\ acks # <<>> /\ Goes(c, acks)
                   /\ Last(acks).kind \in {"subscribe", "unsubscribe", "psubscribe", "punsubscribe"}
                   /\ Last(acks).body = Cardinality(Subs(c)')
              /\ Bound(c)'
           \/ Falls(c, maxPendingBytes + 1)
    PROVE  Promise!Resubscribe(c)
<1>0. Promise!Untouched(Clients \ {c})
  BY OthersUntouched
<1>1. CASE /\ \E acks \in Seq(Frames) :
                   /\ acks # <<>> /\ Goes(c, acks)
                   /\ Last(acks).kind \in {"subscribe", "unsubscribe", "psubscribe", "punsubscribe"}
                   /\ Last(acks).body = Cardinality(Subs(c)')
           /\ Bound(c)'
  <2>1. PICK acks \in Seq(Frames) :
                   /\ acks # <<>> /\ Goes(c, acks)
                   /\ Last(acks).kind \in {"subscribe", "unsubscribe", "psubscribe", "punsubscribe"}
                   /\ Last(acks).body = Cardinality(Subs(c)')
    BY <1>1
  <2>2. PICK p, n : p = Pending(c) \o acks /\ n = Len(Pending(c)) + 1
    OBVIOUS
  <2>3. n \in 1..Len(p) /\ SubSeq(p, n, Len(p)) = acks
    BY <2>1, <2>2, EndOfConcat
  <2>4. /\ Bound(c)' => Promise!Bytes(Pending(c) \o acks) <= maxPendingBytes
        /\ p = Pending(c) \o acks
    BY <2>1, <2>2, SameBytes DEF Goes
  <2>5. /\ Promise!Last(acks).kind \in {"subscribe", "unsubscribe", "psubscribe", "punsubscribe"}
        /\ Promise!Last(acks).body = Promise!Cardinality(Subs(c)')
    BY <2>1 DEF Promise!Last, Last, Promise!Cardinality, Cardinality
  <2>6. Link(c)' = "open" /\ Link(c)' = Link(c) /\ Pending(c)' = p  BY <2>1, <2>2 DEF Goes
  <2>7. \E k \in 1..Len(p) :
          LET a == SubSeq(p, k, Len(p))
          IN  /\ Bound(c)' => Promise!Bytes(Pending(c) \o a) <= maxPendingBytes
              /\ p = Pending(c) \o a
              /\ Promise!Last(a).kind \in {"subscribe", "unsubscribe", "psubscribe", "punsubscribe"}
              /\ Promise!Last(a).body = Promise!Cardinality(Subs(c)')
    BY <2>3, <2>4, <2>5
  <2>8. {d \in Clients : Bound(d)}' = Promise!StillOpen({d \in Clients : Bound(d)} \cup {c})
    BY <1>1, <2>6 DEF Promise!StillOpen, Same, Bound
  <2>. QED  BY <1>0, <2>6, <2>7, <2>8 DEF Promise!Resubscribe, Promise!Appended, Bound, Subs, Pending
<1>2. CASE Falls(c, maxPendingBytes + 1)
  <2>1. Promise!CutOff(c, maxPendingBytes + 1)  BY <1>2, FallsCutsOff
  <2>2. Link(c)' = "gone"  BY <1>2 DEF Falls
  <2>3. maxPendingBytes + 1 \in 1..(maxPendingBytes + 1)  BY Limits
  <2>4. {d \in Clients : Bound(d)}' = Promise!StillOpen({d \in Clients : Bound(d)} \cup {c})
    BY <2>2 DEF Promise!StillOpen, Same, Bound
  <2>. QED  BY <1>0, <2>1, <2>2, <2>3, <2>4 DEF Promise!Resubscribe, Bound, Subs
<1>. QED  BY <1>1, <1>2

\* The frames that Delivery has c due, in some order.
DueTo(c, channel, body, size) ==
    {Frame("message", n, body, size) : n \in Subs(c) \cap {channel}}
        \cup {Frame("pmessage", n, body, size) :
                  n \in {p \in Subs(c) \cap Patterns : channel \in Matching[p]}}
Orders(S, s) == s \in [1..Cardinality(S) -> S] /\ IsInjective(s)

LEMMA SameDue ==
    ASSUME NEW c \in Clients, NEW channel, NEW body, NEW size
    PROVE  Promise!Due(c, channel, body, size) = DueTo(c, channel, body, size)
<1>. QED  BY DEF Promise!Due, DueTo, Frame, Subs

LEMMA OrdersAreSeqs == ASSUME NEW S, NEW s, Orders(S, s) PROVE s \in Promise!SetToSeqs(S)
<1>1. Promise!Cardinality(S) = Cardinality(S)
  BY DEF Promise!Cardinality, Cardinality
<1>. QED  BY <1>1 DEF Promise!SetToSeqs, Orders, IsInjective

LEMMA PublishMaps ==
    ASSUME NEW channel \in Channels, NEW body \in 0..MaxInput, NEW size \in Sizes,
           \A c \in Clients :
             LET due == DueTo(c, channel, body, size)
             IN  /\ \/ \E frames : Orders(due, frames) /\ Goes(c, frames)
                    \/ due # {} /\ Falls(c, size * Cardinality(due))
                 /\ Subs(c)' = IF Link(c)' = "open" THEN Subs(c) ELSE {}
                 /\ Bound(c)' <=> Bound(c) /\ Link(c)' = "open"
    PROVE  Promise!Publish(channel, body, size)
<1>1. ASSUME NEW c \in Clients
      PROVE  LET due == Promise!Due(c, channel, body, size)
             IN  \/ \E frames \in Promise!SetToSeqs(due) : Promise!Appended(c, frames)
                 \/ due # {} /\ Promise!CutOff(c, size * Promise!Cardinality(due))
  <2>. DEFINE due == DueTo(c, channel, body, size)
  <2>1. Promise!Due(c, channel, body, size) = due  BY SameDue
  <2>2. Promise!Cardinality(due) = Cardinality(due)
    BY DEF Promise!Cardinality, Cardinality
  <2>. HIDE DEF due
  <2>3. CASE \E frames : Orders(due, frames) /\ Goes(c, frames)
    <3>1. PICK frames : Orders(due, frames) /\ Goes(c, frames)  BY <2>3
    <3>2. frames \in Promise!SetToSeqs(due) /\ Promise!Appended(c, frames)
      BY <3>1, OrdersAreSeqs, GoesAppends
    <3>. QED  BY <2>1, <3>2
  <2>4. CASE due # {} /\ Falls(c, size * Cardinality(due))
    <3>1. Promise!CutOff(c, size * Promise!Cardinality(Promise!Due(c, channel, body, size)))
      BY <2>1, <2>2, <2>4, SameBytes DEF Promise!CutOff, Falls, Pending
    <3>. QED  BY <2>1, <2>4, <3>1
  <2>. QED  BY <2>3, <2>4 DEF due
<1>2. ASSUME NEW c \in Clients
      PROVE  Subs(c)' = IF Link(c)' = "open" THEN Subs(c) ELSE {}
  OBVIOUS
<1>3. {d \in Clients : Bound(d)}' = Promise!StillOpen({d \in Clients : Bound(d)})
  BY DEF Promise!StillOpen, Bound
<1>. QED  BY <1>1, <1>2, <1>3 DEF Promise!Publish, Subs, Bound

-----------------------------------------------------------------------------
(* What a write does to what waits for a connection.                       *)

Waits(o) == o.wire \o o.queue
\* w has the frames behind what waited at o; w is o cut off, by so many bytes too many; w holds
\* what o holds.
Takes(o, w, frames) ==
    /\ w.socket = o.socket /\ w.ending = o.ending
    /\ Waits(w) = Waits(o) \o frames
    /\ w.output => Bytes(Waits(w)) <= maxPendingBytes
Drops(o, w, bytes) ==
    /\ w.socket = "destroyed" /\ Waits(w) = <<>>
    /\ Bytes(Waits(o)) + bytes > maxPendingBytes
Holds(o, w) == w.socket = o.socket /\ w.ending = o.ending /\ w.wire = o.wire /\ w.queue = o.queue

\* The bytes of two sequences, one behind the other.
LEMMA BytesOfConcat ==
    ASSUME NEW s \in Seq(Frames), NEW t \in Seq(Frames)
    PROVE  s \o t \in Seq(Frames) /\ Bytes(s \o t) = Bytes(s) + Bytes(t)
<1>. DEFINE u == s \o t
            a == SubSeq(u, 1, Len(s))
            b == SubSeq(u, Len(s) + 1, Len(u))
<1>1. u \in Seq(Frames) /\ Len(u) = Len(s) + Len(t) /\ Len(s) \in Nat /\ Len(t) \in Nat
      /\ (\A i \in 1..Len(s) : u[i] = s[i]) /\ \A i \in 1..Len(t) : u[Len(s) + i] = t[i]
  OBVIOUS
<1>. HIDE DEF u
<1>2. Len(s) \in 0..Len(u)
  BY <1>1
<1>3. Bytes(a) + Bytes(b) = Bytes(u)
  BY <1>1, <1>2, BytesOfParts
<1>4. a = s
  <2>1. a \in Seq(Frames) /\ Len(a) = Len(s) /\ \A i \in 1..Len(s) : a[i] = u[i]
    BY <1>1, <1>2, SubSeqProperties
  <2>. HIDE DEF a
  <2>. QED  BY <1>1, <2>1, SeqEqual
<1>5. b = t
  <2>1. Len(s) + 1 \in 1..(Len(u) + 1) /\ Len(u) \in (Len(s) + 1 - 1)..Len(u)
    BY <1>1
  <2>2. b \in Seq(Frames) /\ Len(b) = Len(t) /\ \A i \in 1..Len(t) : b[i] = u[Len(s) + i]
    <3>1. \A i \in 1..Len(t) : u[Len(s) + 1 + i - 1] = u[Len(s) + i]  BY <1>1
    <3>. QED  BY <1>1, <2>1, <3>1, SubSeqProperties
  <2>. HIDE DEF b
  <2>. QED  BY <1>1, <2>2, SeqEqual
<1>. QED  BY <1>1, <1>3, <1>4, <1>5 DEF u

\* What waits is made of frames, and takes the bytes that are counted.
LEMMA WaitsType ==
    ASSUME NEW o \in Connections, Steady(o)
    PROVE  /\ Waits(o) \in Seq(Frames)
           /\ Bytes(Waits(o)) = o.queued + Bytes(o.wire)
           /\ Bytes(Waits(o)) \in Nat
<1>1. o.wire \in Seq(Frames) /\ o.queue \in Seq(Frames)
  BY DEF Connections
<1>2. Waits(o) \in Seq(Frames) /\ Bytes(Waits(o)) = Bytes(o.wire) + Bytes(o.queue)
  BY <1>1, BytesOfConcat DEF Waits
<1>3. Bytes(o.wire) \in Nat /\ Bytes(o.queue) \in Nat
  BY <1>1, BytesType
<1>. QED  BY <1>2, <1>3 DEF Steady

\* A frame behind the last of a sequence, which may be empty, or before the next of another.
LEMMA AppendToConcat ==
    /\ \A s, t \in Seq(Frames), x \in Frames : s \o Append(t, x) = (s \o t) \o <<x>>
    /\ \A s \in Seq(Frames), x \in Frames : Append(s, x) \o <<>> = (s \o <<>>) \o <<x>>
    /\ \A s \in Seq(Frames), x \in Frames : Append(s, x) = s \o <<x>> /\ s \o <<>> = s
<1>1. \A s, t \in Seq(Frames), x \in Frames : s \o Append(t, x) = (s \o t) \o <<x>>
  OBVIOUS
<1>2. \A s \in Seq(Frames), x \in Frames : Append(s, x) = s \o <<x>> /\ s \o <<>> = s
  OBVIOUS
<1>3. \A s \in Seq(Frames), x \in Frames : Append(s, x) \o <<>> = (s \o <<>>) \o <<x>>
  OBVIOUS
<1>. QED  BY <1>1, <1>2, <1>3

\* Destroyed, a connection holds nothing.
LEMMA DestroyedDrops ==
    ASSUME NEW o \in Connections, NEW bytes, Bytes(Waits(o)) + bytes > maxPendingBytes
    PROVE  Drops(o, Destroyed(o), bytes)
<1>. DEFINE w == Destroyed(o)
<1>1. w.socket = "destroyed" /\ w.wire = <<>> /\ w.queue = <<>>
  BY DEF Destroyed, Connections
<1>2. <<>> \o <<>> = <<>>
  OBVIOUS
<1>. HIDE DEF w
<1>3. Drops(o, w, bytes)
  BY <1>1, <1>2 DEF Drops, Waits
<1>. QED  BY <1>3 DEF w

\* What is within the limit of a sound output.
LEMMA WithinLimit ==
    ASSUME NEW w, Sound(w), w.output, w.socket = "open"
    PROVE  Bytes(Waits(w)) <= maxPendingBytes
<1>1. Bytes(Waits(w)) = w.queued + Bytes(w.wire)
  BY WaitsType DEF Sound
<1>. QED  BY <1>1 DEF Sound, Bounded

\* A frame written to the socket is the last that waits, if nothing is queued.
LEMMA SocketWriteTakes ==
    ASSUME NEW o \in Connections, NEW frame \in Frames, o.queue = <<>>
    PROVE  LET w == SocketWrite(o, frame)
           IN  /\ w.socket = o.socket /\ w.ending = o.ending /\ w.output = o.output /\ w.queue = o.queue
               /\ w.wire \o w.queue = Waits(o) \o <<frame>>
<1>. DEFINE w == SocketWrite(o, frame)
<1>1. o.wire \in Seq(Frames)
  BY DEF Connections
<1>2. w \in Connections /\ w = [o EXCEPT !.wire = w.wire, !.needDrain = w.needDrain]
  BY SocketWriteFields
<1>3. w.wire = Append(o.wire, frame)
  BY DEF SocketWrite, Connections
<1>. HIDE DEF w
<1>4. w.socket = o.socket /\ w.ending = o.ending /\ w.output = o.output /\ w.queue = o.queue
  BY <1>2 DEF Connections
<1>5. w.wire \o w.queue = Waits(o) \o <<frame>>
  BY <1>1, <1>3, <1>4, AppendToConcat DEF Waits
<1>. QED  BY <1>4, <1>5 DEF w

\* write of the output: the frame waits behind the others, within the limit, or the connection is
\* cut off because it would not be.
LEMMA OutputWriteTakes ==
    ASSUME NEW o \in Connections, Steady(o), o.output, ~Refuses(o), NEW frame \in Frames
    PROVE  LET w == OutputWrite(o, frame)
           IN  (Takes(o, w, <<frame>>) /\ w.output) \/ Drops(o, w, frame.size)
<1>. DEFINE w == OutputWrite(o, frame)
<1>0. ~o.ending /\ o.socket = "open" /\ Sound(w) /\ w.output
  <2>1. ~o.ending /\ o.socket = "open"  BY DEF Refuses
  <2>. QED  BY <2>1, OutputWriteSound
<1>1. CASE Exceeds(o, frame)
  <2>1. w = Destroyed(o)  BY <1>1 DEF OutputWrite
  <2>2. Bytes(Waits(o)) + frame.size > maxPendingBytes
    <3>1. Bytes(Waits(o)) = o.queued + Bytes(o.wire)  BY WaitsType
    <3>. QED  BY <1>1, <3>1 DEF Exceeds
  <2>. HIDE DEF w
  <2>. QED  BY <2>1, <2>2, DestroyedDrops DEF w
<1>2. CASE ~Exceeds(o, frame) /\ o.blocked
  <2>1. w = [o EXCEPT !.queue = Append(o.queue, frame), !.queued = o.queued + frame.size]
    BY <1>2 DEF OutputWrite, Accepted, Queued, Connections
  <2>2. o.queue \in Seq(Frames) /\ o.wire \in Seq(Frames)
    BY DEF Connections
  <2>. HIDE DEF w
  <2>3. w.socket = o.socket /\ w.ending = o.ending /\ w.queue = Append(o.queue, frame) /\ w.wire = o.wire
    BY <2>1 DEF Connections
  <2>4. Waits(w) = Waits(o) \o <<frame>>
    <3>. DEFINE s == o.wire
                t == o.queue
    <3>0. s \in Seq(Frames) /\ t \in Seq(Frames)  BY <2>2
    <3>. HIDE DEF s, t
    <3>1. s \o Append(t, frame) = (s \o t) \o <<frame>>
      BY <3>0, AppendToConcat
    <3>. QED  BY <2>3, <3>1 DEF Waits, s, t
  <2>. QED  BY <1>0, <2>3, <2>4, WithinLimit DEF Takes, w
<1>3. CASE ~Exceeds(o, frame) /\ ~o.blocked
  <2>. DEFINE u == SocketWrite(o, frame)
  <2>1. w = [u EXCEPT !.blocked = Full(u)]
    BY <1>3 DEF OutputWrite, Accepted
  <2>2. o.queue = <<>>
    BY <1>3 DEF Steady
  <2>3. u \in Connections
    BY SocketWriteFields
  <2>4. u.socket = o.socket /\ u.ending = o.ending /\ u.wire \o u.queue = Waits(o) \o <<frame>>
    BY <2>2, SocketWriteTakes
  <2>. HIDE DEF u, w
  <2>5. w.socket = u.socket /\ w.ending = u.ending /\ w.wire = u.wire /\ w.queue = u.queue
    BY <2>1, <2>3 DEF Connections
  <2>6. Waits(w) = Waits(o) \o <<frame>>
    BY <2>4, <2>5 DEF Waits
  <2>. QED  BY <1>0, <2>4, <2>5, <2>6, WithinLimit DEF Takes, w
<1>. QED  BY <1>1, <1>2, <1>3

\* A connection that takes nothing any more.
LEMMA RefusedHolds ==
    ASSUME NEW o \in Connections, Refuses(o), NEW frame
    PROVE  OutputWrite(o, frame) = o
<1>. QED  BY DEF OutputWrite

\* writeResponse: as the output does, or without a limit straight to the socket.
LEMMA WriteResponseTakes ==
    ASSUME NEW o, Sound(o), NEW frame \in Frames
    PROVE  LET w == WriteResponse(o, frame)
           IN  /\ ~Refuses(o) => \/ Takes(o, w, <<frame>>) /\ w.output = o.output
                                 \/ Drops(o, w, frame.size) /\ o.output
               /\ Refuses(o) => Holds(o, w)
<1>. DEFINE w == WriteResponse(o, frame)
<1>0. o \in Connections /\ Steady(o) /\ o.output \in BOOLEAN
  BY DEF Sound, Connections
<1>1. CASE ~Refuses(o) /\ o.output
  <2>1. w = OutputWrite(o, frame)  BY <1>1 DEF WriteResponse
  <2>2. (Takes(o, w, <<frame>>) /\ w.output) \/ Drops(o, w, frame.size)
    BY <1>0, <1>1, <2>1, OutputWriteTakes
  <2>3. w.output \in BOOLEAN
    BY WriteResponseSound DEF Sound, Connections
  <2>. QED  BY <1>0, <1>1, <2>2, <2>3
<1>2. CASE ~Refuses(o) /\ ~o.output
  <2>1. w = SocketWrite(o, frame)  BY <1>2 DEF WriteResponse, Refuses
  <2>2. o.queue = <<>>  BY <1>0, <1>2 DEF Steady
  <2>3. w.socket = o.socket /\ w.ending = o.ending /\ w.output = o.output
        /\ w.wire \o w.queue = Waits(o) \o <<frame>>
    BY <1>0, <2>1, <2>2, SocketWriteTakes
  <2>. HIDE DEF w
  <2>4. Takes(o, w, <<frame>>) /\ w.output = o.output
    BY <1>2, <2>3 DEF Takes, Waits
  <2>. QED  BY <1>2, <2>4 DEF w
<1>3. CASE Refuses(o)
  <2>1. w = o  BY <1>0, <1>3, RefusedHolds DEF WriteResponse, Refuses, Steady
  <2>. QED  BY <1>3, <2>1 DEF Holds
<1>. QED  BY <1>1, <1>2, <1>3

\* The first frames of a sequence: none, one more, no more bytes than all of them.
LEMMA FirstFrames ==
    ASSUME NEW s \in Seq(Frames)
    PROVE  /\ SubSeq(s, 1, 0) = <<>> /\ SubSeq(s, 1, Len(s)) = s
           /\ \A n \in 1..Len(s) : /\ SubSeq(s, 1, n - 1) \in Seq(Frames)
                                   /\ SubSeq(s, 1, n) = Append(SubSeq(s, 1, n - 1), s[n])
                                   /\ s[n] \in Frames /\ s[n].size \in Nat
                                   /\ Bytes(SubSeq(s, 1, n - 1)) + s[n].size <= Bytes(s)
<1>1. SubSeq(s, 1, 0) = <<>> /\ SubSeq(s, 1, Len(s)) = s
  OBVIOUS
<1>2. ASSUME NEW n \in 1..Len(s)
      PROVE  /\ SubSeq(s, 1, n - 1) \in Seq(Frames)
             /\ SubSeq(s, 1, n) = Append(SubSeq(s, 1, n - 1), s[n])
             /\ s[n] \in Frames /\ s[n].size \in Nat
             /\ Bytes(SubSeq(s, 1, n - 1)) + s[n].size <= Bytes(s)
  <2>. DEFINE a == SubSeq(s, 1, n - 1)
              b == SubSeq(s, 1, n)
              r == SubSeq(s, n + 1, Len(s))
  <2>1. n \in Nat /\ Len(s) \in Nat /\ n - 1 \in 0..Len(s) /\ n \in 0..Len(s)
    OBVIOUS
  <2>2. a \in Seq(Frames) /\ Len(a) = n - 1 /\ \A i \in 1..(n - 1) : a[i] = s[i]
    BY <2>1, SubSeqProperties
  <2>3. b \in Seq(Frames) /\ Len(b) = n /\ \A i \in 1..n : b[i] = s[i]
    BY <2>1, SubSeqProperties
  <2>4. r \in Seq(Frames)
    BY <2>1, SubSeqProperties
  <2>5. s[n] \in Frames /\ s[n].size \in Nat
    BY FrameSizes
  <2>6. Bytes(b) + Bytes(r) = Bytes(s)
    BY <2>1, BytesOfParts
  <2>. HIDE DEF a, b, r
  <2>7. b = Append(a, s[n])
    <3>. DEFINE e == Append(a, s[n])
    <3>1. e \in Seq(Frames) /\ Len(e) = n /\ e[n] = s[n] /\ \A i \in 1..(n - 1) : e[i] = a[i]
      BY <2>1, <2>2, <2>5
    <3>2. \A i \in 1..n : e[i] = b[i]
      BY <2>1, <2>2, <2>3, <3>1
    <3>. HIDE DEF e
    <3>3. b = e  BY <2>3, <3>1, <3>2, SeqEqual
    <3>. QED  BY <3>3 DEF e
  <2>8. Bytes(b) = Bytes(a) + s[n].size
    BY <2>2, <2>5, <2>7, BytesOfAppend
  <2>9. Bytes(a) \in Nat /\ Bytes(r) \in Nat /\ Bytes(s) \in Nat
    BY <2>2, <2>4, BytesType
  <2>10. Bytes(a) + s[n].size <= Bytes(s)
    BY <2>5, <2>6, <2>8, <2>9
  <2>. QED  BY <2>2, <2>5, <2>7, <2>10 DEF a, b
<1>. QED  BY <1>1, <1>2

\* writePubSub: all the frames wait behind the others, or the connection is cut off because it
\* would have more waiting than the limit allows; and nothing happens to one that takes no more.
LEMMA WritePubSubTakes ==
    ASSUME NEW o, Sound(o), NEW frames \in Seq(Frames), frames # <<>>
    PROVE  LET w == WritePubSub(o, frames)
           IN  /\ ~Refuses(o) => \/ Takes(o, w, frames) /\ w.output
                                 \/ Drops(o, w, Bytes(frames))
               /\ Refuses(o) => Holds(o, w)
<1>. DEFINE N == Len(frames)
            f == CHOOSE g : Writing(o, frames, N, g)
            b == [o EXCEPT !.output = TRUE]
            Part(n) == SubSeq(frames, 1, n)
            G(n) == /\ f[n] \in Connections /\ Steady(f[n]) /\ f[n].output
                    /\ \/ /\ f[n].socket = o.socket /\ f[n].ending = o.ending
                          /\ Waits(f[n]) = Waits(o) \o Part(n)
                       \/ Drops(o, f[n], Bytes(frames))
            T == {n \in 0..N : ~G(n)}
            R == {n \in 0..N : f[n] # b}
<1>1. N \in Nat /\ N >= 1
  BY EmptySeq
<1>2. WritePubSub(o, frames) = f[N]
  BY DEF WritePubSub, Writing
<1>3. Writing(o, frames, N, f)
  BY <1>1, WritingComputes
<1>. HIDE DEF f
<1>4. f[0] = b
  BY <1>1, <1>3 DEF Writing
<1>5. ASSUME NEW n \in 1..N PROVE f[n] = OutputWrite(f[n - 1], frames[n]) /\ frames[n] \in Frames
  <2>1. n \in 0..N /\ n # 0  BY <1>1
  <2>2. f[n] = OutputWrite(f[n - 1], frames[n])  BY <1>3, <2>1 DEF Writing
  <2>3. frames[n] \in Frames  BY ElementOfSeq
  <2>. QED  BY <2>2, <2>3
<1>6. o \in Connections /\ Steady(o) /\ Waits(o) \in Seq(Frames) /\ Bytes(Waits(o)) \in Nat
  BY WaitsType DEF Sound
<1>7. /\ b \in Connections /\ b.output /\ b.socket = o.socket /\ b.ending = o.ending
      /\ b.wire = o.wire /\ b.queue = o.queue /\ b.queued = o.queued /\ b.blocked = o.blocked
      /\ b.needDrain = o.needDrain
  BY <1>6 DEF Connections
<1>. HIDE DEF b
<1>8. Steady(b) /\ Waits(b) = Waits(o) /\ (Refuses(b) <=> Refuses(o)) /\ Holds(o, b)
  BY <1>6, <1>7 DEF Steady, Waits, Refuses, Holds
<1>9. CASE ~Refuses(o)
  <2>1. G(0)
    <3>1. Part(0) = <<>>  BY FirstFrames
    <3>2. Waits(o) \o <<>> = Waits(o)  BY <1>6
    <3>. HIDE DEF Part
    <3>. QED  BY <1>4, <1>7, <1>8, <3>1, <3>2
  <2>2. ASSUME NEW n \in 1..N, G(n - 1) PROVE G(n)
    <3>. DEFINE p == f[n - 1]
                x == frames[n]
                w == OutputWrite(p, x)
                s == Part(n - 1)
    <3>1. f[n] = w /\ x \in Frames
      BY <1>5
    <3>2. p \in Connections /\ Steady(p) /\ p.output
      BY <2>2
    <3>3. s \in Seq(Frames) /\ Part(n) = Append(s, x) /\ x.size \in Nat /\ Bytes(s) + x.size <= Bytes(frames)
      BY FirstFrames
    <3>4. CASE Drops(o, p, Bytes(frames))
      <4>1. Refuses(p)  BY <3>4 DEF Drops, Refuses
      <4>2. w = p  BY <3>2, <4>1, RefusedHolds
      <4>. QED  BY <2>2, <3>1, <3>4, <4>2
    <3>5. CASE p.socket = o.socket /\ p.ending = o.ending /\ Waits(p) = Waits(o) \o s
      <4>1. ~Refuses(p)  BY <1>9, <3>5 DEF Refuses
      <4>2. (Takes(p, w, <<x>>) /\ w.output) \/ Drops(p, w, x.size)
        BY <3>1, <3>2, <4>1, OutputWriteTakes
      <4>3. w \in Connections /\ Steady(w) /\ w.output
        <5>1. p.ending => Bounded(p)  BY <4>1 DEF Refuses
        <5>. QED  BY <3>1, <3>2, <5>1, OutputWriteSound DEF Sound
      <4>. HIDE DEF w, p, s, x, Part
      <4>4. CASE Takes(p, w, <<x>>)
        <5>1. Waits(w) = (Waits(o) \o s) \o <<x>>  BY <3>5, <4>4 DEF Takes
        <5>2. (Waits(o) \o s) \o <<x>> = Waits(o) \o Append(s, x)
          <6>1. s \in Seq(Frames) /\ x \in Frames /\ Waits(o) \in Seq(Frames)
            BY <1>6, <3>1, <3>3
          <6>. QED  BY <6>1, AppendToConcat
        <5>3. w.socket = o.socket /\ w.ending = o.ending  BY <3>5, <4>4 DEF Takes
        <5>. QED  BY <3>1, <3>3, <4>3, <5>1, <5>2, <5>3
      <4>5. CASE Drops(p, w, x.size)
        <5>1. Bytes(Waits(p)) = Bytes(Waits(o)) + Bytes(s)  BY <1>6, <3>3, <3>5, BytesOfConcat
        <5>2. Bytes(s) \in Nat /\ Bytes(frames) \in Nat  BY <3>3, BytesType
        <5>3. Bytes(Waits(o)) + Bytes(frames) > maxPendingBytes
          BY <1>6, <3>3, <4>5, <5>1, <5>2, Limits DEF Drops
        <5>4. Drops(o, w, Bytes(frames))  BY <4>5, <5>3 DEF Drops
        <5>. QED  BY <3>1, <4>3, <5>4
      <4>. QED  BY <4>2, <4>4, <4>5
    <3>. QED  BY <2>2, <3>4, <3>5
  <2>3. T = {}
    <3>1. ASSUME NEW n \in T, \A m \in T : n <= m PROVE FALSE
      <4>. HIDE DEF G
      <4>1. n \in 1..N  BY <1>1, <2>1
      <4>2. n - 1 \in 0..N /\ ~(n <= n - 1)  BY <1>1, <4>1
      <4>3. G(n - 1)  BY <3>1, <4>2
      <4>. QED  BY <2>2, <4>1, <4>3
    <3>. HIDE DEF T
    <3>2. T \in SUBSET Nat  BY <1>1 DEF T
    <3>. QED  BY <3>1, <3>2, LeastNumber
  <2>4. G(N)
    <3>. HIDE DEF G
    <3>. QED  BY <1>1, <2>3
  <2>5. Part(N) = frames
    BY FirstFrames
  <2>6. Sound(f[N])
    BY <1>2, WritePubSubSound
  <2>7. CASE f[N].socket = o.socket /\ f[N].ending = o.ending /\ Waits(f[N]) = Waits(o) \o frames
    <3>1. f[N].socket = "open"  BY <1>9, <2>7 DEF Refuses
    <3>2. Bytes(Waits(f[N])) <= maxPendingBytes  BY <2>4, <2>6, <3>1, WithinLimit
    <3>3. Takes(o, f[N], frames) /\ f[N].output  BY <2>4, <2>7, <3>2 DEF Takes
    <3>. QED  BY <1>2, <1>9, <3>3
  <2>8. CASE Drops(o, f[N], Bytes(frames))
    BY <1>2, <1>9, <2>8
  <2>. QED  BY <2>4, <2>5, <2>7, <2>8
<1>10. CASE Refuses(o)
  <2>1. R = {}
    <3>1. ASSUME NEW n \in R, \A m \in R : n <= m PROVE FALSE
      <4>1. n \in 1..N  BY <1>1, <1>4
      <4>2. n - 1 \in 0..N /\ ~(n <= n - 1)  BY <1>1, <4>1
      <4>3. f[n - 1] = b  BY <3>1, <4>2
      <4>4. f[n] = b  BY <1>5, <1>7, <1>8, <1>10, <4>1, <4>3, RefusedHolds
      <4>. QED  BY <4>4
    <3>. HIDE DEF R
    <3>2. R \in SUBSET Nat  BY <1>1 DEF R
    <3>. QED  BY <3>1, <3>2, LeastNumber
  <2>2. f[N] = b  BY <1>1, <2>1
  <2>. QED  BY <1>2, <1>8, <1>10, <2>2
<1>. QED  BY <1>9, <1>10

\* The link that a connection is to Delivery.
LinkOf(o) == IF o.socket = "open" THEN IF o.ending THEN "quitting" ELSE "open"
             ELSE IF o.socket = "finishing" THEN "quitting" ELSE "gone"

LEMMA Links ==
    ASSUME NEW c \in Clients
    PROVE  Link(c) = LinkOf(conn[c]) /\ Link(c)' = LinkOf(conn'[c])
<1>1. Link(c) = LinkOf(conn[c])
  BY Zenon DEF Link, LinkOf
<1>2. Link(c)' = LinkOf(conn'[c])
  BY Zenon DEF Link, LinkOf
<1>. QED  BY <1>1, <1>2

\* The end of a socket or of an output drops nothing, and no more is taken.
LEMMA EndHolds ==
    ASSUME NEW o \in Connections
    PROVE  /\ LET w == SocketEnd(o)
              IN  Waits(w) = Waits(o) /\ (LinkOf(w) = IF LinkOf(o) = "gone" THEN "gone" ELSE "quitting")
           /\ LET w == OutputEnd(o)
              IN  Waits(w) = Waits(o) /\ (LinkOf(w) = IF LinkOf(o) = "gone" THEN "gone" ELSE "quitting")
<1>1. ASSUME NEW p \in Connections
      PROVE  LET w == SocketEnd(p)
             IN  /\ w.wire = p.wire /\ w.queue = p.queue /\ w.ending = p.ending
                 /\ w.socket = IF p.socket = "open" THEN "finishing" ELSE p.socket
  BY DEF SocketEnd, Connections
<1>2. ASSUME NEW p \in Connections
      PROVE  LET w == SocketEnd(p)
             IN  Waits(w) = Waits(p) /\ (LinkOf(w) = IF LinkOf(p) = "gone" THEN "gone" ELSE "quitting")
  BY <1>1 DEF Waits, LinkOf
<1>. DEFINE e == [o EXCEPT !.ending = TRUE]
<1>3. e \in Connections /\ e.wire = o.wire /\ e.queue = o.queue /\ e.socket = o.socket /\ e.ending
  BY DEF Connections
<1>4. OutputEnd(o) = IF o.queue = <<>> THEN SocketEnd(e) ELSE e
  BY DEF OutputEnd
<1>. HIDE DEF e
<1>5. Waits(e) = Waits(o) /\ (LinkOf(e) = IF LinkOf(o) = "gone" THEN "gone" ELSE "quitting")
  BY <1>3 DEF Waits, LinkOf
<1>6. Waits(SocketEnd(e)) = Waits(o)
      /\ (LinkOf(SocketEnd(e)) = IF LinkOf(o) = "gone" THEN "gone" ELSE "quitting")
  BY <1>2, <1>3, <1>5
<1>. QED  BY <1>2, <1>4, <1>5, <1>6

\* QUIT: the OK is the last frame that waits, or the connection is cut off over it.
LEMMA QuitTakes ==
    ASSUME NEW o, Sound(o)
    PROVE  LET r == WriteResponse(o, Plain("OK"))
               w == IF r.output THEN OutputEnd(r) ELSE SocketEnd(r)
           IN  /\ ~Refuses(o) => \/ /\ LinkOf(w) = "quitting"
                                    /\ Waits(w) = Append(Waits(o), Plain("OK"))
                                    /\ o.output => Bytes(Waits(o)) < maxPendingBytes
                                 \/ o.output /\ Drops(o, w, 1)
               /\ Refuses(o) => LinkOf(w) = LinkOf(o) /\ Waits(w) = Waits(o)
<1>. DEFINE x == Plain("OK")
            r == WriteResponse(o, x)
            w == IF r.output THEN OutputEnd(r) ELSE SocketEnd(r)
<1>0. x \in Frames /\ x.size = 1
  <2>1. "OK" \in Kinds  BY DEF Kinds
  <2>. QED  BY <2>1, PlainType DEF Plain, Frame
<1>. HIDE DEF x
<1>1. /\ ~Refuses(o) => \/ Takes(o, r, <<x>>) /\ r.output = o.output
                        \/ Drops(o, r, x.size) /\ o.output
      /\ Refuses(o) => Holds(o, r)
  BY <1>0, WriteResponseTakes
<1>2. r \in Connections
  BY <1>0, WriteResponseSound DEF Sound
<1>3. o \in Connections /\ Waits(o) \in Seq(Frames) /\ Bytes(Waits(o)) \in Nat
  BY WaitsType DEF Sound
<1>. HIDE DEF r
<1>4. Waits(w) = Waits(r) /\ (LinkOf(w) = IF LinkOf(r) = "gone" THEN "gone" ELSE "quitting")
      /\ (r.socket = "destroyed" => w.socket = "destroyed")
  <2>1. r.socket = "destroyed" => w.socket = "destroyed"
    BY <1>2 DEF OutputEnd, SocketEnd, Connections
  <2>. QED  BY <1>2, <2>1, EndHolds
<1>. HIDE DEF w
<1>5. CASE ~Refuses(o) /\ Takes(o, r, <<x>>) /\ r.output = o.output
  <2>1. LinkOf(w) = "quitting"  BY <1>4, <1>5 DEF Takes, Refuses, LinkOf
  <2>2. Waits(w) = Append(Waits(o), x)
    BY <1>0, <1>3, <1>4, <1>5, AppendToConcat DEF Takes
  <2>3. o.output => Bytes(Waits(o)) < maxPendingBytes
    <3>1. Bytes(Append(Waits(o), x)) = Bytes(Waits(o)) + 1  BY <1>0, <1>3, BytesOfAppend
    <3>2. o.output => Bytes(Waits(w)) <= maxPendingBytes  BY <1>4, <1>5 DEF Takes
    <3>. QED  BY <1>3, <2>2, <3>1, <3>2, Limits
  <2>. QED  BY <1>5, <2>1, <2>2, <2>3 DEF w, r, x
<1>6. CASE ~Refuses(o) /\ Drops(o, r, x.size) /\ o.output
  <2>1. Drops(o, w, 1)  BY <1>0, <1>4, <1>6 DEF Drops
  <2>. QED  BY <1>6, <2>1 DEF w, r, x
<1>7. CASE Refuses(o)
  <2>1. Holds(o, r)  BY <1>1, <1>7
  <2>2. LinkOf(r) = LinkOf(o) /\ LinkOf(o) # "open" /\ Waits(r) = Waits(o)
    BY <1>7, <2>1 DEF Holds, LinkOf, Waits, Refuses
  <2>3. LinkOf(o) \in {"quitting", "gone"}  BY <2>2 DEF LinkOf
  <2>4. LinkOf(w) = LinkOf(o) /\ Waits(w) = Waits(o)  BY <1>4, <2>2, <2>3
  <2>. QED  BY <1>7, <2>4 DEF w, r, x
<1>. QED  BY <1>1, <1>5, <1>6, <1>7

\* The two parts of a sequence, one behind the other, are the sequence.
LEMMA CutInTwo ==
    ASSUME NEW V, NEW q \in Seq(V), NEW n \in 0..Len(q)
    PROVE  SubSeq(q, 1, n) \o SubSeq(q, n + 1, Len(q)) = q
<1>. DEFINE a == SubSeq(q, 1, n)
            b == SubSeq(q, n + 1, Len(q))
            u == a \o b
<1>1. Len(q) \in Nat /\ n \in Nat /\ n <= Len(q)
  OBVIOUS
<1>2. a \in Seq(V) /\ Len(a) = n /\ \A i \in 1..n : a[i] = q[i]
  BY <1>1, SubSeqProperties
<1>3. b \in Seq(V) /\ Len(b) = Len(q) - n /\ \A i \in 1..Len(b) : b[i] = q[n + i]
  BY <1>1, SubSeqProperties
<1>. HIDE DEF a, b
<1>4. u \in Seq(V) /\ Len(u) = Len(q)
  BY <1>1, <1>2, <1>3
<1>5. \A i \in 1..Len(q) : u[i] = q[i]
  <2>1. \A i \in 1..n : u[i] = q[i]  BY <1>1, <1>2, <1>3
  <2>2. \A i \in (n + 1)..Len(q) : u[i] = b[i - n] /\ i - n \in 1..Len(b) /\ n + (i - n) = i
    BY <1>1, <1>2, <1>3
  <2>3. \A i \in (n + 1)..Len(q) : u[i] = q[i]
    BY <1>3, <2>2
  <2>4. \A i \in 1..Len(q) : i \in 1..n \/ i \in (n + 1)..Len(q)
    BY <1>1
  <2>. HIDE DEF u
  <2>. QED  BY <2>1, <2>3, <2>4
<1>. HIDE DEF u
<1>6. u = q
  BY <1>4, <1>5, SeqEqual
<1>. QED  BY <1>6 DEF u, a, b

\* drain changes nothing about what waits.
LEMMA DrainedWaits ==
    ASSUME NEW o, Sound(o), o.socket = "open", o.wire = <<>>
    PROVE  Waits(Drained(o)) = Waits(o) /\ LinkOf(Drained(o)) = LinkOf(o)
           /\ Drained(o).output = o.output
<1>. DEFINE n == Drainable(o.queue)
            out == SubSeq(o.queue, 1, n)
            rest == SubSeq(o.queue, n + 1, Len(o.queue))
            full == Bytes(out) >= highWaterMark
            left == o.queued - Bytes(out)
            d == [o EXCEPT !.wire = out, !.needDrain = full, !.blocked = full,
                           !.queue = rest, !.queued = left]
<1>0. o \in Connections /\ o.queue \in Seq(Frames) /\ Len(o.queue) \in Nat
  BY DEF Sound, Connections
<1>1. Drained(o) = IF d.queue = <<>> /\ d.ending THEN SocketEnd(d) ELSE d
  BY DEF Drained
<1>2. n \in 0..Len(o.queue)
  BY <1>0, DrainableFills
<1>3. out \o rest = o.queue
  <2>. HIDE DEF n
  <2>. QED  BY <1>0, <1>2, CutInTwo
<1>. HIDE DEF out, rest, full, left
<1>4. d.wire = out /\ d.queue = rest /\ d.socket = o.socket /\ d.ending = o.ending /\ d.output = o.output
  BY <1>0 DEF Connections
<1>. HIDE DEF d
<1>5. <<>> \o o.queue = o.queue
  BY <1>0
<1>6. Waits(d) = Waits(o) /\ LinkOf(d) = LinkOf(o)
  BY <1>3, <1>4, <1>5 DEF Waits, LinkOf
<1>7. CASE d.queue = <<>> /\ d.ending
  <2>. DEFINE e == [d EXCEPT !.socket = "finishing"]
  <2>1. Drained(o) = e  BY <1>1, <1>4, <1>7 DEF SocketEnd
  <2>2. e.socket = "finishing" /\ e.wire = d.wire /\ e.queue = d.queue /\ e.output = d.output
    BY <1>0, <1>7 DEF d, Connections
  <2>. HIDE DEF e
  <2>. QED  BY <1>4, <1>6, <1>7, <2>1, <2>2 DEF Waits, LinkOf
<1>8. CASE ~(d.queue = <<>> /\ d.ending)
  BY <1>1, <1>4, <1>6, <1>8
<1>. QED  BY <1>7, <1>8

-----------------------------------------------------------------------------
(* Steps of PubSub as steps of Delivery.                                   *)

\* Subscriptions of an open connection come with an output.
Wired == \A c \in Clients : Subs(c) # {} => Bound(c)
\* What is to be shown of a step.
Delivers == (Promise!Next \/ UNCHANGED Promise!vars) /\ Wired'

\* What Delivery sees of a connection, before and after a step.
LEMMA Views ==
    ASSUME NEW c \in Clients
    PROVE  /\ Link(c) = LinkOf(conn[c]) /\ Link(c)' = LinkOf(conn'[c])
           /\ Pending(c) = Waits(conn[c]) /\ Pending(c)' = Waits(conn'[c])
           /\ Subs(c) = (IF LinkOf(conn[c]) = "open" THEN ToSet(byConnection[c]) ELSE {})
           /\ Subs(c)' = (IF LinkOf(conn'[c]) = "open" THEN ToSet(byConnection'[c]) ELSE {})
           /\ Bound(c) <=> conn[c].output /\ LinkOf(conn[c]) = "open"
           /\ Bound(c)' <=> conn'[c].output /\ LinkOf(conn'[c]) = "open"
           /\ Refuses(conn[c]) <=> Link(c) # "open"
<1>1. Link(c) = LinkOf(conn[c]) /\ Link(c)' = LinkOf(conn'[c])
  BY Links
<1>2. Refuses(conn[c]) <=> LinkOf(conn[c]) # "open"
  BY DEF Refuses, LinkOf
<1>. QED  BY <1>1, <1>2 DEF Pending, Waits, Subs, Bound

\* A step that changes one connection.
LEMMA OthersSame ==
    ASSUME conn \in [Clients -> Connections], NEW c \in Clients, NEW w, conn' = [conn EXCEPT ![c] = w],
           \A d \in Clients \ {c} : byConnection'[d] = byConnection[d]
    PROVE  conn'[c] = w /\ \A d \in Clients \ {c} : Same(d)
<1>1. conn'[c] = w /\ \A d \in Clients \ {c} : conn'[d] = conn[d]
  OBVIOUS
<1>2. ASSUME NEW d \in Clients \ {c} PROVE Same(d)
  <2>1. conn'[d] = conn[d] /\ byConnection'[d] = byConnection[d]  BY <1>1, <1>2
  <2>. QED  BY <2>1, Views DEF Same
<1>. QED  BY <1>1, <1>2

\* The others stay as they are: what is left to show is that c does not lose its output.
LEMMA WiredStays ==
    ASSUME Wired, NEW c \in Clients, \A d \in Clients \ {c} : Same(d), Subs(c)' # {} => Bound(c)'
    PROVE  Wired'
<1>1. ASSUME NEW d \in Clients PROVE Subs(d)' # {} => Bound(d)'
  <2>1. CASE d = c  BY <2>1
  <2>2. CASE d # c  BY <2>2 DEF Wired, Same
  <2>. QED  BY <2>1, <2>2
<1>. QED  BY <1>1 DEF Wired

LEMMA StutterSteps ==
    ASSUME Wired, NEW c \in Clients, \A d \in Clients \ {c} : Same(d), Same(c)
    PROVE  Delivers
<1>1. UNCHANGED Promise!vars
  BY SameStutters
<1>2. Wired'
  BY WiredStays DEF Same, Wired
<1>. QED  BY <1>1, <1>2 DEF Delivers

\* w is o with the answer to a command behind what waits, or o cut off, or o as it was.
Answers(o, w, kind) ==
    /\ ~Refuses(o) => \/ Takes(o, w, <<Plain(kind)>>) /\ w.output = o.output
                      \/ Drops(o, w, 1) /\ o.output
    /\ Refuses(o) => Holds(o, w)

LEMMA AnswerSteps ==
    ASSUME conn \in [Clients -> Connections], Wired, NEW c \in Clients, NEW w, conn' = [conn EXCEPT ![c] = w],
           UNCHANGED byConnection, NEW kind \in {"reply", "pong"}, Answers(conn[c], w, kind)
    PROVE  Delivers
<1>1. conn'[c] = w /\ \A d \in Clients \ {c} : Same(d)
  BY OthersSame
<1>2. CASE Refuses(conn[c])
  <2>1. Holds(conn[c], w)  BY <1>2 DEF Answers
  <2>2. LinkOf(w) = LinkOf(conn[c]) /\ Waits(w) = Waits(conn[c]) /\ LinkOf(conn[c]) # "open"
    BY <1>2, <2>1, Views DEF Holds, LinkOf, Waits
  <2>3. Same(c)  BY <1>1, <2>2, Views DEF Same
  <2>. QED  BY <1>1, <2>3, StutterSteps
<1>3. CASE ~Refuses(conn[c]) /\ Takes(conn[c], w, <<Plain(kind)>>) /\ w.output = conn[c].output
  <2>1. LinkOf(w) = LinkOf(conn[c]) /\ Waits(w) = Waits(conn[c]) \o <<Plain(kind)>>
        /\ (w.output => Bytes(Waits(w)) <= maxPendingBytes)
    BY <1>3 DEF Takes, LinkOf
  <2>2. Goes(c, <<Plain(kind)>>)
    BY <1>1, <2>1, Views DEF Goes
  <2>3. Subs(c)' = Subs(c) /\ (Bound(c)' <=> Bound(c)) /\ Link(c) = "open"
    BY <1>1, <1>3, <2>1, Views
  <2>4. Promise!Answer(c)
    BY <1>1, <2>2, <2>3, AnswerMaps
  <2>5. Wired'
    BY <1>1, <2>3, WiredStays DEF Wired
  <2>. QED  BY <2>4, <2>5 DEF Delivers, Promise!Next
<1>4. CASE ~Refuses(conn[c]) /\ Drops(conn[c], w, 1) /\ conn[c].output
  <2>1. LinkOf(w) = "gone" /\ Waits(w) = <<>> /\ Bytes(Waits(conn[c])) + 1 > maxPendingBytes
    BY <1>4 DEF Drops, LinkOf
  <2>2. Falls(c, 1) /\ Bound(c) /\ Link(c) = "open" /\ Subs(c)' = {}
    BY <1>1, <1>4, <2>1, Views DEF Falls
  <2>3. Promise!Answer(c)
    BY <1>1, <2>2, AnswerMaps
  <2>4. Wired'
    BY <1>1, <2>2, WiredStays
  <2>. QED  BY <2>3, <2>4 DEF Delivers, Promise!Next
<1>. QED  BY <1>2, <1>3, <1>4 DEF Answers

\* A response answers.
LEMMA ResponseAnswers ==
    ASSUME NEW o, Sound(o)
    PROVE  Answers(o, WriteResponse(o, Plain("reply")), "reply")
<1>1. Plain("reply") \in Frames /\ Plain("reply").size = 1
  <2>1. "reply" \in Kinds  BY DEF Kinds
  <2>. QED  BY <2>1, PlainType DEF Plain, Frame
<1>. QED  BY <1>1, WriteResponseTakes DEF Answers

\* ... and so does a push, where there is an output.
LEMMA PushAnswers ==
    ASSUME NEW o, Sound(o), ~Refuses(o) => o.output
    PROVE  Answers(o, WritePubSub(o, <<Plain("pong")>>), "pong")
<1>. DEFINE x == Plain("pong")
            w == WritePubSub(o, <<x>>)
<1>1. x \in Frames /\ <<x>> \in Seq(Frames) /\ x.size = 1
  <2>1. "pong" \in Kinds  BY DEF Kinds
  <2>. QED  BY <2>1, PlainType DEF Plain, Frame
<1>. HIDE DEF x
<1>2. Bytes(<<x>>) = 1
  <2>1. <<>> \in Seq(Frames) /\ Append(<<>>, x) = <<x>>  BY <1>1
  <2>2. Bytes(Append(<<>>, x)) = Bytes(<<>>) + 1  BY <1>1, <2>1, BytesOfAppend
  <2>. QED  BY <2>1, <2>2, BytesType
<1>3. <<x>> # <<>>
  OBVIOUS
<1>4. /\ ~Refuses(o) => (Takes(o, w, <<x>>) /\ w.output) \/ Drops(o, w, 1)
      /\ Refuses(o) => Holds(o, w)
  BY <1>1, <1>2, <1>3, WritePubSubTakes
<1>5. w.output \in BOOLEAN /\ o.output \in BOOLEAN
  BY <1>1, WritePubSubSound DEF Sound, Connections
<1>. HIDE DEF w
<1>6. Answers(o, w, "pong")
  BY <1>4, <1>5 DEF Answers, x
<1>. QED  BY <1>6 DEF w, x

LEMMA PingDelivers == ASSUME IInv, Wired, NEW c \in Clients, Ping(c) PROVE Delivers
<1>0. conn \in [Clients -> Connections] /\ Sound(conn[c]) /\ byConnection' = byConnection
  BY DEF IInv, Outputs, Ping, brokerVars
<1>1. CASE c \in pubSubMode
  <2>. DEFINE w == WritePubSub(conn[c], <<Plain("pong")>>)
  <2>1. conn' = [conn EXCEPT ![c] = w]  BY <1>1 DEF Ping, Pushed
  <2>2. ~Refuses(conn[c]) => conn[c].output
    <3>1. SUFFICES ASSUME ~Refuses(conn[c]) PROVE conn[c].output
      OBVIOUS
    <3>2. byConnection[c] \in Seq(Names) /\ byConnection[c] # <<>>
      BY <1>1, <3>1 DEF IInv, Broker, Modes, Refuses
    <3>3. byConnection[c][1] \in ToSet(byConnection[c])
      BY <3>2, EmptySeq DEF ToSet
    <3>4. Subs(c) # {}  BY <3>1, <3>3, Views
    <3>. QED  BY <3>4, Views DEF Wired
  <2>3. Answers(conn[c], w, "pong")  BY <1>0, <2>2, PushAnswers
  <2>. HIDE DEF w
  <2>. QED  BY <1>0, <2>1, <2>3, AnswerSteps
<1>2. CASE c \notin pubSubMode
  <2>1. conn' = [conn EXCEPT ![c] = WriteResponse(conn[c], Plain("reply"))]
    BY <1>2 DEF Ping, Answered
  <2>2. Answers(conn[c], WriteResponse(conn[c], Plain("reply")), "reply")
    BY <1>0, ResponseAnswers
  <2>. QED  BY <1>0, <2>1, <2>2, AnswerSteps
<1>. QED  BY <1>1, <1>2

LEMMA OtherDelivers ==
    ASSUME IInv, Wired, NEW c \in Clients, Other(c) \/ Wake(c) PROVE Delivers
<1>0. conn \in [Clients -> Connections] /\ Sound(conn[c]) /\ byConnection' = byConnection
  BY DEF IInv, Outputs, Other, Wake, brokerVars
<1>1. conn' = [conn EXCEPT ![c] = WriteResponse(conn[c], Plain("reply"))]
  BY <1>0 DEF Other, Wake, Answered
<1>2. Answers(conn[c], WriteResponse(conn[c], Plain("reply")), "reply")
  BY <1>0, ResponseAnswers
<1>. QED  BY <1>0, <1>1, <1>2, AnswerSteps

\* What changes neither a connection nor a subscription is no step of Delivery.
LEMMA SilentDelivers == ASSUME Wired, UNCHANGED <<conn, byConnection>> PROVE Delivers
<1>1. \A d \in Clients : Same(d)
  BY Views DEF Same
<1>2. UNCHANGED Promise!vars
  BY <1>1, SameStutters
<1>3. Wired'
  BY <1>1 DEF Wired, Same
<1>. QED  BY <1>2, <1>3 DEF Delivers

LEMMA FlushDelivers == ASSUME IInv, Wired, NEW c \in Clients, Flush(c) PROVE Delivers
<1>. DEFINE o == conn[c]
            w == [o EXCEPT !.wire = Tail(o.wire)]
<1>0. conn \in [Clients -> Connections] /\ o \in Connections /\ byConnection' = byConnection
      /\ o.wire # <<>> /\ conn' = [conn EXCEPT ![c] = w]
  BY DEF IInv, Outputs, Flush, brokerVars, Connections
<1>1. w.wire = Tail(o.wire) /\ w.queue = o.queue /\ w.socket = o.socket /\ w.ending = o.ending
      /\ w.output = o.output
  BY <1>0 DEF Connections
<1>2. Waits(o) # <<>> /\ Tail(o.wire) \o o.queue = Tail(Waits(o))
  <2>. DEFINE s == o.wire
              t == o.queue
  <2>1. s \in Seq(Frames) /\ t \in Seq(Frames) /\ s # <<>>  BY <1>0 DEF Connections
  <2>. HIDE DEF s, t
  <2>2. Len(s) \in Nat /\ Len(s) >= 1 /\ Len(t) \in Nat  BY <2>1, EmptySeq
  <2>3. s \o t # <<>> /\ Tail(s) \o t = Tail(s \o t)
    <3>. DEFINE a == Tail(s) \o t
                b == Tail(s \o t)
    <3>1. s \o t \in Seq(Frames) /\ Len(s \o t) = Len(s) + Len(t) /\ s \o t # <<>>
      BY <2>1, <2>2, ConcatEmptySeq, ConcatProperties, EmptySeq
    <3>2. a \in Seq(Frames) /\ Len(a) = Len(s) - 1 + Len(t) /\ \A i \in 1..Len(a) : a[i] = (s \o t)[i + 1]
      BY <2>1, <2>2
    <3>3. b \in Seq(Frames) /\ Len(b) = Len(s) + Len(t) - 1 /\ \A i \in 1..Len(b) : b[i] = (s \o t)[i + 1]
      BY <3>1, HeadTailProperties
    <3>. HIDE DEF a, b
    <3>4. a = b  BY <2>2, <3>2, <3>3, SeqEqual
    <3>. QED  BY <3>1, <3>4 DEF a, b
  <2>. QED  BY <2>3 DEF s, t, Waits
<1>. HIDE DEF w, o
<1>3. Waits(w) = Tail(Waits(o)) /\ LinkOf(w) = LinkOf(o)
  BY <1>1, <1>2 DEF Waits, LinkOf
<1>4. conn'[c] = w /\ \A d \in Clients \ {c} : Same(d)
  BY <1>0, OthersSame
<1>5. Pending(c) # <<>> /\ Pending(c)' = Tail(Pending(c)) /\ Link(c)' = Link(c) /\ Subs(c)' = Subs(c)
      /\ (Bound(c)' <=> Bound(c))
  BY <1>0, <1>1, <1>2, <1>3, <1>4, Views DEF o
<1>6. Promise!Take(c)
  BY <1>4, <1>5, TakeMaps
<1>7. Wired'
  BY <1>4, <1>5, WiredStays DEF Wired
<1>. QED  BY <1>6, <1>7 DEF Delivers, Promise!Next

LEMMA DrainDelivers == ASSUME IInv, Wired, NEW c \in Clients, Drain(c) PROVE Delivers
<1>. DEFINE o == conn[c]
            w == IF o.output THEN Drained(o) ELSE [o EXCEPT !.needDrain = FALSE]
<1>0. conn \in [Clients -> Connections] /\ o \in Connections /\ Sound(o) /\ byConnection' = byConnection
      /\ o.wire = <<>> /\ o.socket = "open" /\ conn' = [conn EXCEPT ![c] = w]
  BY DEF IInv, Outputs, Drain, brokerVars
<1>1. Waits(w) = Waits(o) /\ LinkOf(w) = LinkOf(o) /\ w.output = o.output
  <2>1. CASE o.output  BY <1>0, <2>1, DrainedWaits
  <2>2. CASE ~o.output
    <3>1. w = [o EXCEPT !.needDrain = FALSE]  BY <2>2
    <3>. HIDE DEF w
    <3>2. w.wire = o.wire /\ w.queue = o.queue /\ w.socket = o.socket /\ w.ending = o.ending
          /\ w.output = o.output
      BY <1>0, <3>1 DEF Connections
    <3>. QED  BY <3>2 DEF Waits, LinkOf
  <2>. QED  BY <2>1, <2>2
<1>. HIDE DEF w, o
<1>2. conn'[c] = w /\ \A d \in Clients \ {c} : Same(d)
  BY <1>0, OthersSame
<1>3. Same(c)
  BY <1>0, <1>1, <1>2, Views DEF o, Same
<1>. QED  BY <1>2, <1>3, StutterSteps

LEMMA LeaveDelivers == ASSUME IInv, Wired, NEW c \in Clients, Leave(c) PROVE Delivers
<1>. DEFINE w == Destroyed(conn[c])
<1>0. conn \in [Clients -> Connections] /\ conn[c] \in Connections /\ byConnection' = byConnection
      /\ conn[c].socket \in {"open", "finishing"} /\ conn' = [conn EXCEPT ![c] = w]
  BY DEF IInv, Outputs, Leave, brokerVars
<1>1. w.socket = "destroyed" /\ w.wire = <<>> /\ w.queue = <<>> /\ <<>> \o <<>> = <<>>
  BY <1>0 DEF Destroyed, Connections
<1>. HIDE DEF w
<1>2. Waits(w) = <<>> /\ LinkOf(w) = "gone" /\ LinkOf(conn[c]) # "gone"
  BY <1>0, <1>1 DEF Waits, LinkOf
<1>3. conn'[c] = w /\ \A d \in Clients \ {c} : Same(d)
  BY <1>0, OthersSame
<1>4. Promise!Leave(c)
  BY <1>2, <1>3, Views, LeaveMaps
<1>5. Wired'
  BY <1>2, <1>3, Views, WiredStays
<1>. QED  BY <1>4, <1>5 DEF Delivers, Promise!Next

LEMMA CloseDelivers == ASSUME IInv, Wired, NEW c \in Clients, Close(c) PROVE Delivers
<1>. DEFINE w == [conn[c] EXCEPT !.socket = "closed"]
<1>0. conn \in [Clients -> Connections] /\ conn[c] \in Connections
      /\ conn[c].socket = "destroyed" /\ conn' = [conn EXCEPT ![c] = w]
      /\ byConnection \in [Clients -> Seq(Names)]
  BY DEF IInv, Outputs, Broker, Close, Connections
<1>1. w.socket = "closed" /\ w.wire = conn[c].wire /\ w.queue = conn[c].queue
  BY <1>0 DEF Connections
<1>. HIDE DEF w
<1>2. Waits(w) = Waits(conn[c]) /\ LinkOf(w) = "gone" /\ LinkOf(conn[c]) = "gone"
  BY <1>0, <1>1 DEF Waits, LinkOf
<1>3. \A d \in Clients \ {c} : byConnection'[d] = byConnection[d]
  BY <1>0 DEF Close, Delist
<1>4. conn'[c] = w /\ \A d \in Clients \ {c} : Same(d)
  BY <1>0, <1>3, OthersSame
<1>5. Same(c)
  BY <1>2, <1>4, Views DEF Same
<1>. QED  BY <1>4, <1>5, StutterSteps

LEMMA QuitDelivers == ASSUME IInv, Wired, NEW c \in Clients, Quit(c) PROVE Delivers
<1>. DEFINE o == conn[c]
            r == WriteResponse(o, Plain("OK"))
            w == IF r.output THEN OutputEnd(r) ELSE SocketEnd(r)
<1>0. conn \in [Clients -> Connections] /\ Sound(o) /\ byConnection' = byConnection
      /\ conn' = [conn EXCEPT ![c] = w]
  BY DEF IInv, Outputs, Quit, brokerVars
<1>1. /\ ~Refuses(o) => \/ /\ LinkOf(w) = "quitting"
                           /\ Waits(w) = Append(Waits(o), Plain("OK"))
                           /\ o.output => Bytes(Waits(o)) < maxPendingBytes
                        \/ o.output /\ Drops(o, w, 1)
      /\ Refuses(o) => LinkOf(w) = LinkOf(o) /\ Waits(w) = Waits(o)
  BY <1>0, QuitTakes
<1>. HIDE DEF w
<1>2. conn'[c] = w /\ \A d \in Clients \ {c} : Same(d)
  BY <1>0, OthersSame
<1>3. CASE Refuses(o)
  <2>1. Same(c)  BY <1>1, <1>2, <1>3, Views DEF Same
  <2>. QED  BY <1>2, <2>1, StutterSteps
<1>4. CASE ~Refuses(o)
  <2>1. Link(c) = "open" /\ Subs(c)' = {}
    BY <1>1, <1>2, <1>4, Views DEF Drops, LinkOf
  <2>2. \/ /\ Link(c)' = "quitting" /\ Pending(c)' = Append(Pending(c), Plain("OK"))
           /\ Bound(c) => Bytes(Pending(c)) < maxPendingBytes
        \/ Falls(c, 1) /\ Bound(c)
    <3>1. CASE o.output /\ Drops(o, w, 1)
      <4>1. LinkOf(w) = "gone"  BY <3>1 DEF Drops, LinkOf
      <4>. QED  BY <1>2, <2>1, <3>1, <4>1, Views DEF Falls, Drops
    <3>2. CASE ~(o.output /\ Drops(o, w, 1))
      BY <1>1, <1>2, <1>4, <3>2, Views
    <3>. QED  BY <3>1, <3>2
  <2>3. Promise!Quit(c)
    BY <1>2, <2>1, <2>2, QuitMaps
  <2>4. Wired'
    BY <1>2, <2>1, WiredStays
  <2>. QED  BY <2>3, <2>4 DEF Delivers, Promise!Next
<1>. QED  BY <1>3, <1>4

Acknowledged(frames, kind, count) ==
    /\ frames \in Seq(Frames) /\ frames # <<>>
    /\ Last(frames).kind = kind /\ Last(frames).body = count

\* The acknowledgements of a command: the last one has the number of subscriptions after all of it.
LEMMA AcksCount ==
    ASSUME NEW kind \in Kinds, NEW names \in Seq(Names), names # <<>>, NEW subs, IsFiniteSet(subs),
           NEW adding
    PROVE  Acknowledged(Acks(kind, names, subs, adding), kind,
             Cardinality(IF adding THEN subs \cup ToSet(names) ELSE subs \ ToSet(names)))
<1>. DEFINE acks == Acks(kind, names, subs, adding)
            named(i) == {names[j] : j \in 1..i}
            count(i) == Cardinality(IF adding THEN subs \cup named(i) ELSE subs \ named(i))
            n == Len(names)
<1>1. n \in Nat /\ n \in DOMAIN names /\ DOMAIN names = 1..n
  BY EmptySeq
<1>2. acks = [i \in 1..n |-> Frame(kind, names[i], count(i), 1)]
  BY DEF Acks
<1>3. acks \in Seq(Frames)
  BY AcksType
<1>4. named(n) = ToSet(names)
  BY <1>1 DEF ToSet
<1>. HIDE DEF count, acks, n
<1>5. Len(acks) = n /\ acks # <<>>
  BY <1>1, <1>2
<1>6. Last(acks) = Frame(kind, names[n], count(n), 1)
  BY <1>1, <1>2, <1>5 DEF Last
<1>7. Last(acks).kind = kind /\ Last(acks).body = count(n)
  BY <1>6 DEF Frame
<1>8. count(n) = Cardinality(IF adding THEN subs \cup ToSet(names) ELSE subs \ ToSet(names))
  <2>. HIDE DEF named
  <2>. QED  BY <1>4 DEF count
<1>. QED  BY <1>3, <1>5, <1>7, <1>8 DEF Acknowledged, acks

\* A push of acknowledgements is a step of Delivery, or no step when the connection takes no more.
LEMMA AcksDeliver ==
    ASSUME conn \in [Clients -> Connections], Wired, NEW c \in Clients, Sound(conn[c]),
           \A d \in Clients \ {c} : byConnection'[d] = byConnection[d],
           NEW frames, NEW kind \in {"subscribe", "unsubscribe", "psubscribe", "punsubscribe"},
           Acknowledged(frames, kind, Cardinality(ToSet(byConnection'[c]))),
           conn' = [conn EXCEPT ![c] = WritePubSub(conn[c], frames)]
    PROVE  Delivers
<1>. DEFINE o == conn[c]
            w == WritePubSub(o, frames)
<1>1. frames \in Seq(Frames) /\ frames # <<>>
      /\ Last(frames).kind = kind /\ Last(frames).body = Cardinality(ToSet(byConnection'[c]))
  BY DEF Acknowledged
<1>2. /\ ~Refuses(o) => (Takes(o, w, frames) /\ w.output) \/ Drops(o, w, Bytes(frames))
      /\ Refuses(o) => Holds(o, w)
  BY <1>1, WritePubSubTakes
<1>3. conn' = [conn EXCEPT ![c] = w]
  OBVIOUS
<1>4. Waits(o) \in Seq(Frames) /\ Bytes(Waits(o)) \in Nat
  BY WaitsType DEF Sound
<1>. HIDE DEF w
<1>5. conn'[c] = w /\ \A d \in Clients \ {c} : Same(d)
  BY <1>3, OthersSame
<1>. HIDE DEF o
<1>6. CASE Refuses(o)
  <2>1. Holds(o, w)  BY <1>2, <1>6
  <2>2. LinkOf(w) = LinkOf(o) /\ Waits(w) = Waits(o) /\ LinkOf(o) # "open"
    BY <1>6, <2>1, Views DEF Holds, LinkOf, Waits, o
  <2>3. Same(c)  BY <1>5, <2>2, Views DEF Same, o
  <2>. QED  BY <1>5, <2>3, StutterSteps
<1>7. CASE ~Refuses(o) /\ Takes(o, w, frames) /\ w.output
  <2>1. LinkOf(o) = "open" /\ LinkOf(w) = "open" /\ Waits(w) = Waits(o) \o frames
        /\ Bytes(Waits(w)) <= maxPendingBytes
    BY <1>7 DEF Takes, LinkOf, Refuses
  <2>2. Goes(c, frames)
    BY <1>5, <2>1, Views DEF Goes, o
  <2>3. Bound(c)' /\ Link(c) = "open" /\ Subs(c)' = ToSet(byConnection'[c]) /\ Pending(c) = Waits(o)
    BY <1>5, <1>7, <2>1, Views DEF o
  <2>4. Promise!Resubscribe(c)
    <3>1. Last(frames).body = Cardinality(Subs(c)')  BY <1>1, <2>3
    <3>. QED  BY <1>1, <1>4, <1>5, <2>2, <2>3, <3>1, ResubscribeMaps
  <2>5. Wired'
    BY <1>5, <2>3, WiredStays
  <2>. QED  BY <2>4, <2>5 DEF Delivers, Promise!Next
<1>8. CASE ~Refuses(o) /\ Drops(o, w, Bytes(frames))
  <2>1. LinkOf(o) = "open" /\ LinkOf(w) = "gone" /\ Waits(w) = <<>>
    BY <1>8 DEF Drops, LinkOf, Refuses
  <2>2. Bytes(Waits(o)) + (maxPendingBytes + 1) > maxPendingBytes
    BY <1>4, Limits
  <2>3. Falls(c, maxPendingBytes + 1) /\ Link(c) = "open" /\ Subs(c)' = {} /\ Pending(c) = Waits(o)
    BY <1>5, <2>1, <2>2, Views DEF Falls, o
  <2>4. Promise!Resubscribe(c)
    BY <1>4, <1>5, <2>3, ResubscribeMaps
  <2>5. Wired'
    BY <1>5, <2>3, WiredStays
  <2>. QED  BY <2>4, <2>5 DEF Delivers, Promise!Next
<1>. QED  BY <1>2, <1>6, <1>7, <1>8

\* With the names that are new, the subscriptions are all that were named and those that were.
LEMMA NewNamesSubscribe ==
    ASSUME NEW c, byConnection[c] \in Seq(Names), NEW names \in Seq(Names)
    PROVE  /\ NewNames(c, names) \in Seq(Names)
           /\ ToSet(byConnection[c] \o NewNames(c, names)) = ToSet(byConnection[c]) \cup ToSet(names)
<1>. DEFINE b == byConnection[c]
            P == {i \in DOMAIN names : /\ ~Contains(b, names[i])
                                       /\ \A j \in 1..(i - 1) : names[j] # names[i]}
            new == Chosen(names, P)
<1>1. NewNames(c, names) = new
  BY DEF NewNames
<1>2. \A x : Contains(b, x) <=> x \in ToSet(b)
  BY DEF Contains, ToSet
<1>3. DOMAIN names = 1..Len(names) /\ Len(names) \in Nat
  OBVIOUS
<1>4. ASSUME NEW x \in ToSet(names), x \notin ToSet(b)
      PROVE  \E i \in DOMAIN names : i \in P /\ names[i] = x
  <2>. DEFINE T == {i \in DOMAIN names : names[i] = x}
  <2>1. T # {} /\ T \in SUBSET Nat  BY <1>3 DEF ToSet
  <2>2. PICK i \in T : \A j \in T : i <= j  BY <2>1, LeastNumber
  <2>3. i \in DOMAIN names /\ names[i] = x  OBVIOUS
  <2>4. \A j \in 1..(i - 1) : names[j] # names[i]
    <3>1. \A j \in 1..(i - 1) : j \in DOMAIN names /\ ~(i <= j)  BY <1>3, <2>3
    <3>. QED  BY <2>2, <2>3, <3>1
  <2>5. ~Contains(b, names[i])  BY <1>2, <1>4, <2>3
  <2>. QED  BY <2>3, <2>4, <2>5
<1>5. \A i \in P : i \in DOMAIN names /\ names[i] \in ToSet(names)
  BY DEF ToSet
<1>. HIDE DEF P
<1>6. new \in Seq(Names) /\ \A x : x \in ToSet(new) <=> \E i \in DOMAIN names : i \in P /\ names[i] = x
  BY ChosenElements
<1>. HIDE DEF b, new
<1>7. ToSet(b \o new) = ToSet(b) \cup ToSet(new)
  BY <1>6, ConcatElements DEF b
<1>8. \A x : x \in ToSet(b \o new) <=> x \in ToSet(b) \/ x \in ToSet(names)
  BY <1>4, <1>5, <1>6, <1>7
<1>. QED  BY <1>1, <1>6, <1>8 DEF b

LEMMA SubscribeDelivers == ASSUME IInv, Wired, NEW c \in Clients, Subscribe(c) PROVE Delivers
<1>. DEFINE cmd == Head(todo[c])
            kind == IF cmd.op = "SUBSCRIBE" THEN "subscribe" ELSE "psubscribe"
            new == NewNames(c, cmd.names)
            subs == ToSet(byConnection[c])
            frames == Acks(kind, cmd.names, subs, TRUE)
<1>0. Broker /\ Chunked /\ conn \in [Clients -> Connections] /\ Sound(conn[c])
  BY DEF IInv, Outputs
<1>1. Handles(c, {"SUBSCRIBE", "PSUBSCRIBE"}) /\ Enlist(c, new)
      /\ conn' = [conn EXCEPT ![c] = WritePubSub(conn[c], frames)]
  BY DEF Subscribe, Pushed
<1>2. cmd \in Commands /\ cmd.op \in {"SUBSCRIBE", "PSUBSCRIBE"}
  BY <1>0, <1>1, Handling
<1>3. cmd.names \in Seq(Names) /\ cmd.names # <<>>
  BY <1>2, CommandShape
<1>4. byConnection \in [Clients -> Seq(Names)]
  BY <1>0 DEF Broker
<1>5. IsFiniteSet(subs)
  BY <1>4, SubsFinite
<1>6. kind \in Kinds /\ kind \in {"subscribe", "psubscribe"}
  BY DEF Kinds
<1>. HIDE DEF cmd, kind
<1>7. byConnection' = [byConnection EXCEPT ![c] = byConnection[c] \o new]
  BY <1>1, <1>4 DEF Enlist
<1>8. ToSet(byConnection[c] \o new) = subs \cup ToSet(cmd.names)
  BY <1>3, <1>4, NewNamesSubscribe
<1>. HIDE DEF new, subs
<1>9. Acknowledged(frames, kind, Cardinality(subs \cup ToSet(cmd.names)))
  BY <1>3, <1>5, <1>6, AcksCount
<1>. HIDE DEF frames
<1>10. ToSet(byConnection'[c]) = subs \cup ToSet(cmd.names)
       /\ \A d \in Clients \ {c} : byConnection'[d] = byConnection[d]
  BY <1>4, <1>7, <1>8
<1>11. Acknowledged(frames, kind, Cardinality(ToSet(byConnection'[c])))
  BY <1>9, <1>10
<1>. QED  BY <1>0, <1>1, <1>6, <1>10, <1>11, AcksDeliver

LEMMA UnsubscribeDelivers == ASSUME IInv, Wired, NEW c \in Clients, Unsubscribe(c) PROVE Delivers
<1>. DEFINE cmd == Head(todo[c])
            kind == IF cmd.op = "UNSUBSCRIBE" THEN "unsubscribe" ELSE "punsubscribe"
            names == IF cmd.names = <<>> THEN Own(c, cmd.op) ELSE cmd.names
            subs == ToSet(byConnection[c])
            frames == IF names = <<>> THEN <<Frame(kind, "", Cardinality(subs), 1)>>
                      ELSE Acks(kind, names, subs, FALSE)
<1>0. Broker /\ Chunked /\ conn \in [Clients -> Connections] /\ Sound(conn[c])
  BY DEF IInv, Outputs
<1>1. Handles(c, {"UNSUBSCRIBE", "PUNSUBSCRIBE"}) /\ Delist(c, ToSet(names) \cap subs)
      /\ conn' = [conn EXCEPT ![c] = WritePubSub(conn[c], frames)]
  BY DEF Unsubscribe, Pushed
<1>2. cmd \in Commands
  BY <1>0, <1>1, Handling
<1>3. byConnection \in [Clients -> Seq(Names)]
  BY <1>0 DEF Broker
<1>4. names \in Seq(Names)
  <2>1. cmd.names \in Seq(Names)  BY <1>2, CommandShape
  <2>2. Own(c, cmd.op) \in Seq(Names)  BY <1>3, OnlyElements DEF Own
  <2>. HIDE DEF cmd
  <2>. QED  BY <2>1, <2>2
<1>5. IsFiniteSet(subs)
  BY <1>3, SubsFinite
<1>6. kind \in Kinds /\ kind \in {"unsubscribe", "punsubscribe"}
  BY DEF Kinds
<1>. HIDE DEF cmd, kind, names
<1>7. ToSet(byConnection'[c]) = subs \ (ToSet(names) \cap subs)
  BY <1>0, <1>1, DelistSteps
<1>8. \A d \in Clients \ {c} : byConnection'[d] = byConnection[d]
  BY <1>1, <1>3 DEF Delist
<1>. HIDE DEF subs
<1>9. ToSet(byConnection'[c]) = subs \ ToSet(names)
  BY <1>7
<1>10. Acknowledged(frames, kind, Cardinality(subs \ ToSet(names)))
  <2>1. CASE names # <<>>
    <3>1. frames = Acks(kind, names, subs, FALSE)  BY <2>1
    <3>. QED  BY <1>4, <1>5, <1>6, <2>1, <3>1, AcksCount
  <2>2. CASE names = <<>>
    <3>. DEFINE x == Frame(kind, "", Cardinality(subs), 1)
    <3>1. frames = <<x>>  BY <2>2
    <3>2. x \in Frames
      <4>1. Cardinality(subs) \in Nat  BY <1>5, FS_CardinalityType
      <4>2. "" \in Names \cup {""}  BY Zenon
      <4>3. 1 \in Nat \ {0}  OBVIOUS
      <4>. QED  BY <1>6, <4>1, <4>2, <4>3, FrameType
    <3>3. x.kind = kind /\ x.body = Cardinality(subs)  BY DEF Frame
    <3>4. ToSet(names) = {}  BY <2>2 DEF ToSet
    <3>5. subs \ ToSet(names) = subs  BY <3>4
    <3>. HIDE DEF x, frames
    <3>6. frames \in Seq(Frames) /\ frames # <<>> /\ Last(frames) = x
      BY <3>1, <3>2 DEF Last
    <3>. QED  BY <3>3, <3>5, <3>6 DEF Acknowledged
  <2>. QED  BY <2>1, <2>2
<1>. HIDE DEF frames
<1>11. Acknowledged(frames, kind, Cardinality(ToSet(byConnection'[c])))
  BY <1>9, <1>10
<1>. QED  BY <1>0, <1>1, <1>6, <1>8, <1>11, AcksDeliver

LEMMA OneMoreTime == ASSUME NEW a \in Nat, NEW n \in Nat, n >= 1 PROVE a * (n - 1) + a = a * n
<1>. QED  OBVIOUS

\* Frames of one size.
LEMMA BytesOfEqual ==
    ASSUME NEW s \in Seq(Frames), NEW size \in Nat, \A i \in 1..Len(s) : s[i].size = size
    PROVE  Bytes(s) = size * Len(s)
<1>1. PICK f : Totals(s, f)
  BY HasTotals
<1>. DEFINE T == {n \in 0..Len(s) : f[n] # size * n}
<1>2. Len(s) \in Nat /\ f[0] = 0 /\ Bytes(s) = f[Len(s)]
      /\ \A n \in 1..Len(s) : f[n] = f[n - 1] + size
  BY <1>1 DEF Totals
<1>3. T = {}
  <2>1. ASSUME NEW n \in T, \A m \in T : n <= m PROVE FALSE
    <3>1. n \in 0..Len(s) /\ f[n] # size * n  OBVIOUS
    <3>2. n # 0
      <4>1. size * 0 = 0  OBVIOUS
      <4>. QED  BY <1>2, <3>1, <4>1
    <3>3. n \in 1..Len(s) /\ n - 1 \in 0..Len(s) /\ ~(n <= n - 1)  BY <1>2, <3>1, <3>2
    <3>4. f[n - 1] = size * (n - 1)  BY <2>1, <3>3
    <3>5. f[n] = size * (n - 1) + size  BY <1>2, <3>3, <3>4
    <3>6. size * (n - 1) + size = size * n  BY <1>2, <3>3, OneMoreTime
    <3>. QED  BY <3>1, <3>5, <3>6
  <2>. HIDE DEF T
  <2>2. T \in SUBSET Nat  BY <1>2 DEF T
  <2>. QED  BY <2>1, <2>2, LeastNumber
<1>4. Len(s) \in 0..Len(s)
  BY <1>2
<1>. QED  BY <1>2, <1>3, <1>4

\* A sequence without repetitions is an order of its elements.
LEMMA OrdersOfElements ==
    ASSUME NEW V, NEW s \in Seq(V), IsInjective(s), NEW S, \A x : x \in S <=> x \in ToSet(s)
    PROVE  Orders(S, s) /\ Len(s) = Cardinality(S)
<1>1. DOMAIN s = 1..Len(s) /\ Len(s) \in Nat /\ s \in [1..Len(s) -> V]
  OBVIOUS
<1>2. s \in [1..Len(s) -> S]
  BY <1>1 DEF ToSet
<1>3. \A x \in S : \E i \in 1..Len(s) : s[i] = x
  BY <1>1 DEF ToSet
<1>4. s \in Bijection(1..Len(s), S)
  BY <1>1, <1>2, <1>3 DEF Bijection, Injection, Surjection, IsInjective
<1>5. ExistsBijection(1..Len(s), S)
  BY <1>4 DEF ExistsBijection
<1>6. Cardinality(S) = Len(s)
  BY <1>1, <1>5, FS_CountingElements
<1>. QED  BY <1>2, <1>6 DEF Orders

\* The messages for an open connection are what it is due, in some order.
LEMMA MessagesInOrder ==
    ASSUME Broker, NEW c \in Clients, NEW channel \in Channels, NEW body \in Nat, NEW size \in Sizes,
           Link(c) = "open"
    PROVE  LET frames == Messages(c, channel, body, size)
               due == DueTo(c, channel, body, size)
           IN  Orders(due, frames) /\ Len(frames) = Cardinality(due)
<1>. DEFINE D == {p \in Patterns : channel \in Matching[p] /\ c \in registry[p]}
            matches == Only(patternOrder, D)
            direct == IF c \in registry[channel] THEN <<Frame("message", channel, body, size)>> ELSE <<>>
            others == [i \in DOMAIN matches |-> Frame("pmessage", matches[i], body, size)]
            due == DueTo(c, channel, body, size)
<1>0. size \in Nat \ {0}
  BY PubSubAssumption
<1>1. \A kind \in Kinds, name \in Names : Frame(kind, name, body, size) \in Frames
  <2>1. \A name \in Names : name \in Names \cup {""}  BY Zenon
  <2>. QED  BY <1>0, <2>1, FrameType
<1>2. channel \in Names /\ (\A p \in Patterns : p \in Names) /\ "message" \in Kinds /\ "pmessage" \in Kinds
  BY DEF Names, Kinds
<1>3. Subs(c) = ToSet(byConnection[c]) /\ byConnection[c] \in Seq(Names)
      /\ \A n \in Names : c \in registry[n] <=> n \in Subs(c)
  BY DEF Broker, Subs
<1>4. matches \in Seq(Patterns) /\ IsInjective(matches)
      /\ \A x : x \in ToSet(matches) <=> x \in ToSet(patternOrder) /\ x \in D
  <2>. HIDE DEF D
  <2>1. patternOrder \in Seq(Patterns) /\ IsInjective(patternOrder)  BY DEF Broker
  <2>. QED  BY <2>1, OnlyElements
<1>5. \A p : p \in ToSet(matches) <=> p \in Patterns /\ channel \in Matching[p] /\ p \in Subs(c)
  <2>1. ToSet(patternOrder) = {p \in Patterns : registry[p] # {}}  BY DEF Broker
  <2>. HIDE DEF matches
  <2>. QED  BY <1>2, <1>3, <1>4, <2>1
<1>. HIDE DEF matches
<1>6. DOMAIN matches = 1..Len(matches) /\ Len(matches) \in Nat /\ \A i \in DOMAIN matches : matches[i] \in Patterns
  BY <1>4
<1>7. others \in Seq(Frames) /\ DOMAIN others = DOMAIN matches
      /\ \A i \in DOMAIN matches : others[i] = Frame("pmessage", matches[i], body, size)
  <2>1. \A i \in DOMAIN matches : Frame("pmessage", matches[i], body, size) \in Frames
    BY <1>1, <1>2, <1>6
  <2>. QED  BY <1>6, <2>1
<1>8. direct \in Seq(Frames) /\ IsInjective(direct)
      /\ \A x : x \in ToSet(direct) <=> channel \in Subs(c) /\ x = Frame("message", channel, body, size)
  <2>. DEFINE x == Frame("message", channel, body, size)
  <2>1. x \in Frames  BY <1>1, <1>2
  <2>. HIDE DEF x
  <2>2. CASE c \in registry[channel]
    <3>1. direct = <<x>> /\ channel \in Subs(c)  BY <1>2, <1>3, <2>2 DEF x
    <3>. HIDE DEF direct
    <3>2. direct \in Seq(Frames) /\ DOMAIN direct = {1} /\ direct[1] = x  BY <2>1, <3>1
    <3>. QED  BY <3>1, <3>2 DEF x, ToSet, IsInjective
  <2>3. CASE c \notin registry[channel]
    <3>1. direct = <<>> /\ channel \notin Subs(c)  BY <1>2, <1>3, <2>3
    <3>. HIDE DEF direct
    <3>2. direct \in Seq(Frames) /\ DOMAIN direct = {}  BY <3>1
    <3>. QED  BY <3>1, <3>2 DEF ToSet, IsInjective
  <2>. QED  BY <2>2, <2>3
<1>. HIDE DEF direct, others
<1>9. \A x : x \in ToSet(others) <=> \E p \in ToSet(matches) : x = Frame("pmessage", p, body, size)
  BY <1>7 DEF ToSet
<1>10. IsInjective(others)
  <2>1. ASSUME NEW i \in DOMAIN matches, NEW j \in DOMAIN matches, others[i] = others[j] PROVE i = j
    <3>1. matches[i] = matches[j]  BY <1>7, <2>1 DEF Frame
    <3>. QED  BY <1>4, <3>1 DEF IsInjective
  <2>. QED  BY <1>7, <2>1 DEF IsInjective
<1>11. ToSet(direct) \cap ToSet(others) = {}
  <2>1. \A x \in ToSet(direct) : x.kind = "message"  BY <1>8 DEF Frame
  <2>2. \A x \in ToSet(others) : x.kind = "pmessage"  BY <1>9 DEF Frame
  <2>. QED  BY <2>1, <2>2
<1>12. direct \o others \in Seq(Frames) /\ IsInjective(direct \o others)
       /\ ToSet(direct \o others) = ToSet(direct) \cup ToSet(others)
  BY <1>7, <1>8, <1>10, <1>11, ConcatElements
<1>13. \A x : x \in due <=> x \in ToSet(direct \o others)
  <2>1. \A x : x \in due <=> \/ channel \in Subs(c) /\ x = Frame("message", channel, body, size)
                             \/ \E p \in ToSet(matches) : x = Frame("pmessage", p, body, size)
    BY <1>5 DEF DueTo
  <2>. HIDE DEF due
  <2>. QED  BY <1>8, <1>9, <1>12, <2>1
<1>14. Messages(c, channel, body, size) = direct \o others
  BY DEF Messages, direct, others, matches
<1>. HIDE DEF due
<1>15. Orders(due, direct \o others) /\ Len(direct \o others) = Cardinality(due)
  BY <1>12, <1>13, OrdersOfElements
<1>. QED  BY <1>14, <1>15 DEF due

\* What a message does to a connection.
LEMMA MessageTakes ==
    ASSUME IInv, Wired, NEW c \in Clients, NEW channel \in Channels, NEW body \in Nat, NEW size \in Sizes,
           NEW w, w = WritePubSub(conn[c], Messages(c, channel, body, size)), conn'[c] = w,
           byConnection'[c] = byConnection[c]
    PROVE  LET due == DueTo(c, channel, body, size)
           IN  /\ \/ \E frames : Orders(due, frames) /\ Goes(c, frames)
                  \/ due # {} /\ Falls(c, size * Cardinality(due))
               /\ Subs(c)' = IF Link(c)' = "open" THEN Subs(c) ELSE {}
               /\ Bound(c)' <=> Bound(c) /\ Link(c)' = "open"
<1>. DEFINE o == conn[c]
            frames == Messages(c, channel, body, size)
            due == DueTo(c, channel, body, size)
<1>0. Broker /\ Sound(o) /\ o \in Connections
  BY DEF IInv, Outputs, Sound
<1>1. frames \in Seq(Frames)
  BY <1>0, MessagesType
<1>2. Waits(o) \in Seq(Frames) /\ Bytes(Waits(o)) \in Nat /\ size \in Nat
  BY <1>0, WaitsType, PubSubAssumption DEF Sound
<1>3. w = WritePubSub(o, frames) /\ conn'[c] = w
  OBVIOUS
<1>4. CASE Link(c) # "open"
  <2>1. Subs(c) = {}  BY <1>4 DEF Subs
  <2>2. due = {}  BY <2>1 DEF DueTo
  <2>3. Refuses(o)  BY <1>4, Views
  <2>4. LinkOf(w) = LinkOf(o) /\ Waits(w) = Waits(o)
    <3>. HIDE DEF frames, o
    <3>1. CASE frames = <<>>
      <4>1. w = o  BY <1>3, <3>1 DEF WritePubSub
      <4>. QED  BY <4>1
    <3>2. CASE frames # <<>>
      <4>1. Holds(o, w)  BY <1>0, <1>1, <1>3, <2>3, <3>2, WritePubSubTakes
      <4>. QED  BY <4>1 DEF Holds, LinkOf, Waits
    <3>. QED  BY <3>1, <3>2
  <2>. HIDE DEF frames
  <2>5. Waits(o) \o <<>> = Waits(o)  BY <1>2
  <2>. HIDE DEF o
  <2>6. Goes(c, <<>>)
    BY <1>3, <1>4, <2>4, <2>5, Views DEF Goes, o
  <2>7. Orders(due, <<>>)
    <3>. HIDE DEF due
    <3>1. Cardinality({}) = 0  BY FS_EmptySet
    <3>2. <<>> \in [1..0 -> {}] /\ IsInjective(<<>>)  BY DEF IsInjective
    <3>. QED  BY <2>2, <3>1, <3>2 DEF Orders
  <2>8. /\ Subs(c)' = IF Link(c)' = "open" THEN Subs(c) ELSE {}
        /\ Bound(c)' <=> Bound(c) /\ Link(c)' = "open"
    BY <1>3, <1>4, <2>1, <2>4, Views DEF o
  <2>. QED  BY <2>6, <2>7, <2>8
<1>5. CASE Link(c) = "open"
  <2>1. Orders(due, frames) /\ Len(frames) = Cardinality(due)
    BY <1>0, <1>5, MessagesInOrder
  <2>2. ~Refuses(o) /\ LinkOf(o) = "open" /\ Subs(c) = ToSet(byConnection[c])
    BY <1>5, Views
  <2>3. \A d \in due : d.size = size
    BY DEF DueTo, Frame
  <2>4. due # {} => Subs(c) # {}
    BY DEF DueTo
  <2>. HIDE DEF due, frames, o
  <2>5. CASE frames = <<>>
    <3>1. w = o  BY <1>3, <2>5 DEF WritePubSub
    <3>2. Waits(o) \o frames = Waits(o)  BY <1>2, <2>5
    <3>3. Bound(c)' => Bytes(Waits(o)) <= maxPendingBytes
      BY <1>0, <1>3, <3>1, WithinLimit, Views DEF LinkOf
    <3>4. Goes(c, frames)
      BY <1>3, <3>1, <3>2, <3>3, Views DEF Goes, o
    <3>5. /\ Subs(c)' = IF Link(c)' = "open" THEN Subs(c) ELSE {}
          /\ Bound(c)' <=> Bound(c) /\ Link(c)' = "open"
      BY <1>3, <2>2, <3>1, Views DEF o
    <3>. QED  BY <2>1, <3>4, <3>5 DEF due
  <2>6. CASE frames # <<>>
    <3>1. (Takes(o, w, frames) /\ w.output) \/ Drops(o, w, Bytes(frames))
      BY <1>0, <1>1, <1>3, <2>2, <2>6, WritePubSubTakes
    <3>2. due # {}
      <4>1. Cardinality({}) = 0  BY FS_EmptySet
      <4>2. Len(frames) # 0  BY <1>1, <2>6, EmptySeq
      <4>. QED  BY <2>1, <4>1, <4>2
    <3>3. Bound(c)
      BY <2>4, <3>2 DEF Wired
    <3>4. CASE Takes(o, w, frames) /\ w.output
      <4>1. LinkOf(w) = "open" /\ Waits(w) = Waits(o) \o frames /\ Bytes(Waits(w)) <= maxPendingBytes
        BY <2>2, <3>4 DEF Takes, LinkOf
      <4>2. Goes(c, frames)
        BY <1>3, <2>2, <4>1, Views DEF Goes, o
      <4>3. /\ Subs(c)' = IF Link(c)' = "open" THEN Subs(c) ELSE {}
            /\ Bound(c)' <=> Bound(c) /\ Link(c)' = "open"
        BY <1>3, <2>2, <3>3, <3>4, <4>1, Views
      <4>. QED  BY <2>1, <4>2, <4>3 DEF due
    <3>5. CASE Drops(o, w, Bytes(frames))
      <4>1. Bytes(frames) = size * Len(frames)
        <5>1. ASSUME NEW i \in 1..Len(frames) PROVE frames[i].size = size
          <6>1. frames[i] \in due  BY <2>1, <5>1 DEF Orders
          <6>. QED  BY <2>3, <6>1
        <5>. QED  BY <1>1, <1>2, <5>1, BytesOfEqual
      <4>2. LinkOf(w) = "gone" /\ Waits(w) = <<>>
            /\ Bytes(Waits(o)) + size * Cardinality(due) > maxPendingBytes
        BY <2>1, <3>5, <4>1 DEF Drops, LinkOf
      <4>3. Falls(c, size * Cardinality(due))
        BY <1>3, <4>2, Views DEF Falls, o
      <4>4. /\ Subs(c)' = IF Link(c)' = "open" THEN Subs(c) ELSE {}
            /\ Bound(c)' <=> Bound(c) /\ Link(c)' = "open"
        BY <1>3, <4>2, Views
      <4>. QED  BY <3>2, <4>3, <4>4 DEF due
    <3>. QED  BY <3>1, <3>4, <3>5
  <2>. QED  BY <2>5, <2>6
<1>. QED  BY <1>4, <1>5

LEMMA PublishDelivers ==
    ASSUME IInv, Wired, NEW channel \in Channels, NEW size \in Sizes, Publish(channel, size)
    PROVE  Delivers
<1>0. PICK body \in 0..MaxInput : body = inputs
  BY DEF IInv, Chunked
<1>1. body \in Nat
  BY PubSubAssumption
<1>2. ASSUME NEW c \in Clients
      PROVE  LET due == DueTo(c, channel, body, size)
             IN  /\ \/ \E frames : Orders(due, frames) /\ Goes(c, frames)
                    \/ due # {} /\ Falls(c, size * Cardinality(due))
                 /\ Subs(c)' = IF Link(c)' = "open" THEN Subs(c) ELSE {}
                 /\ Bound(c)' <=> Bound(c) /\ Link(c)' = "open"
  <2>1. PICK w : w = WritePubSub(conn[c], Messages(c, channel, body, size))
    OBVIOUS
  <2>2. conn'[c] = w /\ byConnection'[c] = byConnection[c]
    BY <1>0, <2>1 DEF Publish, brokerVars
  <2>. QED  BY <1>1, <2>1, <2>2, MessageTakes
<1>3. Promise!Publish(channel, body, size)
  BY <1>2, PublishMaps
<1>4. Wired'
  <2>1. ASSUME NEW c \in Clients PROVE Subs(c)' # {} => Bound(c)'
    <3>1. /\ Subs(c)' = IF Link(c)' = "open" THEN Subs(c) ELSE {}
          /\ Bound(c)' <=> Bound(c) /\ Link(c)' = "open"
      BY <1>2
    <3>. QED  BY <3>1 DEF Wired
  <2>. QED  BY <2>1 DEF Wired
<1>. QED  BY <1>3, <1>4 DEF Delivers, Promise!Next

-----------------------------------------------------------------------------

LEMMA DeliveryInit == Init => Promise!Init /\ Wired
<1>. SUFFICES ASSUME Init PROVE Promise!Init /\ Wired
  OBVIOUS
<1>1. ASSUME NEW c \in Clients
      PROVE  Link(c) = "open" /\ Subs(c) = {} /\ Pending(c) = <<>> /\ ~Bound(c)
  <2>. DEFINE o == conn[c]
  <2>1. o.socket = "open" /\ ~o.ending /\ ~o.output /\ o.wire = <<>> /\ o.queue = <<>>
        /\ byConnection[c] = <<>>
    BY DEF Init
  <2>2. ToSet(byConnection[c]) = {} /\ <<>> \o <<>> = <<>>
    BY <2>1 DEF ToSet
  <2>. HIDE DEF o
  <2>3. LinkOf(o) = "open" /\ Waits(o) = <<>>
    BY <2>1, <2>2 DEF LinkOf, Waits
  <2>. QED  BY <2>1, <2>2, <2>3, Views DEF o
<1>2. Promise!Init
  BY <1>1 DEF Promise!Init, Subs, Pending, Bound
<1>. QED  BY <1>1, <1>2 DEF Wired

LEMMA DeliveryStep == IInv /\ Wired /\ [Next]_vars => [Promise!Next]_Promise!vars /\ Wired'
<1>. SUFFICES ASSUME IInv, Wired, [Next]_vars PROVE Delivers
  BY DEF Delivers
<1>1. CASE UNCHANGED vars
  BY <1>1, SilentDelivers DEF vars, brokerVars
<1>2. ASSUME NEW c \in Clients, Execute(c) PROVE Delivers
  <2>1. ASSUME Block(c) PROVE Delivers  BY <2>1, SilentDelivers DEF Block, brokerVars
  <2>. QED
    BY <1>2, <2>1, SubscribeDelivers, UnsubscribeDelivers, PingDelivers, OtherDelivers, QuitDelivers
       DEF Execute
<1>3. ASSUME NEW c \in Clients, Receive(c) PROVE Delivers
  BY <1>3, SilentDelivers DEF Receive, brokerVars
<1>4. ASSUME NEW c \in Clients, Wake(c) PROVE Delivers  BY <1>4, OtherDelivers
<1>5. ASSUME NEW c \in Clients, Flush(c) PROVE Delivers  BY <1>5, FlushDelivers
<1>6. ASSUME NEW c \in Clients, Drain(c) PROVE Delivers  BY <1>6, DrainDelivers
<1>7. ASSUME NEW c \in Clients, Leave(c) PROVE Delivers  BY <1>7, LeaveDelivers
<1>8. ASSUME NEW c \in Clients, Close(c) PROVE Delivers  BY <1>8, CloseDelivers
<1>9. ASSUME NEW channel \in Channels, NEW size \in Sizes, Publish(channel, size) PROVE Delivers
  BY <1>9, PublishDelivers
<1>. QED
  BY <1>1, <1>2, <1>3, <1>4, <1>5, <1>6, <1>7, <1>8, <1>9 DEF Next

\* The broker, the outputs and the connections implement Delivery: whatever chunks come and
\* connections go, frames keep their order through wire, queue and drain, each message goes once to
\* every subscription it matches, and a connection over its limit is cut off, and no other.
THEOREM DeliversAsPromised == Spec => ImplementsDelivery
<1>1. Init => IInv /\ Wired /\ Promise!Init
  BY InvInit, DeliveryInit
<1>2. IInv /\ Wired /\ [Next]_vars => IInv' /\ Wired' /\ [Promise!Next]_Promise!vars
  BY InvStep, DeliveryStep
<1>. QED  BY <1>1, <1>2, PTL DEF Spec, ImplementsDelivery, Promise!Spec
=============================================================================

-------------------------- MODULE CollectionsProofs --------------------------
(***************************************************************************)
(* What Collections keeps and promises, for every value of its constants:  *)
(* types, the agreement of rows, ends and counters, reads from the cache,  *)
(* and what the list and sorted set commands do.                           *)
(*                                                                         *)
(* IInv is inductive: each key has rows of one kind, a list's rows fill    *)
(* head..tail, a sorted set's counter is right or missing, and what is     *)
(* cached is all of the rows.  RowSets, the same for the counters of sets, *)
(* is inductive only where SPOP takes no negative count.                   *)
(***************************************************************************)
EXTENDS Collections, FiniteSetTheorems, SequenceTheorems, NaturalsInduction, TLAPS

\* A set of natural numbers that is not empty has a least element.
LEMMA LeastNumber ==
    ASSUME NEW T \in SUBSET Nat, T # {}
    PROVE  \E n \in T : \A m \in T : n <= m
<1>. DEFINE R == OpToRel(<, Nat)
<1>1. IsWellFoundedOn(R, Nat)
  BY NatLessThanWellFounded
<1>2. \A m, n \in Nat : m < n => <<m, n>> \in R
  BY DEF OpToRel
<1>. HIDE DEF R
<1>3. PICK n \in T : \A m \in T : ~(<<m, n>> \in R)
  BY <1>1, WFMin
<1>4. \A m \in T : ~(m < n)
  BY <1>2, <1>3
<1>. QED  BY <1>4

\* A function of the numbers up to n is a sequence of length n.
LEMMA FunctionIsSeq ==
    ASSUME NEW V, NEW n \in Nat, NEW f \in [1..n -> V]
    PROVE  f \in Seq(V) /\ Len(f) = n
<1>1. f \in Seq(V)
  OBVIOUS
<1>2. DOMAIN f = 1..Len(f) /\ DOMAIN f = 1..n /\ Len(f) \in Nat
  BY <1>1, LenProperties
<1>. QED  BY <1>1, <1>2

-----------------------------------------------------------------------------
(* Orders.  The rank of an element is the number of those before it; in a  *)
(* finite set with a strict order each rank is that of one element.        *)

Orders(R, W) ==
    /\ \A a \in W : <<a, a>> \notin R
    /\ \A a, b \in W : a # b => <<a, b>> \in R \/ <<b, a>> \in R
    /\ \A a, b, c \in W : <<a, b>> \in R /\ <<b, c>> \in R => <<a, c>> \in R

Lower(R, W, m) == {o \in W : <<o, m>> \in R}

\* A rank is a number below the size of the set.
LEMMA LowerIsFinite ==
    ASSUME NEW R, NEW W, IsFiniteSet(W), Orders(R, W), NEW m \in W
    PROVE  /\ IsFiniteSet(Lower(R, W, m))
           /\ Cardinality(Lower(R, W, m)) \in 0..(Cardinality(W) - 1)
<1>1. Lower(R, W, m) \in SUBSET W /\ m \notin Lower(R, W, m)
  BY DEF Lower, Orders
<1>2. IsFiniteSet(Lower(R, W, m)) /\ Cardinality(Lower(R, W, m)) <= Cardinality(W)
      /\ Cardinality(Lower(R, W, m)) # Cardinality(W)
  BY <1>1, FS_Subset
<1>3. Cardinality(W) \in Nat /\ Cardinality(Lower(R, W, m)) \in Nat
  BY <1>2, FS_CardinalityType
<1>. QED  BY <1>2, <1>3

\* Of two elements the later one has the higher rank.
LEMMA RanksGrow ==
    ASSUME NEW R, NEW W, IsFiniteSet(W), Orders(R, W), NEW a \in W, NEW b \in W, <<a, b>> \in R
    PROVE  Cardinality(Lower(R, W, a)) < Cardinality(Lower(R, W, b))
<1>1. Lower(R, W, a) \in SUBSET Lower(R, W, b) /\ a \in Lower(R, W, b) /\ a \notin Lower(R, W, a)
  BY DEF Lower, Orders
<1>2. IsFiniteSet(Lower(R, W, b)) /\ Cardinality(Lower(R, W, b)) \in Nat
      /\ Cardinality(Lower(R, W, a)) \in Nat
  BY LowerIsFinite
<1>3. Cardinality(Lower(R, W, a)) <= Cardinality(Lower(R, W, b))
      /\ Cardinality(Lower(R, W, b)) # Cardinality(Lower(R, W, a))
  BY <1>1, <1>2, FS_Subset
<1>. QED  BY <1>2, <1>3

\* Two elements with one rank are the same.
LEMMA RanksTell ==
    ASSUME NEW R, NEW W, IsFiniteSet(W), Orders(R, W), NEW a \in W, NEW b \in W,
           Cardinality(Lower(R, W, a)) = Cardinality(Lower(R, W, b))
    PROVE  a = b
<1>1. Cardinality(Lower(R, W, a)) \in Nat
  BY LowerIsFinite
<1>2. ~(<<a, b>> \in R) /\ ~(<<b, a>> \in R)
  BY <1>1, RanksGrow
<1>. QED  BY <1>2 DEF Orders

\* Every number below the size of the set is the rank of an element.
LEMMA RanksAreAllThere ==
    ASSUME NEW R, NEW W, IsFiniteSet(W), Orders(R, W), NEW r \in 0..(Cardinality(W) - 1)
    PROVE  \E m \in W : Cardinality(Lower(R, W, m)) = r
<1>. DEFINE rank == [m \in W |-> Cardinality(Lower(R, W, m))]
            T == 0..(Cardinality(W) - 1)
<1>0. Cardinality(W) \in Nat
  BY FS_CardinalityType
<1>1. rank \in [W -> T]
  BY LowerIsFinite
<1>2. rank \in Injection(W, T)
  BY <1>1, RanksTell DEF Injection, IsInjective
<1>3. IsFiniteSet(T) /\ Cardinality(T) = Cardinality(W)
  BY <1>0, FS_Interval
<1>4. rank \in Surjection(W, T)
  <2>. HIDE DEF rank, T
  <2>. QED  BY <1>2, <1>3, FS_Injection
<1>. QED  BY <1>4 DEF Surjection

\* The n elements of s are those of W in the order R.
Arranges(s, n, W, R) ==
    /\ s \in [1..n -> W]
    /\ \A i, j \in 1..n : i < j => <<s[i], s[j]>> \in R
    /\ \A m \in W : \E i \in 1..n : s[i] = m

\* What has the elements by rank has them in order.
LEMMA RanksArrange ==
    ASSUME NEW R, NEW W, IsFiniteSet(W), Orders(R, W), NEW s \in [1..Cardinality(W) -> W],
           \A i \in 1..Cardinality(W) : Cardinality(Lower(R, W, s[i])) = i - 1
    PROVE  Arranges(s, Cardinality(W), W, R)
<1>0. Cardinality(W) \in Nat
  BY FS_CardinalityType
<1>1. ASSUME NEW i \in 1..Cardinality(W), NEW j \in 1..Cardinality(W), i < j
      PROVE  <<s[i], s[j]>> \in R
  <2>1. s[i] \in W /\ s[j] \in W  OBVIOUS
  <2>2. Cardinality(Lower(R, W, s[i])) < Cardinality(Lower(R, W, s[j]))  BY <1>0, <1>1
  <2>3. s[i] # s[j]  BY <1>0, <2>2
  <2>4. ~(<<s[j], s[i]>> \in R)
    <3>1. SUFFICES ASSUME <<s[j], s[i]>> \in R PROVE FALSE  OBVIOUS
    <3>2. Cardinality(Lower(R, W, s[j])) < Cardinality(Lower(R, W, s[i]))  BY <2>1, <3>1, RanksGrow
    <3>. QED  BY <1>0, <2>2, <3>2
  <2>. QED  BY <2>1, <2>3, <2>4 DEF Orders
<1>2. ASSUME NEW m \in W PROVE \E i \in 1..Cardinality(W) : s[i] = m
  <2>1. Cardinality(Lower(R, W, m)) \in 0..(Cardinality(W) - 1)  BY LowerIsFinite
  <2>. DEFINE i == Cardinality(Lower(R, W, m)) + 1
  <2>2. i \in 1..Cardinality(W) /\ i - 1 = Cardinality(Lower(R, W, m))  BY <1>0, <2>1
  <2>3. s[i] \in W /\ Cardinality(Lower(R, W, s[i])) = Cardinality(Lower(R, W, m))  BY <2>2
  <2>4. s[i] = m  BY <2>3, RanksTell
  <2>. QED  BY <2>2, <2>4
<1>. QED  BY <1>1, <1>2 DEF Arranges

\* A sequence in order has every element at its rank, and as many as there are.
LEMMA ArrangedByRank ==
    ASSUME NEW R, NEW W, IsFiniteSet(W), Orders(R, W), NEW n \in Nat, NEW t, Arranges(t, n, W, R)
    PROVE  /\ n = Cardinality(W)
           /\ \A i \in 1..n : Cardinality(Lower(R, W, t[i])) = i - 1
<1>0. /\ t \in [1..n -> W]
      /\ \A i, j \in 1..n : i < j => <<t[i], t[j]>> \in R
      /\ \A m \in W : \E i \in 1..n : t[i] = m
  BY DEF Arranges
<1>1. \A i, j \in 1..n : t[i] = t[j] => i = j
  <2>1. SUFFICES ASSUME NEW i \in 1..n, NEW j \in 1..n, t[i] = t[j], i < j PROVE FALSE
    OBVIOUS
  <2>2. t[i] \in W /\ <<t[i], t[i]>> \in R  BY <1>0, <2>1
  <2>. QED  BY <2>2 DEF Orders
<1>2. t \in Bijection(1..n, W)
  BY <1>0, <1>1 DEF Bijection, Injection, Surjection, IsInjective
<1>3. n = Cardinality(W)
  BY <1>2, FS_CountingElements DEF ExistsBijection
<1>4. ASSUME NEW i \in 1..n PROVE Cardinality(Lower(R, W, t[i])) = i - 1
  <2>. DEFINE u == [j \in 1..(i - 1) |-> t[j]]
              B == Lower(R, W, t[i])
  <2>0. t[i] \in W /\ \A j \in 1..n : t[j] \in W  BY <1>0
  <2>1. \A j \in 1..(i - 1) : j \in 1..n /\ j < i  OBVIOUS
  <2>2. u \in [1..(i - 1) -> B]
    BY <1>0, <2>0, <2>1 DEF Lower
  <2>3. ASSUME NEW m \in B PROVE \E j \in 1..(i - 1) : u[j] = m
    <3>1. m \in W /\ <<m, t[i]>> \in R  BY DEF Lower
    <3>2. PICK j \in 1..n : t[j] = m  BY <1>0, <3>1
    <3>3. j # i  BY <3>1, <3>2, <2>0 DEF Orders
    <3>4. ~(i < j)
      <4>1. SUFFICES ASSUME i < j PROVE FALSE  OBVIOUS
      <4>2. <<t[i], m>> \in R  BY <1>0, <3>2, <4>1
      <4>. QED  BY <4>2, <3>1, <2>0 DEF Orders
    <3>5. j \in 1..(i - 1)  BY <3>3, <3>4
    <3>. QED  BY <3>2, <3>5
  <2>4. \A j, k \in 1..(i - 1) : u[j] = u[k] => j = k
    BY <1>1, <2>1
  <2>5. u \in Bijection(1..(i - 1), B)
    <3>. HIDE DEF u, B
    <3>. QED  BY <2>2, <2>3, <2>4 DEF Bijection, Injection, Surjection, IsInjective
  <2>6. i - 1 \in Nat  OBVIOUS
  <2>. QED  BY <2>5, <2>6, FS_CountingElements DEF ExistsBijection
<1>. QED  BY <1>3, <1>4

\* There is one sequence that has the elements of a set in order.
LEMMA OneArrangement ==
    ASSUME NEW R, NEW W, IsFiniteSet(W), Orders(R, W), NEW n \in Nat, NEW t, Arranges(t, n, W, R),
           NEW s, Arranges(s, Cardinality(W), W, R)
    PROVE  n = Cardinality(W) /\ s = t
<1>1. n = Cardinality(W) /\ \A i \in 1..n : Cardinality(Lower(R, W, t[i])) = i - 1
  BY ArrangedByRank
<1>2. Arranges(s, n, W, R)
  BY <1>1
<1>3. \A i \in 1..n : Cardinality(Lower(R, W, s[i])) = i - 1
  BY <1>2, ArrangedByRank
<1>4. s \in [1..n -> W] /\ t \in [1..n -> W]
  BY <1>2 DEF Arranges
<1>5. ASSUME NEW i \in 1..n PROVE s[i] = t[i]
  <2>1. s[i] \in W /\ t[i] \in W  BY <1>4
  <2>2. Cardinality(Lower(R, W, s[i])) = Cardinality(Lower(R, W, t[i]))  BY <1>1, <1>3
  <2>. QED  BY <2>1, <2>2, RanksTell
<1>. QED  BY <1>1, <1>4, <1>5

-----------------------------------------------------------------------------
(* Numbers in order.                                                       *)

\* The operators of the library are the same in every module that takes them.
LEMMA Same ==
    /\ \A X : L!Cardinality(X) = Cardinality(X) /\ S!Cardinality(X) = Cardinality(X)
              /\ Z!Cardinality(X) = Cardinality(X)
    /\ \A X : L!Min(X) = Min(X) /\ L!Max(X) = Max(X) /\ S!Min(X) = Min(X) /\ S!Max(X) = Max(X)
              /\ Z!Min(X) = Min(X) /\ Z!Max(X) = Max(X)
    /\ \A X : L!Reverse(X) = Reverse(X) /\ Z!Reverse(X) = Reverse(X)
    /\ \A X : L!ToSet(X) = ToSet(X) /\ Z!ToSet(X) = ToSet(X)
    /\ \A f, X : L!Restrict(f, X) = Restrict(f, X) /\ Z!Restrict(f, X) = Restrict(f, X)
<1>1. \A X : L!Cardinality(X) = Cardinality(X) /\ S!Cardinality(X) = Cardinality(X)
             /\ Z!Cardinality(X) = Cardinality(X)
  BY DEF Cardinality, L!Cardinality, S!Cardinality, Z!Cardinality
<1>2. \A X : L!Min(X) = Min(X) /\ L!Max(X) = Max(X) /\ S!Min(X) = Min(X) /\ S!Max(X) = Max(X)
             /\ Z!Min(X) = Min(X) /\ Z!Max(X) = Max(X)
  BY DEF Min, Max, L!Min, L!Max, S!Min, S!Max, Z!Min, Z!Max
<1>3. \A X : L!Reverse(X) = Reverse(X) /\ Z!Reverse(X) = Reverse(X)
  BY DEF Reverse, L!Reverse, Z!Reverse
<1>4. \A X : L!ToSet(X) = ToSet(X) /\ Z!ToSet(X) = ToSet(X)
  BY DEF ToSet, L!ToSet, Z!ToSet
<1>5. \A f, X : L!Restrict(f, X) = Restrict(f, X) /\ Z!Restrict(f, X) = Restrict(f, X)
  BY DEF Restrict, L!Restrict, Z!Restrict
<1>. QED  BY <1>1, <1>2, <1>3, <1>4, <1>5

\* The instances of the storage modules order rows in the same way.
LEMMA SameOrder ==
    /\ \A X : L!InOrder(X) = InOrder(X) /\ Z!InOrder(X) = InOrder(X)
    /\ \A f, X : L!Picked(f, X) = Picked(f, X) /\ Z!Picked(f, X) = Picked(f, X)
<1>1. \A X : L!InOrder(X) = InOrder(X) /\ Z!InOrder(X) = InOrder(X)
  BY DEF InOrder, L!InOrder, Z!InOrder, Cardinality, L!Cardinality, Z!Cardinality
<1>2. \A f, X : L!Picked(f, X) = Picked(f, X) /\ Z!Picked(f, X) = Picked(f, X)
  BY <1>1 DEF Picked, L!Picked, Z!Picked
<1>. QED  BY <1>1, <1>2

LessThan == {p \in Int \X Int : p[1] < p[2]}

\* The numbers of rows are ordered by <.
LEMMA LessOrders == ASSUME NEW T \in SUBSET Int PROVE Orders(LessThan, T)
<1>1. \A a, b \in T : a \in Int /\ b \in Int /\ (<<a, b>> \in LessThan <=> a < b)
  BY DEF LessThan
<1>. QED  BY <1>1 DEF Orders

\* InOrder lists a finite set of numbers from the least to the greatest.
LEMMA InOrderArranges ==
    ASSUME NEW T \in SUBSET Int, IsFiniteSet(T)
    PROVE  Arranges(InOrder(T), Cardinality(T), T, LessThan)
<1>. DEFINE s == InOrder(T)
            n == Cardinality(T)
            Upto(q) == {p \in T : p <= q}
<1>0. n \in Nat /\ Orders(LessThan, T)
  BY FS_CardinalityType, LessOrders
<1>1. ASSUME NEW q \in T
      PROVE  /\ Cardinality(Upto(q)) = Cardinality(Lower(LessThan, T, q)) + 1
             /\ Cardinality(Lower(LessThan, T, q)) \in Nat
  <2>1. \A p \in T : p \in Int /\ q \in Int /\ (<<p, q>> \in LessThan <=> p < q)  BY DEF LessThan
  <2>2. Upto(q) = Lower(LessThan, T, q) \cup {q} /\ q \notin Lower(LessThan, T, q)
    <3>1. Lower(LessThan, T, q) = {p \in T : p < q}  BY <2>1 DEF Lower
    <3>2. \A p \in T : p <= q <=> p < q \/ p = q  BY <2>1
    <3>3. {p \in T : p <= q} = {p \in T : p < q} \cup {q}  BY <3>2
    <3>. QED  BY <2>1, <3>1, <3>3
  <2>3. IsFiniteSet(Lower(LessThan, T, q)) /\ Cardinality(Lower(LessThan, T, q)) \in Nat
    BY <1>0, LowerIsFinite
  <2>. QED  BY <2>2, <2>3, FS_AddElement
<1>2. ASSUME NEW i \in 1..n
      PROVE  s[i] \in T /\ Cardinality(Lower(LessThan, T, s[i])) = i - 1
  <2>1. i - 1 \in 0..(n - 1)  BY <1>0
  <2>2. PICK m \in T : Cardinality(Lower(LessThan, T, m)) = i - 1  BY <1>0, <2>1, RanksAreAllThere
  <2>3. Cardinality(Upto(m)) = i  BY <1>1, <2>2
  <2>4. s[i] = CHOOSE q \in T : Cardinality(Upto(q)) = i  BY DEF InOrder
  <2>5. s[i] \in T /\ Cardinality(Upto(s[i])) = i
    <3>. HIDE DEF Upto, s
    <3>. QED  BY <2>3, <2>4
  <2>6. Cardinality(Lower(LessThan, T, s[i])) \in Nat
        /\ Cardinality(Lower(LessThan, T, s[i])) + 1 = i
    <3>. HIDE DEF Upto, s
    <3>. QED  BY <1>1, <2>5
  <2>. HIDE DEF Upto, s, n
  <2>. QED  BY <2>5, <2>6
<1>3. s \in [1..n -> T]
  <2>0. s = [i \in 1..n |-> CHOOSE q \in T : Cardinality(Upto(q)) = i]  BY DEF InOrder
  <2>. HIDE DEF s, n
  <2>1. s = [i \in 1..n |-> s[i]]  BY <2>0
  <2>. QED  BY <1>2, <2>1
<1>. HIDE DEF s
<1>4. Arranges(s, n, T, LessThan)
  BY <1>0, <1>2, <1>3, RanksArrange
<1>. QED  BY <1>4 DEF s

\* What has the numbers of a set in ascending order is InOrder of the set.
LEMMA InOrderIs ==
    ASSUME NEW T \in SUBSET Int, IsFiniteSet(T), NEW n \in Nat, NEW t, Arranges(t, n, T, LessThan)
    PROVE  n = Cardinality(T) /\ InOrder(T) = t
BY InOrderArranges, LessOrders, OneArrangement

\* The numbers from a to b in order count up from a.
LEMMA InOrderInterval ==
    ASSUME NEW a \in Int, NEW b \in Int, a <= b + 1
    PROVE  InOrder(a..b) = [i \in 1..(b - a + 1) |-> a + i - 1]
<1>. DEFINE n == b - a + 1
            t == [i \in 1..n |-> a + i - 1]
<1>1. n \in Nat /\ IsFiniteSet(a..b) /\ (a..b) \in SUBSET Int
  BY FS_Interval
<1>2. Arranges(t, n, a..b, LessThan)
  <2>1. t \in [1..n -> a..b]  OBVIOUS
  <2>2. \A i, j \in 1..n : i < j => <<t[i], t[j]>> \in LessThan  BY DEF LessThan
  <2>3. ASSUME NEW m \in a..b PROVE \E i \in 1..n : t[i] = m
    <3>1. m - a + 1 \in 1..n /\ t[m - a + 1] = m  OBVIOUS
    <3>. QED  BY <3>1
  <2>. QED  BY <2>1, <2>2, <2>3 DEF Arranges
<1>. QED  BY <1>1, <1>2, InOrderIs

\* The rows from a to b, in order, are those at a, a + 1 and so on.
LEMMA PickedInterval ==
    ASSUME NEW f, NEW a \in Int, NEW b \in Int, a <= b + 1
    PROVE  Picked(f, a..b) = [i \in 1..(b - a + 1) |-> f[a + i - 1]]
<1>. DEFINE n == b - a + 1
            t == [i \in 1..n |-> a + i - 1]
<1>1. Picked(f, a..b) = [i \in DOMAIN t |-> f[t[i]]]
  BY InOrderInterval DEF Picked
<1>2. DOMAIN t = 1..n /\ \A i \in 1..n : t[i] = a + i - 1
  OBVIOUS
<1>. HIDE DEF t
<1>. QED  BY <1>1, <1>2

\* As many are picked as there are numbers, and they are values of the function.
LEMMA PickedType ==
    ASSUME NEW T \in SUBSET Int, IsFiniteSet(T), NEW f, NEW V, \A q \in T : f[q] \in V
    PROVE  /\ Picked(f, T) \in Seq(V)
           /\ Len(Picked(f, T)) = Cardinality(T)
           /\ Cardinality(T) \in Nat
           /\ Picked(f, T) \in [1..Cardinality(T) -> V]
           /\ \A i \in 1..Cardinality(T) : InOrder(T)[i] \in T /\ Picked(f, T)[i] = f[InOrder(T)[i]]
<1>. DEFINE s == InOrder(T)
            n == Cardinality(T)
<1>0. n \in Nat
  BY FS_CardinalityType
<1>1. s \in [1..n -> T]
  BY InOrderArranges DEF Arranges
<1>2. Picked(f, T) = [i \in 1..n |-> f[s[i]]]
  BY <1>1 DEF Picked
<1>. HIDE DEF s, n
<1>3. \A i \in 1..n : f[s[i]] \in V
  BY <1>1
<1>4. Picked(f, T) \in [1..n -> V]
  BY <1>2, <1>3
<1>5. Picked(f, T) \in Seq(V) /\ Len(Picked(f, T)) = n
  BY <1>0, <1>4, FunctionIsSeq
<1>. QED  BY <1>0, <1>1, <1>2, <1>4, <1>5 DEF s, n

-----------------------------------------------------------------------------
(* Lists.                                                                  *)

\* The rows of a list are those from head to tail; there are some, or there is no list.
GoodList(l) ==
    /\ l \in [head : Int, tail : Int, items : [l.head..l.tail -> Values]]
    /\ l = L!NoList \/ l.head <= l.tail

ValuesOf(l) == [i \in 1..(l.tail - l.head + 1) |-> l.items[l.head + i - 1]]

\* The empty sequence is the function with no arguments.
LEMMA EmptyFunction == ASSUME NEW V PROVE <<>> \in [{} -> V]
<1>1. <<>> \in Seq(V) /\ Len(<<>>) = 0
  BY EmptySeq
<1>2. <<>> \in [1..0 -> V]
  BY <1>1, LenProperties
<1>3. 1..0 = {}
  OBVIOUS
<1>. QED  BY <1>2, <1>3

\* A key with no list is an empty one, from position 0 to -1.
LEMMA NoListIs ==
    /\ GoodList(L!NoList)
    /\ L!NoList.head = 0 /\ L!NoList.tail = -1 /\ L!NoList.items = <<>>
<1>1. <<>> \in [0..-1 -> Values]
  <2>1. 0..-1 = {}  OBVIOUS
  <2>. QED  BY <2>1, EmptyFunction
<1>. QED  BY <1>1 DEF GoodList, L!NoList

\* A list has one row at each position from head to tail.
LEMMA ListParts ==
    ASSUME NEW l, GoodList(l)
    PROVE  /\ l.head \in Int /\ l.tail \in Int /\ l.head <= l.tail + 1
           /\ l.items \in [l.head..l.tail -> Values] /\ DOMAIN l.items = l.head..l.tail
           /\ L!Length(l) = l.tail - l.head + 1 /\ L!Length(l) \in Nat
           /\ l # L!NoList <=> l.head <= l.tail
           /\ l # L!NoList <=> L!Length(l) > 0
<1>1. l.head \in Int /\ l.tail \in Int /\ l.items \in [l.head..l.tail -> Values]
  BY DEF GoodList
<1>2. l = L!NoList \/ l.head <= l.tail
  BY DEF GoodList
<1>3. l = L!NoList => l.head = 0 /\ l.tail = -1
  BY NoListIs
<1>. QED  BY <1>1, <1>2, <1>3 DEF L!Length

\* The elements of a list are as many as its rows.
LEMMA ValuesType ==
    ASSUME NEW l, GoodList(l)
    PROVE  /\ ValuesOf(l) \in Seq(Values)
           /\ Len(ValuesOf(l)) = L!Length(l)
           /\ ValuesOf(l) \in [1..L!Length(l) -> Values]
<1>. DEFINE n == l.tail - l.head + 1
<1>1. /\ l.head \in Int /\ l.tail \in Int /\ n \in Nat /\ n = L!Length(l)
      /\ l.items \in [l.head..l.tail -> Values]
  BY ListParts
<1>2. \A i \in 1..n : l.head + i - 1 \in l.head..l.tail
  BY <1>1
<1>3. \A i \in 1..n : l.items[l.head + i - 1] \in Values
  BY <1>1, <1>2
<1>4. ValuesOf(l) = [i \in 1..n |-> l.items[l.head + i - 1]]
  BY DEF ValuesOf
<1>. HIDE DEF n
<1>5. ValuesOf(l) \in [1..n -> Values]
  BY <1>3, <1>4
<1>6. ValuesOf(l) \in Seq(Values) /\ Len(ValuesOf(l)) = n
  BY <1>1, <1>5, FunctionIsSeq
<1>. QED  BY <1>1, <1>5, <1>6

\* What a new list is made of.
LEMMA MakeList ==
    ASSUME NEW a \in Int, NEW b \in Int, NEW g \in [a..b -> Values], a <= b,
           NEW r, r = [head |-> a, tail |-> b, items |-> g]
    PROVE  /\ GoodList(r) /\ r # L!NoList
           /\ r.head = a /\ r.tail = b /\ r.items = g
           /\ L!Length(r) = b - a + 1
           /\ ValuesOf(r) = [i \in 1..(b - a + 1) |-> g[a + i - 1]]
<1>1. r.head = a /\ r.tail = b /\ r.items = g
  OBVIOUS
<1>2. GoodList(r)
  BY <1>1 DEF GoodList
<1>3. r # L!NoList
  BY <1>1, <1>2, ListParts
<1>4. L!Length(r) = b - a + 1
  BY <1>1 DEF L!Length
<1>5. ValuesOf(r) = [i \in 1..(b - a + 1) |-> g[a + i - 1]]
  BY <1>1 DEF ValuesOf
<1>. QED  BY <1>1, <1>2, <1>3, <1>4, <1>5

\* LPUSH: the values in front, the last of them first.
LEMMA LPushGives ==
    ASSUME NEW l, GoodList(l), NEW values \in Seq(Values), values # <<>>
    PROVE  LET r == L!LPush(l, values)
           IN  /\ GoodList(r.list) /\ r.list # L!NoList
               /\ L!Length(r.list) = L!Length(l) + Len(values)
               /\ r.reply = L!Length(r.list)
               /\ \A i \in 1..Len(values) : ValuesOf(r.list)[i] = values[Len(values) - i + 1]
               /\ \A i \in 1..L!Length(l) : ValuesOf(r.list)[Len(values) + i] = ValuesOf(l)[i]
<1>. DEFINE m == Len(values)
            a == IF l = L!NoList THEN 0 ELSE l.head - m
            b == IF l = L!NoList THEN m - 1 ELSE l.tail
            g == L!With(L!Rows(a, L!Reverse(values)), l.items)
<1>0. m \in Nat \ {0} /\ values \in [1..m -> Values]
  BY EmptySeq, LenProperties
<1>1. L!LPush(l, values) = [list |-> [head |-> a, tail |-> b, items |-> g], reply |-> b - a + 1]
  BY DEF L!LPush
<1>2. L!Reverse(values) = [i \in 1..m |-> values[m - i + 1]]
  BY DEF L!Reverse
<1>3. Len(L!Reverse(values)) = m
  BY <1>0, <1>2
<1>4. L!Rows(a, L!Reverse(values)) = [q \in a..(a + m - 1) |-> values[m - (q - a + 1) + 1]]
  <2>0. a \in Int  BY <1>0, ListParts
  <2>1. \A q \in a..(a + m - 1) : q - a + 1 \in 1..m  BY <1>0, <2>0
  <2>. HIDE DEF a, m
  <2>. QED  BY <1>2, <1>3, <2>1 DEF L!Rows
<1>5. /\ a \in Int /\ b \in Int /\ a <= b /\ b - a + 1 = L!Length(l) + m
      /\ (a..(a + m - 1)) \cup (l.head..l.tail) = a..b
      /\ \A q \in l.head..l.tail : q \notin a..(a + m - 1)
      /\ \A i \in 1..L!Length(l) : a + (m + i) - 1 = l.head + i - 1
  <2>1. CASE l = L!NoList
    <3>1. l.head = 0 /\ l.tail = -1 /\ L!Length(l) = 0  BY <2>1, ListParts, NoListIs
    <3>. QED  BY <1>0, <2>1, <3>1
  <2>2. CASE l # L!NoList
    <3>1. l.head \in Int /\ l.tail \in Int /\ l.head <= l.tail /\ L!Length(l) = l.tail - l.head + 1
      BY <2>2, ListParts
    <3>2. a = l.head - m /\ b = l.tail  BY <2>2
    <3>. HIDE DEF a, b, m
    <3>3. a \in Int /\ m \in Nat /\ m # 0  BY <1>0, <3>1, <3>2
    <3>h. PICK h, t, n : h = l.head /\ t = l.tail /\ n = L!Length(l)
      OBVIOUS
    <3>4. h \in Int /\ t \in Int /\ h <= t /\ n = t - h + 1 /\ a = h - m
      BY <3>1, <3>2, <3>h
    <3>5. /\ a <= t /\ t - a + 1 = n + m
          /\ (a..(a + m - 1)) \cup (h..t) = a..t
          /\ \A q \in h..t : q \notin a..(a + m - 1)
          /\ \A i \in 1..n : a + (m + i) - 1 = h + i - 1
      BY <3>3, <3>4
    <3>. QED  BY <3>1, <3>2, <3>3, <3>5, <3>h
  <2>. QED  BY <2>1, <2>2
<1>6. g = [q \in a..b |-> IF q \in a..(a + m - 1) THEN values[m - (q - a + 1) + 1] ELSE l.items[q]]
  <2>1. DOMAIN l.items = l.head..l.tail  BY ListParts
  <2>. HIDE DEF a, b, m
  <2>. QED  BY <1>4, <1>5, <2>1 DEF L!With
<1>7. g \in [a..b -> Values]
  <2>1. ASSUME NEW q \in a..b, q \notin a..(a + m - 1) PROVE l.items[q] \in Values
    <3>1. q \in l.head..l.tail  BY <1>5, <2>1
    <3>. QED  BY <3>1, ListParts
  <2>2. ASSUME NEW q \in a..(a + m - 1) PROVE values[m - (q - a + 1) + 1] \in Values
    <3>1. m - (q - a + 1) + 1 \in 1..m  BY <1>0, <1>5
    <3>. HIDE DEF a, m
    <3>. QED  BY <1>0, <3>1
  <2>. HIDE DEF a, b, m, g
  <2>. QED  BY <1>6, <2>1, <2>2
<1>. HIDE DEF a, b, g
<1>. PICK r : r = [head |-> a, tail |-> b, items |-> g]
  OBVIOUS
<1>8. /\ GoodList(r) /\ r # L!NoList
      /\ L!Length(r) = b - a + 1
      /\ ValuesOf(r) = [i \in 1..(b - a + 1) |-> g[a + i - 1]]
  BY <1>5, <1>7, MakeList
<1>9. ASSUME NEW i \in 1..m PROVE ValuesOf(r)[i] = values[m - i + 1]
  <2>1. L!Length(l) \in Nat  BY ListParts
  <2>2. i \in 1..(b - a + 1) /\ a + i - 1 \in a..(a + m - 1) /\ m - ((a + i - 1) - a + 1) + 1 = m - i + 1
    BY <1>0, <1>5, <2>1
  <2>3. ValuesOf(r)[i] = g[a + i - 1]  BY <1>8, <2>2
  <2>4. a + i - 1 \in a..b  BY <1>5, <2>1, <2>2
  <2>. QED  BY <1>6, <2>2, <2>3, <2>4
<1>10. ASSUME NEW i \in 1..L!Length(l) PROVE ValuesOf(r)[m + i] = ValuesOf(l)[i]
  <2>1. L!Length(l) \in Nat /\ L!Length(l) = l.tail - l.head + 1 /\ l.head \in Int /\ l.tail \in Int
    BY ListParts
  <2>2. m + i \in 1..(b - a + 1) /\ a + (m + i) - 1 = l.head + i - 1 /\ l.head + i - 1 \in l.head..l.tail
    <3>1. b - a + 1 = L!Length(l) + m /\ m \in Nat  BY <1>0, <1>5
    <3>2. m + i \in 1..(b - a + 1)  BY <2>1, <3>1
    <3>3. a + (m + i) - 1 = l.head + i - 1  BY <1>5
    <3>4. l.head + i - 1 \in l.head..l.tail  BY <2>1
    <3>. QED  BY <3>2, <3>3, <3>4
  <2>3. ValuesOf(r)[m + i] = g[l.head + i - 1]  BY <1>8, <2>2
  <2>4. g[l.head + i - 1] = l.items[l.head + i - 1]
    <3>1. l.head + i - 1 \in a..b /\ l.head + i - 1 \notin a..(a + m - 1)  BY <1>5, <2>2
    <3>. QED  BY <1>6, <3>1
  <2>5. ValuesOf(l)[i] = l.items[l.head + i - 1]  BY <2>1 DEF ValuesOf
  <2>. QED  BY <2>3, <2>4, <2>5
<1>. QED  BY <1>1, <1>5, <1>8, <1>9, <1>10

\* Positions behind the tail, counted from the head.
LEMMA BehindTail ==
    ASSUME NEW h \in Int, NEW t \in Int, NEW N, N = t - h + 1, N \in Nat, NEW M \in Nat, NEW i \in 1..M
    PROVE  /\ N + i \in 1..((t + M) - h + 1)
           /\ h + (N + i) - 1 = t + i
           /\ t + i \in (t + 1)..(t + M) /\ t + i \in h..(t + M) /\ (t + i) - (t + 1) + 1 = i
OBVIOUS

\* What rows added behind the tail leave and add, by position.
LEMMA Behind ==
    ASSUME NEW h \in Int, NEW t \in Int, NEW N \in Nat, N = t - h + 1, NEW f \in [h..t -> Values],
           NEW M \in Nat \ {0}, NEW v \in [1..M -> Values], NEW b, b = t + M,
           NEW g, g = [q \in h..b |-> IF q \in (t + 1)..b THEN v[q - (t + 1) + 1] ELSE f[q]]
    PROVE  /\ b \in Int /\ h <= b /\ b - h + 1 = N + M
           /\ g \in [h..b -> Values]
           /\ \A i \in 1..N : i \in 1..(b - h + 1) /\ g[h + i - 1] = f[h + i - 1]
           /\ \A i \in 1..M : N + i \in 1..(b - h + 1) /\ g[h + (N + i) - 1] = v[i]
<1>1. b \in Int /\ h <= b /\ b - h + 1 = N + M
  OBVIOUS
<1>2. g \in [h..b -> Values]
  <2>1. ASSUME NEW q \in h..b, q \notin (t + 1)..b PROVE f[q] \in Values
    <3>1. q \in h..t  BY <1>1, <2>1
    <3>. QED  BY <3>1
  <2>2. ASSUME NEW q \in (t + 1)..b PROVE v[q - (t + 1) + 1] \in Values
    <3>1. q - (t + 1) + 1 \in 1..M  BY <1>1, <2>2
    <3>. QED  BY <3>1
  <2>. QED  BY <2>1, <2>2
<1>4. ASSUME NEW i \in 1..N PROVE i \in 1..(b - h + 1) /\ g[h + i - 1] = f[h + i - 1]
  <2>1. i \in 1..(b - h + 1) /\ h + i - 1 \in h..b /\ h + i - 1 \notin (t + 1)..b
    BY <1>1
  <2>. QED  BY <2>1
<1>5. ASSUME NEW i \in 1..M PROVE N + i \in 1..(b - h + 1) /\ g[h + (N + i) - 1] = v[i]
  <2>1. /\ N + i \in 1..(b - h + 1) /\ h + (N + i) - 1 = t + i
        /\ t + i \in (t + 1)..b /\ t + i \in h..b /\ (t + i) - (t + 1) + 1 = i
    BY BehindTail
  <2>2. g[t + i] = v[(t + i) - (t + 1) + 1]  BY <2>1
  <2>. QED  BY <2>1, <2>2
<1>. QED  BY <1>1, <1>2, <1>4, <1>5

\* RPUSH: the values behind.
LEMMA RPushGives ==
    ASSUME NEW l, GoodList(l), NEW values \in Seq(Values), values # <<>>
    PROVE  LET r == L!RPush(l, values)
           IN  /\ GoodList(r.list) /\ r.list # L!NoList
               /\ L!Length(r.list) = L!Length(l) + Len(values)
               /\ r.reply = L!Length(r.list)
               /\ \A i \in 1..L!Length(l) : ValuesOf(r.list)[i] = ValuesOf(l)[i]
               /\ \A i \in 1..Len(values) : ValuesOf(r.list)[L!Length(l) + i] = values[i]
<1>l. PICK h, t, f, N, M : h = l.head /\ t = l.tail /\ f = l.items /\ N = L!Length(l) /\ M = Len(values)
  OBVIOUS
<1>0. M \in Nat \ {0} /\ values \in [1..M -> Values]
  BY <1>l, EmptySeq, LenProperties
<1>2. /\ h \in Int /\ t \in Int
      /\ f \in [h..t -> Values] /\ DOMAIN f = h..t
      /\ N = t - h + 1 /\ N \in Nat
  BY <1>l, ListParts
<1>b. PICK b : b = t + M  OBVIOUS
<1>g. PICK g : g = L!With(L!Rows(t + 1, values), f)  OBVIOUS
<1>r. PICK r : r = [head |-> h, tail |-> b, items |-> g]  OBVIOUS
<1>1. L!RPush(l, values) = [list |-> r, reply |-> b - h + 1]
  BY <1>l, <1>b, <1>g, <1>r DEF L!RPush
<1>3. L!Rows(t + 1, values) = [q \in (t + 1)..b |-> values[q - (t + 1) + 1]]
  <2>1. (t + 1) + M - 1 = b  BY <1>0, <1>2, <1>b
  <2>. QED  BY <1>l, <2>1 DEF L!Rows
<1>4. ((t + 1)..b) \cup (h..t) = h..b
  BY <1>0, <1>2, <1>b
<1>5. g = [q \in h..b |-> IF q \in (t + 1)..b THEN values[q - (t + 1) + 1] ELSE f[q]]
  BY <1>2, <1>3, <1>4, <1>g DEF L!With
<1>6. /\ b \in Int /\ h <= b /\ b - h + 1 = N + M
      /\ g \in [h..b -> Values]
      /\ \A i \in 1..N : i \in 1..(b - h + 1) /\ g[h + i - 1] = f[h + i - 1]
      /\ \A i \in 1..M : N + i \in 1..(b - h + 1) /\ g[h + (N + i) - 1] = values[i]
  BY <1>0, <1>2, <1>b, <1>5, Behind
<1>7. /\ GoodList(r) /\ r # L!NoList
      /\ L!Length(r) = b - h + 1
      /\ ValuesOf(r) = [i \in 1..(b - h + 1) |-> g[h + i - 1]]
  <2>1. h \in Int /\ b \in Int /\ h <= b /\ g \in [h..b -> Values]  BY <1>2, <1>6
  <2>2. GoodList(r) /\ r # L!NoList /\ L!Length(r) = b - h + 1  BY <2>1, <1>r, MakeList
  <2>3. ValuesOf(r) = [i \in 1..(b - h + 1) |-> g[h + i - 1]]  BY <2>1, <1>r, MakeList
  <2>. QED  BY <2>2, <2>3
<1>8. ASSUME NEW i \in 1..N PROVE ValuesOf(r)[i] = ValuesOf(l)[i]
  <2>1. ValuesOf(l)[i] = f[h + i - 1]  BY <1>2, <1>l DEF ValuesOf
  <2>. QED  BY <2>1, <1>6, <1>7
<1>9. ASSUME NEW i \in 1..M PROVE ValuesOf(r)[N + i] = values[i]
  BY <1>6, <1>7
<1>10. L!Length(r) = N + M /\ b - h + 1 = L!Length(r) /\ GoodList(r) /\ r # L!NoList
  BY <1>6, <1>7
<1>11. L!RPush(l, values).list = r /\ L!RPush(l, values).reply = b - h + 1
  BY <1>1
<1>. QED  BY <1>8, <1>9, <1>10, <1>11, <1>l

\* A part of a sequence, element by element.
LEMMA SubSeqIs ==
    ASSUME NEW V, NEW s \in Seq(V), NEW m \in Int, NEW n \in Int, 1 <= m, n <= Len(s)
    PROVE  /\ SubSeq(s, m, n) = [i \in 1..(n - m + 1) |-> s[m + i - 1]]
           /\ SubSeq(s, m, n) \in Seq(V)
           /\ Len(SubSeq(s, m, n)) = IF m <= n THEN n - m + 1 ELSE 0
           /\ DOMAIN SubSeq(s, m, n) = 1..(n - m + 1)
<1>1. Len(s) \in Nat /\ \A i \in m..n : s[i] \in V
  BY LenProperties
<1>2. /\ SubSeq(s, m, n) \in Seq(V)
      /\ Len(SubSeq(s, m, n)) = IF m <= n THEN n - m + 1 ELSE 0
      /\ \A i \in 1..(n - m + 1) : SubSeq(s, m, n)[i] = s[m + i - 1]
  BY <1>1, SubSeqProperties
<1>3. 1..Len(SubSeq(s, m, n)) = 1..(n - m + 1)
  BY <1>2
<1>4. SubSeq(s, m, n) \in [1..(n - m + 1) -> V]
  BY <1>2, <1>3, LenProperties
<1>. QED  BY <1>2, <1>4

\* The rows of a stretch are a stretch of the values.
LEMMA SelectGives ==
    ASSUME NEW l, GoodList(l), NEW from \in Int, NEW to \in Int, l.head <= from, to <= l.tail
    PROVE  L!Select(l, from, to) = SubSeq(ValuesOf(l), from - l.head + 1, to - l.head + 1)
<1>. PICK h, t, f : h = l.head /\ t = l.tail /\ f = l.items
  OBVIOUS
<1>1. /\ h \in Int /\ t \in Int /\ h <= t + 1
      /\ f \in [h..t -> Values] /\ DOMAIN f = h..t
      /\ L!Length(l) = t - h + 1 /\ L!Length(l) \in Nat
  BY ListParts
<1>0. h \in Int /\ t \in Int /\ h <= from /\ to <= t
  BY <1>1
<1>2. {q \in DOMAIN f : from <= q /\ q <= to} = from..to
  BY <1>1
<1>3. L!Select(l, from, to) = Picked(f, from..to)
  BY <1>2, SameOrder DEF L!Select
<1>. DEFINE m == from - h + 1
            n == to - h + 1
<1>4. SubSeq(ValuesOf(l), m, n) = [i \in 1..(n - m + 1) |-> ValuesOf(l)[m + i - 1]]
  <2>1. m \in Int /\ n \in Int /\ 1 <= m /\ n <= Len(ValuesOf(l)) /\ ValuesOf(l) \in Seq(Values)
    <3>1. ValuesOf(l) \in Seq(Values) /\ Len(ValuesOf(l)) = t - h + 1  BY <1>1, ValuesType
    <3>2. m \in Int /\ n \in Int /\ 1 <= m /\ n <= t - h + 1  BY <1>0
    <3>. QED  BY <3>1, <3>2
  <2>. HIDE DEF m, n
  <2>. QED  BY <2>1, SubSeqIs
<1>5. n - m + 1 = to - from + 1
  BY <1>1
<1>6. ASSUME NEW i \in 1..(to - from + 1) PROVE ValuesOf(l)[m + i - 1] = f[from + i - 1]
  <2>1. m + i - 1 \in 1..(t - h + 1) /\ h + (m + i - 1) - 1 = from + i - 1
    BY <1>0, Z3
  <2>. HIDE DEF m
  <2>. QED  BY <2>1 DEF ValuesOf
<1>7. Picked(f, from..to) = [i \in 1..(to - from + 1) |-> f[from + i - 1]]
  <2>1. CASE from <= to + 1
    BY <2>1, PickedInterval
  <2>2. CASE ~(from <= to + 1)
    <3>1. from..to = {} /\ 1..(to - from + 1) = {}  BY <2>2
    <3>2. Cardinality({}) = 0 /\ 1..0 = {}  BY FS_EmptySet
    <3>3. DOMAIN InOrder({}) = {}  BY <3>2 DEF InOrder
    <3>4. Picked(f, {}) = [i \in {} |-> f[InOrder({})[i]]]  BY <3>3 DEF Picked
    <3>. QED  BY <3>1, <3>4
  <2>. QED  BY <2>1, <2>2
<1>. HIDE DEF m, n
<1>8. SubSeq(ValuesOf(l), m, n) = [i \in 1..(to - from + 1) |-> f[from + i - 1]]
  <2>1. SubSeq(ValuesOf(l), m, n) = [i \in 1..(to - from + 1) |-> ValuesOf(l)[m + i - 1]]
    BY <1>4, <1>5
  <2>. QED  BY <2>1, <1>6
<1>. QED  BY <1>3, <1>7, <1>8 DEF m, n

\* Value reads the rows from head to tail.
LEMMA ValueIs == ASSUME NEW l, GoodList(l) PROVE Value(l) = ValuesOf(l)
<1>1. l.head \in Int /\ l.tail \in Int /\ l.tail - l.head + 1 = L!Length(l) /\ l.head - l.head + 1 = 1
  BY ListParts
<1>2. Value(l) = SubSeq(ValuesOf(l), 1, L!Length(l))
  BY <1>1, SelectGives DEF Value
<1>. QED  BY <1>2, ValuesType, SubSeqFull

\* The list of a stretch of the rows has that stretch of the values.
LEMMA KeepGives ==
    ASSUME NEW l, GoodList(l), NEW from \in Int, NEW to \in Int, l.head <= from, to <= l.tail
    PROVE  /\ GoodList(L!Keep(l, from, to))
           /\ ValuesOf(L!Keep(l, from, to)) = SubSeq(ValuesOf(l), from - l.head + 1, to - l.head + 1)
<1>. PICK h, t, f : h = l.head /\ t = l.tail /\ f = l.items
  OBVIOUS
<1>1. /\ h \in Int /\ t \in Int /\ h <= t + 1
      /\ f \in [h..t -> Values] /\ DOMAIN f = h..t
      /\ L!Length(l) = t - h + 1 /\ L!Length(l) \in Nat
  BY ListParts
<1>a. h \in Int /\ t \in Int /\ h <= from /\ to <= t
  BY <1>1
<1>. DEFINE m == from - h + 1
            n == to - h + 1
<1>2. SubSeq(ValuesOf(l), m, n) = [i \in 1..(n - m + 1) |-> ValuesOf(l)[m + i - 1]]
  <2>1. m \in Int /\ n \in Int /\ 1 <= m /\ n <= Len(ValuesOf(l)) /\ ValuesOf(l) \in Seq(Values)
    <3>1. ValuesOf(l) \in Seq(Values) /\ Len(ValuesOf(l)) = t - h + 1  BY <1>1, ValuesType
    <3>2. m \in Int /\ n \in Int /\ 1 <= m /\ n <= t - h + 1  BY <1>a
    <3>. QED  BY <3>1, <3>2
  <2>. HIDE DEF m, n
  <2>. QED  BY <2>1, SubSeqIs
<1>3. CASE from > to
  <2>1. L!Keep(l, from, to) = L!NoList  BY <1>3 DEF L!Keep
  <2>2. 1..(n - m + 1) = {}
    <3>1. n - m + 1 = to - from + 1 /\ to - from + 1 <= 0  BY <1>a, <1>3
    <3>. QED  BY <3>1
  <2>3. L!NoList.tail - L!NoList.head + 1 = 0 /\ 1..0 = {}  BY NoListIs
  <2>4. ValuesOf(L!NoList) = [i \in {} |-> L!NoList.items[L!NoList.head + i - 1]]  BY <2>3 DEF ValuesOf
  <2>5. SubSeq(ValuesOf(l), m, n) = [i \in {} |-> ValuesOf(l)[m + i - 1]]  BY <1>2, <2>2
  <2>. HIDE DEF m, n
  <2>6. ValuesOf(L!NoList) = SubSeq(ValuesOf(l), m, n)  BY <2>4, <2>5
  <2>. QED  BY <2>1, <2>6, NoListIs DEF m, n
<1>4. CASE from <= to
  <2>. DEFINE g == L!Restrict(f, {q \in DOMAIN f : from <= q /\ q <= to})
  <2>1. {q \in DOMAIN f : from <= q /\ q <= to} = from..to  BY <1>1
  <2>2. g = [q \in from..to |-> f[q]]  BY <2>1 DEF L!Restrict
  <2>3. g \in [from..to -> Values]
    <3>0. \A q \in from..to : q \in h..t  BY <1>a
    <3>1. \A q \in from..to : f[q] \in Values  BY <3>0, <1>1
    <3>. QED  BY <2>2, <3>1
  <2>4. L!Keep(l, from, to) = [head |-> from, tail |-> to, items |-> g]  BY <1>4 DEF L!Keep
  <2>. HIDE DEF g
  <2>. PICK r : r = L!Keep(l, from, to)  OBVIOUS
  <2>5. GoodList(r) /\ ValuesOf(r) = [i \in 1..(to - from + 1) |-> g[from + i - 1]]
    BY <1>4, <2>3, <2>4, MakeList
  <2>6. n - m + 1 = to - from + 1  BY <1>1
  <2>7. ASSUME NEW i \in 1..(to - from + 1) PROVE g[from + i - 1] = ValuesOf(l)[m + i - 1]
    <3>1. m + i - 1 \in 1..(t - h + 1) /\ h + (m + i - 1) - 1 = from + i - 1
          /\ from + i - 1 \in from..to
      BY <1>a
    <3>2. ValuesOf(l)[m + i - 1] = f[from + i - 1]
      <4>. HIDE DEF m
      <4>. QED  BY <3>1 DEF ValuesOf
    <3>. QED  BY <2>2, <3>1, <3>2
  <2>. HIDE DEF m, n
  <2>8. SubSeq(ValuesOf(l), m, n) = [i \in 1..(to - from + 1) |-> g[from + i - 1]]
    <3>1. SubSeq(ValuesOf(l), m, n) = [i \in 1..(to - from + 1) |-> ValuesOf(l)[m + i - 1]]
      BY <1>2, <2>6
    <3>. QED  BY <3>1, <2>7
  <2>. QED  BY <2>5, <2>8 DEF m, n
<1>. QED  BY <1>3, <1>4

\* The lesser and the greater of two numbers.
LEMMA MinMax ==
    ASSUME NEW a \in Int, NEW b \in Int
    PROVE  /\ Min({a, b}) = IF a <= b THEN a ELSE b
           /\ Max({a, b}) = IF a <= b THEN b ELSE a
BY DEF Min, Max

\* Math.max with 0 leaves a natural number alone.
LEMMA MaxZero == ASSUME NEW k \in Nat PROVE Max({0, k}) = k
<1>. PICK z : z = 0  OBVIOUS
<1>1. Max({z, k}) = IF z <= k THEN k ELSE z  BY MinMax
<1>. QED  BY <1>1

\* Math.max with 0 of any number.
LEMMA MaxFromZero ==
    ASSUME NEW x \in Int
    PROVE  /\ Max({0, x}) = IF 0 <= x THEN x ELSE 0
           /\ Max({0, x}) \in Nat
<1>z. PICK z : z = 0
  OBVIOUS
<1>0. z \in Int
  BY <1>z
<1>1. Max({z, x}) = IF z <= x THEN x ELSE z
  BY <1>0, MinMax
<1>. QED  BY <1>1, <1>z

\* An index of a range, counted from the end if negative, stays within the list.
LEMMA ClampedIs ==
    ASSUME NEW n \in Nat \ {0}, NEW i \in Int
    PROVE  /\ L!Clamped(n, i) \in 0..(n - 1)
           /\ L!Clamped(n, i) = IF i < 0 THEN (IF n + i >= 0 THEN n + i ELSE 0)
                                ELSE IF i <= n - 1 THEN i ELSE n - 1
<1>1. L!Clamped(n, i) = IF i < 0 THEN Max({0, n + i}) ELSE Min({i, n - 1})
  BY Same DEF L!Clamped
<1>2. Max({0, n + i}) = IF 0 <= n + i THEN n + i ELSE 0
  BY MinMax
<1>3. Min({i, n - 1}) = IF i <= n - 1 THEN i ELSE n - 1
  BY MinMax
<1>. QED  BY <1>1, <1>2, <1>3

\* LPOP and RPOP: the values from an end are the reply, the others are left.
LEMMA PopsGive ==
    ASSUME NEW l, GoodList(l), NEW count \in Nat
    PROVE  LET n == L!Length(l)
               take == Min({n, count})
               left == L!LPop(l, count)
               right == L!RPop(l, count)
               v == ValuesOf(l)
           IN  /\ GoodList(left.list) /\ GoodList(right.list)
               /\ ValuesOf(left.list) = SubSeq(v, take + 1, n)
               /\ left.reply = SubSeq(v, 1, take)
               /\ ValuesOf(right.list) = SubSeq(v, 1, n - take)
               /\ right.reply = Reverse(SubSeq(v, n - take + 1, n))
<1>l. PICK h, t, n : h = l.head /\ t = l.tail /\ n = L!Length(l)
  OBVIOUS
<1>1. h \in Int /\ t \in Int /\ n \in Nat /\ n = t - h + 1 /\ h <= t + 1
  BY <1>l, ListParts
<1>k. PICK take : take = Min({n, count})
  OBVIOUS
<1>2. take \in Nat /\ take <= n /\ L!Min({count, n}) = take
  <2>1. L!Min({count, n}) = IF count <= n THEN count ELSE n  BY <1>1, MinMax, Same
  <2>2. take = IF n <= count THEN n ELSE count  BY <1>1, <1>k, MinMax
  <2>. QED  BY <1>1, <2>1, <2>2
<1>3. /\ h + take \in Int /\ h <= h + take /\ t <= t
      /\ h + take - 1 \in Int /\ h + take - 1 <= t /\ h <= h
      /\ t - take \in Int /\ t - take <= t
      /\ t - take + 1 \in Int /\ h <= t - take + 1
      /\ (h + take) - h + 1 = take + 1 /\ t - h + 1 = n
      /\ (h + take - 1) - h + 1 = take /\ h - h + 1 = 1
      /\ (t - take) - h + 1 = n - take /\ (t - take + 1) - h + 1 = n - take + 1
  BY <1>1, <1>2
<1>4. /\ GoodList(L!Keep(l, h + take, t))
      /\ ValuesOf(L!Keep(l, h + take, t)) = SubSeq(ValuesOf(l), take + 1, n)
  <2>1. /\ GoodList(L!Keep(l, h + take, t))
        /\ ValuesOf(L!Keep(l, h + take, t)) = SubSeq(ValuesOf(l), (h + take) - h + 1, t - h + 1)
    BY <1>l, <1>1, <1>3, KeepGives
  <2>. QED  BY <1>3, <2>1
<1>5. /\ GoodList(L!Keep(l, h, t - take))
      /\ ValuesOf(L!Keep(l, h, t - take)) = SubSeq(ValuesOf(l), 1, n - take)
  <2>1. /\ GoodList(L!Keep(l, h, t - take))
        /\ ValuesOf(L!Keep(l, h, t - take)) = SubSeq(ValuesOf(l), h - h + 1, (t - take) - h + 1)
    BY <1>l, <1>1, <1>3, KeepGives
  <2>. QED  BY <1>3, <2>1
<1>6. L!Select(l, h, h + take - 1) = SubSeq(ValuesOf(l), 1, take)
  <2>1. L!Select(l, h, h + take - 1) = SubSeq(ValuesOf(l), h - h + 1, (h + take - 1) - h + 1)
    BY <1>l, <1>1, <1>3, SelectGives
  <2>. QED  BY <1>3, <2>1
<1>7. L!Select(l, t - take + 1, t) = SubSeq(ValuesOf(l), n - take + 1, n)
  <2>1. L!Select(l, t - take + 1, t) = SubSeq(ValuesOf(l), (t - take + 1) - h + 1, t - h + 1)
    BY <1>l, <1>1, <1>3, SelectGives
  <2>. QED  BY <1>3, <2>1
<1>8. L!LPop(l, count) = [list |-> L!Keep(l, h + take, t), reply |-> L!Select(l, h, h + take - 1)]
  BY <1>l, <1>2 DEF L!LPop
<1>9. L!RPop(l, count) = [list |-> L!Keep(l, h, t - take),
                          reply |-> Reverse(L!Select(l, t - take + 1, t))]
  BY <1>l, <1>2, Same DEF L!RPop
<1>10. L!LPop(l, count).list = L!Keep(l, h + take, t) /\ L!LPop(l, count).reply = L!Select(l, h, h + take - 1)
  BY <1>8
<1>11. /\ L!RPop(l, count).list = L!Keep(l, h, t - take)
       /\ L!RPop(l, count).reply = Reverse(L!Select(l, t - take + 1, t))
  BY <1>9
<1>12. /\ GoodList(L!LPop(l, count).list) /\ GoodList(L!RPop(l, count).list)
       /\ ValuesOf(L!LPop(l, count).list) = SubSeq(ValuesOf(l), take + 1, n)
       /\ L!LPop(l, count).reply = SubSeq(ValuesOf(l), 1, take)
       /\ ValuesOf(L!RPop(l, count).list) = SubSeq(ValuesOf(l), 1, n - take)
       /\ L!RPop(l, count).reply = Reverse(SubSeq(ValuesOf(l), n - take + 1, n))
  BY <1>4, <1>5, <1>6, <1>7, <1>10, <1>11
<1>. QED  BY <1>l, <1>k, <1>12, Zenon

\* LRANGE and LTRIM: the stretch between the two ends, each moved into the list.
LEMMA RangesGive ==
    ASSUME NEW l, GoodList(l), l # L!NoList, NEW i \in Int, NEW j \in Int
    PROVE  LET n == L!Length(l)
               range == SubSeq(ValuesOf(l), L!Clamped(n, i) + 1, L!Clamped(n, j) + 1)
           IN  /\ GoodList(L!LTrim(l, i, j))
               /\ ValuesOf(L!LTrim(l, i, j)) = range
               /\ L!LRange(l, i, j) = range
<1>l. PICK h, t, n, p, q : /\ h = l.head /\ t = l.tail /\ n = L!Length(l)
                           /\ p = L!Clamped(n, i) /\ q = L!Clamped(n, j)
  OBVIOUS
<1>1. h \in Int /\ t \in Int /\ n \in Nat \ {0} /\ n = t - h + 1
  BY <1>l, ListParts
<1>2. p \in 0..(n - 1) /\ q \in 0..(n - 1)
  BY <1>l, <1>1, ClampedIs
<1>3. /\ h + p \in Int /\ h + q \in Int /\ h <= h + p /\ h + q <= t
      /\ (h + p) - h + 1 = p + 1 /\ (h + q) - h + 1 = q + 1
  BY <1>1, <1>2
<1>4. /\ GoodList(L!Keep(l, h + p, h + q))
      /\ ValuesOf(L!Keep(l, h + p, h + q)) = SubSeq(ValuesOf(l), (h + p) - h + 1, (h + q) - h + 1)
      /\ L!Select(l, h + p, h + q) = SubSeq(ValuesOf(l), (h + p) - h + 1, (h + q) - h + 1)
  <2>. PICK from, to : from = h + p /\ to = h + q  OBVIOUS
  <2>1. from \in Int /\ to \in Int /\ l.head <= from /\ to <= l.tail  BY <1>l, <1>3
  <2>2. /\ GoodList(L!Keep(l, from, to))
        /\ ValuesOf(L!Keep(l, from, to)) = SubSeq(ValuesOf(l), from - l.head + 1, to - l.head + 1)
    BY <2>1, KeepGives
  <2>3. L!Select(l, from, to) = SubSeq(ValuesOf(l), from - l.head + 1, to - l.head + 1)
    BY <2>1, SelectGives
  <2>. QED  BY <1>l, <2>2, <2>3
<1>5. L!LTrim(l, i, j) = L!Keep(l, h + p, h + q) /\ L!LRange(l, i, j) = L!Select(l, h + p, h + q)
  BY <1>l DEF L!LTrim, L!LRange
<1>. QED  BY <1>l, <1>3, <1>4, <1>5

\* LSET and LINDEX: the value at a position that the list has.
LEMMA IndexGives ==
    ASSUME NEW l, GoodList(l), NEW i \in Int
    PROVE  LET n == L!Length(l)
               p == L!Position(n, i) + 1
           IN  /\ L!Has(n, i) <=> p \in 1..n
               /\ L!Has(n, i) => L!LIndex(l, i) = <<ValuesOf(l)[p]>>
               /\ ~L!Has(n, i) => L!LIndex(l, i) = <<>>
<1>l. PICK h, t, n, p : h = l.head /\ t = l.tail /\ n = L!Length(l) /\ p = L!Position(n, i) + 1
  OBVIOUS
<1>1. h \in Int /\ t \in Int /\ n \in Nat /\ n = t - h + 1 /\ L!Position(n, i) \in Int
  BY <1>l, ListParts DEF L!Position
<1>2. L!Has(n, i) <=> p \in 1..n
  BY <1>l, <1>1 DEF L!Has
<1>3. ASSUME p \in 1..n PROVE ValuesOf(l)[p] = l.items[h + L!Position(n, i)]
  <2>1. h + p - 1 = h + L!Position(n, i)  BY <1>l, <1>1
  <2>. QED  BY <1>l, <1>1, <1>3, <2>1 DEF ValuesOf
<1>. QED  BY <1>l, <1>2, <1>3 DEF L!LIndex

\* LSET writes the element at its position.
LEMMA LSetGives ==
    ASSUME NEW l, GoodList(l), NEW i \in Int, L!Has(L!Length(l), i), NEW value \in Values
    PROVE  LET n == L!Length(l)
               r == L!LSet(l, i, value)
           IN  /\ GoodList(r) /\ r # L!NoList /\ L!Length(r) = n
               /\ ValuesOf(r)[L!Position(n, i) + 1] = value
<1>l. PICK h, t, f, n, p : /\ h = l.head /\ t = l.tail /\ f = l.items /\ n = L!Length(l)
                           /\ p = h + L!Position(n, i)
  OBVIOUS
<1>1. h \in Int /\ t \in Int /\ n \in Nat /\ n = t - h + 1 /\ f \in [h..t -> Values]
      /\ L!Position(n, i) \in Int
  BY <1>l, ListParts DEF L!Position
<1>2. L!Position(n, i) \in 0..(n - 1)
  BY <1>l DEF L!Has
<1>3. p \in h..t /\ h <= t
  BY <1>l, <1>1, <1>2
<1>g. PICK g : g = [f EXCEPT ![p] = value]
  OBVIOUS
<1>4. g \in [h..t -> Values] /\ g[p] = value
  BY <1>1, <1>3, <1>g
<1>r. PICK r : r = [head |-> h, tail |-> t, items |-> g]
  OBVIOUS
<1>5. L!LSet(l, i, value) = r
  <2>1. l \in [head : Int, tail : Int, items : [l.head..l.tail -> Values]]  BY DEF GoodList
  <2>2. l = [head |-> h, tail |-> t, items |-> f]  BY <1>l, <2>1
  <2>3. L!LSet(l, i, value) = [l EXCEPT !.items = [f EXCEPT ![p] = value]]
    BY <1>l DEF L!LSet
  <2>. QED  BY <2>2, <2>3, <1>g, <1>r
<1>6. /\ GoodList(r) /\ r # L!NoList /\ L!Length(r) = t - h + 1
      /\ ValuesOf(r) = [k \in 1..(t - h + 1) |-> g[h + k - 1]]
  BY <1>1, <1>3, <1>4, <1>r, MakeList
<1>7. L!Position(n, i) + 1 \in 1..(t - h + 1) /\ h + (L!Position(n, i) + 1) - 1 = p
  BY <1>l, <1>1, <1>2
<1>. QED  BY <1>1, <1>4, <1>5, <1>6, <1>7, <1>l

\* LREM: what is left of the rows, numbered again.
LEMMA LRemGives ==
    ASSUME NEW l, GoodList(l), NEW count, NEW e
    PROVE  LET doomed == L!Doomed(l, count, e)
               r == L!LRem(l, count, e)
           IN  /\ GoodList(r.list)
               /\ ValuesOf(r.list) = Picked(l.items, (l.head..l.tail) \ doomed)
               /\ r.reply = Cardinality(doomed)
<1>l. PICK h, t, f, doomed, T : /\ h = l.head /\ t = l.tail /\ f = l.items
                                /\ doomed = L!Doomed(l, count, e) /\ T = (h..t) \ doomed
  OBVIOUS
<1>1. h \in Int /\ t \in Int /\ h <= t + 1 /\ f \in [h..t -> Values] /\ DOMAIN f = h..t
  BY <1>l, ListParts
<1>2. T \in SUBSET Int /\ IsFiniteSet(T)
  <2>1. IsFiniteSet(h..t)  BY <1>1, FS_Interval
  <2>2. T \in SUBSET (h..t)  BY <1>l
  <2>3. IsFiniteSet(T)  BY <2>1, <2>2, FS_Subset
  <2>. QED  BY <1>1, <2>2, <2>3
<1>p. PICK left, n : left = Picked(f, T) /\ n = Cardinality(T)
  OBVIOUS
<1>3. left \in Seq(Values) /\ Len(left) = n /\ n \in Nat /\ left \in [1..n -> Values]
  <2>1. \A q \in T : f[q] \in Values  BY <1>l, <1>1
  <2>. QED  BY <1>2, <1>p, <2>1, PickedType
<1>4. L!LRem(l, count, e) = [list |-> IF doomed = {} THEN l ELSE IF left = <<>> THEN L!NoList
                                      ELSE [head |-> h, tail |-> h + Len(left) - 1,
                                            items |-> L!Rows(h, left)],
                             reply |-> Cardinality(doomed)]
  BY <1>l, <1>1, <1>p, Same, SameOrder DEF L!LRem
<1>r. PICK r : r = L!LRem(l, count, e).list
  OBVIOUS
<1>5. r = IF doomed = {} THEN l ELSE IF left = <<>> THEN L!NoList
          ELSE [head |-> h, tail |-> h + n - 1, items |-> L!Rows(h, left)]
  BY <1>3, <1>4, <1>r
<1>6. L!LRem(l, count, e).reply = Cardinality(doomed)
  BY <1>4
<1>7. CASE doomed = {}
  <2>1. r = l /\ T = h..t  BY <1>l, <1>5, <1>7
  <2>2. left = [i \in 1..(t - h + 1) |-> f[h + i - 1]]  BY <1>1, <1>p, <2>1, PickedInterval
  <2>3. left = ValuesOf(l)  BY <1>l, <2>2 DEF ValuesOf
  <2>. QED  BY <1>6, <1>l, <1>p, <1>r, <2>1, <2>3
<1>8. CASE doomed # {} /\ left = <<>>
  <2>1. r = L!NoList  BY <1>5, <1>8
  <2>2. GoodList(r)  BY <2>1, NoListIs
  <2>3. ValuesOf(r) \in Seq(Values) /\ Len(ValuesOf(r)) = 0
    <3>1. L!Length(r) = 0  BY <2>1, NoListIs DEF L!Length
    <3>. QED  BY <2>2, <3>1, ValuesType
  <2>4. ValuesOf(r) = <<>>  BY <2>3, EmptySeq
  <2>. QED  BY <1>6, <1>8, <1>l, <1>p, <1>r, <2>2, <2>4
<1>9. CASE doomed # {} /\ left # <<>>
  <2>1. n # 0  BY <1>3, <1>9, EmptySeq
  <2>b. PICK b : b = h + n - 1  OBVIOUS
  <2>2. b \in Int /\ h <= b /\ b - h + 1 = n  BY <1>1, <1>3, <2>1, <2>b
  <2>g. PICK g : g = L!Rows(h, left)  OBVIOUS
  <2>3. g = [q \in h..b |-> left[q - h + 1]]
    BY <1>3, <2>b, <2>g DEF L!Rows
  <2>4. g \in [h..b -> Values]
    <3>1. ASSUME NEW q \in h..b PROVE left[q - h + 1] \in Values
      <4>1. q - h + 1 \in 1..n  BY <1>1, <2>2
      <4>. QED  BY <1>3, <4>1
    <3>. QED  BY <2>3, <3>1
  <2>5. r = [head |-> h, tail |-> b, items |-> g]  BY <1>5, <1>9, <2>b, <2>g
  <2>6. GoodList(r) /\ ValuesOf(r) = [i \in 1..(b - h + 1) |-> g[h + i - 1]]
    <3>1. h \in Int /\ b \in Int /\ h <= b  BY <1>1, <2>2
    <3>. QED  BY <3>1, <2>4, <2>5, MakeList
  <2>7. ASSUME NEW i \in 1..n PROVE g[h + i - 1] = left[i]
    <3>1. h + i - 1 \in h..b /\ (h + i - 1) - h + 1 = i  BY <1>1, <1>3, <2>b
    <3>. QED  BY <2>3, <3>1
  <2>8. ValuesOf(r) = left  BY <1>3, <2>2, <2>6, <2>7
  <2>. QED  BY <1>6, <1>l, <1>p, <1>r, <2>6, <2>8
<1>. QED  BY <1>7, <1>8, <1>9

-----------------------------------------------------------------------------
(* Sets.                                                                   *)

\* A set that is there has members, and its counter is NULL or their number.
GoodSet(s) ==
    /\ s \in [members : SUBSET Members, count : Int \cup {Null}]
    /\ s # S!NoSet => s.members # {} /\ s.count \in {Null, Cardinality(s.members)}

\* Sets of members are finite: Members is.
LEMMA FiniteMembers ==
    \A M \in SUBSET Members : IsFiniteSet(M) /\ Cardinality(M) \in Nat /\ (M = {} <=> Cardinality(M) = 0)
<1>1. IsFiniteSet(Members)
  BY CollectionsAssumption
<1>. QED  BY <1>1, FS_Subset, FS_CardinalityType, FS_EmptySet

\* The count of a set, kept or counted, is the number of its members.
LEMMA SetParts ==
    ASSUME NEW s, GoodSet(s)
    PROVE  /\ s.members \in SUBSET Members /\ s.count \in Int \cup {Null}
           /\ s = [members |-> s.members, count |-> s.count]
           /\ S!Count(s) = Cardinality(s.members)
           /\ s # S!NoSet <=> s.members # {}
<1>0. Null \notin Int
  BY CollectionsAssumption
<1>1. s \in [members : SUBSET Members, count : Int \cup {Null}]
  BY DEF GoodSet
<1>2. S!NoSet.members = {} /\ S!NoSet.count = 0
  BY DEF S!NoSet
<1>3. s.members \in SUBSET Members /\ s.count \in Int \cup {Null}
      /\ s = [members |-> s.members, count |-> s.count]
  BY <1>1
<1>4. s # S!NoSet => s.members # {} /\ s.count \in {Null, Cardinality(s.members)}
  BY DEF GoodSet
<1>5. Cardinality({}) = 0
  BY FS_EmptySet
<1>6. s = S!NoSet => s.members = {} /\ s.count = 0
  BY <1>2
<1>7. S!Count(s) = IF s.count = Null THEN Cardinality(s.members) ELSE s.count
  BY Same DEF S!Count
<1>. QED  BY <1>0, <1>3, <1>4, <1>5, <1>6, <1>7

\* A key with no set has no members.
LEMMA NoSetIs == GoodSet(S!NoSet) /\ S!NoSet.members = {}
BY DEF GoodSet, S!NoSet

\* Members with their count, or with none kept, are a set.
LEMMA MakeSet ==
    ASSUME NEW M \in SUBSET Members, M # {}, NEW c, c \in {Null, Cardinality(M)},
           NEW r, r = [members |-> M, count |-> c]
    PROVE  GoodSet(r) /\ r # S!NoSet /\ r.members = M
<1>1. r.members = M /\ r.count = c
  OBVIOUS
<1>2. c \in Int \cup {Null}
  BY FiniteMembers
<1>3. r \in [members : SUBSET Members, count : Int \cup {Null}]
  BY <1>2
<1>4. r # S!NoSet
  BY <1>1, NoSetIs
<1>. QED  BY <1>1, <1>3, <1>4 DEF GoodSet

\* Hydration of a set counts its members and leaves them alone.
LEMMA SetHydrated ==
    ASSUME NEW s, GoodSet(s)
    PROVE  GoodSet(S!Hydrated(s)) /\ S!Hydrated(s).members = s.members
           /\ (S!Hydrated(s) = S!NoSet <=> s = S!NoSet)
<1>1. S!Hydrated(s) = [members |-> s.members, count |-> Cardinality(s.members)]
  BY SetParts DEF S!Hydrated
<1>2. CASE s = S!NoSet
  <2>1. Cardinality({}) = 0  BY FS_EmptySet
  <2>2. S!Hydrated(s) = S!NoSet  BY <1>1, <1>2, <2>1 DEF S!NoSet
  <2>. QED  BY <1>2, <2>2, NoSetIs
<1>3. CASE s # S!NoSet
  <2>1. s.members \in SUBSET Members /\ s.members # {}  BY <1>3, SetParts
  <2>. QED  BY <1>1, <1>3, <2>1, MakeSet
<1>. QED  BY <1>2, <1>3

\* SADD of one member or more.
LEMMA SAddGives ==
    ASSUME NEW s, GoodSet(s), NEW members \in SUBSET Members, members # {}
    PROVE  GoodSet(S!Add(s, members).set) /\ S!Add(s, members).set # S!NoSet
<1>s. PICK M, new, all : M = s.members /\ new = members \ M /\ all = M \cup members
  OBVIOUS
<1>1. M \in SUBSET Members /\ S!Count(s) = Cardinality(M)
  BY <1>s, SetParts
<1>2. new \in SUBSET Members /\ all \in SUBSET Members /\ all # {} /\ M \cap new = {} /\ all = M \cup new
  BY <1>s, <1>1
<1>3. IsFiniteSet(M) /\ IsFiniteSet(new)
  BY <1>1, <1>2, FiniteMembers
<1>4. Cardinality(all) = Cardinality(M) + Cardinality(new)
  <2>1. Cardinality(M \cap new) = 0  BY <1>2, FS_EmptySet
  <2>2. Cardinality(M \cup new) = Cardinality(M) + Cardinality(new) - Cardinality(M \cap new)
    BY <1>3, FS_Union
  <2>3. Cardinality(M) \in Nat /\ Cardinality(new) \in Nat  BY <1>3, FS_CardinalityType
  <2>. QED  BY <1>2, <2>1, <2>2, <2>3
<1>5. S!Add(s, members).set = [members |-> all, count |-> Cardinality(all)]
  BY <1>s, <1>1, <1>4, Same DEF S!Add
<1>. QED  BY <1>2, <1>5, MakeSet

\* The members of a set without some of them are so many fewer.
LEMMA Fewer ==
    ASSUME NEW M \in SUBSET Members, NEW G
    PROVE  /\ Cardinality(M \ G) \in Nat /\ Cardinality(G \cap M) \in Nat
           /\ Cardinality(M \ G) = Cardinality(M) - Cardinality(G \cap M)
           /\ Cardinality(M \ G) = 0 <=> M \ G = {}
           /\ Cardinality(G \cap M) = 0 <=> M \ G = M
<1>1. IsFiniteSet(M) /\ (M \ G) \in SUBSET Members /\ (G \cap M) \in SUBSET Members
  BY FiniteMembers
<1>2. M \ G = M \ (G \cap M) /\ G \cap M = M \cap (G \cap M)
  OBVIOUS
<1>3. Cardinality(M \ (G \cap M)) = Cardinality(M) - Cardinality(M \cap (G \cap M))
  BY <1>1, FS_Difference
<1>4. Cardinality(M \ G) \in Nat /\ Cardinality(G \cap M) \in Nat /\ Cardinality(M) \in Nat
      /\ (Cardinality(M \ G) = 0 <=> M \ G = {}) /\ (Cardinality(G \cap M) = 0 <=> G \cap M = {})
  BY <1>1, FiniteMembers
<1>. QED  BY <1>2, <1>3, <1>4

\* SREM.
LEMMA SRemGives ==
    ASSUME NEW s, GoodSet(s), NEW members
    PROVE  GoodSet(S!RemoveMembers(s, members).set)
<1>s. PICK M, n, left, c :
        /\ M = s.members /\ n = Cardinality(members \cap M) /\ left = M \ members
        /\ c = IF s.count = Null THEN Cardinality(left) ELSE Max({0, s.count - n})
  OBVIOUS
<1>1. M \in SUBSET Members /\ left \in SUBSET Members /\ S!Count(s) = Cardinality(M)
  BY <1>s, SetParts
<1>2. /\ n \in Nat /\ Cardinality(left) \in Nat /\ Cardinality(left) = Cardinality(M) - n
      /\ Cardinality(left) = 0 <=> left = {}
  <2>1. /\ Cardinality(M \ members) \in Nat /\ Cardinality(members \cap M) \in Nat
        /\ Cardinality(M \ members) = Cardinality(M) - Cardinality(members \cap M)
        /\ Cardinality(M \ members) = 0 <=> M \ members = {}
    BY <1>1, Fewer
  <2>. QED  BY <1>s, <2>1
<1>3. c = Cardinality(left)
  <2>1. CASE s.count = Null  BY <1>s, <2>1
  <2>2. CASE s.count # Null
    <3>1. s.count = Cardinality(M)  BY <1>1, <2>2, Same DEF S!Count
    <3>2. s.count - n = Cardinality(left)  BY <1>2, <3>1
    <3>3. Max({0, Cardinality(left)}) = Cardinality(left)  BY <1>2, MaxZero
    <3>. QED  BY <1>s, <2>2, <3>2, <3>3
  <2>. QED  BY <2>1, <2>2
<1>4. S!RemoveMembers(s, members).set = IF c = 0 THEN S!NoSet ELSE IF n = 0 THEN s
                                        ELSE [members |-> left, count |-> c]
  BY <1>s, Same DEF S!RemoveMembers
<1>5. c # 0 => GoodSet([members |-> left, count |-> c])
  BY <1>1, <1>2, <1>3, MakeSet
<1>. QED  BY <1>4, <1>5, NoSetIs

\* SPOP of a count that is not negative: as many draws as members drawn.
LEMMA SPopGives ==
    ASSUME NEW s, GoodSet(s), s.members # {}, NEW count \in Nat, NEW drawn \in S!Draws(s.members, count)
    PROVE  GoodSet(S!PopRandom(s, drawn))
<1>s. PICK M : M = s.members
  OBVIOUS
<1>1. M \in SUBSET Members /\ M # {} /\ IsFiniteSet(M) /\ Cardinality(M) \in Nat
  BY <1>s, SetParts, FiniteMembers
<1>2. PICK n \in Nat : /\ drawn \in [1..n -> M]
                       /\ \A i, j \in 1..n : drawn[i] = drawn[j] => i = j
  <2>1. CASE count > 0
    <3>1. Min({count, Cardinality(M)}) \in Nat  BY <1>1, <2>1, MinMax
    <3>2. drawn \in {d \in [1..Min({count, Cardinality(M)}) -> M] :
                       \A i, j \in 1..Min({count, Cardinality(M)}) : d[i] = d[j] => i = j}
      BY <1>s, <2>1, Same DEF S!Draws
    <3>. QED  BY <3>1, <3>2
  <2>2. CASE count = 0
    <3>1. drawn \in [1..0 -> M]  BY <1>s, <2>2 DEF S!Draws
    <3>. QED  BY <3>1
  <2>. QED  BY <2>1, <2>2
<1>g. PICK G : G = {drawn[i] : i \in 1..n}
  OBVIOUS
<1>3. G \in SUBSET M
  BY <1>2, <1>g
<1>4. Cardinality(G) = n
  <2>1. drawn \in [1..n -> G] /\ \A m \in G : \E i \in 1..n : drawn[i] = m  BY <1>2, <1>g
  <2>2. drawn \in Bijection(1..n, G)
    BY <1>2, <2>1 DEF Bijection, Injection, Surjection, IsInjective
  <2>. QED  BY <2>2, FS_CountingElements DEF ExistsBijection
<1>5. Cardinality(DOMAIN drawn) = n
  BY <1>2, FS_Interval
<1>6. /\ Cardinality(M \ G) = Cardinality(M) - n /\ Cardinality(M \ G) \in Nat
      /\ Cardinality(M \ G) = 0 <=> M \ G = {}
  <2>1. G \cap M = G  BY <1>3
  <2>2. /\ Cardinality(M \ G) \in Nat
        /\ Cardinality(M \ G) = Cardinality(M) - Cardinality(G \cap M)
        /\ Cardinality(M \ G) = 0 <=> M \ G = {}
    BY <1>1, Fewer
  <2>. QED  BY <1>4, <2>1, <2>2
<1>7. S!PopRandom(s, drawn) = IF Cardinality(M \ G) = 0 THEN S!NoSet
                              ELSE [members |-> M \ G, count |-> Cardinality(M \ G)]
  <2>1. DOMAIN drawn = 1..n  BY <1>2
  <2>. QED  BY <1>s, <1>g, <1>5, <1>6, <2>1, Same DEF S!PopRandom
<1>8. (M \ G) \in SUBSET Members
  BY <1>1
<1>9. Cardinality(M \ G) # 0 => GoodSet([members |-> M \ G, count |-> Cardinality(M \ G)])
  BY <1>6, <1>8, MakeSet
<1>. QED  BY <1>7, <1>9, NoSetIs

-----------------------------------------------------------------------------
(* Sorted sets.                                                            *)

\* Additions in turn: each is a step of the function that the definition of Upserted names.
Upsert(f, p) == [m \in DOMAIN f \cup {p[1]} |-> IF m = p[1] THEN p[2] ELSE f[m]]
Turns(g, n, scores, pairs) ==
    g = [k \in 0..n |-> IF k = 0 THEN scores ELSE Upsert(g[k - 1], pairs[k])]

\* Members are upserted one after the other, each pair on what the last one left.
LEMMA TurnsAreThere ==
    ASSUME NEW scores, NEW pairs, NEW n \in Nat
    PROVE  \E g : Turns(g, n, scores, pairs)
<1>. DEFINE Bad == {k \in Nat : ~\E g : Turns(g, k, scores, pairs)}
<1>1. SUFFICES ASSUME Bad # {} PROVE FALSE
  OBVIOUS
<1>2. PICK k \in Bad : \A j \in Bad : k <= j
  BY <1>1, LeastNumber
<1>3. k # 0
  <2>1. SUFFICES ASSUME k = 0 PROVE FALSE  OBVIOUS
  <2>. DEFINE g == [j \in 0..0 |-> scores]
  <2>2. g = [j \in 0..0 |-> IF j = 0 THEN scores ELSE Upsert(g[j - 1], pairs[j])]  OBVIOUS
  <2>3. Turns(g, 0, scores, pairs)  BY <2>2 DEF Turns
  <2>. QED  BY <2>1, <2>3
<1>4. k \in Nat /\ k - 1 \in Nat /\ k - 1 \notin Bad
  BY <1>2, <1>3
<1>5. PICK h : Turns(h, k - 1, scores, pairs)
  BY <1>4
<1>. DEFINE g == [j \in 0..k |-> IF j = k THEN Upsert(h[k - 1], pairs[k]) ELSE h[j]]
<1>6. h = [j \in 0..(k - 1) |-> IF j = 0 THEN scores ELSE Upsert(h[j - 1], pairs[j])]
  BY <1>5 DEF Turns
<1>7. ASSUME NEW j \in 0..k
      PROVE  g[j] = IF j = 0 THEN scores ELSE Upsert(g[j - 1], pairs[j])
  <2>1. CASE j = k
    <3>1. k - 1 \in 0..k /\ k - 1 # k /\ j # 0  BY <1>3, <1>4, <2>1
    <3>. QED  BY <2>1, <3>1
  <2>2. CASE j # k
    <3>1. j \in 0..(k - 1)  BY <1>4, <2>2
    <3>2. h[j] = IF j = 0 THEN scores ELSE Upsert(h[j - 1], pairs[j])  BY <1>6, <3>1
    <3>3. j # 0 => j - 1 \in 0..k /\ j - 1 # k  BY <1>4, <2>2
    <3>. QED  BY <2>2, <3>2, <3>3
  <2>. QED  BY <2>1, <2>2
<1>8. g = [j \in 0..k |-> g[j]]
  OBVIOUS
<1>9. g = [j \in 0..k |-> IF j = 0 THEN scores ELSE Upsert(g[j - 1], pairs[j])]
  <2>. HIDE DEF g
  <2>. QED  BY <1>7, <1>8
<1>10. Turns(g, k, scores, pairs)
  <2>. HIDE DEF g
  <2>. QED  BY <1>9 DEF Turns
<1>. QED  BY <1>2, <1>10

\* What the additions come to.
LEMMA UpsertedIs ==
    ASSUME NEW scores, NEW pairs, Len(pairs) \in Nat
    PROVE  \E g : /\ Z!Upserted(scores, pairs) = g[Len(pairs)]
                  /\ g[0] = scores
                  /\ \A k \in 1..Len(pairs) : g[k] = Upsert(g[k - 1], pairs[k])
<1>. DEFINE n == Len(pairs)
            G == CHOOSE g : g = [k \in 0..n |->
                   IF k = 0 THEN scores
                   ELSE [m \in DOMAIN g[k - 1] \cup {pairs[k][1]} |->
                           IF m = pairs[k][1] THEN pairs[k][2] ELSE g[k - 1][m]]]
<1>1. Z!Upserted(scores, pairs) = G[n]
  BY DEF Z!Upserted
<1>2. \A g : (g = [k \in 0..n |->
                   IF k = 0 THEN scores
                   ELSE [m \in DOMAIN g[k - 1] \cup {pairs[k][1]} |->
                           IF m = pairs[k][1] THEN pairs[k][2] ELSE g[k - 1][m]]])
             <=> Turns(g, n, scores, pairs)
  BY DEF Turns, Upsert
<1>3. \E g : Turns(g, n, scores, pairs)
  BY TurnsAreThere
<1>4. Turns(G, n, scores, pairs)
  BY <1>2, <1>3
<1>. HIDE DEF G
<1>5. G = [k \in 0..n |-> IF k = 0 THEN scores ELSE Upsert(G[k - 1], pairs[k])]
  BY <1>4 DEF Turns
<1>6. 0 \in 0..n /\ \A k \in 1..n : k \in 0..n /\ k # 0
  OBVIOUS
<1>. HIDE DEF n
<1>7. G[0] = scores /\ \A k \in 1..n : G[k] = Upsert(G[k - 1], pairs[k])
  BY <1>5, <1>6
<1>. QED  BY <1>1, <1>7 DEF n

\* After k additions f has the members of both, each with the last of its scores.
After(f, k, scores, pairs) ==
    /\ DOMAIN f = DOMAIN scores \cup {pairs[i][1] : i \in 1..k}
    /\ f = [m \in DOMAIN f |-> f[m]]
    /\ \A m \in DOMAIN f :
         \/ /\ \A i \in 1..k : pairs[i][1] # m
            /\ m \in DOMAIN scores /\ f[m] = scores[m]
         \/ \E i \in 1..k : /\ pairs[i][1] = m /\ f[m] = pairs[i][2]
                            /\ \A j \in 1..k : pairs[j][1] = m => j <= i

\* One more upsert: the score of a member is that of the last pair that gives it.
LEMMA OneMore ==
    ASSUME NEW scores, NEW pairs, NEW k \in Nat, NEW f, After(f, k, scores, pairs),
           NEW g, g = Upsert(f, pairs[k + 1])
    PROVE  After(g, k + 1, scores, pairs)
<1>. PICK p : p = pairs[k + 1]
  OBVIOUS
<1>1. g = [m \in DOMAIN f \cup {p[1]} |-> IF m = p[1] THEN p[2] ELSE f[m]]
  BY DEF Upsert
<1>2. 1..(k + 1) = (1..k) \cup {k + 1} /\ \A i \in 1..k : i <= k + 1
  OBVIOUS
<1>3. DOMAIN g = DOMAIN scores \cup {pairs[i][1] : i \in 1..(k + 1)}
  <2>1. {pairs[i][1] : i \in 1..(k + 1)} = {pairs[i][1] : i \in 1..k} \cup {p[1]}  BY <1>2
  <2>2. DOMAIN f = DOMAIN scores \cup {pairs[i][1] : i \in 1..k}  BY DEF After
  <2>3. DOMAIN g = DOMAIN f \cup {p[1]}  BY <1>1
  <2>. QED  BY <2>1, <2>2, <2>3
<1>4. g = [m \in DOMAIN g |-> g[m]]
  BY <1>1
<1>5. ASSUME NEW m \in DOMAIN g
      PROVE  \/ /\ \A i \in 1..(k + 1) : pairs[i][1] # m
                /\ m \in DOMAIN scores /\ g[m] = scores[m]
             \/ \E i \in 1..(k + 1) : /\ pairs[i][1] = m /\ g[m] = pairs[i][2]
                                      /\ \A j \in 1..(k + 1) : pairs[j][1] = m => j <= i
  <2>1. CASE m = p[1]
    <3>1. g[m] = p[2] /\ k + 1 \in 1..(k + 1)  BY <1>1, <2>1
    <3>2. \A j \in 1..(k + 1) : j <= k + 1  OBVIOUS
    <3>. QED  BY <2>1, <3>1, <3>2
  <2>2. CASE m # p[1]
    <3>1. m \in DOMAIN f /\ g[m] = f[m]  BY <1>1, <2>2
    <3>2. \/ /\ \A i \in 1..k : pairs[i][1] # m
             /\ m \in DOMAIN scores /\ f[m] = scores[m]
          \/ \E i \in 1..k : /\ pairs[i][1] = m /\ f[m] = pairs[i][2]
                             /\ \A j \in 1..k : pairs[j][1] = m => j <= i
      BY <3>1 DEF After
    <3>3. pairs[k + 1][1] # m  BY <2>2
    <3>. QED  BY <1>2, <3>1, <3>2, <3>3
  <2>. QED  BY <2>1, <2>2
<1>. QED  BY <1>3, <1>4, <1>5 DEF After

\* After all the pairs each member has the score of the last pair that gives it.
LEMMA UpsertedGives ==
    ASSUME NEW scores, scores = [m \in DOMAIN scores |-> scores[m]],
           NEW pairs, Len(pairs) \in Nat
    PROVE  After(Z!Upserted(scores, pairs), Len(pairs), scores, pairs)
<1>n. PICK n \in Nat : n = Len(pairs)
  OBVIOUS
<1>0. PICK g : /\ Z!Upserted(scores, pairs) = g[Len(pairs)]
               /\ g[0] = scores
               /\ \A k \in 1..Len(pairs) : g[k] = Upsert(g[k - 1], pairs[k])
  BY UpsertedIs
<1>1. /\ Z!Upserted(scores, pairs) = g[n]
      /\ g[0] = scores
      /\ \A k \in 1..n : g[k] = Upsert(g[k - 1], pairs[k])
  BY <1>n, <1>0
<1>. DEFINE Bad == {k \in 0..n : ~After(g[k], k, scores, pairs)}
<1>2. SUFFICES ASSUME Bad # {} PROVE FALSE
  BY <1>n, <1>1
<1>3. PICK k \in Bad : \A j \in Bad : k <= j
  <2>1. Bad \in SUBSET Nat  OBVIOUS
  <2>. HIDE DEF Bad
  <2>. QED  BY <1>2, <2>1, LeastNumber
<1>4. k # 0
  <2>1. After(scores, 0, scores, pairs)
    <3>1. 1..0 = {}  OBVIOUS
    <3>2. {pairs[i][1] : i \in 1..0} = {}  BY <3>1
    <3>. QED  BY <3>1, <3>2 DEF After
  <2>. QED  BY <1>1, <1>3, <2>1
<1>5. k \in 1..n /\ k - 1 \in 0..n /\ k - 1 \in Nat /\ (k - 1) + 1 = k /\ k - 1 \notin Bad
  BY <1>3, <1>4
<1>6. After(g[k - 1], k - 1, scores, pairs) /\ g[k] = Upsert(g[k - 1], pairs[k])
  BY <1>1, <1>5
<1>7. After(g[k], k, scores, pairs)
  <2>. PICK j, f, h : j = k - 1 /\ f = g[k - 1] /\ h = g[k]  OBVIOUS
  <2>1. j \in Nat /\ j + 1 = k /\ After(f, j, scores, pairs) /\ h = Upsert(f, pairs[j + 1])
    BY <1>5, <1>6
  <2>2. After(h, j + 1, scores, pairs)  BY <2>1, OneMore
  <2>. QED  BY <2>1, <2>2
<1>. QED  BY <1>3, <1>7

\* A sorted set that is there has members, and its counter is NULL or their number.
GoodScores(f) == DOMAIN f \in SUBSET Members /\ f \in [DOMAIN f -> Scores]
GoodZset(z) ==
    /\ z = [scores |-> z.scores, count |-> z.count]
    /\ GoodScores(z.scores) /\ z.count \in Int \cup {Null}
    /\ z # Z!NoZset => DOMAIN z.scores # {} /\ z.count \in {Null, Cardinality(DOMAIN z.scores)}

\* The empty function is defined nowhere.
LEMMA EmptyDomain == DOMAIN <<>> = {}
<1>1. <<>> \in [{} -> {}]
  BY EmptyFunction
<1>. QED  BY <1>1

\* A key with no sorted set has no scores.
LEMMA NoZsetIs == GoodZset(Z!NoZset) /\ DOMAIN Z!NoZset.scores = {}
<1>1. <<>> \in [DOMAIN <<>> -> Scores]
  BY EmptyDomain, EmptyFunction
<1>2. Z!NoZset.scores = <<>> /\ Z!NoZset.count = 0
  BY DEF Z!NoZset
<1>3. Z!NoZset = [scores |-> Z!NoZset.scores, count |-> Z!NoZset.count]
  BY DEF Z!NoZset
<1>. QED  BY <1>1, <1>2, <1>3, EmptyDomain DEF GoodZset, GoodScores

\* The count of a sorted set, kept or counted, is the number of its members.
LEMMA ZsetParts ==
    ASSUME NEW z, GoodZset(z)
    PROVE  /\ DOMAIN z.scores \in SUBSET Members /\ z.scores \in [DOMAIN z.scores -> Scores]
           /\ IsFiniteSet(DOMAIN z.scores) /\ Cardinality(DOMAIN z.scores) \in Nat
           /\ z.count \in {Null, Cardinality(DOMAIN z.scores)}
           /\ Z!Count(z) = Cardinality(DOMAIN z.scores)
           /\ z # Z!NoZset <=> DOMAIN z.scores # {}
<1>1. DOMAIN z.scores \in SUBSET Members /\ z.scores \in [DOMAIN z.scores -> Scores]
  BY DEF GoodZset, GoodScores
<1>2. IsFiniteSet(DOMAIN z.scores) /\ Cardinality(DOMAIN z.scores) \in Nat
  BY <1>1, FiniteMembers
<1>3. Z!Count(z) = IF z.count = Null THEN Cardinality(DOMAIN z.scores) ELSE z.count
  BY Same DEF Z!Count
<1>4. z # Z!NoZset => DOMAIN z.scores # {} /\ z.count \in {Null, Cardinality(DOMAIN z.scores)}
  BY DEF GoodZset
<1>5. z = Z!NoZset => DOMAIN z.scores = {} /\ z.count = 0
  BY NoZsetIs DEF Z!NoZset
<1>6. Cardinality({}) = 0
  BY FS_EmptySet
<1>. QED  BY <1>1, <1>2, <1>3, <1>4, <1>5, <1>6

\* Scores with their count, or with none kept, are a sorted set.
LEMMA MakeZset ==
    ASSUME NEW f, GoodScores(f), DOMAIN f # {}, NEW c, c \in {Null, Cardinality(DOMAIN f)},
           NEW r, r = [scores |-> f, count |-> c]
    PROVE  GoodZset(r) /\ r # Z!NoZset /\ r.scores = f
<1>1. r.scores = f /\ r.count = c
  OBVIOUS
<1>2. c \in Int \cup {Null}
  BY FiniteMembers DEF GoodScores
<1>3. r # Z!NoZset
  BY <1>1, NoZsetIs
<1>. QED  BY <1>1, <1>2, <1>3 DEF GoodZset

\* Hydration of a sorted set counts its members and leaves their scores alone.
LEMMA ZsetHydrated ==
    ASSUME NEW z, GoodZset(z)
    PROVE  GoodZset(Z!Hydrated(z)) /\ Z!Hydrated(z).scores = z.scores
           /\ (Z!Hydrated(z) = Z!NoZset <=> z = Z!NoZset)
<1>1. Z!Hydrated(z) = [scores |-> z.scores, count |-> Cardinality(DOMAIN z.scores)]
  <2>1. z = [scores |-> z.scores, count |-> z.count]  BY DEF GoodZset
  <2>. QED  BY <2>1, ZsetParts DEF Z!Hydrated
<1>2. CASE z = Z!NoZset
  <2>1. z.scores = <<>> /\ Cardinality({}) = 0  BY <1>2, FS_EmptySet DEF Z!NoZset
  <2>2. Z!Hydrated(z) = Z!NoZset  BY <1>1, <2>1, EmptyDomain DEF Z!NoZset
  <2>. QED  BY <1>2, <2>2, NoZsetIs
<1>3. CASE z # Z!NoZset
  <2>1. GoodScores(z.scores) /\ DOMAIN z.scores # {}  BY <1>3 DEF GoodZset
  <2>. QED  BY <1>1, <1>3, <2>1, MakeZset
<1>. QED  BY <1>2, <1>3

\* Adding members adds as many as were not there.
LEMMA CountsAdd ==
    ASSUME NEW M \in SUBSET Members, NEW N \in SUBSET Members
    PROVE  Cardinality(M \cup N) = Cardinality(M) + Cardinality((M \cup N) \ M)
<1>n. PICK new : new = (M \cup N) \ M
  OBVIOUS
<1>1. IsFiniteSet(M) /\ IsFiniteSet(new) /\ Cardinality(M) \in Nat /\ Cardinality(new) \in Nat
  <2>1. new \in SUBSET Members  BY <1>n
  <2>. QED  BY <2>1, FiniteMembers
<1>2. M \cup N = M \cup new /\ M \cap new = {}
  BY <1>n
<1>3. Cardinality(M \cup new) = Cardinality(M) + Cardinality(new) - Cardinality(M \cap new)
  BY <1>1, FS_Union
<1>4. Cardinality(M \cap new) = 0
  BY <1>2, FS_EmptySet
<1>5. Cardinality(M \cup new) = Cardinality(M) + Cardinality(new)
  BY <1>1, <1>3, <1>4
<1>. QED  BY <1>n, <1>2, <1>5

\* ZADD of one pair or more: the members of both, and how many are new.
LEMMA ZAddGives ==
    ASSUME NEW z, GoodZset(z), NEW pairs, Len(pairs) \in Nat \ {0},
           \A i \in 1..Len(pairs) : pairs[i][1] \in Members /\ pairs[i][2] \in Scores
    PROVE  GoodZset(Z!Add(z, pairs).zset) /\ Z!Add(z, pairs).zset # Z!NoZset
<1>f. PICK f, s, n : f = Z!Upserted(z.scores, pairs) /\ s = z.scores /\ n = Len(pairs)
  OBVIOUS
<1>1. DOMAIN s \in SUBSET Members /\ s \in [DOMAIN s -> Scores]
  BY <1>f, ZsetParts
<1>2. After(f, n, s, pairs)
  <2>1. z.scores = [m \in DOMAIN z.scores |-> z.scores[m]]  BY <1>f, <1>1
  <2>2. After(Z!Upserted(z.scores, pairs), Len(pairs), z.scores, pairs)  BY <2>1, UpsertedGives
  <2>. QED  BY <1>f, <2>2
<1>3. DOMAIN f = DOMAIN s \cup {pairs[i][1] : i \in 1..n}
  BY <1>2 DEF After
<1>4. DOMAIN f \in SUBSET Members /\ DOMAIN f # {}
  <2>1. 1 \in 1..n  BY <1>f
  <2>2. \A i \in 1..n : pairs[i][1] \in Members  BY <1>f
  <2>3. DOMAIN f \in SUBSET Members  BY <1>1, <1>3, <2>2
  <2>4. pairs[1][1] \in DOMAIN f  BY <1>3, <2>1
  <2>. QED  BY <2>3, <2>4
<1>5. GoodScores(f)
  <2>1. f = [m \in DOMAIN f |-> f[m]]  BY <1>2 DEF After
  <2>2. ASSUME NEW m \in DOMAIN f PROVE f[m] \in Scores
    <3>1. \/ m \in DOMAIN s /\ f[m] = s[m]
          \/ \E i \in 1..n : f[m] = pairs[i][2]
      BY <1>2 DEF After
    <3>. QED  BY <1>f, <1>1, <3>1
  <2>3. f \in [DOMAIN f -> Scores]  BY <2>1, <2>2
  <2>. QED  BY <1>4, <2>3 DEF GoodScores
<1>6. Cardinality(DOMAIN f) = Cardinality(DOMAIN s) + Cardinality(DOMAIN f \ DOMAIN s)
  <2>p. PICK N : N = {pairs[i][1] : i \in 1..n}  OBVIOUS
  <2>1. N \in SUBSET Members  BY <1>f, <2>p
  <2>2. Cardinality(DOMAIN s \cup N) = Cardinality(DOMAIN s) + Cardinality((DOMAIN s \cup N) \ DOMAIN s)
    BY <1>1, <2>1, CountsAdd
  <2>. QED  BY <1>3, <2>p, <2>2
<1>7. Z!Add(z, pairs).zset = [scores |-> f, count |-> Cardinality(DOMAIN f)]
  <2>1. Z!Count(z) = Cardinality(DOMAIN s)  BY <1>f, ZsetParts
  <2>2. Z!Add(z, pairs).zset = [scores |-> f, count |-> Z!Count(z) + Cardinality(DOMAIN f \ DOMAIN s)]
    BY <1>f, Same DEF Z!Add
  <2>. QED  BY <1>6, <2>1, <2>2
<1>. QED  BY <1>4, <1>5, <1>7, MakeZset

\* ZINCRBY, when the score that it comes to is one of Scores.
LEMMA ZIncrGives ==
    ASSUME NEW z, GoodZset(z), NEW m \in Members, NEW increment,
           Z!Incr(z, m, increment).zset.scores[m] \in Scores
    PROVE  GoodZset(Z!Incr(z, m, increment).zset) /\ Z!Incr(z, m, increment).zset # Z!NoZset
<1>n. PICK next : next = (IF m \in DOMAIN z.scores THEN z.scores[m] ELSE 0) + increment
  OBVIOUS
<1>p. PICK pairs : pairs = <<<<m, next>>>>
  OBVIOUS
<1>f. PICK f, s : f = Z!Upserted(z.scores, pairs) /\ s = z.scores
  OBVIOUS
<1>1. Len(pairs) = 1 /\ pairs[1][1] = m /\ pairs[1][2] = next /\ \A i \in 1..1 : i = 1
  BY <1>p
<1>2. Z!Incr(z, m, increment).zset = Z!Add(z, pairs).zset
  BY <1>n, <1>p DEF Z!Incr
<1>4. After(f, 1, s, pairs)
  <2>1. z.scores = [o \in DOMAIN z.scores |-> z.scores[o]]  BY ZsetParts
  <2>2. After(Z!Upserted(z.scores, pairs), Len(pairs), z.scores, pairs)
    <3>1. Len(pairs) \in Nat  BY <1>1
    <3>. QED  BY <2>1, <3>1, UpsertedGives
  <2>. QED  BY <1>1, <1>f, <2>2
<1>5. f[m] = next
  <2>0. 1 \in 1..1  OBVIOUS
  <2>1. m \in DOMAIN f  BY <1>1, <1>4, <2>0 DEF After
  <2>2. \/ \A i \in 1..1 : pairs[i][1] # m
        \/ \E i \in 1..1 : f[m] = pairs[i][2]
    BY <1>4, <2>1 DEF After
  <2>. QED  BY <1>1, <2>0, <2>2
<1>6. Z!Add(z, pairs).zset.scores = f
  BY <1>f DEF Z!Add
<1>7. next \in Scores
  BY <1>2, <1>5, <1>6
<1>8. Len(pairs) \in Nat \ {0} /\ \A i \in 1..Len(pairs) : pairs[i][1] \in Members /\ pairs[i][2] \in Scores
  BY <1>1, <1>7
<1>. QED  BY <1>2, <1>8, ZAddGives

\* What is left of the rows, under their exact number.
LEMMA LeftGives ==
    ASSUME NEW z, GoodZset(z), NEW gone, NEW f, f = Z!Less(z, gone)
    PROVE  /\ DOMAIN f = DOMAIN z.scores \ gone
           /\ GoodScores(f)
           /\ GoodZset(Z!Left(z, f, Cardinality(DOMAIN f)))
           /\ Z!Left(z, f, Cardinality(DOMAIN f)).scores = f
<1>s. PICK s, D : s = z.scores /\ D = DOMAIN s \ gone
  OBVIOUS
<1>1. DOMAIN s \in SUBSET Members /\ s \in [DOMAIN s -> Scores]
  BY <1>s, ZsetParts
<1>2. f = [m \in D |-> s[m]]
  BY <1>s, Same DEF Z!Less, Restrict
<1>3. DOMAIN f = D /\ GoodScores(f)
  <2>1. \A m \in D : s[m] \in Scores  BY <1>s, <1>1
  <2>2. f \in [D -> Scores]  BY <1>2, <2>1
  <2>3. D \in SUBSET Members /\ DOMAIN f = D  BY <1>s, <1>1, <1>2
  <2>. QED  BY <2>2, <2>3 DEF GoodScores
<1>c. PICK c : c = Cardinality(D)
  OBVIOUS
<1>4. c = 0 <=> D = {}
  <2>1. D \in SUBSET Members  BY <1>3 DEF GoodScores
  <2>. QED  BY <1>c, <2>1, FiniteMembers
<1>5. CASE c = 0
  <2>1. Z!Left(z, f, c) = Z!NoZset  BY <1>5 DEF Z!Left
  <2>2. f = <<>>
    <3>1. <<>> \in [{} -> Scores] /\ f \in [{} -> Scores]
      BY <1>3, <1>4, <1>5, EmptyFunction DEF GoodScores
    <3>. QED  BY <3>1
  <2>3. Z!NoZset.scores = f  BY <2>2 DEF Z!NoZset
  <2>. QED  BY <1>3, <1>c, <1>s, <2>1, <2>3, NoZsetIs
<1>6. CASE c # 0 /\ f = s
  <2>1. Z!Left(z, f, c) = z  BY <1>s, <1>6 DEF Z!Left
  <2>. QED  BY <1>3, <1>6, <1>c, <1>s, <2>1
<1>7. CASE c # 0 /\ f # s
  <2>1. Z!Left(z, f, c) = [scores |-> f, count |-> c]  BY <1>s, <1>7 DEF Z!Left
  <2>2. GoodZset([scores |-> f, count |-> c]) /\ [scores |-> f, count |-> c].scores = f
    BY <1>3, <1>4, <1>7, <1>c, MakeZset
  <2>. QED  BY <1>3, <1>c, <1>s, <2>1, <2>2
<1>. QED  BY <1>5, <1>6, <1>7

\* ZREM.
LEMMA ZRemGives ==
    ASSUME NEW z, GoodZset(z), NEW members
    PROVE  /\ GoodZset(Z!RemoveMembers(z, members).zset)
           /\ Z!RemoveMembers(z, members).zset.scores = Z!Less(z, members)
<1>s. PICK s, f, n, c : /\ s = z.scores /\ f = Z!Less(z, members)
                        /\ n = Cardinality(members \cap DOMAIN s) /\ c = Cardinality(DOMAIN f)
  OBVIOUS
<1>1. DOMAIN f = DOMAIN s \ members /\ GoodZset(Z!Left(z, f, c)) /\ Z!Left(z, f, c).scores = f
  BY <1>s, LeftGives
<1>2. c \in Nat /\ n \in Nat /\ c = Cardinality(DOMAIN s) - n
  <2>1. DOMAIN s \in SUBSET Members  BY <1>s, ZsetParts
  <2>2. /\ Cardinality(DOMAIN s \ members) \in Nat /\ Cardinality(members \cap DOMAIN s) \in Nat
        /\ Cardinality(DOMAIN s \ members) = Cardinality(DOMAIN s) - Cardinality(members \cap DOMAIN s)
    BY <2>1, Fewer
  <2>. QED  BY <1>s, <1>1, <2>2
<1>3. (IF z.count = Null THEN Cardinality(DOMAIN f) ELSE Max({0, z.count - n})) = c
  <2>1. z.count # Null => z.count - n = c  BY <1>s, <1>2, ZsetParts
  <2>. QED  BY <1>2, <1>s, <2>1, MaxZero
<1>4. Z!RemoveMembers(z, members).zset = Z!Left(z, f, c)
  BY <1>s, <1>3, Same DEF Z!RemoveMembers
<1>. QED  BY <1>1, <1>4, <1>s

\* ZREMRANGEBYRANK and ZREMRANGEBYSCORE.
LEMMA ZRemRangesGive ==
    ASSUME NEW z, GoodZset(z), NEW i, NEW j
    PROVE  /\ GoodZset(Z!RemoveRangeByRank(z, i, j).zset)
           /\ GoodZset(Z!RemoveRangeByScore(z, i, j).zset)
<1>1. ASSUME NEW gone PROVE GoodZset(Z!Left(z, Z!Less(z, gone), Cardinality(DOMAIN Z!Less(z, gone))))
  BY LeftGives
<1>h. PICK y : y = Z!Hydrated(z)
  OBVIOUS
<1>2. GoodZset(y) /\ y.scores = z.scores
  BY <1>h, ZsetHydrated
<1>3. ASSUME NEW gone PROVE GoodZset(Z!Left(y, Z!Less(z, gone), Cardinality(DOMAIN Z!Less(z, gone))))
  <2>1. Z!Less(z, gone) = Z!Less(y, gone)  BY <1>2 DEF Z!Less
  <2>2. GoodZset(Z!Left(y, Z!Less(y, gone), Cardinality(DOMAIN Z!Less(y, gone))))  BY <1>2, LeftGives
  <2>. QED  BY <2>1, <2>2
<1>4. Z!RemoveRangeByScore(z, i, j).zset
        = Z!Left(z, Z!Less(z, Z!ToSet(Z!Within(z, i, j))),
                 Cardinality(DOMAIN Z!Less(z, Z!ToSet(Z!Within(z, i, j)))))
  BY Same DEF Z!RemoveRangeByScore
<1>r. PICK gone : gone = Z!ToSet(Z!RankPage(Z!Ordered(z.scores), Z!Count(z), i, j))
  OBVIOUS
<1>5. Z!RemoveRangeByRank(z, i, j).zset
        = Z!Left(y, Z!Less(z, gone), Cardinality(DOMAIN Z!Less(z, gone)))
  BY <1>h, <1>r, Same DEF Z!RemoveRangeByRank
<1>. QED  BY <1>1, <1>3, <1>4, <1>5

-----------------------------------------------------------------------------
(* The order of a sorted set, and the values that are cached.              *)

ByScore(f, D) == {p \in D \X D : Z!Before(f, p[1], p[2])}

\* Score, then member, orders the members strictly.
LEMMA ScoresOrder ==
    ASSUME NEW f, NEW D \in SUBSET Members, f \in [D -> Scores]
    PROVE  /\ Orders(ByScore(f, D), D)
           /\ \A m \in D : Lower(ByScore(f, D), D, m) = {o \in D : Z!Before(f, o, m)}
<1>1. \A m \in D : m \in Int /\ f[m] \in Int
  BY CollectionsAssumption
<1>2. \A a, b \in D : <<a, b>> \in ByScore(f, D) <=> f[a] < f[b] \/ (f[a] = f[b] /\ a < b)
  BY DEF ByScore, Z!Before
<1>3. \A a \in D : <<a, a>> \notin ByScore(f, D)
  BY <1>1, <1>2
<1>4. \A a, b \in D : a # b => <<a, b>> \in ByScore(f, D) \/ <<b, a>> \in ByScore(f, D)
  BY <1>1, <1>2
<1>5. ASSUME NEW a \in D, NEW b \in D, NEW c \in D, <<a, b>> \in ByScore(f, D), <<b, c>> \in ByScore(f, D)
      PROVE  <<a, c>> \in ByScore(f, D)
  BY <1>1, <1>2, <1>5
<1>6. \A m \in D : Lower(ByScore(f, D), D, m) = {o \in D : Z!Before(f, o, m)}
  BY DEF Lower, ByScore
<1>. QED  BY <1>3, <1>4, <1>5, <1>6 DEF Orders

\* ORDER BY score, member puts the members in order.
LEMMA OrderedArranges ==
    ASSUME NEW f, NEW D \in SUBSET Members, f \in [D -> Scores]
    PROVE  Arranges(Z!Ordered(f), Cardinality(D), D, ByScore(f, D))
<1>. DEFINE R == ByScore(f, D)
            n == Cardinality(D)
            s == Z!Ordered(f)
            Ahead(m) == {o \in D : Z!Before(f, o, m)}
<1>1. IsFiniteSet(D) /\ n \in Nat /\ Orders(R, D) /\ \A m \in D : Lower(R, D, m) = Ahead(m)
  BY FiniteMembers, ScoresOrder
<1>2. s = [i \in 1..n |-> CHOOSE m \in D : Cardinality(Ahead(m)) = i - 1]
  <2>1. DOMAIN f = D  OBVIOUS
  <2>. QED  BY <2>1 DEF Z!Ordered, Cardinality, Z!Cardinality
<1>. HIDE DEF R, n, s, Ahead
<1>3. ASSUME NEW i \in 1..n
      PROVE  s[i] \in D /\ Cardinality(Lower(R, D, s[i])) = i - 1
  <2>1. i - 1 \in 0..(n - 1)  BY <1>1
  <2>2. PICK m \in D : Cardinality(Lower(R, D, m)) = i - 1  BY <1>1, <2>1, RanksAreAllThere DEF n
  <2>3. Cardinality(Ahead(m)) = i - 1  BY <1>1, <2>2
  <2>4. s[i] = CHOOSE o \in D : Cardinality(Ahead(o)) = i - 1  BY <1>2
  <2>5. s[i] \in D /\ Cardinality(Ahead(s[i])) = i - 1  BY <2>3, <2>4
  <2>. QED  BY <1>1, <2>5
<1>4. s \in [1..n -> D]
  <2>1. s = [i \in 1..n |-> s[i]]  BY <1>2
  <2>. QED  BY <1>3, <2>1
<1>5. Arranges(s, n, D, R)
  BY <1>1, <1>3, <1>4, RanksArrange DEF n
<1>. QED  BY <1>5 DEF R, n, s

\* All members in order with their scores: what ZRANGE 0 -1 replies.
WholeOf(f) == Z!Shown(f, Z!Ordered(f))

\* All the members of a sorted set, each once, with their formatted scores.
LEMMA WholeIs ==
    ASSUME NEW f, GoodScores(f)
    PROVE  /\ Z!Ordered(f) \in [1..Cardinality(DOMAIN f) -> DOMAIN f]
           /\ Z!Ordered(f) \in Seq(DOMAIN f) /\ Len(Z!Ordered(f)) = Cardinality(DOMAIN f)
           /\ WholeOf(f) = [i \in 1..Cardinality(DOMAIN f) |->
                              <<Z!Ordered(f)[i], Z!FormatScore(f[Z!Ordered(f)[i]])>>]
           /\ WholeOf(f) \in Seq(Entries(Scores)) /\ Len(WholeOf(f)) = Cardinality(DOMAIN f)
<1>d. PICK D, n, s : D = DOMAIN f /\ n = Cardinality(D) /\ s = Z!Ordered(f)
  OBVIOUS
<1>1. D \in SUBSET Members /\ f \in [D -> Scores] /\ n \in Nat
  BY <1>d, FiniteMembers DEF GoodScores
<1>2. s \in [1..n -> D]
  BY <1>1, <1>d, OrderedArranges DEF Arranges
<1>3. s \in Seq(D) /\ Len(s) = n
  BY <1>1, <1>2, FunctionIsSeq
<1>4. WholeOf(f) = [i \in 1..n |-> <<s[i], Z!FormatScore(f[s[i]])>>]
  BY <1>2, <1>d DEF WholeOf, Z!Shown
<1>5. \A i \in 1..n : <<s[i], Z!FormatScore(f[s[i]])>> \in Entries(Scores)
  BY <1>1, <1>2 DEF Entries
<1>6. WholeOf(f) \in [1..n -> Entries(Scores)]
  BY <1>4, <1>5
<1>7. WholeOf(f) \in Seq(Entries(Scores)) /\ Len(WholeOf(f)) = n
  BY <1>1, <1>6, FunctionIsSeq
<1>. QED  BY <1>2, <1>3, <1>4, <1>7, <1>d

\* The page of a range from the first rank to the last is everything.
LEMMA WholePage ==
    ASSUME NEW V, NEW s \in Seq(V), NEW n \in Nat \ {0}, Len(s) = n
    PROVE  Z!RankPageAsc(s, n, 0, -1) = s
<1>1. Max({0, n + -1}) = n - 1 /\ Min({n - 1, n - 1}) = n - 1 /\ Min({0, n - 1}) = 0
      /\ Max({0, 0}) = 0 /\ Min({n, n}) = n
  <2>1. n - 1 \in Nat /\ n + -1 = n - 1  OBVIOUS
  <2>2. Max({0, n - 1}) = n - 1 /\ Max({0, 0}) = 0  BY <2>1, MaxZero
  <2>3. ASSUME NEW a \in Nat PROVE Min({a, a}) = a  BY MinMax
  <2>4. Min({0, n - 1}) = 0
    <3>. PICK z, m : z = 0 /\ m = n - 1  OBVIOUS
    <3>1. Min({z, m}) = IF z <= m THEN z ELSE m  BY MinMax
    <3>. QED  BY <3>1
  <2>. QED  BY <2>1, <2>2, <2>3, <2>4
<1>2. Z!RankPageAsc(s, n, 0, -1) = Z!RankPage(s, n, 0, -1)
  BY DEF Z!RankPageAsc
<1>3. Z!RankPage(s, n, 0, -1) = Z!Page(s, (n - 1) - 0 + 1, 0)
  <2>1. ~(0 < 0) /\ -1 < 0 /\ n # 0 /\ ~(0 > n - 1)  OBVIOUS
  <2>2. Z!Max({0, n + -1}) = n - 1 /\ Z!Min({n - 1, n - 1}) = n - 1 /\ Z!Min({0, n - 1}) = 0
    BY <1>1, Same
  <2>3. Z!RankPage(s, n, 0, -1)
          = IF n = 0 \/ 0 > Z!Max({0, n + -1}) THEN <<>>
            ELSE Z!Page(s, Z!Min({Z!Max({0, n + -1}), n - 1}) - Z!Min({0, n - 1}) + 1, Z!Min({0, n - 1}))
    BY <2>1 DEF Z!RankPage
  <2>. QED  BY <2>1, <2>2, <2>3
<1>4. Z!Page(s, n, 0) = SubSeq(s, 1, n)
  <2>1. 0 + 1 = 1 /\ 1 + n - 1 = n /\ ~(n < 0)  OBVIOUS
  <2>. QED  BY <1>1, <2>1, Same DEF Z!Page
<1>5. (n - 1) - 0 + 1 = n
  OBVIOUS
<1>. QED  BY <1>2, <1>3, <1>4, <1>5, SubSeqFull

\* ZRANGE 0 -1 replies the whole sorted set.
LEMMA WholeZsetIs ==
    ASSUME NEW z, GoodZset(z), z # Z!NoZset
    PROVE  WholeZset(z) = WholeOf(z.scores)
<1>d. PICK f, n, s : f = z.scores /\ n = Cardinality(DOMAIN f) /\ s = Z!Ordered(f)
  OBVIOUS
<1>1. GoodScores(f) /\ Z!Count(z) = n /\ n \in Nat /\ DOMAIN f # {} /\ DOMAIN f \in SUBSET Members
  BY <1>d, ZsetParts DEF GoodZset
<1>2. n # 0
  BY <1>1, <1>d, FiniteMembers
<1>3. s \in Seq(DOMAIN f) /\ Len(s) = n
  BY <1>1, <1>d, WholeIs
<1>4. Z!RankPageAsc(s, n, 0, -1) = s
  BY <1>1, <1>2, <1>3, WholePage
<1>. QED  BY <1>1, <1>4, <1>d DEF WholeZset, Z!RangeByRank, WholeOf

\* LRANGE 0 -1 replies the whole list.
LEMMA WholeListIs ==
    ASSUME NEW l, GoodList(l), l # L!NoList
    PROVE  L!LRange(l, 0, -1) = ValuesOf(l)
<1>n. PICK n : n = L!Length(l)
  OBVIOUS
<1>1. n \in Nat \ {0}
  BY <1>n, ListParts
<1>2. L!Clamped(n, 0) = 0 /\ L!Clamped(n, -1) = n - 1
  BY <1>1, ClampedIs
<1>3. L!LRange(l, 0, -1) = SubSeq(ValuesOf(l), L!Clamped(n, 0) + 1, L!Clamped(n, -1) + 1)
  BY <1>n, RangesGive
<1>4. 0 + 1 = 1 /\ (n - 1) + 1 = n
  BY <1>1
<1>. QED  BY <1>2, <1>3, <1>4, <1>n, ValuesType, SubSeqFull

-----------------------------------------------------------------------------
(* The inductive invariant.  What SPOP with a negative count does to the   *)
(* counter of a set is kept apart: all but RowSets holds with it as well.  *)

TypedSet(s) == s \in [members : SUBSET Members, count : Int \cup {Null}]

Single(l, s, z) ==
    /\ l # L!NoList => s = S!NoSet /\ z = Z!NoZset
    /\ s # S!NoSet => z = Z!NoZset

\* What is cached is everything the rows have.
Fresh(e, l, s, z) ==
    \/ e = NoEntry
    \/ /\ e = [kind |-> "list", value |-> ValuesOf(l)]
       /\ l # L!NoList /\ L!Length(l) <= MaxCached
    \/ /\ e = [kind |-> "set", value |-> s.members]
       /\ s # S!NoSet /\ Cardinality(s.members) <= MaxCached
    \/ /\ e = [kind |-> "zset", value |-> WholeOf(z.scores)]
       /\ z # Z!NoZset /\ Cardinality(DOMAIN z.scores) <= MaxCached

KeyOK(l, s, z, e) == GoodList(l) /\ TypedSet(s) /\ GoodZset(z) /\ Single(l, s, z) /\ Fresh(e, l, s, z)

Shapes == DOMAIN lists = Keys /\ DOMAIN sets = Keys /\ DOMAIN zsets = Keys /\ DOMAIN cache = Keys
Rows == \A k \in Keys : KeyOK(lists[k], sets[k], zsets[k], cache[k])
IInv == Shapes /\ Rows
RowSets == \A k \in Keys : GoodSet(sets[k])

\* A key with no value and nothing cached is in order.
LEMMA NothingGood ==
    /\ GoodList(L!NoList) /\ TypedSet(S!NoSet) /\ GoodSet(S!NoSet) /\ GoodZset(Z!NoZset)
    /\ \A l, s, z : Fresh(NoEntry, l, s, z)
BY NoListIs, NoSetIs, NoZsetIs DEF TypedSet, GoodSet, Fresh

\* A write puts one value and ends with the invalidation of its key.
LEMMA PutKeeps ==
    ASSUME IInv, NEW k \in Keys, NEW l, NEW s, NEW z,
           GoodList(l), TypedSet(s), GoodZset(z), Single(l, s, z),
           DOMAIN lists' = Keys, DOMAIN sets' = Keys, DOMAIN zsets' = Keys,
           \A j \in Keys : (lists'[j] = IF j = k THEN l ELSE lists[j]) /\ (sets'[j] = IF j = k THEN s ELSE sets[j]) /\ (zsets'[j] = IF j = k THEN z ELSE zsets[j]),
           Invalidate({k})
    PROVE  IInv'
<1>1. Shapes'
  BY DEF Shapes, Invalidate
<1>2. ASSUME NEW j \in Keys
      PROVE  KeyOK(lists'[j], sets'[j], zsets'[j], cache'[j])
  <2>1. CASE j = k
    <3>1. lists'[j] = l /\ sets'[j] = s /\ zsets'[j] = z  BY <2>1
    <3>2. cache'[j] = NoEntry  BY <2>1 DEF Invalidate
    <3>. QED  BY <3>1, <3>2, NothingGood DEF KeyOK
  <2>2. CASE j # k
    <3>1. lists'[j] = lists[j] /\ sets'[j] = sets[j] /\ zsets'[j] = zsets[j]  BY <2>2
    <3>2. cache'[j] = cache[j]  BY <2>2 DEF Invalidate
    <3>3. KeyOK(lists[j], sets[j], zsets[j], cache[j])  BY DEF IInv, Rows
    <3>. QED  BY <3>1, <3>2, <3>3
  <2>. QED  BY <2>1, <2>2
<1>. QED  BY <1>1, <1>2 DEF IInv, Rows

\* What the invariant says of one key.
LEMMA RowsOf ==
    ASSUME IInv, NEW k \in Keys
    PROVE  /\ GoodList(lists[k]) /\ TypedSet(sets[k]) /\ GoodZset(zsets[k])
           /\ Single(lists[k], sets[k], zsets[k])
           /\ Fresh(cache[k], lists[k], sets[k], zsets[k])
<1>1. KeyOK(lists[k], sets[k], zsets[k], cache[k])
  BY DEF IInv, Rows
<1>. QED  BY <1>1 DEF KeyOK

\* The type of a key says which of its rows there are.
LEMMA KindIs ==
    ASSUME IInv, NEW k \in Keys
    PROVE  /\ Kind(k) = "list" <=> lists[k] # L!NoList
           /\ Kind(k) = "set" <=> sets[k] # S!NoSet
           /\ Kind(k) = "zset" <=> zsets[k] # Z!NoZset
           /\ Kind(k) = "none" <=> /\ lists[k] = L!NoList /\ sets[k] = S!NoSet
                                   /\ zsets[k] = Z!NoZset
           /\ Kind(k) \in {"none", "list", "set", "zset"}
<1>0. Single(lists[k], sets[k], zsets[k])
  BY RowsOf
<1>1. CASE lists[k] # L!NoList
  <2>1. sets[k] = S!NoSet /\ zsets[k] = Z!NoZset  BY <1>0, <1>1 DEF Single
  <2>. QED  BY <1>1, <2>1 DEF Kind
<1>2. CASE sets[k] # S!NoSet
  <2>1. lists[k] = L!NoList /\ zsets[k] = Z!NoZset  BY <1>0, <1>2 DEF Single
  <2>. QED  BY <1>2, <2>1 DEF Kind
<1>3. CASE zsets[k] # Z!NoZset
  <2>1. lists[k] = L!NoList /\ sets[k] = S!NoSet  BY <1>0, <1>3 DEF Single
  <2>. QED  BY <1>3, <2>1 DEF Kind
<1>4. CASE lists[k] = L!NoList /\ sets[k] = S!NoSet /\ zsets[k] = Z!NoZset
  BY <1>4 DEF Kind
<1>. QED  BY <1>1, <1>2, <1>3, <1>4

\* A write of a list to a key of no other kind keeps the invariant.
LEMMA PutListKeeps ==
    ASSUME IInv, NEW k \in Keys, NEW l, GoodList(l), Kind(k) \in {"none", "list"}, PutList(k, l)
    PROVE  IInv' /\ sets' = sets
<1>1. sets[k] = S!NoSet /\ zsets[k] = Z!NoZset
  BY RowsOf, KindIs DEF Single
<1>s. PICK s, z : s = sets[k] /\ z = zsets[k]
  OBVIOUS
<1>2. lists' = [lists EXCEPT ![k] = l] /\ sets' = sets /\ zsets' = zsets /\ Invalidate({k})
  BY DEF PutList
<1>3. /\ DOMAIN lists' = Keys /\ DOMAIN sets' = Keys /\ DOMAIN zsets' = Keys
      /\ \A j \in Keys : (lists'[j] = IF j = k THEN l ELSE lists[j]) /\ (sets'[j] = IF j = k THEN s ELSE sets[j]) /\ (zsets'[j] = IF j = k THEN z ELSE zsets[j])
  BY <1>2, <1>s DEF IInv, Shapes
<1>4. TypedSet(s) /\ GoodZset(z) /\ Single(l, s, z)
  BY <1>1, <1>s, NothingGood DEF Single
<1>5. IInv'
  BY <1>2, <1>3, <1>4, PutKeeps
<1>. QED  BY <1>2, <1>5

\* A write of a set to a key of no other kind keeps the invariant.
LEMMA PutSetKeeps ==
    ASSUME IInv, NEW k \in Keys, NEW s, TypedSet(s), Kind(k) \in {"none", "set"}, PutSet(k, s)
    PROVE  IInv' /\ sets' = [sets EXCEPT ![k] = s]
<1>1. lists[k] = L!NoList /\ zsets[k] = Z!NoZset
  BY RowsOf, KindIs DEF Single
<1>s. PICK l, z : l = lists[k] /\ z = zsets[k]
  OBVIOUS
<1>2. sets' = [sets EXCEPT ![k] = s] /\ lists' = lists /\ zsets' = zsets /\ Invalidate({k})
  BY DEF PutSet
<1>3. /\ DOMAIN lists' = Keys /\ DOMAIN sets' = Keys /\ DOMAIN zsets' = Keys
      /\ \A j \in Keys : (lists'[j] = IF j = k THEN l ELSE lists[j]) /\ (sets'[j] = IF j = k THEN s ELSE sets[j]) /\ (zsets'[j] = IF j = k THEN z ELSE zsets[j])
  BY <1>2, <1>s DEF IInv, Shapes
<1>4. GoodList(l) /\ GoodZset(z) /\ Single(l, s, z)
  BY <1>1, <1>s, NothingGood DEF Single
<1>5. IInv'
  BY <1>2, <1>3, <1>4, PutKeeps
<1>. QED  BY <1>2, <1>5

\* A write of a sorted set to a key of no other kind keeps the invariant.
LEMMA PutZsetKeeps ==
    ASSUME IInv, NEW k \in Keys, NEW z, GoodZset(z), Kind(k) \in {"none", "zset"}, PutZset(k, z)
    PROVE  IInv' /\ sets' = sets
<1>1. lists[k] = L!NoList /\ sets[k] = S!NoSet
  BY RowsOf, KindIs DEF Single
<1>s. PICK l, s : l = lists[k] /\ s = sets[k]
  OBVIOUS
<1>2. zsets' = [zsets EXCEPT ![k] = z] /\ lists' = lists /\ sets' = sets /\ Invalidate({k})
  BY DEF PutZset
<1>3. /\ DOMAIN lists' = Keys /\ DOMAIN sets' = Keys /\ DOMAIN zsets' = Keys
      /\ \A j \in Keys : (lists'[j] = IF j = k THEN l ELSE lists[j]) /\ (sets'[j] = IF j = k THEN s ELSE sets[j]) /\ (zsets'[j] = IF j = k THEN z ELSE zsets[j])
  BY <1>2, <1>s DEF IInv, Shapes
<1>4. GoodList(l) /\ TypedSet(s) /\ Single(l, s, z)
  BY <1>1, <1>s, NothingGood DEF Single
<1>5. IInv'
  BY <1>2, <1>3, <1>4, PutKeeps
<1>. QED  BY <1>2, <1>5

\* Values of a batch.
LEMMA BatchIs ==
    ASSUME NEW V, NEW b \in Batches(V)
    PROVE  /\ b \in Seq(V) /\ b # <<>> /\ Len(b) \in Nat \ {0}
           /\ \A i \in 1..Len(b) : b[i] \in V
<1>1. PICK n \in 1..MaxBatch : b \in [1..n -> V]
  BY DEF Batches
<1>2. n \in Nat /\ n # 0
  BY CollectionsAssumption
<1>3. b \in Seq(V) /\ Len(b) = n
  BY <1>1, <1>2, FunctionIsSeq
<1>. QED  BY <1>1, <1>2, <1>3, EmptySeq

\* Counts are natural numbers and indices integers.
LEMMA CountsAre == Counts \subseteq Nat /\ Indices \subseteq Int
<1>1. MaxElements \in Nat
  BY CollectionsAssumption
<1>. QED  BY <1>1 DEF Counts, Indices

\* The commands that write a list keep the invariant.
LEMMA ListActions ==
    ASSUME IInv, NEW k \in Keys,
           LPush(k) \/ RPush(k) \/ LPop(k) \/ RPop(k) \/ LRem(k) \/ LSet(k) \/ LTrim(k)
    PROVE  IInv' /\ sets' = sets
<1>l. PICK l : l = lists[k]
  OBVIOUS
<1>0. GoodList(l)
  BY <1>l, RowsOf
<1>1. CASE LPush(k)
  <2>1. PICK values \in Batches(Values) : PutList(k, L!LPush(l, values).list)
    BY <1>1, <1>l DEF LPush
  <2>2. GoodList(L!LPush(l, values).list)  BY <1>0, BatchIs, LPushGives
  <2>. QED  BY <1>1, <2>1, <2>2, PutListKeeps DEF LPush
<1>2. CASE RPush(k)
  <2>1. PICK values \in Batches(Values) : PutList(k, L!RPush(l, values).list)
    BY <1>2, <1>l DEF RPush
  <2>2. GoodList(L!RPush(l, values).list)  BY <1>0, BatchIs, RPushGives
  <2>. QED  BY <1>2, <2>1, <2>2, PutListKeeps DEF RPush
<1>3. CASE LPop(k)
  <2>1. PICK count \in Counts : PutList(k, L!LPop(l, count).list)
    BY <1>3, <1>l DEF LPop
  <2>2. GoodList(L!LPop(l, count).list)  BY <1>0, CountsAre, PopsGive
  <2>. QED  BY <1>3, <2>1, <2>2, PutListKeeps DEF LPop
<1>4. CASE RPop(k)
  <2>1. PICK count \in Counts : PutList(k, L!RPop(l, count).list)
    BY <1>4, <1>l DEF RPop
  <2>2. GoodList(L!RPop(l, count).list)  BY <1>0, CountsAre, PopsGive
  <2>. QED  BY <1>4, <2>1, <2>2, PutListKeeps DEF RPop
<1>5. CASE LRem(k)
  <2>1. PICK count \in Indices, v \in Values : PutList(k, L!LRem(l, count, v).list)
    BY <1>5, <1>l DEF LRem
  <2>2. GoodList(L!LRem(l, count, v).list)  BY <1>0, LRemGives
  <2>. QED  BY <1>5, <2>1, <2>2, PutListKeeps DEF LRem
<1>6. CASE LSet(k)
  <2>1. PICK index \in Indices, v \in Values :
          L!Has(L!Length(l), index) /\ PutList(k, L!LSet(l, index, v))
    BY <1>6, <1>l DEF LSet
  <2>2. GoodList(L!LSet(l, index, v))  BY <1>0, <2>1, CountsAre, LSetGives
  <2>. QED  BY <1>6, <2>1, <2>2, PutListKeeps DEF LSet
<1>7. CASE LTrim(k)
  <2>1. PICK start \in Indices, stop \in Indices : PutList(k, L!LTrim(l, start, stop))
    BY <1>7, <1>l DEF LTrim
  <2>2. l # L!NoList  BY <1>7, <1>l, KindIs DEF LTrim
  <2>3. GoodList(L!LTrim(l, start, stop))  BY <1>0, <2>2, CountsAre, RangesGive
  <2>. QED  BY <1>7, <2>1, <2>3, PutListKeeps DEF LTrim
<1>. QED  BY <1>1, <1>2, <1>3, <1>4, <1>5, <1>6, <1>7

\* Whatever SPOP draws, what is left has the types.
LEMMA SetTyped ==
    ASSUME NEW s, TypedSet(s)
    PROVE  /\ \A members \in SUBSET Members : /\ TypedSet(S!Add(s, members).set)
                                             /\ TypedSet(S!RemoveMembers(s, members).set)
           /\ \A count \in Int : \A drawn \in S!Draws(s.members, count) : TypedSet(S!PopRandom(s, drawn))
           /\ TypedSet(S!Hydrated(s)) /\ (s = S!NoSet => S!Hydrated(s) = S!NoSet)
           /\ s.members \in SUBSET Members
<1>m. PICK M, c : M = s.members /\ c = s.count
  OBVIOUS
<1>1. M \in SUBSET Members /\ c \in Int \cup {Null} /\ s = [members |-> M, count |-> c]
  BY <1>m DEF TypedSet
<1>2. IsFiniteSet(M) /\ Cardinality(M) \in Nat
  BY <1>1, FiniteMembers
<1>3. S!Count(s) \in Int /\ S!Count(s) = IF c = Null THEN Cardinality(M) ELSE c
  BY <1>1, <1>2, <1>m, Same DEF S!Count
<1>4. ASSUME NEW members \in SUBSET Members PROVE TypedSet(S!Add(s, members).set)
  <2>1. (members \ M) \in SUBSET Members /\ (M \cup members) \in SUBSET Members  BY <1>1
  <2>2. Cardinality(members \ M) \in Nat  BY <2>1, FiniteMembers
  <2>3. S!Add(s, members).set = [members |-> M \cup members, count |-> S!Count(s) + Cardinality(members \ M)]
    BY <1>m, Same DEF S!Add
  <2>4. S!Count(s) + Cardinality(members \ M) \in Int  BY <1>3, <2>2
  <2>. QED  BY <2>1, <2>3, <2>4 DEF TypedSet
<1>5. ASSUME NEW members \in SUBSET Members PROVE TypedSet(S!RemoveMembers(s, members).set)
  <2>n. PICK n, left, d : /\ n = Cardinality(members \cap M) /\ left = M \ members
                          /\ d = IF c = Null THEN Cardinality(left) ELSE Max({0, c - n})
    OBVIOUS
  <2>1. n \in Nat /\ Cardinality(left) \in Nat /\ left \in SUBSET Members  BY <1>1, <2>n, Fewer
  <2>2. d \in Int
    <3>1. CASE c = Null  BY <2>1, <2>n, <3>1
    <3>2. CASE c # Null
      <4>z. PICK z, e : z = 0 /\ e = c - n  OBVIOUS
      <4>1. z \in Int /\ e \in Int  BY <1>1, <2>1, <3>2, <4>z
      <4>2. Max({z, e}) \in Int  BY <4>1, MinMax
      <4>. QED  BY <2>n, <3>2, <4>2, <4>z
    <3>. QED  BY <3>1, <3>2
  <2>3. S!RemoveMembers(s, members).set = IF d = 0 THEN S!NoSet ELSE IF n = 0 THEN s
                                          ELSE [members |-> left, count |-> d]
    BY <1>m, <2>n, Same DEF S!RemoveMembers
  <2>4. TypedSet([members |-> left, count |-> d])  BY <2>1, <2>2 DEF TypedSet
  <2>. QED  BY <2>3, <2>4, NothingGood
<1>6. ASSUME NEW count \in Int, NEW drawn \in S!Draws(M, count) PROVE TypedSet(S!PopRandom(s, drawn))
  <2>1. PICK n \in Int : drawn \in [1..n -> M]
    <3>1. CASE count > 0
      <4>1. S!Min({count, Cardinality(M)}) \in Int  BY <1>2, MinMax, Same
      <4>2. drawn \in {d \in [1..S!Min({count, Cardinality(M)}) -> M] :
                         \A i, j \in 1..S!Min({count, Cardinality(M)}) : d[i] = d[j] => i = j}
        BY <3>1, Same DEF S!Draws
      <4>. QED  BY <4>1, <4>2
    <3>2. CASE ~(count > 0)
      <4>1. drawn \in [1..(-count) -> M]  BY <3>2 DEF S!Draws
      <4>. QED  BY <4>1
    <3>. QED  BY <3>1, <3>2
  <2>g. PICK G, d : G = {drawn[i] : i \in DOMAIN drawn} /\ d = Cardinality(M) - Cardinality(DOMAIN drawn)
    OBVIOUS
  <2>2. Cardinality(DOMAIN drawn) \in Nat
    <3>1. DOMAIN drawn = 1..n /\ IsFiniteSet(1..n)  BY <2>1, FS_Interval
    <3>. QED  BY <3>1, FS_CardinalityType
  <2>3. d \in Int /\ (M \ G) \in SUBSET Members  BY <1>1, <1>2, <2>2, <2>g
  <2>4. S!PopRandom(s, drawn) = IF d = 0 THEN S!NoSet ELSE [members |-> M \ G, count |-> d]
    BY <1>m, <2>g, Same DEF S!PopRandom
  <2>5. TypedSet([members |-> M \ G, count |-> d])  BY <2>3 DEF TypedSet
  <2>. QED  BY <2>4, <2>5, NothingGood
<1>7. TypedSet(S!Hydrated(s)) /\ (s = S!NoSet => S!Hydrated(s) = S!NoSet)
  <2>1. S!Hydrated(s) = [members |-> M, count |-> S!Count(s)]  BY <1>1 DEF S!Hydrated
  <2>2. TypedSet(S!Hydrated(s))  BY <1>1, <1>3, <2>1 DEF TypedSet
  <2>3. ASSUME s = S!NoSet PROVE S!Hydrated(s) = S!NoSet
    <3>1. M = {} /\ c = 0  BY <1>m, <2>3 DEF S!NoSet
    <3>2. S!Count(s) = 0  BY <1>3, <3>1, CollectionsAssumption
    <3>. QED  BY <2>1, <3>1, <3>2 DEF S!NoSet
  <2>. QED  BY <2>2, <2>3
<1>. QED  BY <1>1, <1>4, <1>5, <1>6, <1>7, <1>m

\* The commands that write a set keep the invariant, SPOP with any count.
LEMMA SetActions ==
    ASSUME IInv, NEW k \in Keys, SAdd(k) \/ SRem(k) \/ SPop(k)
    PROVE  IInv'
<1>s. PICK s : s = sets[k]
  OBVIOUS
<1>0. TypedSet(s)
  BY <1>s, RowsOf
<1>1. CASE SAdd(k)
  <2>1. PICK members \in (SUBSET Members) \ {{}} : PutSet(k, S!Add(s, members).set)
    BY <1>1, <1>s DEF SAdd
  <2>2. TypedSet(S!Add(s, members).set)  BY <1>0, SetTyped
  <2>. QED  BY <1>1, <2>1, <2>2, PutSetKeeps DEF SAdd
<1>2. CASE SRem(k)
  <2>1. PICK members \in (SUBSET Members) \ {{}} : PutSet(k, S!RemoveMembers(s, members).set)
    BY <1>2, <1>s DEF SRem
  <2>2. TypedSet(S!RemoveMembers(s, members).set)  BY <1>0, SetTyped
  <2>. QED  BY <1>2, <2>1, <2>2, PutSetKeeps DEF SRem
<1>3. CASE SPop(k)
  <2>0. PICK count \in SpopCounts : \E drawn \in S!Draws(s.members, count) : PutSet(k, S!PopRandom(s, drawn))
    BY <1>3, <1>s DEF SPop
  <2>1. PICK drawn \in S!Draws(s.members, count) : PutSet(k, S!PopRandom(s, drawn))
    BY <2>0
  <2>2. count \in Int  BY CollectionsAssumption
  <2>3. TypedSet(S!PopRandom(s, drawn))  BY <1>0, <2>2, SetTyped
  <2>. QED  BY <1>3, <2>1, <2>3, PutSetKeeps DEF SPop
<1>. QED  BY <1>1, <1>2, <1>3

\* The commands that write a sorted set keep the invariant.
LEMMA ZsetActions ==
    ASSUME IInv, NEW k \in Keys,
           ZAdd(k) \/ ZIncrBy(k) \/ ZRem(k) \/ ZRemRangeByRank(k) \/ ZRemRangeByScore(k)
    PROVE  IInv' /\ sets' = sets
<1>z. PICK z : z = zsets[k]
  OBVIOUS
<1>0. GoodZset(z)
  BY <1>z, RowsOf
<1>1. CASE ZAdd(k)
  <2>1. PICK pairs \in Batches(Members \X Scores) : PutZset(k, Z!Add(z, pairs).zset)
    BY <1>1, <1>z DEF ZAdd
  <2>2. Len(pairs) \in Nat \ {0} /\ \A i \in 1..Len(pairs) : pairs[i] \in Members \X Scores
    BY BatchIs
  <2>3. \A i \in 1..Len(pairs) : pairs[i][1] \in Members /\ pairs[i][2] \in Scores  BY <2>2
  <2>4. GoodZset(Z!Add(z, pairs).zset)  BY <1>0, <2>2, <2>3, ZAddGives
  <2>. QED  BY <1>1, <2>1, <2>4, PutZsetKeeps DEF ZAdd
<1>2. CASE ZIncrBy(k)
  <2>1. PICK m \in Members, increment \in Increments :
          /\ Z!Incr(z, m, increment).zset.scores[m] \in Scores
          /\ PutZset(k, Z!Incr(z, m, increment).zset)
    BY <1>2, <1>z DEF ZIncrBy
  <2>2. GoodZset(Z!Incr(z, m, increment).zset)  BY <1>0, <2>1, ZIncrGives
  <2>. QED  BY <1>2, <2>1, <2>2, PutZsetKeeps DEF ZIncrBy
<1>3. CASE ZRem(k)
  <2>1. PICK members \in (SUBSET Members) \ {{}} : PutZset(k, Z!RemoveMembers(z, members).zset)
    BY <1>3, <1>z DEF ZRem
  <2>2. GoodZset(Z!RemoveMembers(z, members).zset)  BY <1>0, ZRemGives
  <2>. QED  BY <1>3, <2>1, <2>2, PutZsetKeeps DEF ZRem
<1>4. CASE ZRemRangeByRank(k)
  <2>1. PICK start \in Indices, stop \in Indices : PutZset(k, Z!RemoveRangeByRank(z, start, stop).zset)
    BY <1>4, <1>z DEF ZRemRangeByRank
  <2>2. GoodZset(Z!RemoveRangeByRank(z, start, stop).zset)  BY <1>0, ZRemRangesGive
  <2>. QED  BY <1>4, <2>1, <2>2, PutZsetKeeps DEF ZRemRangeByRank
<1>5. CASE ZRemRangeByScore(k)
  <2>1. PICK min \in Scores, max \in Scores : PutZset(k, Z!RemoveRangeByScore(z, min, max).zset)
    BY <1>5, <1>z DEF ZRemRangeByScore
  <2>2. GoodZset(Z!RemoveRangeByScore(z, min, max).zset)  BY <1>0, ZRemRangesGive
  <2>. QED  BY <1>5, <2>1, <2>2, PutZsetKeeps DEF ZRemRangeByScore
<1>. QED  BY <1>1, <1>2, <1>3, <1>4, <1>5

\* The least number of a set is in it.
LEMMA LeastOf == ASSUME NEW T \in SUBSET Nat, T # {} PROVE Min(T) \in T
<1>1. \E n \in T : \A m \in T : n <= m
  BY LeastNumber
<1>. QED  BY <1>1 DEF Min

\* The first of the keys named is one of the keys.
LEMMA FirstIsKey == ASSUME NEW ks \in Named PROVE First(ks) \in Keys
<1>t. PICK T : T = {i \in DOMAIN ks : Kind(ks[i]) # "none"}
  OBVIOUS
<1>1. T # {} /\ ks \in [1..Cardinality(Keys) -> Keys]
  BY <1>t DEF Named, SetToSeqs
<1>2. T \in SUBSET Nat /\ T \in SUBSET (1..Cardinality(Keys))
  <2>1. Cardinality(Keys) \in Nat  BY CollectionsAssumption, FS_CardinalityType
  <2>. QED  BY <1>1, <1>t, <2>1
<1>3. Min(T) \in T
  BY <1>1, <1>2, LeastOf
<1>4. First(ks) = ks[Min(T)]
  BY <1>t DEF First
<1>. QED  BY <1>1, <1>2, <1>3, <1>4

\* LMPOP and ZMPOP keep the invariant: they pop from the first key with a value.
LEMMA PopOfSeveral ==
    ASSUME IInv, LMPop \/ ZMPop
    PROVE  IInv' /\ sets' = sets
<1>1. CASE LMPop
  <2>1. PICK ks \in Named : LPop(First(ks)) \/ RPop(First(ks))
    BY <1>1 DEF LMPop
  <2>k. PICK k : k = First(ks)  OBVIOUS
  <2>2. k \in Keys /\ (LPop(k) \/ RPop(k))  BY <2>1, <2>k, FirstIsKey
  <2>. QED  BY <2>2, ListActions
<1>2. CASE ZMPop
  <2>1. PICK ks \in Named, count \in Counts :
          /\ Kind(First(ks)) = "zset"
          /\ \E entries \in {Lowest(zsets[First(ks)], count), Highest(zsets[First(ks)], count)} :
               PutZset(First(ks), Z!RemoveMembers(zsets[First(ks)], ToSet(Z!MembersOf(entries))).zset)
    BY <1>2 DEF ZMPop
  <2>k. PICK k, z : k = First(ks) /\ z = zsets[k]  OBVIOUS
  <2>2. PICK members : PutZset(k, Z!RemoveMembers(z, members).zset)
    BY <2>1, <2>k
  <2>3. k \in Keys  BY <2>k, FirstIsKey
  <2>4. GoodZset(Z!RemoveMembers(z, members).zset)  BY <2>3, <2>k, RowsOf, ZRemGives
  <2>. QED  BY <2>1, <2>2, <2>3, <2>4, <2>k, PutZsetKeeps
<1>. QED  BY <1>1, <1>2

\* A rename carries a value over with its count, counting it if none is kept.
LEMMA CarriedIs ==
    /\ \A s : TypedSet(s) => Carried(s) = S!Hydrated(s)
    /\ \A z : GoodZset(z) => Carried(z) = Z!Hydrated(z)
<1>1. ASSUME NEW s, TypedSet(s) PROVE Carried(s) = S!Hydrated(s)
  <2>1. DOMAIN s = {"members", "count"}  BY <1>1 DEF TypedSet
  <2>. QED  BY <2>1 DEF Carried
<1>2. ASSUME NEW z, GoodZset(z) PROVE Carried(z) = Z!Hydrated(z)
  <2>1. DOMAIN z = {"scores", "count"}
    <3>1. z = [scores |-> z.scores, count |-> z.count]  BY <1>2 DEF GoodZset
    <3>. PICK a, b : a = z.scores /\ b = z.count  OBVIOUS
    <3>2. DOMAIN [scores |-> a, count |-> b] = {"scores", "count"}  OBVIOUS
    <3>. QED  BY <3>1, <3>2
  <2>. QED  BY <2>1 DEF Carried
<1>. QED  BY <1>1, <1>2

\* RENAME: one key gets what the other had, with the counter counted.
LEMMA RenameKeeps ==
    ASSUME IInv, NEW k \in Keys, NEW nk \in Keys, Rename(k, nk)
    PROVE  IInv' /\ (RowSets => RowSets')
<1>k. PICK l, s, z : l = lists[k] /\ s = S!Hydrated(sets[k]) /\ z = Z!Hydrated(zsets[k])
  OBVIOUS
<1>0. /\ GoodList(lists[k]) /\ TypedSet(sets[k]) /\ GoodZset(zsets[k])
      /\ Single(lists[k], sets[k], zsets[k])
  BY RowsOf
<1>1. GoodList(l) /\ TypedSet(s) /\ GoodZset(z)
  BY <1>0, <1>k, SetTyped, ZsetHydrated
<1>2. Single(l, s, z)
  <2>1. sets[k] = S!NoSet => s = S!NoSet  BY <1>0, <1>k, SetTyped
  <2>2. zsets[k] = Z!NoZset => z = Z!NoZset  BY <1>0, <1>k, ZsetHydrated
  <2>. QED  BY <1>0, <1>k, <2>1, <2>2 DEF Single
<1>3. /\ k # nk
      /\ lists' = [lists EXCEPT ![nk] = l, ![k] = L!NoList]
      /\ sets' = [sets EXCEPT ![nk] = s, ![k] = S!NoSet]
      /\ zsets' = [zsets EXCEPT ![nk] = z, ![k] = Z!NoZset]
      /\ Invalidate({k, nk})
  <2>1. Carried(sets[k]) = s /\ Carried(zsets[k]) = z  BY <1>0, <1>k, CarriedIs
  <2>. QED  BY <1>k, <2>1 DEF Rename
<1>4. Shapes'
  BY <1>3 DEF IInv, Shapes, Invalidate
<1>5. ASSUME NEW j \in Keys
      PROVE  KeyOK(lists'[j], sets'[j], zsets'[j], cache'[j])
  <2>0. j \in DOMAIN lists /\ j \in DOMAIN sets /\ j \in DOMAIN zsets  BY DEF IInv, Shapes
  <2>1. CASE j = k
    <3>1. lists'[j] = L!NoList /\ sets'[j] = S!NoSet /\ zsets'[j] = Z!NoZset  BY <1>3, <2>0, <2>1
    <3>2. cache'[j] = NoEntry  BY <1>3, <2>1 DEF Invalidate
    <3>. QED  BY <3>1, <3>2, NothingGood DEF KeyOK, Single
  <2>2. CASE j = nk
    <3>1. lists'[j] = l /\ sets'[j] = s /\ zsets'[j] = z  BY <1>3, <2>0, <2>2
    <3>2. cache'[j] = NoEntry  BY <1>3, <2>2 DEF Invalidate
    <3>. QED  BY <1>1, <1>2, <3>1, <3>2, NothingGood DEF KeyOK
  <2>3. CASE j # k /\ j # nk
    <3>1. lists'[j] = lists[j] /\ sets'[j] = sets[j] /\ zsets'[j] = zsets[j]  BY <1>3, <2>0, <2>3
    <3>2. cache'[j] = cache[j]  BY <1>3, <2>3 DEF Invalidate
    <3>3. KeyOK(lists[j], sets[j], zsets[j], cache[j])  BY DEF IInv, Rows
    <3>. QED  BY <3>1, <3>2, <3>3
  <2>. QED  BY <2>1, <2>2, <2>3
<1>6. ASSUME RowSets, NEW j \in Keys PROVE GoodSet(sets'[j])
  <2>1. DOMAIN sets = Keys  BY DEF IInv, Shapes
  <2>2. GoodSet(sets[k]) /\ GoodSet(sets[j])  BY <1>6 DEF RowSets
  <2>3. GoodSet(s)  BY <1>k, <2>2, SetHydrated
  <2>4. sets'[j] \in {s, S!NoSet, sets[j]}  BY <1>3, <2>1
  <2>. QED  BY <2>2, <2>3, <2>4, NothingGood
<1>7. IInv'
  BY <1>4, <1>5 DEF IInv, Rows
<1>. QED  BY <1>6, <1>7 DEF RowSets

\* A read may cache everything that the rows have, and look at the counter on the way.
LEMMA ReadKeeps ==
    ASSUME IInv, NEW k \in Keys, NEW z, GoodZset(z), Single(lists[k], sets[k], z),
           lists' = lists, sets' = sets, DOMAIN zsets' = Keys,
           \A j \in Keys : zsets'[j] = IF j = k THEN z ELSE zsets[j],
           NEW kind, NEW value, NEW size, Insert(k, kind, value, size),
           ~(size > MaxCached) => Fresh([kind |-> kind, value |-> value], lists[k], sets[k], z)
    PROVE  IInv'
<1>1. CASE size > MaxCached
  <2>1. Invalidate({k})  BY <1>1 DEF Insert
  <2>l. PICK l, s : l = lists[k] /\ s = sets[k]  OBVIOUS
  <2>2. GoodList(l) /\ TypedSet(s) /\ Single(l, s, z)  BY <2>l, RowsOf
  <2>3. DOMAIN lists' = Keys /\ DOMAIN sets' = Keys  BY DEF IInv, Shapes
  <2>4. \A j \in Keys : (lists'[j] = IF j = k THEN l ELSE lists[j]) /\ (sets'[j] = IF j = k THEN s ELSE sets[j])
                        /\ (zsets'[j] = IF j = k THEN z ELSE zsets[j])
    BY <2>l
  <2>. QED  BY <2>1, <2>2, <2>3, <2>4, PutKeeps
<1>2. CASE ~(size > MaxCached)
  <2>e. PICK e : e = [kind |-> kind, value |-> value]  OBVIOUS
  <2>1. PICK kept \in SUBSET Keys :
          cache' = [j \in Keys |-> IF j \notin kept THEN NoEntry ELSE IF j = k THEN e ELSE cache[j]]
    BY <1>2, <2>e DEF Insert
  <2>2. Shapes'
    BY <2>1 DEF IInv, Shapes
  <2>3. ASSUME NEW j \in Keys
        PROVE  KeyOK(lists'[j], sets'[j], zsets'[j], cache'[j])
    <3>1. KeyOK(lists[j], sets[j], zsets[j], cache[j])  BY DEF IInv, Rows
    <3>2. CASE j = k
      <4>1. cache'[j] = NoEntry \/ cache'[j] = e  BY <2>1, <3>2
      <4>2. Fresh(cache'[j], lists[j], sets[j], z)  BY <1>2, <2>e, <3>2, <4>1, NothingGood
      <4>3. zsets'[j] = z /\ lists'[j] = lists[j] /\ sets'[j] = sets[j]  BY <3>2
      <4>. QED  BY <3>1, <3>2, <4>2, <4>3 DEF KeyOK
    <3>3. CASE j # k
      <4>1. cache'[j] = NoEntry \/ cache'[j] = cache[j]  BY <2>1, <3>3
      <4>2. zsets'[j] = zsets[j] /\ lists'[j] = lists[j] /\ sets'[j] = sets[j]  BY <3>3
      <4>. QED  BY <3>1, <4>1, <4>2, NothingGood DEF KeyOK
    <3>. QED  BY <3>2, <3>3
  <2>. QED  BY <2>2, <2>3 DEF IInv, Rows
<1>. QED  BY <1>1, <1>2

\* The reads that fill the cache keep the invariant: they cache what they reply.
LEMMA ReadActions ==
    ASSUME IInv, NEW k \in Keys, LRangeAll(k) \/ SMembers(k) \/ ZRangeAll(k)
    PROVE  IInv' /\ sets' = sets
<1>l. PICK l, s, z : l = lists[k] /\ s = sets[k] /\ z = zsets[k]
  OBVIOUS
<1>0. GoodList(l) /\ TypedSet(s) /\ GoodZset(z) /\ Single(l, s, z)
  BY <1>l, RowsOf
<1>m. MaxCached \in Nat
  BY CollectionsAssumption
<1>1. CASE LRangeAll(k)
  <2>1. /\ l # L!NoList /\ Insert(k, "list", L!LRange(l, 0, -1), L!Length(l))
        /\ lists' = lists /\ sets' = sets /\ zsets' = zsets
    BY <1>1, <1>l, KindIs DEF LRangeAll, tables
  <2>2. L!LRange(l, 0, -1) = ValuesOf(l) /\ L!Length(l) \in Nat  BY <1>0, <2>1, WholeListIs, ListParts
  <2>3. ~(L!Length(l) > MaxCached) => Fresh([kind |-> "list", value |-> ValuesOf(l)], l, s, z)
    BY <1>m, <2>1, <2>2 DEF Fresh
  <2>4. DOMAIN zsets' = Keys /\ \A j \in Keys : zsets'[j] = IF j = k THEN z ELSE zsets[j]
    BY <1>l, <2>1 DEF IInv, Shapes
  <2>v. PICK value, size : value = ValuesOf(l) /\ size = L!Length(l)  OBVIOUS
  <2>5. /\ Insert(k, "list", value, size)
        /\ ~(size > MaxCached) => Fresh([kind |-> "list", value |-> value], lists[k], sets[k], z)
        /\ Single(lists[k], sets[k], z)
    BY <1>0, <1>l, <2>1, <2>2, <2>3, <2>v
  <2>6. IInv'  BY <1>0, <2>1, <2>4, <2>5, ReadKeeps
  <2>. QED  BY <2>1, <2>6
<1>2. CASE SMembers(k)
  <2>1. /\ s # S!NoSet /\ Insert(k, "set", s.members, Cardinality(s.members))
        /\ lists' = lists /\ sets' = sets /\ zsets' = zsets
    BY <1>2, <1>l, KindIs DEF SMembers, tables
  <2>2. Cardinality(s.members) \in Nat  BY <1>0, SetTyped, FiniteMembers
  <2>3. ~(Cardinality(s.members) > MaxCached) => Fresh([kind |-> "set", value |-> s.members], l, s, z)
    BY <1>m, <2>1, <2>2 DEF Fresh
  <2>4. DOMAIN zsets' = Keys /\ \A j \in Keys : zsets'[j] = IF j = k THEN z ELSE zsets[j]
    BY <1>l, <2>1 DEF IInv, Shapes
  <2>v. PICK value, size : value = s.members /\ size = Cardinality(s.members)  OBVIOUS
  <2>5. /\ Insert(k, "set", value, size)
        /\ ~(size > MaxCached) => Fresh([kind |-> "set", value |-> value], lists[k], sets[k], z)
        /\ Single(lists[k], sets[k], z)
    BY <1>0, <1>l, <2>1, <2>2, <2>3, <2>v
  <2>6. IInv'  BY <1>0, <2>1, <2>4, <2>5, ReadKeeps
  <2>. QED  BY <2>1, <2>6
<1>3. CASE ZRangeAll(k)
  <2>y. PICK y, value, size : y = Z!Hydrated(z) /\ value = WholeZset(z) /\ size = Len(value)
    OBVIOUS
  <2>1. /\ z # Z!NoZset /\ Insert(k, "zset", value, size)
        /\ lists' = lists /\ sets' = sets /\ zsets' = [zsets EXCEPT ![k] = y]
    BY <1>3, <1>l, <2>y, KindIs DEF ZRangeAll
  <2>2. GoodZset(y) /\ y.scores = z.scores /\ y # Z!NoZset  BY <1>0, <2>1, <2>y, ZsetHydrated
  <2>3. value = WholeOf(y.scores) /\ size = Cardinality(DOMAIN y.scores) /\ size \in Nat
    <3>1. value = WholeOf(z.scores)  BY <1>0, <2>1, <2>y, WholeZsetIs
    <3>2. GoodScores(z.scores)  BY <1>0 DEF GoodZset
    <3>. QED  BY <1>0, <2>2, <2>y, <3>1, <3>2, WholeIs, ZsetParts
  <2>4. ~(size > MaxCached) => Fresh([kind |-> "zset", value |-> value], lists[k], sets[k], y)
    BY <1>m, <2>2, <2>3 DEF Fresh
  <2>5. DOMAIN zsets' = Keys /\ \A j \in Keys : zsets'[j] = IF j = k THEN y ELSE zsets[j]
    BY <2>1 DEF IInv, Shapes
  <2>6. Single(lists[k], sets[k], y)  BY <1>0, <1>l, <2>1 DEF Single
  <2>7. IInv'  BY <2>1, <2>2, <2>4, <2>5, <2>6, ReadKeeps
  <2>. QED  BY <2>1, <2>7
<1>. QED  BY <1>1, <1>2, <1>3

\* Hydration of the counters at a read keeps the invariant.
LEMMA HydrateKeeps ==
    ASSUME IInv, NEW k \in Keys, Hydrate(k)
    PROVE  IInv' /\ (RowSets => RowSets')
<1>k. PICK s, z : s = S!Hydrated(sets[k]) /\ z = Z!Hydrated(zsets[k])
  OBVIOUS
<1>0. /\ GoodList(lists[k]) /\ TypedSet(sets[k]) /\ GoodZset(zsets[k])
      /\ Single(lists[k], sets[k], zsets[k])
  BY RowsOf
<1>1. /\ TypedSet(s) /\ GoodZset(z)
      /\ sets[k] = S!NoSet => s = S!NoSet
      /\ zsets[k] = Z!NoZset => z = Z!NoZset
  BY <1>0, <1>k, SetTyped, ZsetHydrated
<1>2. Single(lists[k], s, z)
  BY <1>0, <1>1 DEF Single
<1>3. /\ cache[k] = NoEntry /\ lists' = lists /\ cache' = cache
      /\ sets' = [sets EXCEPT ![k] = s] /\ zsets' = [zsets EXCEPT ![k] = z]
  BY <1>k DEF Hydrate
<1>4. Shapes'
  BY <1>3 DEF IInv, Shapes
<1>5. ASSUME NEW j \in Keys
      PROVE  KeyOK(lists'[j], sets'[j], zsets'[j], cache'[j])
  <2>0. j \in DOMAIN sets /\ j \in DOMAIN zsets  BY DEF IInv, Shapes
  <2>1. CASE j = k
    <3>1. lists'[j] = lists[k] /\ sets'[j] = s /\ zsets'[j] = z /\ cache'[j] = NoEntry
      BY <1>3, <2>0, <2>1
    <3>. QED  BY <1>0, <1>1, <1>2, <3>1, NothingGood DEF KeyOK
  <2>2. CASE j # k
    <3>1. lists'[j] = lists[j] /\ sets'[j] = sets[j] /\ zsets'[j] = zsets[j] /\ cache'[j] = cache[j]
      BY <1>3, <2>0, <2>2
    <3>2. KeyOK(lists[j], sets[j], zsets[j], cache[j])  BY DEF IInv, Rows
    <3>. QED  BY <3>1, <3>2
  <2>. QED  BY <2>1, <2>2
<1>6. ASSUME RowSets, NEW j \in Keys PROVE GoodSet(sets'[j])
  <2>1. DOMAIN sets = Keys  BY DEF IInv, Shapes
  <2>2. GoodSet(sets[k]) /\ GoodSet(sets[j])  BY <1>6 DEF RowSets
  <2>3. GoodSet(s)  BY <1>k, <2>2, SetHydrated
  <2>4. sets'[j] \in {s, sets[j]}  BY <1>3, <2>1
  <2>. QED  BY <2>2, <2>3, <2>4
<1>7. IInv'
  BY <1>4, <1>5 DEF IInv, Rows
<1>. QED  BY <1>6, <1>7 DEF RowSets

\* The first state satisfies the invariant.
LEMMA InitGood == Init => IInv /\ RowSets
<1>. SUFFICES ASSUME Init PROVE IInv /\ RowSets
  OBVIOUS
<1>1. PICK old \in [LegacyKeys -> SUBSET Members], ranked \in SUBSET LegacyKeys, score \in Scores :
        /\ sets = [k \in Keys |-> IF (k \in LegacyKeys /\ old[k] # {}) /\ k \notin ranked
                     THEN [members |-> old[k], count |-> Null] ELSE S!NoSet]
        /\ zsets = [k \in Keys |-> IF (k \in LegacyKeys /\ old[k] # {}) /\ k \in ranked
                     THEN [scores |-> [m \in old[k] |-> score], count |-> Null] ELSE Z!NoZset]
  BY DEF Init
<1>2. lists = [k \in Keys |-> L!NoList] /\ cache = [k \in Keys |-> NoEntry]
  BY DEF Init
<1>3. Shapes
  BY <1>1, <1>2 DEF Shapes
<1>4. ASSUME NEW k \in Keys
      PROVE  KeyOK(lists[k], sets[k], zsets[k], cache[k]) /\ GoodSet(sets[k])
  <2>1. lists[k] = L!NoList /\ cache[k] = NoEntry  BY <1>2
  <2>2. CASE (k \in LegacyKeys /\ old[k] # {}) /\ k \notin ranked
    <3>1. sets[k] = [members |-> old[k], count |-> Null] /\ zsets[k] = Z!NoZset  BY <1>1, <2>2
    <3>2. old[k] \in SUBSET Members /\ old[k] # {}  BY <2>2
    <3>3. GoodSet(sets[k])  BY <3>1, <3>2, MakeSet
    <3>. QED  BY <2>1, <3>1, <3>3, NothingGood DEF KeyOK, Single, GoodSet, TypedSet
  <2>3. CASE (k \in LegacyKeys /\ old[k] # {}) /\ k \in ranked
    <3>f. PICK f : f = [m \in old[k] |-> score]  OBVIOUS
    <3>1. zsets[k] = [scores |-> f, count |-> Null] /\ sets[k] = S!NoSet  BY <1>1, <2>3, <3>f
    <3>2. GoodScores(f) /\ DOMAIN f # {}  BY <2>3, <3>f DEF GoodScores
    <3>3. GoodZset(zsets[k])  BY <3>1, <3>2, MakeZset
    <3>. QED  BY <2>1, <3>1, <3>3, NothingGood DEF KeyOK, Single
  <2>4. CASE ~(k \in LegacyKeys /\ old[k] # {})
    <3>1. sets[k] = S!NoSet /\ zsets[k] = Z!NoZset  BY <1>1, <2>4
    <3>. QED  BY <2>1, <3>1, NothingGood DEF KeyOK, Single
  <2>. QED  BY <2>2, <2>3, <2>4
<1>. QED  BY <1>3, <1>4 DEF IInv, Rows, RowSets

\* Every step keeps the invariant.
LEMMA NextKeeps == IInv /\ [Next]_vars => IInv'
<1>. SUFFICES ASSUME IInv, [Next]_vars PROVE IInv'
  OBVIOUS
<1>1. CASE UNCHANGED vars
  BY <1>1 DEF vars, tables, IInv, Shapes, Rows
<1>2. ASSUME NEW k \in Keys,
             LPush(k) \/ RPush(k) \/ LPop(k) \/ RPop(k) \/ LRem(k) \/ LSet(k) \/ LTrim(k)
      PROVE  IInv'
  BY <1>2, ListActions
<1>3. ASSUME NEW k \in Keys, SAdd(k) \/ SRem(k) \/ SPop(k) PROVE IInv'
  BY <1>3, SetActions
<1>4. ASSUME NEW k \in Keys,
             ZAdd(k) \/ ZIncrBy(k) \/ ZRem(k) \/ ZRemRangeByRank(k) \/ ZRemRangeByScore(k)
      PROVE  IInv'
  BY <1>4, ZsetActions
<1>5. ASSUME NEW k \in Keys, LRangeAll(k) \/ SMembers(k) \/ ZRangeAll(k) PROVE IInv'
  BY <1>5, ReadActions
<1>6. ASSUME NEW k \in Keys, Hydrate(k) PROVE IInv'
  BY <1>6, HydrateKeeps
<1>7. ASSUME NEW k \in Keys, NEW nk \in Keys, Rename(k, nk) PROVE IInv'
  BY <1>7, RenameKeeps
<1>8. CASE LMPop \/ ZMPop
  BY <1>8, PopOfSeveral
<1>. QED  BY <1>1, <1>2, <1>3, <1>4, <1>5, <1>6, <1>7, <1>8 DEF Next

\* The invariant holds in every state.
LEMMA AlwaysIInv == Spec => []IInv
<1>1. Init => IInv
  BY InitGood
<1>2. IInv /\ [Next]_vars => IInv'
  BY NextKeeps
<1>. QED  BY <1>1, <1>2, PTL DEF Spec

\* A cached entry is that of the value its key has.
LEMMA TypedEntryIs ==
    ASSUME NEW e, NEW l, NEW s, NEW z, GoodList(l), TypedSet(s), GoodZset(z), Fresh(e, l, s, z)
    PROVE  /\ TypedEntry(e)
           /\ e.kind \in {"none", "list", "set", "zset"}
           /\ e.kind = "list" => l # L!NoList /\ e.value = ValuesOf(l)
           /\ e.kind = "set" => s # S!NoSet /\ e.value = s.members
           /\ e.kind = "zset" => z # Z!NoZset /\ e.value = WholeOf(z.scores)
<1>m. MaxCached \in Nat
  BY CollectionsAssumption
<1>1. CASE e = NoEntry
  <2>1. e.kind = "none"  BY <1>1 DEF NoEntry
  <2>. QED  BY <1>1, <2>1 DEF TypedEntry
<1>2. CASE e = [kind |-> "list", value |-> ValuesOf(l)] /\ l # L!NoList /\ L!Length(l) <= MaxCached
  <2>1. e.kind = "list" /\ e.value = ValuesOf(l)  BY <1>2
  <2>2. ValuesOf(l) \in Seq(Values) /\ Len(ValuesOf(l)) = L!Length(l)  BY ValuesType
  <2>3. L!Length(l) \in 1..MaxCached  BY <1>2, <1>m, ListParts
  <2>. QED  BY <1>2, <2>1, <2>2, <2>3 DEF TypedEntry
<1>3. CASE e = [kind |-> "set", value |-> s.members] /\ s # S!NoSet /\ Cardinality(s.members) <= MaxCached
  <2>1. e.kind = "set" /\ e.value = s.members  BY <1>3
  <2>2. s.members \in SUBSET Members  BY SetTyped
  <2>. QED  BY <1>3, <2>1, <2>2 DEF TypedEntry
<1>4. CASE /\ e = [kind |-> "zset", value |-> WholeOf(z.scores)]
           /\ z # Z!NoZset /\ Cardinality(DOMAIN z.scores) <= MaxCached
  <2>1. e.kind = "zset" /\ e.value = WholeOf(z.scores)  BY <1>4
  <2>2. GoodScores(z.scores)  BY DEF GoodZset
  <2>3. WholeOf(z.scores) \in Seq(Entries(Scores)) /\ Len(WholeOf(z.scores)) = Cardinality(DOMAIN z.scores)
    BY <2>2, WholeIs
  <2>4. Cardinality(DOMAIN z.scores) \in 1..MaxCached
    <3>1. Cardinality(DOMAIN z.scores) \in Nat /\ DOMAIN z.scores # {} /\ DOMAIN z.scores \in SUBSET Members
      BY <1>4, ZsetParts
    <3>2. Cardinality(DOMAIN z.scores) # 0  BY <3>1, FiniteMembers
    <3>. QED  BY <1>4, <1>m, <3>1, <3>2
  <2>. QED  BY <1>4, <2>1, <2>3, <2>4 DEF TypedEntry
<1>. QED  BY <1>1, <1>2, <1>3, <1>4 DEF Fresh

\* The types follow from the invariant.
LEMMA TypeFollows == IInv => TypeOK
<1>. SUFFICES ASSUME IInv PROVE TypeOK
  OBVIOUS
<1>1. ASSUME NEW k \in Keys
      PROVE  /\ {lists[k].head, lists[k].tail} \cup DOMAIN lists[k].items \subseteq Int
             /\ Range(lists[k].items) \subseteq Values
             /\ sets[k] \in [members : SUBSET Members, count : Int \cup {Null}]
             /\ DOMAIN zsets[k].scores \subseteq Members /\ Range(zsets[k].scores) \subseteq Scores
             /\ zsets[k].count \in Int \cup {Null}
             /\ Kind(k) # "list" => lists[k] = L!NoList
             /\ Kind(k) # "zset" => zsets[k] = Z!NoZset
             /\ TypedEntry(cache[k]) /\ cache[k].kind \in {"none", Kind(k)}
  <2>k. PICK l, s, z, e : l = lists[k] /\ s = sets[k] /\ z = zsets[k] /\ e = cache[k]  OBVIOUS
  <2>0. GoodList(l) /\ TypedSet(s) /\ GoodZset(z) /\ Fresh(e, l, s, z)  BY <2>k, RowsOf
  <2>1. {l.head, l.tail} \cup DOMAIN l.items \subseteq Int  BY <2>0, ListParts
  <2>2. Range(l.items) \subseteq Values
    <3>1. l.items \in [l.head..l.tail -> Values]  BY <2>0, ListParts
    <3>. QED  BY <3>1 DEF Range
  <2>3. s \in [members : SUBSET Members, count : Int \cup {Null}]  BY <2>0 DEF TypedSet
  <2>4. DOMAIN z.scores \subseteq Members /\ z.count \in Int \cup {Null}  BY <2>0 DEF GoodZset, GoodScores
  <2>5. Range(z.scores) \subseteq Scores
    <3>1. z.scores \in [DOMAIN z.scores -> Scores]  BY <2>0 DEF GoodZset, GoodScores
    <3>. QED  BY <3>1 DEF Range
  <2>6. /\ Kind(k) # "list" => l = L!NoList
        /\ Kind(k) # "zset" => z = Z!NoZset
    BY <2>k, KindIs
  <2>7. TypedEntry(e) /\ e.kind \in {"none", Kind(k)}  BY <2>0, <2>k, KindIs, TypedEntryIs
  <2>. QED  BY <2>1, <2>2, <2>3, <2>4, <2>5, <2>6, <2>7, <2>k
<1>. QED  BY <1>1 DEF TypeOK, IInv, Shapes

\* The rows of lists, sets and sorted sets, their counters and the cached values have
\* their types in every reachable state, whatever counts SPOP is given.
THEOREM RowsTyped == Spec => []TypeOK
BY AlwaysIInv, TypeFollows, PTL

\* SPOP draws without repetition.
\* SPOP with a negative count draws members with repetition and subtracts the number of
\* the draws from set_count (sets.js spopManyByKey): the counter is then wrong.
SpopCountsNatural == SpopCounts \subseteq Nat

\* Every step keeps the counters of sets if SPOP takes no negative count.
LEMMA SetsKept ==
    ASSUME SpopCountsNatural
    PROVE  IInv /\ RowSets /\ [Next]_vars => RowSets'
<1>. SUFFICES ASSUME IInv, RowSets, [Next]_vars PROVE RowSets'
  OBVIOUS
<1>1. CASE UNCHANGED vars
  BY <1>1 DEF vars, tables, RowSets
<1>0. sets' = sets => RowSets'
  BY DEF RowSets
<1>2. ASSUME NEW k \in Keys,
             LPush(k) \/ RPush(k) \/ LPop(k) \/ RPop(k) \/ LRem(k) \/ LSet(k) \/ LTrim(k)
      PROVE  RowSets'
  BY <1>0, <1>2, ListActions
<1>p. ASSUME NEW k \in Keys, NEW s, GoodSet(s), PutSet(k, s) PROVE RowSets'
  <2>1. sets' = [sets EXCEPT ![k] = s] /\ DOMAIN sets = Keys  BY <1>p DEF PutSet, IInv, Shapes
  <2>2. \A j \in Keys : sets'[j] \in {s, sets[j]}  BY <2>1
  <2>. QED  BY <1>p, <2>2 DEF RowSets
<1>3. ASSUME NEW k \in Keys, SAdd(k) \/ SRem(k) \/ SPop(k) PROVE RowSets'
  <2>s. PICK s : s = sets[k]  OBVIOUS
  <2>0. GoodSet(s)  BY <2>s DEF RowSets
  <2>1. CASE SAdd(k)
    <3>1. PICK members \in (SUBSET Members) \ {{}} : PutSet(k, S!Add(s, members).set)
      BY <2>1, <2>s DEF SAdd
    <3>2. GoodSet(S!Add(s, members).set)  BY <2>0, SAddGives
    <3>. QED  BY <1>p, <3>1, <3>2
  <2>2. CASE SRem(k)
    <3>1. PICK members \in (SUBSET Members) \ {{}} : PutSet(k, S!RemoveMembers(s, members).set)
      BY <2>2, <2>s DEF SRem
    <3>2. GoodSet(S!RemoveMembers(s, members).set)  BY <2>0, SRemGives
    <3>. QED  BY <1>p, <3>1, <3>2
  <2>3. CASE SPop(k)
    <3>1. PICK count \in SpopCounts : \E drawn \in S!Draws(s.members, count) : PutSet(k, S!PopRandom(s, drawn))
      BY <2>3, <2>s DEF SPop
    <3>2. PICK drawn \in S!Draws(s.members, count) : PutSet(k, S!PopRandom(s, drawn))
      BY <3>1
    <3>3. s.members # {} /\ count \in Nat  BY <2>3, <2>s DEF SPop, SpopCountsNatural
    <3>4. GoodSet(S!PopRandom(s, drawn))  BY <2>0, <3>3, SPopGives
    <3>. QED  BY <1>p, <3>2, <3>4
  <2>. QED  BY <1>3, <2>1, <2>2, <2>3
<1>4. ASSUME NEW k \in Keys,
             \/ ZAdd(k) \/ ZIncrBy(k) \/ ZRem(k) \/ ZRemRangeByRank(k) \/ ZRemRangeByScore(k)
             \/ LRangeAll(k) \/ SMembers(k) \/ ZRangeAll(k)
      PROVE  RowSets'
  BY <1>0, <1>4, ZsetActions, ReadActions
<1>5. ASSUME NEW k \in Keys, Hydrate(k) PROVE RowSets'
  BY <1>5, HydrateKeeps
<1>6. ASSUME NEW k \in Keys, NEW nk \in Keys, Rename(k, nk) PROVE RowSets'
  BY <1>6, RenameKeeps
<1>7. CASE LMPop \/ ZMPop
  BY <1>0, <1>7, PopOfSeveral
<1>. QED  BY <1>1, <1>2, <1>3, <1>4, <1>5, <1>6, <1>7 DEF Next

\* The counters of sets agree with their members in every state.
LEMMA AlwaysRowSets ==
    ASSUME SpopCountsNatural
    PROVE  Spec => []RowSets
<1>1. Init => RowSets
  BY InitGood
<1>2. IInv /\ RowSets /\ [Next]_vars => RowSets'
  BY SetsKept
<1>. QED  BY <1>1, <1>2, AlwaysIInv, PTL DEF Spec

\* The agreement of rows, ends and counters follows from the invariant.
LEMMA ConsistencyFollows == IInv /\ RowSets => RowsConsistent
<1>. SUFFICES ASSUME IInv, RowSets PROVE RowsConsistent
  OBVIOUS
<1>1. ListsContiguous
  BY RowsOf, ListParts DEF ListsContiguous
<1>2. ASSUME NEW k \in Keys
      PROVE  /\ sets[k] # S!NoSet =>
                  sets[k].members # {} /\ sets[k].count \in {Null, Cardinality(sets[k].members)}
             /\ zsets[k] # Z!NoZset =>
                  LET n == Cardinality(DOMAIN zsets[k].scores)
                  IN  n > 0 /\ zsets[k].count \in {Null, n}
  <2>k. PICK s, z : s = sets[k] /\ z = zsets[k]  OBVIOUS
  <2>0. GoodSet(s) /\ GoodZset(z)  BY <2>k, RowsOf DEF RowSets
  <2>1. s # S!NoSet => s.members # {} /\ s.count \in {Null, Cardinality(s.members)}  BY <2>0 DEF GoodSet
  <2>2. z # Z!NoZset => Cardinality(DOMAIN z.scores) > 0 /\ z.count \in {Null, Cardinality(DOMAIN z.scores)}
    <3>1. /\ z # Z!NoZset => DOMAIN z.scores # {}
          /\ z.count \in {Null, Cardinality(DOMAIN z.scores)}
          /\ DOMAIN z.scores \in SUBSET Members
      BY <2>0, ZsetParts
    <3>2. Cardinality(DOMAIN z.scores) \in Nat /\ (DOMAIN z.scores = {} <=> Cardinality(DOMAIN z.scores) = 0)
      BY <3>1, FiniteMembers
    <3>. QED  BY <3>1, <3>2
  <2>. QED  BY <2>1, <2>2, <2>k
<1>. QED  BY <1>1, <1>2 DEF RowsConsistent, CountsExact

\* Head and tail of a list are the ends of its rows, without a gap; set_count and
\* zset_count are the number of the rows or missing; a key has rows of one kind only; and
\* no key has a value without rows.  Of the commands only SPOP with a negative count
\* breaks it, by its count of the draws.
THEOREM RowsAgreeWithEndsAndCounters ==
    ASSUME SpopCountsNatural
    PROVE  Spec => []RowsConsistent
<1>1. IInv /\ RowSets => RowsConsistent
  BY ConsistencyFollows
<1>. QED  BY <1>1, AlwaysIInv, AlwaysRowSets, PTL

-----------------------------------------------------------------------------
(* Reads of what is cached.  A sorted set is cached with its scores as     *)
(* formatted; its reads are those of the rows, shown after the fact.       *)

Pairs(f, D) == {<<m, Z!FormatScore(f[m])>> : m \in D}

\* What is shown of members is one pair for each.
LEMMA ShownType ==
    ASSUME NEW f, NEW D, NEW s \in Seq(D)
    PROVE  /\ Z!Shown(f, s) \in Seq(Pairs(f, D)) /\ Len(Z!Shown(f, s)) = Len(s)
           /\ Len(s) \in Nat /\ DOMAIN s = 1..Len(s) /\ s \in [1..Len(s) -> D]
           /\ Z!Shown(f, s) = [i \in 1..Len(s) |-> <<s[i], Z!FormatScore(f[s[i]])>>]
<1>n. PICK n : n = Len(s)
  OBVIOUS
<1>1. n \in Nat /\ DOMAIN s = 1..n /\ s \in [1..n -> D]
  BY <1>n, LenProperties
<1>2. Z!Shown(f, s) = [i \in 1..n |-> <<s[i], Z!FormatScore(f[s[i]])>>]
  BY <1>1 DEF Z!Shown
<1>3. \A i \in 1..n : <<s[i], Z!FormatScore(f[s[i]])>> \in Pairs(f, D)
  BY <1>1 DEF Pairs
<1>4. Z!Shown(f, s) \in [1..n -> Pairs(f, D)]
  BY <1>2, <1>3
<1>5. Z!Shown(f, s) \in Seq(Pairs(f, D)) /\ Len(Z!Shown(f, s)) = n
  BY <1>1, <1>4, FunctionIsSeq
<1>. QED  BY <1>1, <1>2, <1>5, <1>n

\* A part of what is shown is what is shown of a part.
LEMMA ShownSub ==
    ASSUME NEW f, NEW D, NEW s \in Seq(D), NEW a \in Int, NEW b \in Int, 1 <= a, b <= Len(s)
    PROVE  Z!Shown(f, SubSeq(s, a, b)) = SubSeq(Z!Shown(f, s), a, b) /\ SubSeq(s, a, b) \in Seq(D)
<1>w. PICK w, n, m : w = Z!Shown(f, s) /\ n = Len(s) /\ m = b - a + 1
  OBVIOUS
<1>1. /\ w \in Seq(Pairs(f, D)) /\ Len(w) = n /\ n \in Nat
      /\ w = [i \in 1..n |-> <<s[i], Z!FormatScore(f[s[i]])>>]
  BY <1>w, ShownType
<1>2. /\ SubSeq(s, a, b) = [i \in 1..m |-> s[a + i - 1]]
      /\ SubSeq(s, a, b) \in Seq(D)
      /\ DOMAIN SubSeq(s, a, b) = 1..m
  BY <1>w, SubSeqIs
<1>3. SubSeq(w, a, b) = [i \in 1..m |-> w[a + i - 1]]
  BY <1>1, <1>w, SubSeqIs
<1>4. ASSUME NEW i \in 1..m PROVE w[a + i - 1] = <<s[a + i - 1], Z!FormatScore(f[s[a + i - 1]])>>
  <2>1. a + i - 1 \in 1..n  BY <1>1, <1>w
  <2>. QED  BY <1>1, <2>1
<1>t. PICK t : t = SubSeq(s, a, b)
  OBVIOUS
<1>5. Z!Shown(f, t) = [i \in 1..m |-> <<s[a + i - 1], Z!FormatScore(f[s[a + i - 1]])>>]
  <2>1. DOMAIN t = 1..m /\ \A i \in 1..m : t[i] = s[a + i - 1]  BY <1>2, <1>t
  <2>. QED  BY <2>1 DEF Z!Shown
<1>6. Z!Shown(f, t) = SubSeq(w, a, b)
  BY <1>3, <1>4, <1>5
<1>. QED  BY <1>2, <1>6, <1>t, <1>w

\* The ends of a page depend on the length alone.
LEMMA PageIs ==
    ASSUME NEW n \in Nat, NEW limit \in Int, NEW offset \in Int
    PROVE  \E a, b \in Int : /\ 1 <= a /\ b <= n
                             /\ \A s : Len(s) = n => Z!Page(s, limit, offset) = SubSeq(s, a, b)
<1>a. PICK a, b : /\ a = Max({0, offset}) + 1
                  /\ b = IF limit < 0 THEN n ELSE Min({n, a + limit - 1})
  OBVIOUS
<1>1. a \in Int /\ 1 <= a
  <2>1. Max({0, offset}) \in Nat  BY MaxFromZero
  <2>. QED  BY <1>a, <2>1
<1>2. b \in Int /\ b <= n
  <2>c. PICK c : c = a + limit - 1  OBVIOUS
  <2>1. c \in Int  BY <1>1, <2>c
  <2>2. Min({n, c}) = IF n <= c THEN n ELSE c  BY <2>1, MinMax
  <2>. QED  BY <1>a, <2>1, <2>2, <2>c
<1>3. ASSUME NEW s, Len(s) = n PROVE Z!Page(s, limit, offset) = SubSeq(s, a, b)
  BY <1>3, <1>a, Same DEF Z!Page
<1>. QED  BY <1>1, <1>2, <1>3

\* A page of what is shown is what is shown of the page.
LEMMA ShownPage ==
    ASSUME NEW f, NEW D, NEW s \in Seq(D), NEW limit \in Int, NEW offset \in Int
    PROVE  /\ Z!Shown(f, Z!Page(s, limit, offset)) = Z!Page(Z!Shown(f, s), limit, offset)
           /\ Z!Page(s, limit, offset) \in Seq(D)
<1>w. PICK w, n : w = Z!Shown(f, s) /\ n = Len(s)
  OBVIOUS
<1>1. n \in Nat /\ Len(w) = n
  BY <1>w, ShownType
<1>2. PICK a \in Int, b \in Int :
        /\ 1 <= a /\ b <= n
        /\ \A q : Len(q) = n => Z!Page(q, limit, offset) = SubSeq(q, a, b)
  BY <1>1, PageIs
<1>3. Z!Page(s, limit, offset) = SubSeq(s, a, b) /\ Z!Page(w, limit, offset) = SubSeq(w, a, b)
  BY <1>1, <1>2, <1>w
<1>4. Z!Shown(f, SubSeq(s, a, b)) = SubSeq(w, a, b) /\ SubSeq(s, a, b) \in Seq(D)
  BY <1>2, <1>w, ShownSub
<1>. QED  BY <1>3, <1>4, <1>w

\* A sequence reversed, element by element.
LEMMA ReverseIs ==
    ASSUME NEW V, NEW s \in Seq(V)
    PROVE  /\ Reverse(s) = [i \in 1..Len(s) |-> s[Len(s) - i + 1]]
           /\ Reverse(s) \in Seq(V) /\ Len(Reverse(s)) = Len(s) /\ DOMAIN Reverse(s) = 1..Len(s)
<1>n. PICK n : n = Len(s)
  OBVIOUS
<1>1. n \in Nat /\ s \in [1..n -> V]
  BY <1>n, LenProperties
<1>2. Reverse(s) = [i \in 1..n |-> s[n - i + 1]]
  BY <1>n DEF Reverse
<1>3. \A i \in 1..n : n - i + 1 \in 1..n
  BY <1>1
<1>4. Reverse(s) \in [1..n -> V]
  <2>1. \A i \in 1..n : s[n - i + 1] \in V  BY <1>1, <1>3
  <2>. QED  BY <1>2, <2>1
<1>5. Reverse(s) \in Seq(V) /\ Len(Reverse(s)) = n
  BY <1>1, <1>4, FunctionIsSeq
<1>. QED  BY <1>2, <1>4, <1>5, <1>n

\* What is shown reversed is what is shown of the reverse.
LEMMA ShownReverse ==
    ASSUME NEW f, NEW D, NEW s \in Seq(D)
    PROVE  Z!Shown(f, Reverse(s)) = Reverse(Z!Shown(f, s))
<1>w. PICK w, n, r : w = Z!Shown(f, s) /\ n = Len(s) /\ r = Reverse(s)
  OBVIOUS
<1>1. /\ n \in Nat /\ w \in Seq(Pairs(f, D)) /\ Len(w) = n
      /\ w = [i \in 1..n |-> <<s[i], Z!FormatScore(f[s[i]])>>]
  <2>1. Len(s) \in Nat /\ DOMAIN s = 1..Len(s)  BY LenProperties
  <2>2. w = [i \in 1..n |-> <<s[i], Z!FormatScore(f[s[i]])>>]  BY <1>w, <2>1 DEF Z!Shown
  <2>3. w \in Seq(Pairs(f, D)) /\ Len(w) = n  BY <1>w, ShownType
  <2>. QED  BY <1>w, <2>1, <2>2, <2>3
<1>2. r = [i \in 1..n |-> s[n - i + 1]] /\ DOMAIN r = 1..n
  BY <1>w, ReverseIs
<1>3. Reverse(w) = [i \in 1..n |-> w[n - i + 1]]
  <2>1. w \in Seq(Pairs(f, D)) /\ Len(w) = n  BY <1>1
  <2>2. Reverse(w) = [i \in 1..Len(w) |-> w[Len(w) - i + 1]]  BY <2>1, ReverseIs
  <2>. QED  BY <2>1, <2>2
<1>4. ASSUME NEW i \in 1..n PROVE w[n - i + 1] = <<s[n - i + 1], Z!FormatScore(f[s[n - i + 1]])>>
  <2>1. n - i + 1 \in 1..n  BY <1>1
  <2>. QED  BY <1>1, <2>1
<1>5. Z!Shown(f, r) = [i \in 1..n |-> <<s[n - i + 1], Z!FormatScore(f[s[n - i + 1]])>>]
  <2>1. \A i \in 1..n : r[i] = s[n - i + 1]  BY <1>2
  <2>2. Z!Shown(f, r) = [i \in 1..n |-> <<r[i], Z!FormatScore(f[r[i]])>>]  BY <1>2 DEF Z!Shown
  <2>. QED  BY <2>1, <2>2
<1>. QED  BY <1>3, <1>4, <1>5, <1>w

\* Nothing is shown of no members.
LEMMA ShownNothing == \A f : Z!Shown(f, <<>>) = <<>>
<1>1. ASSUME NEW f PROVE Z!Shown(f, <<>>) = <<>>
  <2>1. <<>> \in Seq({}) /\ Len(<<>>) = 0  BY EmptySeq
  <2>2. Len(Z!Shown(f, <<>>)) = 0 /\ Z!Shown(f, <<>>) \in Seq(Pairs(f, {}))  BY <2>1, ShownType
  <2>. QED  BY <2>2, EmptySeq
<1>. QED  BY <1>1

\* A page by rank of what is shown is what is shown of the page.
LEMMA ShownRankPage ==
    ASSUME NEW f, NEW D, NEW s \in Seq(D), NEW n \in Nat, NEW i \in Int, NEW j \in Int
    PROVE  Z!Shown(f, Z!RankPage(s, n, i, j)) = Z!RankPage(Z!Shown(f, s), n, i, j)
<1>p. PICK p, q : /\ p = IF i < 0 THEN Max({0, n + i}) ELSE i
                  /\ q = IF j < 0 THEN Max({0, n + j}) ELSE j
  OBVIOUS
<1>1. p \in Int /\ q \in Int
  <2>0. n + i \in Int /\ n + j \in Int  OBVIOUS
  <2>1. Max({0, n + i}) \in Nat /\ Max({0, n + j}) \in Nat  BY <2>0, MaxFromZero
  <2>. QED  BY <1>p, <2>1
<1>m. PICK limit, offset : /\ limit = Min({q, n - 1}) - Min({p, n - 1}) + 1
                           /\ offset = Min({p, n - 1})
  OBVIOUS
<1>2. limit \in Int /\ offset \in Int
  <2>y. PICK y : y = n - 1  OBVIOUS
  <2>1. Min({q, y}) \in Int /\ Min({p, y}) \in Int  BY <1>1, <2>y, MinMax
  <2>. QED  BY <1>m, <2>1, <2>y
<1>3. \A t : Z!RankPage(t, n, i, j) = IF n = 0 \/ p > q THEN <<>> ELSE Z!Page(t, limit, offset)
  BY <1>p, <1>m, Same DEF Z!RankPage
<1>4. Z!Shown(f, Z!Page(s, limit, offset)) = Z!Page(Z!Shown(f, s), limit, offset)
  BY <1>2, ShownPage
<1>. QED  BY <1>3, <1>4, ShownNothing

\* LINDEX, LRANGE and LLEN of a cached list reply as those of its rows.
LEMMA ListHits ==
    ASSUME NEW l, GoodList(l), l # L!NoList
    PROVE  /\ Len(ValuesOf(l)) = L!Length(l)
           /\ \A i \in Indices : L!CachedIndex(ValuesOf(l), i) = L!LIndex(l, i)
           /\ \A i, j \in Indices : L!CachedRange(ValuesOf(l), i, j) = L!LRange(l, i, j)
<1>v. PICK v, n : v = ValuesOf(l) /\ n = L!Length(l)
  OBVIOUS
<1>1. Len(v) = n
  BY <1>v, ValuesType
<1>2. ASSUME NEW i \in Indices PROVE L!CachedIndex(v, i) = L!LIndex(l, i)
  <2>0. i \in Int  BY CountsAre
  <2>1. /\ L!Has(n, i) => L!LIndex(l, i) = <<v[L!Position(n, i) + 1]>>
        /\ ~L!Has(n, i) => L!LIndex(l, i) = <<>>
    BY <2>0, <1>v, IndexGives
  <2>. QED  BY <2>1, <1>1 DEF L!CachedIndex
<1>3. ASSUME NEW i \in Indices, NEW j \in Indices PROVE L!CachedRange(v, i, j) = L!LRange(l, i, j)
  <2>0. i \in Int /\ j \in Int  BY CountsAre
  <2>1. L!LRange(l, i, j) = SubSeq(v, L!Clamped(n, i) + 1, L!Clamped(n, j) + 1)
    BY <2>0, <1>v, RangesGive
  <2>. QED  BY <2>1, <1>1 DEF L!CachedRange
<1>. QED  BY <1>1, <1>2, <1>3, <1>v

\* Of the members of a set one is at m, the others before or after it.
Upper(R, W, m) == {o \in W : <<m, o>> \in R}
\* As many are after an element as are not before it.
LEMMA BothSides ==
    ASSUME NEW R, NEW W, IsFiniteSet(W), Orders(R, W), NEW m \in W
    PROVE  Cardinality(Upper(R, W, m)) = Cardinality(W) - 1 - Cardinality(Lower(R, W, m))
<1>p. PICK lo, up : lo = Lower(R, W, m) /\ up = Upper(R, W, m)
  OBVIOUS
<1>1. lo \subseteq W /\ up \subseteq W
  BY <1>p DEF Lower, Upper
<1>2. IsFiniteSet(lo) /\ IsFiniteSet(up) /\ Cardinality(lo) \in Nat /\ Cardinality(up) \in Nat
  BY <1>1, FS_Subset, FS_CardinalityType
<1>3. lo \cap up = {} /\ m \notin lo /\ m \notin up /\ W = (lo \cup up) \cup {m}
  BY <1>p DEF Lower, Upper, Orders
<1>4. IsFiniteSet(lo \cup up) /\ Cardinality(lo \cup up) = Cardinality(lo) + Cardinality(up)
  <2>1. Cardinality(lo \cap up) = 0  BY <1>3, FS_EmptySet
  <2>2. IsFiniteSet(lo \cup up) /\ Cardinality(lo \cup up) = Cardinality(lo) + Cardinality(up) - Cardinality(lo \cap up)
    BY <1>2, FS_Union
  <2>. QED  BY <2>1, <2>2, <1>2
<1>5. Cardinality(W) = Cardinality(lo \cup up) + 1
  <2>1. m \notin lo \cup up  BY <1>3
  <2>. QED  BY <2>1, <1>3, <1>4, FS_AddElement
<1>. QED  BY <1>2, <1>4, <1>5, <1>p

\* The least of one number.
LEMMA LeastAlone == ASSUME NEW i \in Int PROVE Min({i}) = i
<1>1. \E x \in {i} : \A y \in {i} : x <= y
  OBVIOUS
<1>. QED  BY <1>1 DEF Min

\* ZRANK and ZREVRANK of a cached sorted set reply as those of its rows.
LEMMA RankHits ==
    ASSUME NEW z, GoodZset(z), NEW m
    PROVE  /\ Z!CachedRank(WholeOf(z.scores), m) = Z!Rank(z, m)
           /\ Z!CachedRankReverse(WholeOf(z.scores), m) = Z!RankReverse(z, m)
<1>p. PICK f : f = z.scores
  OBVIOUS
<1>q. PICK D, n, s, w : /\ D = DOMAIN f /\ n = Cardinality(DOMAIN f) /\ s = Z!Ordered(f)
                        /\ w = WholeOf(f)
  OBVIOUS
<1>1. D \in SUBSET Members /\ f \in [D -> Scores] /\ IsFiniteSet(D) /\ n \in Nat /\ n = Cardinality(D)
  BY <1>p, <1>q, ZsetParts
<1>2. GoodScores(f)
  BY <1>p DEF GoodZset
<1>3. /\ Len(w) = n /\ DOMAIN w = 1..n
      /\ \A i \in 1..n : w[i][1] = s[i]
  <2>1. /\ w = [i \in 1..n |-> <<s[i], Z!FormatScore(f[s[i]])>>]
        /\ Len(w) = n
    BY <1>2, <1>q, WholeIs
  <2>. QED  BY <2>1
<1>r. PICK R : R = ByScore(f, D)
  OBVIOUS
<1>4. Arranges(s, n, D, R) /\ Orders(R, D)
  BY <1>1, <1>q, <1>r, OrderedArranges, ScoresOrder
<1>a. PICK at : at = {i \in DOMAIN w : w[i][1] = m}
  OBVIOUS
<1>5. Z!CachedRank(w, m) = IF at = {} THEN -1 ELSE Min(at) - 1
  BY <1>a, Same DEF Z!CachedRank
<1>6. Z!CachedRankReverse(w, m) = IF Z!CachedRank(w, m) = -1 THEN -1 ELSE n - Z!CachedRank(w, m) - 1
  BY <1>3 DEF Z!CachedRankReverse
<1>7. CASE m \notin D
  <2>1. at = {}  BY <1>7, <1>a, <1>3, <1>4 DEF Arranges
  <2>2. Z!Rank(z, m) = -1 /\ Z!RankReverse(z, m) = -1
    BY <1>7, <1>p, <1>q DEF Z!Rank, Z!RankReverse
  <2>. QED  BY <2>1, <2>2, <1>5, <1>6, <1>p, <1>q
<1>8. CASE m \in D
  <2>1. PICK i \in 1..n : s[i] = m
    BY <1>8, <1>4 DEF Arranges
  <2>2. ASSUME NEW j \in 1..n, s[j] = m PROVE j = i
    <3>1. <<m, m>> \notin R  BY <1>8, <1>4 DEF Orders
    <3>2. j < i \/ i < j \/ j = i  OBVIOUS
    <3>. QED  BY <3>1, <3>2, <2>1, <2>2, <1>4 DEF Arranges
  <2>3. at = {i}
    BY <2>1, <2>2, <1>a, <1>3
  <2>4. Z!CachedRank(w, m) = i - 1
    <3>1. Min(at) = i  BY <2>3, LeastAlone
    <3>. QED  BY <3>1, <2>3, <1>5
  <2>5. Z!CachedRankReverse(w, m) = n - i
    <3>1. i - 1 # -1 /\ n - (i - 1) - 1 = n - i  BY <1>1
    <3>. QED  BY <3>1, <2>4, <1>6
  <2>6. Cardinality(Lower(R, D, m)) = i - 1
    BY <2>1, <1>1, <1>4, ArrangedByRank
  <2>7. Cardinality(Upper(R, D, m)) = n - i
    <3>1. Cardinality(Upper(R, D, m)) = n - 1 - (i - 1)  BY <2>6, <1>1, <1>4, <1>8, BothSides
    <3>. QED  BY <3>1, <1>1
  <2>8. Z!Rank(z, m) = Cardinality(Lower(R, D, m))
    <3>1. Lower(R, D, m) = {o \in D : Z!Before(f, o, m)}  BY <1>1, <1>r, <1>8, ScoresOrder
    <3>. QED  BY <3>1, <1>8, <1>p, <1>q, Same DEF Z!Rank
  <2>9. Z!RankReverse(z, m) = Cardinality(Upper(R, D, m))
    <3>1. Upper(R, D, m) = {o \in D : Z!Before(f, m, o)}  BY <1>r, <1>8 DEF Upper, ByScore
    <3>. QED  BY <3>1, <1>8, <1>p, <1>q, Same DEF Z!RankReverse
  <2>. QED  BY <2>4, <2>5, <2>6, <2>7, <2>8, <2>9, <1>p, <1>q
<1>. QED  BY <1>7, <1>8

\* What a sorted set is where it is cached.
LEMMA CachedIs ==
    ASSUME NEW z, GoodZset(z)
    PROVE  LET f == z.scores
               D == DOMAIN f
               s == Z!Ordered(f)
           IN  /\ s \in Seq(D) /\ Len(s) = Z!Count(z) /\ Len(WholeOf(f)) = Z!Count(z)
               /\ Z!Count(z) \in Nat /\ WholeOf(f) = Z!Shown(f, s)
<1>p. PICK f : f = z.scores
  OBVIOUS
<1>1. GoodScores(f)
  BY <1>p DEF GoodZset
<1>2. Z!Count(z) = Cardinality(DOMAIN f) /\ Z!Count(z) \in Nat
  BY <1>p, ZsetParts
<1>3. Z!Ordered(f) \in Seq(DOMAIN f) /\ Len(Z!Ordered(f)) = Cardinality(DOMAIN f) /\ Len(WholeOf(f)) = Cardinality(DOMAIN f)
  BY <1>1, WholeIs
<1>4. WholeOf(f) = Z!Shown(f, Z!Ordered(f))
  BY DEF WholeOf
<1>. QED  BY <1>2, <1>3, <1>4, <1>p

\* ZRANGE and ZREVRANGE of a cached sorted set reply as those of its rows.
LEMMA RangeHits ==
    ASSUME NEW z, GoodZset(z), NEW i \in Int, NEW j \in Int
    PROVE  /\ Z!CachedRange(WholeOf(z.scores), i, j) = Z!RangeByRank(z, i, j)
           /\ Z!CachedRangeReverse(WholeOf(z.scores), i, j) = Z!RangeByRankReverse(z, i, j)
<1>p. PICK f : f = z.scores
  OBVIOUS
<1>q. PICK D, n, s, w : D = DOMAIN f /\ n = Z!Count(z) /\ s = Z!Ordered(f) /\ w = WholeOf(f)
  OBVIOUS
<1>1. s \in Seq(D) /\ Len(s) = n /\ Len(w) = n /\ n \in Nat /\ w = Z!Shown(f, s)
  BY <1>p, <1>q, CachedIs
<1>2. Z!Shown(f, Z!RankPage(s, n, i, j)) = Z!RankPage(w, n, i, j)
  BY <1>1, ShownRankPage
<1>3. Z!CachedRangeReverse(w, i, j) = Z!RangeByRankReverse(z, i, j)
  <2>r. PICK r : r = Reverse(s)  OBVIOUS
  <2>1. r \in Seq(D)  BY <1>1, <2>r, ReverseIs
  <2>2. Z!Shown(f, r) = Reverse(w)  BY <1>1, <2>r, ShownReverse
  <2>3. Z!Shown(f, Z!RankPage(r, n, i, j)) = Z!RankPage(Z!Shown(f, r), n, i, j)
    BY <1>1, <2>1, ShownRankPage
  <2>4. Z!RangeByRankReverse(z, i, j) = Z!Shown(f, Z!RankPage(r, n, i, j))
    BY <1>p, <1>q, <2>r, Same DEF Z!RangeByRankReverse
  <2>5. Z!CachedRangeReverse(w, i, j) = Z!RankPage(Reverse(w), n, i, j)
    BY <1>1, Same DEF Z!CachedRangeReverse
  <2>. QED  BY <2>2, <2>3, <2>4, <2>5
<1>4. Z!RangeByRank(z, i, j) = Z!Shown(f, Z!RankPageAsc(s, n, i, j))
  BY <1>p, <1>q DEF Z!RangeByRank
<1>5. CASE i >= 0 /\ j >= 0 /\ i > j
  <2>1. Z!RankPageAsc(s, n, i, j) = <<>>  BY <1>5 DEF Z!RankPageAsc
  <2>2. Z!CachedRange(w, i, j) = <<>>  BY <1>5 DEF Z!CachedRange
  <2>. QED  BY <2>1, <2>2, <1>3, <1>4, <1>p, <1>q, ShownNothing
<1>6. CASE i >= 0 /\ j >= 0 /\ i <= j
  <2>c. PICK c, k : c = j + 1 /\ k = j - i + 1  OBVIOUS
  <2>m. PICK b : b = Min({c, n})  OBVIOUS
  <2>1. Z!RankPageAsc(s, n, i, j) = Z!Page(s, k, i)
    <3>1. ~(i > j)  BY <1>6
    <3>. QED  BY <3>1, <1>6, <2>c DEF Z!RankPageAsc
  <2>2. Z!CachedRange(w, i, j) = SubSeq(w, i + 1, b)
    <3>1. ~(i > j)  BY <1>6
    <3>. QED  BY <3>1, <1>6, <1>1, <2>c, <2>m, Same DEF Z!CachedRange
  <2>3. Z!Page(s, k, i) = SubSeq(s, i + 1, b)
    <3>1. ~(k < 0) /\ (i + 1) + k - 1 = c  BY <1>6, <2>c
    <3>2. Max({0, i}) = i
      <4>1. i \in Nat  BY <1>6
      <4>. QED  BY <4>1, MaxZero
    <3>3. {n, c} = {c, n}  OBVIOUS
    <3>4. Z!Page(s, k, i) = SubSeq(s, Max({0, i}) + 1,
                                   IF k < 0 THEN n ELSE Min({n, (Max({0, i}) + 1) + k - 1}))
      BY <1>1, Same DEF Z!Page
    <3>5. Z!Page(s, k, i) = SubSeq(s, i + 1, Min({n, c}))
      BY <3>1, <3>2, <3>4
    <3>. QED  BY <3>3, <3>5, <2>m
  <2>4. b \in Int /\ b <= n
    <3>1. c \in Int  BY <2>c
    <3>2. Min({c, n}) = IF c <= n THEN c ELSE n  BY <3>1, <1>1, MinMax
    <3>. QED  BY <3>1, <3>2, <2>m, <1>1
  <2>5. Z!Shown(f, SubSeq(s, i + 1, b)) = SubSeq(w, i + 1, b)
    <3>1. i + 1 \in Int /\ 1 <= i + 1 /\ b <= Len(s)  BY <1>6, <1>1, <2>4
    <3>. QED  BY <3>1, <2>4, <1>1, ShownSub
  <2>. QED  BY <2>1, <2>2, <2>3, <2>5, <1>3, <1>4, <1>p, <1>q
<1>7. CASE ~(i >= 0 /\ j >= 0)
  <2>1. Z!RankPageAsc(s, n, i, j) = Z!RankPage(s, n, i, j)  BY <1>7 DEF Z!RankPageAsc
  <2>2. Z!CachedRange(w, i, j) = Z!RankPage(w, n, i, j)  BY <1>7, <1>1 DEF Z!CachedRange
  <2>. QED  BY <2>1, <2>2, <1>2, <1>3, <1>4, <1>p, <1>q
<1>. QED  BY <1>5, <1>6, <1>7

\* The members whose scores are within the bounds are a stretch of the order.
LEMMA PickedArranges ==
    ASSUME NEW R, NEW D, NEW n \in Nat, NEW s, Arranges(s, n, D, R),
           NEW T \in SUBSET (1..n), NEW M \in SUBSET D, \A i \in 1..n : i \in T <=> s[i] \in M,
           NEW Q, \A a, b \in M : <<a, b>> \in R => <<a, b>> \in Q
    PROVE  IsFiniteSet(T) /\ Arranges(Picked(s, T), Cardinality(T), M, Q)
<1>1. IsFiniteSet(T) /\ T \in SUBSET Int /\ Cardinality(T) \in Nat
  <2>1. IsFiniteSet(1..n)  BY FS_Interval
  <2>2. IsFiniteSet(T)  BY <2>1, FS_Subset
  <2>3. T \in SUBSET Int  OBVIOUS
  <2>. QED  BY <2>2, <2>3, FS_CardinalityType
<1>p. PICK o, c, t : o = InOrder(T) /\ c = Cardinality(T) /\ t = Picked(s, T)
  OBVIOUS
<1>2. Arranges(o, c, T, LessThan)
  BY <1>1, <1>p, InOrderArranges
<1>3. o \in [1..c -> T] /\ c \in Nat
  BY <1>1, <1>2, <1>p DEF Arranges
<1>4. t = [i \in 1..c |-> s[o[i]]]
  <2>1. DOMAIN o = 1..c  BY <1>3
  <2>. QED  BY <2>1, <1>p DEF Picked
<1>5. t \in [1..c -> M]
  <2>1. \A i \in 1..c : s[o[i]] \in M  BY <1>3
  <2>. QED  BY <2>1, <1>4
<1>6. ASSUME NEW i \in 1..c, NEW j \in 1..c, i < j PROVE <<t[i], t[j]>> \in Q
  <2>1. o[i] \in 1..n /\ o[j] \in 1..n  BY <1>3
  <2>2. o[i] < o[j]  BY <1>2, <1>6 DEF Arranges, LessThan
  <2>3. <<s[o[i]], s[o[j]]>> \in R  BY <2>1, <2>2 DEF Arranges
  <2>4. t[i] = s[o[i]] /\ t[j] = s[o[j]] /\ t[i] \in M /\ t[j] \in M  BY <1>4, <1>5
  <2>. QED  BY <2>3, <2>4
<1>7. ASSUME NEW m \in M PROVE \E i \in 1..c : t[i] = m
  <2>1. PICK q \in 1..n : s[q] = m  BY DEF Arranges
  <2>2. q \in T  BY <2>1
  <2>3. PICK i \in 1..c : o[i] = q  BY <2>2, <1>2 DEF Arranges
  <2>. QED  BY <2>1, <2>3, <1>4
<1>8. Arranges(t, c, M, Q)
  BY <1>5, <1>6, <1>7 DEF Arranges
<1>. QED  BY <1>1, <1>8, <1>p

InBounds(f, min, max) == {m \in DOMAIN f : min <= f[m] /\ f[m] <= max}
Stretch(f, min, max) ==
    {i \in 1..Cardinality(DOMAIN f) : min <= f[Z!Ordered(f)[i]] /\ f[Z!Ordered(f)[i]] <= max}

\* The members with scores within bounds, in order.
LEMMA WithinIs ==
    ASSUME NEW z, GoodZset(z), NEW min, NEW max
    PROVE  LET f == z.scores
               T == Stretch(f, min, max)
               M == InBounds(f, min, max)
           IN  /\ Z!Within(z, min, max) = Picked(Z!Ordered(f), T)
               /\ IsFiniteSet(T) /\ T \in SUBSET (1..Cardinality(DOMAIN f))
               /\ Z!Within(z, min, max) \in [1..Cardinality(M) -> M]
               /\ Z!Within(z, min, max) \in Seq(DOMAIN f)
               /\ Len(Z!Within(z, min, max)) = Cardinality(M) /\ Cardinality(M) \in Nat
               /\ M \in SUBSET DOMAIN f
               /\ ToSet(Z!Within(z, min, max)) = M
<1>p. PICK f : f = z.scores
  OBVIOUS
<1>q. PICK D, n, s : D = DOMAIN f /\ n = Cardinality(DOMAIN f) /\ s = Z!Ordered(f)
  OBVIOUS
<1>1. D \in SUBSET Members /\ f \in [D -> Scores] /\ IsFiniteSet(D) /\ n \in Nat /\ n = Cardinality(D)
  BY <1>p, <1>q, ZsetParts
<1>m. PICK M, T : M = InBounds(f, min, max) /\ T = Stretch(f, min, max)
  OBVIOUS
<1>2. M \in SUBSET D /\ M \in SUBSET Members /\ IsFiniteSet(M) /\ Cardinality(M) \in Nat
  <2>1. M \in SUBSET D  BY <1>m, <1>q DEF InBounds
  <2>2. IsFiniteSet(M)  BY <2>1, <1>1, FS_Subset
  <2>. QED  BY <2>1, <2>2, <1>1, FS_CardinalityType
<1>g. PICK g : g = [m \in M |-> f[m]]
  OBVIOUS
<1>3. g \in [M -> Scores]
  BY <1>1, <1>2, <1>g
<1>4. Z!Within(z, min, max) = Z!Ordered(g)
  <2>1. M = {m \in DOMAIN f : min <= f[m] /\ f[m] <= max}  BY <1>m DEF InBounds
  <2>2. Restrict(f, M) = g  BY <1>g DEF Restrict
  <2>. QED  BY <2>1, <2>2, <1>p, Same DEF Z!Within
<1>r. PICK R, Q : R = ByScore(f, D) /\ Q = ByScore(g, M)
  OBVIOUS
<1>5. Arranges(s, n, D, R)
  BY <1>1, <1>q, <1>r, OrderedArranges
<1>6. Arranges(Z!Ordered(g), Cardinality(M), M, Q) /\ Orders(Q, M)
  BY <1>2, <1>3, <1>r, OrderedArranges, ScoresOrder
<1>7. ASSUME NEW a \in M, NEW b \in M, <<a, b>> \in R PROVE <<a, b>> \in Q
  <2>1. Z!Before(f, a, b)  BY <1>7, <1>r DEF ByScore
  <2>2. Z!Before(g, a, b)  BY <2>1, <1>g DEF Z!Before
  <2>. QED  BY <2>2, <1>r DEF ByScore
<1>8. T \in SUBSET (1..n) /\ \A i \in 1..n : i \in T <=> s[i] \in M
  <2>1. T = {i \in 1..n : min <= f[s[i]] /\ f[s[i]] <= max}  BY <1>m, <1>q DEF Stretch
  <2>2. \A i \in 1..n : s[i] \in D  BY <1>5 DEF Arranges
  <2>3. M = {m \in D : min <= f[m] /\ f[m] <= max}  BY <1>m, <1>q DEF InBounds
  <2>. QED  BY <2>1, <2>2, <2>3
<1>9. IsFiniteSet(T) /\ Arranges(Picked(s, T), Cardinality(T), M, Q)
  BY <1>1, <1>2, <1>5, <1>7, <1>8, PickedArranges
<1>10. Picked(s, T) = Z!Ordered(g)
  <2>1. Cardinality(T) \in Nat  BY <1>9, FS_CardinalityType
  <2>. QED  BY <2>1, <1>2, <1>6, <1>9, OneArrangement
<1>11. Z!Ordered(g) \in [1..Cardinality(M) -> M] /\ \A m \in M : \E i \in 1..Cardinality(M) : Z!Ordered(g)[i] = m
  BY <1>6 DEF Arranges
<1>13. ToSet(Z!Ordered(g)) = M
  <2>g. PICK u, c : u = Z!Ordered(g) /\ c = Cardinality(M)  OBVIOUS
  <2>1. u \in [1..c -> M] /\ \A m \in M : \E i \in 1..c : u[i] = m  BY <1>11, <2>g
  <2>2. ToSet(u) = M  BY <2>1 DEF ToSet
  <2>. QED  BY <2>2, <2>g
<1>12. Z!Ordered(g) \in Seq(D) /\ Len(Z!Ordered(g)) = Cardinality(M)
  <2>1. Z!Ordered(g) \in [1..Cardinality(M) -> D]  BY <1>11, <1>2
  <2>. QED  BY <2>1, <1>2, FunctionIsSeq
<1>. QED  BY <1>2, <1>4, <1>8, <1>9, <1>10, <1>11, <1>12, <1>13, <1>m, <1>p, <1>q

\* The scores a client writes are of a size that formatting leaves alone.
\* The cached entries hold scores as formatScore writes them.  It leaves most numbers
\* alone and rewrites to six decimals those String() writes with an exponent: with such
\* a score a cached range compares another number than the rows.
FormattingKeeps == \A x \in Scores : Z!FormatScore(x) = x

\* The entries at the positions of those members.
LEMMA StretchShown ==
    ASSUME NEW z, GoodZset(z), NEW min, NEW max
    PROVE  Picked(WholeOf(z.scores), Stretch(z.scores, min, max)) = Z!Shown(z.scores, Z!Within(z, min, max))
<1>p. PICK f : f = z.scores
  OBVIOUS
<1>q. PICK D, n, s, w, T : /\ D = DOMAIN f /\ n = Cardinality(DOMAIN f) /\ s = Z!Ordered(f)
                           /\ w = WholeOf(f) /\ T = Stretch(f, min, max)
  OBVIOUS
<1>1. GoodScores(f)
  BY <1>p DEF GoodZset
<1>2. s \in [1..n -> D] /\ w = [i \in 1..n |-> <<s[i], Z!FormatScore(f[s[i]])>>]
  BY <1>1, <1>q, WholeIs
<1>3. Z!Within(z, min, max) = Picked(s, T) /\ IsFiniteSet(T) /\ T \in SUBSET (1..n)
  BY <1>p, <1>q, WithinIs
<1>n. n \in Nat
  BY <1>p, <1>q, ZsetParts
<1>o. PICK o, c, t : o = InOrder(T) /\ c = Cardinality(T) /\ t = Picked(s, T)
  OBVIOUS
<1>4. o \in [1..c -> T]
  <2>1. T \in SUBSET Int  BY <1>3, <1>n
  <2>. QED  BY <2>1, <1>3, <1>o, InOrderArranges DEF Arranges
<1>5. t = [i \in 1..c |-> s[o[i]]] /\ Picked(w, T) = [i \in 1..c |-> w[o[i]]]
  <2>1. DOMAIN o = 1..c  BY <1>4
  <2>. QED  BY <2>1, <1>o DEF Picked
<1>6. Z!Shown(f, t) = [i \in 1..c |-> <<s[o[i]], Z!FormatScore(f[s[o[i]]])>>]
  BY <1>5 DEF Z!Shown
<1>7. \A i \in 1..c : w[o[i]] = <<s[o[i]], Z!FormatScore(f[s[o[i]]])>>
  <2>1. \A i \in 1..c : o[i] \in 1..n  BY <1>3, <1>4
  <2>. QED  BY <2>1, <1>2
<1>8. Picked(w, T) = Z!Shown(f, t)
  BY <1>5, <1>6, <1>7
<1>. QED  BY <1>3, <1>8, <1>o, <1>p, <1>q

\* A cached sorted set compares its formatted scores: with scores that formatting
\* keeps it finds the members the rows give.
LEMMA WithinHits ==
    ASSUME FormattingKeeps, NEW z, GoodZset(z), NEW min, NEW max
    PROVE  /\ Z!CachedWithin(WholeOf(z.scores), min, max) = Z!Shown(z.scores, Z!Within(z, min, max))
           /\ Z!Within(z, min, max) \in Seq(DOMAIN z.scores)
<1>p. PICK f : f = z.scores
  OBVIOUS
<1>q. PICK D, n, s, w, T : /\ D = DOMAIN f /\ n = Cardinality(DOMAIN f) /\ s = Z!Ordered(f)
                           /\ w = WholeOf(f) /\ T = Stretch(f, min, max)
  OBVIOUS
<1>1. f \in [D -> Scores] /\ n \in Nat /\ GoodScores(f)
  BY <1>p, <1>q, ZsetParts DEF GoodZset
<1>2. s \in [1..n -> D] /\ w = [i \in 1..n |-> <<s[i], Z!FormatScore(f[s[i]])>>]
  BY <1>1, <1>q, WholeIs
<1>3. \A i \in 1..n : w[i][2] = f[s[i]]
  <2>1. \A i \in 1..n : f[s[i]] \in Scores  BY <1>1, <1>2
  <2>. QED  BY <2>1, <1>2 DEF FormattingKeeps
<1>4. {i \in DOMAIN w : min <= w[i][2] /\ w[i][2] <= max} = T
  <2>1. T = {i \in 1..n : min <= f[s[i]] /\ f[s[i]] <= max}  BY <1>q DEF Stretch
  <2>2. DOMAIN w = 1..n  BY <1>2
  <2>. QED  BY <2>1, <2>2, <1>3
<1>5. Z!CachedWithin(w, min, max) = Picked(w, T)
  BY <1>4, SameOrder DEF Z!CachedWithin
<1>6. Picked(w, T) = Z!Shown(f, Z!Within(z, min, max)) /\ Z!Within(z, min, max) \in Seq(D)
  BY <1>p, <1>q, StretchShown, WithinIs
<1>. QED  BY <1>5, <1>6, <1>p, <1>q

\* ZCOUNT, ZRANGEBYSCORE and ZREVRANGEBYSCORE of a cached sorted set reply as those
\* of its rows.
LEMMA ScoreRangeHits ==
    ASSUME FormattingKeeps, NEW z, GoodZset(z), NEW min, NEW max, NEW limit \in Int, NEW offset \in Int
    PROVE  /\ Len(Z!CachedWithin(WholeOf(z.scores), min, max)) = Z!CountByScore(z, min, max)
           /\ Z!CachedRangeByScore(WholeOf(z.scores), min, max, limit, offset)
                = Z!RangeByScore(z, min, max, limit, offset)
           /\ Z!CachedRangeByScoreReverse(WholeOf(z.scores), max, min, limit, offset)
                = Z!RangeByScoreReverse(z, max, min, limit, offset)
<1>p. PICK f : f = z.scores
  OBVIOUS
<1>q. PICK D, w, u, r : /\ D = DOMAIN f /\ w = WholeOf(f) /\ u = Z!Within(z, min, max)
                        /\ r = Reverse(u)
  OBVIOUS
<1>1. Z!CachedWithin(w, min, max) = Z!Shown(f, u) /\ u \in Seq(D)
  BY <1>p, <1>q, WithinHits
<1>2. r \in Seq(D) /\ Z!Shown(f, r) = Reverse(Z!Shown(f, u))
  BY <1>1, <1>q, ReverseIs, ShownReverse
<1>3. Len(Z!CachedWithin(w, min, max)) = Z!CountByScore(z, min, max)
  <2>1. Len(Z!Shown(f, u)) = Len(u)  BY <1>1, ShownType
  <2>. QED  BY <2>1, <1>1, <1>q DEF Z!CountByScore
<1>4. /\ Z!CachedRangeByScore(w, min, max, limit, offset)
           = Z!RangeByScore(z, min, max, limit, offset)
      /\ Z!CachedRangeByScoreReverse(w, max, min, limit, offset)
           = Z!RangeByScoreReverse(z, max, min, limit, offset)
  <2>1. Z!Shown(f, Z!Page(u, limit, offset)) = Z!Page(Z!Shown(f, u), limit, offset)
    BY <1>1, ShownPage
  <2>2. Z!Shown(f, Z!Page(r, limit, offset)) = Z!Page(Z!Shown(f, r), limit, offset)
    BY <1>2, ShownPage
  <2>3. Z!CachedRangeByScore(w, min, max, limit, offset) = Z!RangeByScore(z, min, max, limit, offset)
    BY <2>1, <1>1, <1>p, <1>q DEF Z!CachedRangeByScore, Z!RangeByScore
  <2>4. Z!CachedRangeByScoreReverse(w, max, min, limit, offset)
          = Z!RangeByScoreReverse(z, max, min, limit, offset)
    BY <2>2, <1>1, <1>2, <1>p, <1>q, Same DEF Z!CachedRangeByScoreReverse, Z!RangeByScoreReverse
  <2>. QED  BY <2>3, <2>4
<1>. QED  BY <1>3, <1>4, <1>p, <1>q

\* That hits answer as misses follows from the invariant.
LEMMA HitsFollow ==
    ASSUME FormattingKeeps
    PROVE  IInv /\ RowSets => HitsAnswerAsMisses
<1>. SUFFICES ASSUME IInv, RowSets PROVE HitsAnswerAsMisses
  OBVIOUS
<1>1. ASSUME NEW k \in Keys, cache[k].kind = "list"
      PROVE  LET v == cache[k].value
                 l == lists[k]
             IN  /\ Len(v) = L!Length(l)
                 /\ \A i \in Indices : L!CachedIndex(v, i) = L!LIndex(l, i)
                 /\ \A i, j \in Indices : L!CachedRange(v, i, j) = L!LRange(l, i, j)
  <2>1. GoodList(lists[k]) /\ lists[k] # L!NoList /\ cache[k].value = ValuesOf(lists[k])
    BY <1>1, RowsOf, TypedEntryIs
  <2>. QED  BY <2>1, ListHits
<1>2. ASSUME NEW k \in Keys, cache[k].kind = "set"
      PROVE  /\ cache[k].value = sets[k].members
             /\ Cardinality(cache[k].value) = S!Count(sets[k])
  <2>1. cache[k].value = sets[k].members
    BY <1>2, RowsOf, TypedEntryIs
  <2>2. GoodSet(sets[k])
    BY DEF RowSets
  <2>. QED  BY <2>1, <2>2, SetParts
<1>3. ASSUME NEW k \in Keys, cache[k].kind = "zset"
      PROVE  LET v == cache[k].value
                 z == zsets[k]
             IN  /\ Len(v) = Z!Count(z)
                 /\ \A m \in Members : /\ Z!CachedRank(v, m) = Z!Rank(z, m)
                                       /\ Z!CachedRankReverse(v, m) = Z!RankReverse(z, m)
                 /\ \A i, j \in Indices :
                      /\ Z!CachedRange(v, i, j) = Z!RangeByRank(z, i, j)
                      /\ Z!CachedRangeReverse(v, i, j) = Z!RangeByRankReverse(z, i, j)
                 /\ \A min, max \in Scores :
                      /\ Len(Z!CachedWithin(v, min, max)) = Z!CountByScore(z, min, max)
                      /\ \A limit, offset \in -1..2 :
                           /\ Z!CachedRangeByScore(v, min, max, limit, offset)
                                = Z!RangeByScore(z, min, max, limit, offset)
                           /\ Z!CachedRangeByScoreReverse(v, max, min, limit, offset)
                                = Z!RangeByScoreReverse(z, max, min, limit, offset)
  <2>v. PICK v, z : v = cache[k].value /\ z = zsets[k]
    OBVIOUS
  <2>1. GoodZset(z) /\ v = WholeOf(z.scores)
    BY <1>3, <2>v, RowsOf, TypedEntryIs
  <2>2. Len(v) = Z!Count(z)
    BY <2>1, CachedIs
  <2>3. \A m \in Members : Z!CachedRank(v, m) = Z!Rank(z, m) /\ Z!CachedRankReverse(v, m) = Z!RankReverse(z, m)
    BY <2>1, RankHits
  <2>4. \A i, j \in Indices : /\ Z!CachedRange(v, i, j) = Z!RangeByRank(z, i, j)
                              /\ Z!CachedRangeReverse(v, i, j) = Z!RangeByRankReverse(z, i, j)
    BY <2>1, RangeHits, CountsAre
  <2>5. \A min, max \in Scores :
          /\ Len(Z!CachedWithin(v, min, max)) = Z!CountByScore(z, min, max)
          /\ \A limit, offset \in -1..2 :
               /\ Z!CachedRangeByScore(v, min, max, limit, offset)
                    = Z!RangeByScore(z, min, max, limit, offset)
               /\ Z!CachedRangeByScoreReverse(v, max, min, limit, offset)
                    = Z!RangeByScoreReverse(z, max, min, limit, offset)
    <3>1. ASSUME NEW min \in Scores, NEW max \in Scores, NEW limit \in Int, NEW offset \in Int
          PROVE  /\ Len(Z!CachedWithin(v, min, max)) = Z!CountByScore(z, min, max)
                 /\ Z!CachedRangeByScore(v, min, max, limit, offset)
                      = Z!RangeByScore(z, min, max, limit, offset)
                 /\ Z!CachedRangeByScoreReverse(v, max, min, limit, offset)
                      = Z!RangeByScoreReverse(z, max, min, limit, offset)
      BY <2>1, ScoreRangeHits
    <3>2. -1..2 \subseteq Int /\ 0 \in Int  OBVIOUS
    <3>. QED  BY <3>1, <3>2
  <2>. QED  BY <2>2, <2>3, <2>4, <2>5, <2>v
<1>4. \A k \in Keys : cache[k].kind \in {"none", "list", "set", "zset"}
  BY RowsOf, TypedEntryIs
<1>. QED  BY <1>1, <1>2, <1>3, <1>4 DEF HitsAnswerAsMisses

\* A read answered from the cache replies what the statements on the rows reply, for
\* every command that has both paths: the cached value is the whole of the rows (every
\* write drops it) and the code that slices it agrees with the SQL.
THEOREM CacheHitsAnswerAsTheRows ==
    ASSUME SpopCountsNatural, FormattingKeeps
    PROVE  Spec => []HitsAnswerAsMisses
<1>1. Spec => []IInv
  BY AlwaysIInv
<1>2. Spec => []RowSets
  BY AlwaysRowSets
<1>3. IInv /\ RowSets => HitsAnswerAsMisses
  BY HitsFollow
<1>. QED  BY <1>1, <1>2, <1>3, PTL

-----------------------------------------------------------------------------
(* What list commands do to the sequence of the elements.                  *)

\* A sequence that has the one and then the other is their concatenation.
LEMMA ConcatIs ==
    ASSUME NEW V, NEW s \in Seq(V), NEW t \in Seq(V), NEW w \in Seq(V), Len(w) = Len(s) + Len(t),
           \A i \in 1..Len(s) : w[i] = s[i], \A i \in 1..Len(t) : w[Len(s) + i] = t[i]
    PROVE  w = s \o t
<1>p. PICK u, m, n : u = s \o t /\ m = Len(s) /\ n = Len(t)
  OBVIOUS
<1>1. m \in Nat /\ n \in Nat
  BY <1>p, LenProperties
<1>2. /\ u \in Seq(V) /\ Len(u) = m + n
      /\ \A i \in 1..(m + n) : u[i] = IF i <= m THEN s[i] ELSE t[i - m]
  BY <1>p, ConcatProperties
<1>3. ASSUME NEW i \in 1..(m + n) PROVE w[i] = u[i]
  <2>1. CASE i <= m
    <3>1. i \in 1..m  BY <2>1, <1>1
    <3>. QED  BY <3>1, <2>1, <1>2, <1>p
  <2>2. CASE ~(i <= m)
    <3>j. PICK j : j = i - m  OBVIOUS
    <3>1. j \in 1..n /\ m + j = i  BY <2>2, <1>1, <3>j
    <3>2. w[m + j] = t[j]  BY <3>1, <1>p
    <3>3. u[i] = t[j]  BY <2>2, <1>2, <3>j
    <3>. QED  BY <3>1, <3>2, <3>3
  <2>. QED  BY <2>1, <2>2
<1>4. Len(w) = m + n
  BY <1>p
<1>5. w = u
  BY <1>2, <1>3, <1>4, SeqEqual
<1>. QED  BY <1>5, <1>p

\* LPUSH puts its values in front, the last one first, RPUSH behind.
LEMMA PushedIs ==
    ASSUME NEW l, GoodList(l), NEW values \in Batches(Values)
    PROVE  LET v == ValuesOf(l)
           IN  /\ Value(L!LPush(l, values).list) = Reverse(values) \o v
               /\ Value(L!RPush(l, values).list) = v \o values
               /\ {L!LPush(l, values).reply, L!RPush(l, values).reply} = {Len(v) + Len(values)}
<1>p. PICK v, n, m, a, b : /\ v = ValuesOf(l) /\ n = L!Length(l) /\ m = Len(values)
                           /\ a = L!LPush(l, values) /\ b = L!RPush(l, values)
  OBVIOUS
<1>1. values \in Seq(Values) /\ values # <<>> /\ m \in Nat
  BY <1>p, BatchIs
<1>2. v \in Seq(Values) /\ Len(v) = n /\ n \in Nat
  BY <1>p, ValuesType, ListParts
<1>3. /\ GoodList(a.list) /\ L!Length(a.list) = n + m /\ a.reply = n + m
      /\ \A i \in 1..m : ValuesOf(a.list)[i] = values[m - i + 1]
      /\ \A i \in 1..n : ValuesOf(a.list)[m + i] = v[i]
  BY <1>1, <1>p, LPushGives
<1>4. /\ GoodList(b.list) /\ L!Length(b.list) = n + m /\ b.reply = n + m
      /\ \A i \in 1..n : ValuesOf(b.list)[i] = v[i]
      /\ \A i \in 1..m : ValuesOf(b.list)[n + i] = values[i]
  BY <1>1, <1>p, RPushGives
<1>5. ValuesOf(a.list) = Reverse(values) \o v
  <2>w. PICK w, r : w = ValuesOf(a.list) /\ r = Reverse(values)  OBVIOUS
  <2>1. w \in Seq(Values) /\ Len(w) = n + m  BY <1>3, <2>w, ValuesType
  <2>2. r \in Seq(Values) /\ Len(r) = m /\ r = [i \in 1..m |-> values[m - i + 1]]
    BY <1>1, <1>p, <2>w, ReverseIs
  <2>3. Len(w) = Len(r) + Len(v)  BY <2>1, <2>2, <1>1, <1>2
  <2>4. \A i \in 1..Len(r) : w[i] = r[i]  BY <2>2, <2>w, <1>3
  <2>5. \A i \in 1..Len(v) : w[Len(r) + i] = v[i]  BY <2>2, <2>w, <1>2, <1>3
  <2>6. r \in Seq(Values) /\ v \in Seq(Values) /\ w \in Seq(Values)  BY <2>1, <2>2, <1>2
  <2>7. w = r \o v  BY <2>3, <2>4, <2>5, <2>6, ConcatIs
  <2>. QED  BY <2>7, <2>w
<1>6. ValuesOf(b.list) = v \o values
  <2>w. PICK w : w = ValuesOf(b.list)  OBVIOUS
  <2>1. w \in Seq(Values) /\ Len(w) = n + m  BY <1>4, <2>w, ValuesType
  <2>3. Len(w) = Len(v) + Len(values)  BY <2>1, <1>p, <1>2
  <2>4. \A i \in 1..Len(v) : w[i] = v[i]  BY <2>w, <1>2, <1>4
  <2>5. \A i \in 1..Len(values) : w[Len(v) + i] = values[i]  BY <2>w, <1>p, <1>2, <1>4
  <2>6. v \in Seq(Values) /\ values \in Seq(Values) /\ w \in Seq(Values)  BY <2>1, <1>1, <1>2
  <2>7. w = v \o values  BY <2>3, <2>4, <2>5, <2>6, ConcatIs
  <2>. QED  BY <2>7, <2>w
<1>7. Value(a.list) = ValuesOf(a.list) /\ Value(b.list) = ValuesOf(b.list)
  BY <1>3, <1>4, ValueIs
<1>8. {a.reply, b.reply} = {n + m}
  <2>1. a.reply = n + m  BY Zenon, <1>3
  <2>2. b.reply = n + m  BY Zenon, <1>4
  <2>. QED  BY <2>1, <2>2
<1>. QED  BY <1>2, <1>5, <1>6, <1>7, <1>8, <1>p

\* A sequence is its first k elements and the rest.
LEMMA SplitIs ==
    ASSUME NEW V, NEW v \in Seq(V), NEW k \in 0..Len(v)
    PROVE  /\ v = SubSeq(v, 1, k) \o SubSeq(v, k + 1, Len(v))
           /\ Len(SubSeq(v, 1, k)) = k /\ Len(SubSeq(v, k + 1, Len(v))) = Len(v) - k
           /\ SubSeq(v, 1, k) \in Seq(V) /\ SubSeq(v, k + 1, Len(v)) \in Seq(V)
<1>p. PICK n, s, t : n = Len(v) /\ s = SubSeq(v, 1, k) /\ t = SubSeq(v, k + 1, n)
  OBVIOUS
<1>1. n \in Nat /\ k \in Nat /\ k <= n /\ 1 <= k + 1 /\ k + 1 \in Int
  BY <1>p, LenProperties
<1>2. s = [i \in 1..k |-> v[i]] /\ s \in Seq(V) /\ Len(s) = k
  <2>1. /\ s = [i \in 1..(k - 1 + 1) |-> v[1 + i - 1]] /\ s \in Seq(V)
        /\ Len(s) = IF 1 <= k THEN k - 1 + 1 ELSE 0
    BY <1>1, <1>p, SubSeqIs
  <2>2. k - 1 + 1 = k /\ \A i \in 1..k : 1 + i - 1 = i  BY <1>1
  <2>. QED  BY <2>1, <2>2, <1>1
<1>3. t = [i \in 1..(n - k) |-> v[k + i]] /\ t \in Seq(V) /\ Len(t) = n - k
  <2>1. /\ t = [i \in 1..(n - (k + 1) + 1) |-> v[(k + 1) + i - 1]] /\ t \in Seq(V)
        /\ Len(t) = IF k + 1 <= n THEN n - (k + 1) + 1 ELSE 0
    BY <1>1, <1>p, SubSeqIs
  <2>2. n - (k + 1) + 1 = n - k /\ \A i \in 1..(n - k) : (k + 1) + i - 1 = k + i  BY <1>1
  <2>. QED  BY <2>1, <2>2, <1>1
<1>4. v = s \o t
  <2>1. Len(v) = Len(s) + Len(t)  BY <1>1, <1>2, <1>3, <1>p
  <2>2. \A i \in 1..Len(s) : v[i] = s[i]  BY <1>2
  <2>3. \A i \in 1..Len(t) : v[Len(s) + i] = t[i]  BY <1>2, <1>3
  <2>. QED  BY <2>1, <2>2, <2>3, <1>2, <1>3, ConcatIs
<1>. QED  BY <1>2, <1>3, <1>4, <1>p

\* Reversed twice is not reversed.
LEMMA ReverseTwice ==
    ASSUME NEW V, NEW s \in Seq(V)
    PROVE  Reverse(Reverse(s)) = s
<1>p. PICK n, r, b : n = Len(s) /\ r = Reverse(s) /\ b = Reverse(r)
  OBVIOUS
<1>1. n \in Nat
  BY <1>p, LenProperties
<1>2. r \in Seq(V) /\ Len(r) = n /\ r = [i \in 1..n |-> s[n - i + 1]]
  BY <1>p, ReverseIs
<1>3. b \in Seq(V) /\ Len(b) = n /\ b = [i \in 1..n |-> r[n - i + 1]]
  BY <1>2, <1>p, ReverseIs
<1>4. ASSUME NEW i \in 1..n PROVE b[i] = s[i]
  <2>j. PICK j : j = n - i + 1  OBVIOUS
  <2>1. j \in 1..n /\ n - j + 1 = i  BY <1>1, <2>j
  <2>2. b[i] = r[j]  BY <1>3, <2>j
  <2>3. r[j] = s[n - j + 1]  BY <1>2, <2>1
  <2>. QED  BY <2>1, <2>2, <2>3
<1>5. b = s
  BY <1>3, <1>4, <1>p, SeqEqual
<1>. QED  BY <1>5, <1>p

\* LPOP and RPOP take what they leave off.
LEMMA PoppedIs ==
    ASSUME NEW l, GoodList(l), NEW count \in Nat
    PROVE  LET v == ValuesOf(l)
               left == L!LPop(l, count)
               right == L!RPop(l, count)
           IN  /\ v = left.reply \o Value(left.list)
               /\ v = Value(right.list) \o Reverse(right.reply)
               /\ {Len(left.reply), Len(right.reply)} = {Min({Len(v), count})}
<1>p. PICK v, n, left, right : /\ v = ValuesOf(l) /\ n = L!Length(l)
                               /\ left = L!LPop(l, count) /\ right = L!RPop(l, count)
  OBVIOUS
<1>t. PICK k : k = Min({n, count})
  OBVIOUS
<1>1. v \in Seq(Values) /\ Len(v) = n /\ n \in Nat
  BY <1>p, ValuesType, ListParts
<1>2. k \in 0..n
  <2>1. k = IF n <= count THEN n ELSE count  BY <1>1, <1>t, MinMax
  <2>. QED  BY <2>1, <1>1
<1>3. /\ GoodList(left.list) /\ GoodList(right.list)
      /\ ValuesOf(left.list) = SubSeq(v, k + 1, n)
      /\ left.reply = SubSeq(v, 1, k)
      /\ ValuesOf(right.list) = SubSeq(v, 1, n - k)
      /\ right.reply = Reverse(SubSeq(v, n - k + 1, n))
  BY <1>p, <1>t, PopsGive
<1>4. Value(left.list) = ValuesOf(left.list) /\ Value(right.list) = ValuesOf(right.list)
  BY <1>3, ValueIs
<1>5. v = SubSeq(v, 1, k) \o SubSeq(v, k + 1, n) /\ Len(SubSeq(v, 1, k)) = k
  BY <1>1, <1>2, SplitIs
<1>d. PICK d, s : d = n - k /\ s = SubSeq(v, d + 1, n)
  OBVIOUS
<1>6. d \in 0..n /\ n - d = k
  BY <1>1, <1>2, <1>d
<1>7. v = SubSeq(v, 1, d) \o s /\ Len(s) = k /\ s \in Seq(Values)
  <2>1. v = SubSeq(v, 1, d) \o s /\ Len(s) = n - d /\ s \in Seq(Values)  BY <1>1, <1>6, <1>d, SplitIs
  <2>. QED  BY <2>1, <1>6
<1>8. right.reply = Reverse(s) /\ ValuesOf(right.list) = SubSeq(v, 1, d)
  BY <1>3, <1>d
<1>9. Reverse(right.reply) = s /\ Len(right.reply) = k
  BY <1>7, <1>8, ReverseTwice, ReverseIs
<1>. QED  BY <1>1, <1>3, <1>4, <1>5, <1>7, <1>8, <1>9, <1>p, <1>t

\* The elements of a part are those at its positions.
LEMMA ToSetSub ==
    ASSUME NEW V, NEW s \in Seq(V), NEW a \in Int, NEW b \in Int, 1 <= a, b <= Len(s)
    PROVE  ToSet(SubSeq(s, a, b)) = {s[i] : i \in a..b}
<1>p. PICK u, m : u = SubSeq(s, a, b) /\ m = b - a + 1
  OBVIOUS
<1>1. u = [i \in 1..m |-> s[a + i - 1]]
  BY <1>p, SubSeqIs
<1>2. ToSet(u) = {s[a + i - 1] : i \in 1..m}
  BY <1>1 DEF ToSet
<1>3. \A i \in 1..m : a + i - 1 \in a..b
  BY <1>p
<1>4. ASSUME NEW i \in a..b PROVE \E j \in 1..m : a + j - 1 = i
  <2>1. i - a + 1 \in 1..m /\ a + (i - a + 1) - 1 = i  BY <1>p
  <2>. QED  BY <2>1
<1>. QED  BY <1>2, <1>3, <1>4, <1>p

AtMost(T, q) == Cardinality({p \in T : p <= q})
AtLeast(T, q) == Cardinality({p \in T : p >= q})

\* A number's place in the order counts those up to it.
LEMMA InOrderRanks ==
    ASSUME NEW T \in SUBSET Int, IsFiniteSet(T), NEW i \in 1..Cardinality(T)
    PROVE  /\ InOrder(T)[i] \in T /\ Cardinality(T) \in Nat
           /\ AtMost(T, InOrder(T)[i]) = i
           /\ AtLeast(T, InOrder(T)[i]) = Cardinality(T) - i + 1
<1>p. PICK o, c, q, lo, up : /\ o = InOrder(T) /\ c = Cardinality(T) /\ q = InOrder(T)[i]
                             /\ lo = Lower(LessThan, T, q) /\ up = Upper(LessThan, T, q)
  OBVIOUS
<1>1. c \in Nat /\ Orders(LessThan, T) /\ Arranges(o, c, T, LessThan)
  BY <1>p, FS_CardinalityType, LessOrders, InOrderArranges
<1>2. q \in T /\ q \in Int /\ i \in 1..c
  BY <1>1, <1>p DEF Arranges
<1>3. Cardinality(lo) = i - 1
  BY <1>1, <1>2, <1>p, ArrangedByRank
<1>4. Cardinality(up) = c - i
  <2>1. Cardinality(up) = c - 1 - (i - 1)  BY <1>1, <1>2, <1>3, <1>p, BothSides
  <2>. QED  BY <2>1, <1>1, <1>2
<1>5. /\ lo = {p \in T : p < q} /\ up = {p \in T : q < p}
  BY <1>2, <1>p DEF Lower, Upper, LessThan
<1>6. {p \in T : p <= q} = lo \cup {q} /\ {p \in T : p >= q} = up \cup {q} /\ q \notin lo /\ q \notin up
  <2>1. \A p \in T : /\ p <= q <=> p < q \/ p = q
                     /\ p >= q <=> q < p \/ p = q
    BY <1>2
  <2>2. ~(q < q)  BY <1>2
  <2>3. {p \in T : p <= q} = lo \cup {q}  BY <2>1, <1>2, <1>5
  <2>4. {p \in T : p >= q} = up \cup {q}  BY <2>1, <1>2, <1>5
  <2>. QED  BY <2>2, <2>3, <2>4, <1>5
<1>7. IsFiniteSet(lo) /\ IsFiniteSet(up)
  <2>1. lo \in SUBSET T /\ up \in SUBSET T  BY <1>5
  <2>. QED  BY <2>1, FS_Subset
<1>8. Cardinality(lo \cup {q}) = i /\ Cardinality(up \cup {q}) = c - i + 1
  <2>1. Cardinality(lo \cup {q}) = Cardinality(lo) + 1  BY <1>6, <1>7, FS_AddElement
  <2>2. Cardinality(up \cup {q}) = Cardinality(up) + 1  BY <1>6, <1>7, FS_AddElement
  <2>. QED  BY <2>1, <2>2, <1>1, <1>2, <1>3, <1>4
<1>. QED  BY <1>1, <1>2, <1>6, <1>8, <1>p DEF AtMost, AtLeast

\* The rows that LREM deletes: the first of the matches, or the last, or all.
FirstOrLast(T, q, count) ==
    \/ count = 0
    \/ count > 0 /\ AtMost(T, q) <= count
    \/ count < 0 /\ AtLeast(T, q) <= -count

MatchingRows(l, e) == {q \in DOMAIN l.items : l.items[q] = e}
Chosen(T, count) == {q \in T : FirstOrLast(T, q, count)}

\* LREM deletes the matching rows its count chooses.
LEMMA DoomedIs ==
    ASSUME NEW l, GoodList(l), NEW count \in Int, NEW e
    PROVE  L!Doomed(l, count, e) = Chosen(MatchingRows(l, e), count)
<1>q. PICK Q : Q = MatchingRows(l, e)
  OBVIOUS
<1>1. Q \in SUBSET (l.head..l.tail) /\ IsFiniteSet(Q) /\ Q \in SUBSET Int
  <2>1. DOMAIN l.items = l.head..l.tail /\ l.head \in Int /\ l.tail \in Int  BY ListParts
  <2>2. IsFiniteSet(l.head..l.tail)  BY <2>1, FS_Interval
  <2>3. Q \in SUBSET (l.head..l.tail)  BY <2>1, <1>q DEF MatchingRows
  <2>4. IsFiniteSet(Q)  BY <2>2, <2>3, FS_Subset
  <2>. QED  BY <2>1, <2>3, <2>4
<1>p. PICK o, c : o = InOrder(Q) /\ c = Cardinality(Q)
  OBVIOUS
<1>2. c \in Nat /\ o \in [1..c -> Q] /\ \A q \in Q : \E i \in 1..c : o[i] = q
  BY <1>1, <1>p, FS_CardinalityType, InOrderArranges DEF Arranges
<1>3. o \in Seq(Q) /\ Len(o) = c
  BY <1>2, FunctionIsSeq
<1>4. \A i \in 1..c : o[i] \in Q /\ AtMost(Q, o[i]) = i /\ AtLeast(Q, o[i]) = c - i + 1
  BY <1>1, <1>p, InOrderRanks
<1>d. PICK D : D = L!Doomed(l, count, e)
  OBVIOUS
<1>5. D = ToSet(CASE count = 0 -> o
                  [] count > 0 -> SubSeq(o, 1, Min({count, c}))
                  [] count < 0 -> SubSeq(o, Max({1, c + count + 1}), c))
  BY <1>3, <1>d, <1>p, <1>q, Same, SameOrder DEF L!Doomed, MatchingRows
<1>6. ASSUME count = 0 PROVE D = {q \in Q : FirstOrLast(Q, q, count)}
  <2>1. D = ToSet(o)  BY <1>5, <1>6
  <2>2. ToSet(o) = {o[i] : i \in 1..c}  BY <1>2 DEF ToSet
  <2>3. {o[i] : i \in 1..c} = Q  BY <1>2
  <2>4. {q \in Q : FirstOrLast(Q, q, count)} = Q  BY <1>6 DEF FirstOrLast
  <2>. QED  BY <2>1, <2>2, <2>3, <2>4
<1>7. ASSUME count > 0 PROVE D = {q \in Q : FirstOrLast(Q, q, count)}
  <2>m. PICK m : m = Min({count, c})  OBVIOUS
  <2>1. m = IF count <= c THEN count ELSE c  BY <1>2, <2>m, MinMax
  <2>2. m \in Int /\ m <= c  BY <2>1, <1>2
  <2>3. D = ToSet(SubSeq(o, 1, m))
    <3>1. ~(count = 0)  BY <1>7
    <3>2. ~(count < 0)  BY <1>7
    <3>. QED  BY <3>1, <3>2, <1>5, <1>7, <2>m
  <2>4. D = {o[i] : i \in 1..m}
    <3>1. 1 \in Int /\ 1 <= 1 /\ m <= Len(o)  BY <2>2, <1>3
    <3>. QED  BY <3>1, <2>2, <2>3, <1>3, ToSetSub
  <2>5. \A i \in 1..c : FirstOrLast(Q, o[i], count) <=> i \in 1..m
    BY <1>4, <1>7, <2>1, <1>2 DEF FirstOrLast
  <2>6. 1..m \subseteq 1..c  BY <2>2, <1>2
  <2>7. D = {q \in Q : FirstOrLast(Q, q, count)}  BY <2>4, <2>5, <2>6, <1>2
  <2>. QED  BY <2>7
<1>8. ASSUME count < 0 PROVE D = {q \in Q : FirstOrLast(Q, q, count)}
  <2>x. PICK x : x = c + count + 1  OBVIOUS
  <2>a. PICK a : a = Max({1, x})  OBVIOUS
  <2>0. x \in Int  BY <2>x, <1>2
  <2>1. a = IF 1 <= x THEN x ELSE 1
    <3>u. PICK u \in Int : u = 1  OBVIOUS
    <3>1. Max({u, x}) = IF u <= x THEN x ELSE u  BY <2>0, MinMax
    <3>. QED  BY <3>1, <3>u, <2>a
  <2>2. a \in Int /\ 1 <= a  BY <2>0, <2>1
  <2>3. D = ToSet(SubSeq(o, a, c))
    <3>1. ~(count = 0)  BY <1>8
    <3>2. ~(count > 0)  BY <1>8
    <3>. QED  BY <3>1, <3>2, <1>5, <1>8, <2>x, <2>a
  <2>4. D = {o[i] : i \in a..c}
    <3>1. c \in Int /\ c <= Len(o)  BY <1>2, <1>3
    <3>. QED  BY <3>1, <2>2, <2>3, <1>3, ToSetSub
  <2>5. \A i \in 1..c : FirstOrLast(Q, o[i], count) <=> i \in a..c
    <3>1. ASSUME NEW i \in 1..c PROVE FirstOrLast(Q, o[i], count) <=> i \in a..c
      <4>1. FirstOrLast(Q, o[i], count) <=> c - i + 1 <= -count  BY <1>4, <1>8 DEF FirstOrLast
      <4>2. c - i + 1 <= -count <=> x <= i  BY <2>x, <1>2
      <4>3. i \in a..c <=> x <= i  BY <2>0, <2>1, <1>2
      <4>. QED  BY <4>1, <4>2, <4>3
    <3>. QED  BY <3>1
  <2>6. a..c \subseteq 1..c  BY <2>2, <1>2
  <2>7. D = {q \in Q : FirstOrLast(Q, q, count)}  BY <2>4, <2>5, <2>6, <1>2
  <2>. QED  BY <2>7
<1>. QED  BY <1>6, <1>7, <1>8, <1>d, <1>q DEF Chosen

\* Numbers of rows and positions of elements differ by a constant.
Shift(T, d) == {i + d : i \in T}

\* Numbers shifted by d keep their order.
LEMMA ShiftIs ==
    ASSUME NEW T \in SUBSET Int, IsFiniteSet(T), NEW d \in Int
    PROVE  /\ Cardinality(Shift(T, d)) = Cardinality(T) /\ IsFiniteSet(Shift(T, d))
           /\ Shift(T, d) \in SUBSET Int /\ Cardinality(T) \in Nat
           /\ InOrder(Shift(T, d)) = [k \in 1..Cardinality(T) |-> InOrder(T)[k] + d]
           /\ InOrder(T) \in [1..Cardinality(T) -> T]
<1>p. PICK U, c, o : U = Shift(T, d) /\ c = Cardinality(T) /\ o = InOrder(T)
  OBVIOUS
<1>1. U \in SUBSET Int /\ c \in Nat
  BY <1>p, FS_CardinalityType DEF Shift
<1>2. Cardinality(U) = c /\ IsFiniteSet(U)
  <2>g. PICK g : g = [i \in T |-> i + d]  OBVIOUS
  <2>1. g \in Bijection(T, U)
    <3>1. g \in [T -> U]  BY <2>g, <1>p DEF Shift
    <3>2. \A i, j \in T : g[i] = g[j] => i = j  BY <2>g
    <3>3. \A u \in U : \E i \in T : g[i] = u  BY <2>g, <1>p DEF Shift
    <3>. QED  BY <3>1, <3>2, <3>3 DEF Bijection, Injection, Surjection, IsInjective
  <2>2. ExistsBijection(T, U)  BY <2>1 DEF ExistsBijection
  <2>. QED  BY <2>2, <1>p, FS_Bijection
<1>3. Arranges(o, c, T, LessThan)
  BY <1>p, InOrderArranges
<1>t. PICK t : t = [k \in 1..c |-> o[k] + d]
  OBVIOUS
<1>4. Arranges(t, c, U, LessThan)
  <2>1. o \in [1..c -> T]  BY <1>3 DEF Arranges
  <2>2. t \in [1..c -> U]  BY <2>1, <1>t, <1>p DEF Shift
  <2>3. ASSUME NEW i \in 1..c, NEW j \in 1..c, i < j PROVE <<t[i], t[j]>> \in LessThan
    <3>1. o[i] < o[j] /\ o[i] \in Int /\ o[j] \in Int  BY <2>1, <2>3, <1>3 DEF Arranges, LessThan
    <3>. QED  BY <3>1, <1>t DEF LessThan
  <2>4. ASSUME NEW u \in U PROVE \E i \in 1..c : t[i] = u
    <3>1. PICK m \in T : u = m + d  BY <1>p DEF Shift
    <3>2. PICK i \in 1..c : o[i] = m  BY <1>3 DEF Arranges
    <3>. QED  BY <3>1, <3>2, <1>t
  <2>. QED  BY <2>2, <2>3, <2>4 DEF Arranges
<1>5. InOrder(U) = t
  BY <1>1, <1>2, <1>4, InOrderIs
<1>6. o \in [1..c -> T]
  BY <1>3 DEF Arranges
<1>. QED  BY <1>1, <1>2, <1>5, <1>6, <1>p, <1>t

\* Rows shifted by d are picked in the same order.
LEMMA ShiftPicked ==
    ASSUME NEW T \in SUBSET Int, IsFiniteSet(T), NEW d \in Int, NEW f, NEW v, \A i \in T : v[i] = f[i + d]
    PROVE  Picked(f, Shift(T, d)) = Picked(v, T)
<1>p. PICK U, c, o : U = Shift(T, d) /\ c = Cardinality(T) /\ o = InOrder(T)
  OBVIOUS
<1>1. InOrder(U) = [k \in 1..c |-> o[k] + d] /\ o \in [1..c -> T]
  <2>1. /\ InOrder(Shift(T, d)) = [k \in 1..Cardinality(T) |-> InOrder(T)[k] + d]
        /\ InOrder(T) \in [1..Cardinality(T) -> T]
    BY ShiftIs, Zenon
  <2>. QED  BY <2>1, <1>p
<1>2. Picked(f, U) = [k \in 1..c |-> f[o[k] + d]]
  BY <1>1 DEF Picked
<1>3. Picked(v, T) = [k \in 1..c |-> v[o[k]]]
  BY <1>1, <1>p DEF Picked
<1>4. \A k \in 1..c : v[o[k]] = f[o[k] + d]
  BY <1>1
<1>. QED  BY <1>2, <1>3, <1>4, <1>p

\* Numbers shifted by d keep their counts.
LEMMA ShiftCounts ==
    ASSUME NEW T \in SUBSET Int, IsFiniteSet(T), NEW d \in Int, NEW i \in Int
    PROVE  /\ AtMost(Shift(T, d), i + d) = AtMost(T, i)
           /\ AtLeast(Shift(T, d), i + d) = AtLeast(T, i)
<1>p. PICK lo, up : lo = {p \in T : p <= i} /\ up = {p \in T : p >= i}
  OBVIOUS
<1>1. lo \in SUBSET T /\ up \in SUBSET T
  BY <1>p
<1>2. lo \in SUBSET Int /\ up \in SUBSET Int /\ IsFiniteSet(lo) /\ IsFiniteSet(up)
  BY <1>1, FS_Subset
<1>3. Cardinality(Shift(lo, d)) = Cardinality(lo) /\ Cardinality(Shift(up, d)) = Cardinality(up)
  BY <1>2, ShiftIs
<1>4. \A p \in T : (p + d <= i + d <=> p <= i) /\ (p + d >= i + d <=> p >= i)
  OBVIOUS
<1>5. {p \in Shift(T, d) : p <= i + d} = Shift(lo, d)
  BY <1>4, <1>p DEF Shift
<1>6. {p \in Shift(T, d) : p >= i + d} = Shift(up, d)
  BY <1>4, <1>p DEF Shift
<1>. QED  BY <1>3, <1>5, <1>6, <1>p DEF AtMost, AtLeast

\* LREM drops the matches its count chooses and keeps the rest in order, though it
\* writes all the rows again.
LEMMA LRemDrops ==
    ASSUME NEW l, GoodList(l), NEW count \in Int, NEW e
    PROVE  /\ Value(L!LRem(l, count, e).list) = Dropping(ValuesOf(l), Matches(ValuesOf(l), count, e))
           /\ L!LRem(l, count, e).reply = Cardinality(Matches(ValuesOf(l), count, e))
<1>v. PICK v : v = ValuesOf(l)
  OBVIOUS
<1>m. PICK matches : matches = {i \in 1..Len(v) : v[i] = e}
  OBVIOUS
<1>g. PICK gone : gone = {i \in matches : FirstOrLast(matches, i, count)}
  OBVIOUS
<1>p. PICK h, t, f, n, d : /\ h = l.head /\ t = l.tail /\ f = l.items /\ n = Len(v) /\ d = l.head - 1
  OBVIOUS
<1>1. h \in Int /\ t \in Int /\ h <= t + 1 /\ DOMAIN f = h..t /\ d \in Int
  BY <1>p, ListParts
<1>2. n = t - h + 1 /\ n \in Nat /\ n = t - d /\ h = d + 1
  <2>1. n = L!Length(l) /\ L!Length(l) = l.tail - l.head + 1 /\ L!Length(l) \in Nat
    BY <1>p, <1>v, ValuesType, ListParts
  <2>2. n = t - h + 1 /\ n \in Nat  BY <2>1, <1>p
  <2>3. h = d + 1  BY <1>1, <1>p
  <2>. QED  BY <2>2, <2>3, <1>1
<1>3. DOMAIN v = 1..n /\ \A i \in 1..n : v[i] = f[i + d]
  <2>1. v = [i \in 1..n |-> f[h + i - 1]]  BY <1>p, <1>v, <1>2 DEF ValuesOf
  <2>2. \A i \in 1..n : h + i - 1 = i + d  BY <1>1, <1>2
  <2>3. DOMAIN v = 1..n  BY <2>1
  <2>4. \A i \in 1..n : v[i] = f[h + i - 1]  BY <2>1
  <2>. QED  BY <2>2, <2>3, <2>4
<1>4. ASSUME NEW T \in SUBSET (1..n) PROVE T \in SUBSET Int /\ IsFiniteSet(T)
  <2>1. IsFiniteSet(1..n)  BY <1>2, FS_Interval
  <2>2. IsFiniteSet(T)  BY <2>1, FS_Subset
  <2>3. T \in SUBSET Int  OBVIOUS
  <2>. QED  BY <2>2, <2>3
<1>q. PICK Q : Q = {q \in DOMAIN f : f[q] = e}
  OBVIOUS
<1>5. matches \in SUBSET (1..n) /\ matches = {i \in 1..n : v[i] = e} /\ gone \in SUBSET (1..n)
  BY <1>p, <1>m, <1>g
<1>6. \A q \in h..t : q - d \in 1..n /\ (q - d) + d = q
  BY <1>1, <1>2
<1>7. \A i \in 1..n : i + d \in h..t
  BY <1>1, <1>2
<1>8. Q = Shift(matches, d)
  <2>1. ASSUME NEW q \in Q PROVE q \in Shift(matches, d)
    <3>1. q \in h..t /\ f[q] = e  BY <1>q, <1>1
    <3>2. q - d \in matches  BY <3>1, <1>3, <1>5, <1>6
    <3>. QED  BY <3>1, <3>2, <1>6 DEF Shift
  <2>2. ASSUME NEW i \in matches PROVE i + d \in Q
    BY <1>3, <1>5, <1>7, <1>1, <1>q
  <2>. QED  BY <2>1, <2>2 DEF Shift
<1>9. ASSUME NEW i \in matches PROVE FirstOrLast(Q, i + d, count) <=> FirstOrLast(matches, i, count)
  <2>1. matches \in SUBSET Int /\ IsFiniteSet(matches) /\ i \in Int  BY <1>4, <1>5
  <2>2. AtMost(Q, i + d) = AtMost(matches, i) /\ AtLeast(Q, i + d) = AtLeast(matches, i)
    BY <2>1, <1>1, <1>8, ShiftCounts
  <2>. QED  BY <2>2 DEF FirstOrLast
<1>d. PICK doomed : doomed = L!Doomed(l, count, e)
  OBVIOUS
<1>10. doomed = Shift(gone, d)
  <2>0. Q = MatchingRows(l, e)  BY <1>p, <1>q DEF MatchingRows
  <2>1. doomed = {q \in Q : FirstOrLast(Q, q, count)}  BY <2>0, <1>d, DoomedIs DEF Chosen
  <2>2. gone = {j \in matches : FirstOrLast(matches, j, count)}  BY <1>g
  <2>3. \A q \in Q : \E i \in matches : q = i + d  BY <1>8 DEF Shift
  <2>4. \A i \in matches : i + d \in Q  BY <1>8 DEF Shift
  <2>5. ASSUME NEW q \in doomed PROVE q \in Shift(gone, d)
    <3>1. q \in Q /\ FirstOrLast(Q, q, count)  BY <2>1
    <3>2. PICK i \in matches : q = i + d  BY <3>1, <2>3
    <3>3. i \in gone  BY <3>1, <3>2, <1>9, <2>2
    <3>. QED  BY <3>2, <3>3 DEF Shift
  <2>6. ASSUME NEW i \in gone PROVE i + d \in doomed
    <3>1. i \in matches /\ FirstOrLast(matches, i, count)  BY <2>2
    <3>. QED  BY <3>1, <1>9, <2>1, <2>4
  <2>. QED  BY <2>5, <2>6 DEF Shift
<1>11. (h..t) \ doomed = Shift((1..n) \ gone, d)
  <2>1. \A i, j \in 1..n : i + d = j + d => i = j  BY <1>1, <1>2
  <2>2. ASSUME NEW q \in (h..t) \ doomed PROVE q \in Shift((1..n) \ gone, d)
    <3>1. q - d \in 1..n /\ (q - d) + d = q  BY <1>6
    <3>2. q - d \notin gone  BY <3>1, <1>10 DEF Shift
    <3>. QED  BY <3>1, <3>2 DEF Shift
  <2>3. ASSUME NEW i \in (1..n) \ gone PROVE i + d \in (h..t) \ doomed
    <3>1. i + d \in h..t  BY <1>7
    <3>2. i + d \notin doomed  BY <2>1, <1>5, <1>10 DEF Shift
    <3>. QED  BY <3>1, <3>2
  <2>. QED  BY <2>2, <2>3 DEF Shift
<1>12. Picked(f, (h..t) \ doomed) = Picked(v, (1..n) \ gone)
  <2>1. (1..n) \ gone \in SUBSET (1..n)  OBVIOUS
  <2>2. (1..n) \ gone \in SUBSET Int /\ IsFiniteSet((1..n) \ gone)  BY <2>1, <1>4
  <2>3. \A i \in (1..n) \ gone : v[i] = f[i + d]  BY <1>3
  <2>t. PICK T : T = (1..n) \ gone  OBVIOUS
  <2>4. T \in SUBSET Int /\ IsFiniteSet(T) /\ d \in Int /\ \A i \in T : v[i] = f[i + d]
    BY <2>2, <2>3, <2>t, <1>1
  <2>5. Picked(f, Shift(T, d)) = Picked(v, T)  BY <2>4, ShiftPicked
  <2>. QED  BY <2>5, <2>t, <1>11
<1>13. Cardinality(doomed) = Cardinality(gone)
  BY <1>1, <1>4, <1>5, <1>10, ShiftIs
<1>r. PICK r : r = L!LRem(l, count, e)
  OBVIOUS
<1>14. GoodList(r.list) /\ ValuesOf(r.list) = Picked(f, (h..t) \ doomed) /\ r.reply = Cardinality(doomed)
  BY <1>d, <1>p, <1>r, LRemGives
<1>15. Value(r.list) = Dropping(v, gone)
  BY <1>3, <1>12, <1>14, ValueIs DEF Dropping
<1>16. gone = Matches(v, count, e)
  <2>1. matches = {i \in DOMAIN v : v[i] = e}  BY <1>3, <1>5
  <2>. QED  BY <2>1, <1>g DEF Matches, FirstOrLast, AtMost, AtLeast
<1>. QED  BY <1>13, <1>14, <1>15, <1>16, <1>r, <1>v

\* A range in order covers the positions between its clamped indices.
LEMMA InRangeIs ==
    ASSUME NEW n \in Nat \ {0}, NEW i \in Int, NEW j \in Int, Proper(n, i, j)
    PROVE  InRange(n, i, j) = (L!Clamped(n, i) + 1)..(L!Clamped(n, j) + 1)
<1>p. PICK a, b, p, q : /\ a = L!Clamped(n, i) /\ b = L!Clamped(n, j)
                        /\ p = L!Position(n, i) /\ q = L!Position(n, j)
  OBVIOUS
<1>1. i < n /\ j >= -n
  BY DEF Proper
<1>2. a \in 0..(n - 1) /\ a = IF i < 0 THEN (IF n + i >= 0 THEN n + i ELSE 0) ELSE i
  <2>1. /\ a \in 0..(n - 1)
        /\ a = IF i < 0 THEN (IF n + i >= 0 THEN n + i ELSE 0) ELSE IF i <= n - 1 THEN i ELSE n - 1
    BY <1>p, ClampedIs
  <2>2. i <= n - 1  BY <1>1
  <2>. QED  BY <2>1, <2>2
<1>3. b \in 0..(n - 1) /\ b = IF j < 0 THEN n + j ELSE IF j <= n - 1 THEN j ELSE n - 1
  <2>1. /\ b \in 0..(n - 1)
        /\ b = IF j < 0 THEN (IF n + j >= 0 THEN n + j ELSE 0) ELSE IF j <= n - 1 THEN j ELSE n - 1
    BY <1>p, ClampedIs
  <2>2. n + j >= 0  BY <1>1
  <2>. QED  BY <2>1, <2>2
<1>4. p = (IF i < 0 THEN n + i ELSE i) /\ q = IF j < 0 THEN n + j ELSE j
  BY <1>p DEF L!Position
<1>5. ASSUME NEW x \in 1..n PROVE p < x /\ x <= q + 1 <=> a + 1 <= x /\ x <= b + 1
  <2>1. p < x <=> a + 1 <= x  BY <1>2, <1>4
  <2>2. x <= q + 1 <=> x <= b + 1  BY <1>3, <1>4
  <2>. QED  BY <2>1, <2>2
<1>6. InRange(n, i, j) = {x \in 1..n : p < x /\ x <= q + 1}
  BY <1>p DEF InRange
<1>7. (a + 1)..(b + 1) = {x \in 1..n : a + 1 <= x /\ x <= b + 1}
  BY <1>2, <1>3
<1>. QED  BY <1>5, <1>6, <1>7, <1>p

\* Dropping all outside a part leaves the part.
LEMMA DropOutside ==
    ASSUME NEW V, NEW s \in Seq(V), NEW a \in Int, NEW b \in Int, 1 <= a, b <= Len(s)
    PROVE  Dropping(s, 1..Len(s) \ (a..b)) = SubSeq(s, a, b)
<1>p. PICK n, u : n = Len(s) /\ u = SubSeq(s, a, b)
  OBVIOUS
<1>1. n \in Nat /\ DOMAIN s = 1..n
  BY <1>p, LenProperties
<1>2. Dropping(s, 1..n \ (a..b)) = Picked(s, a..b)
  <2>1. DOMAIN s \ (1..n \ (a..b)) = a..b  BY <1>1, <1>p
  <2>. QED  BY <2>1 DEF Dropping
<1>3. u = [i \in 1..(b - a + 1) |-> s[a + i - 1]] /\ u \in Seq(V) /\ Len(u) = IF a <= b THEN b - a + 1 ELSE 0
  BY <1>p, SubSeqIs
<1>4. CASE a <= b + 1
  <2>1. Picked(s, a..b) = [i \in 1..(b - a + 1) |-> s[a + i - 1]]  BY <1>4, PickedInterval
  <2>. QED  BY <2>1, <1>2, <1>3, <1>p
<1>5. CASE ~(a <= b + 1)
  <2>1. u = <<>>  BY <1>3, <1>5, EmptySeq
  <2>2. a..b = {}  BY <1>5
  <2>3. IsFiniteSet({}) /\ Cardinality({}) = 0  BY FS_EmptySet
  <2>4. Picked(s, {}) \in Seq(V) /\ Len(Picked(s, {})) = 0
    <3>1. {} \in SUBSET Int /\ \A q \in {} : s[q] \in V  OBVIOUS
    <3>. QED  BY <2>3, <3>1, PickedType
  <2>5. Picked(s, {}) = <<>>  BY <2>4, EmptySeq
  <2>. QED  BY <2>1, <2>2, <2>5, <1>2, <1>p
<1>. QED  BY <1>4, <1>5

\* A part of one element.
LEMMA OneOf ==
    ASSUME NEW V, NEW s \in Seq(V), NEW p \in 1..Len(s)
    PROVE  SubSeq(s, p, p) = <<s[p]>>
<1>1. p \in Int /\ 1 <= p /\ p <= Len(s)
  <2>1. Len(s) \in Nat  BY LenProperties
  <2>. QED  BY <2>1
<1>2. SubSeq(s, p, p) = [i \in 1..(p - p + 1) |-> s[p + i - 1]] /\ SubSeq(s, p, p) \in Seq(V)
      /\ Len(SubSeq(s, p, p)) = IF p <= p THEN p - p + 1 ELSE 0
  BY <1>1, SubSeqIs
<1>t. PICK t : t = SubSeq(s, p, p)
  OBVIOUS
<1>3. Len(t) = 1 /\ t \in Seq(V)
  BY <1>1, <1>2, <1>t
<1>4. t[1] = s[p]
  <2>1. p - p + 1 = 1 /\ p + 1 - 1 = p  BY <1>1
  <2>. QED  BY <2>1, <1>2, <1>t
<1>5. s[p] \in V
  <2>1. s \in [1..Len(s) -> V]  BY LenProperties
  <2>. QED  BY <2>1
<1>6. <<s[p]>> \in Seq(V) /\ Len(<<s[p]>>) = 1 /\ <<s[p]>>[1] = s[p]
  BY <1>5
<1>7. t = <<s[p]>>
  <2>q. PICK q : q = <<s[p]>>  OBVIOUS
  <2>1. Len(t) = Len(q) /\ t \in Seq(V) /\ q \in Seq(V)  BY <1>3, <1>6, <2>q
  <2>2. \A k \in 1..Len(t) : t[k] = q[k]
    <3>1. \A k \in 1..1 : t[k] = q[k]  BY <1>4, <1>6, <2>q
    <3>. QED  BY <3>1, <1>3
  <2>. QED  BY <2>1, <2>2, <2>q, SeqEqual
<1>. QED  BY <1>7, <1>t

\* LINDEX replies what LSET wrote, and what LRANGE replies there.
LEMMA SetIsThere ==
    ASSUME NEW l, GoodList(l), NEW n, n = L!Length(l), NEW i \in Int, L!Has(n, i), NEW e \in Values
    PROVE  L!LIndex(L!LSet(l, i, e), i) = <<e>> /\ L!LIndex(l, i) = L!LRange(l, i, i)
<1>p. PICK p, v : p = L!Position(n, i) + 1 /\ v = ValuesOf(l)
  OBVIOUS
<1>1. p \in 1..n /\ L!LIndex(l, i) = <<v[p]>>
  BY <1>p, IndexGives
<1>2. n \in Nat /\ v \in Seq(Values) /\ Len(v) = n
  BY <1>p, ListParts, ValuesType
<1>3. n \in Nat \ {0} /\ l # L!NoList
  BY <1>1, <1>2, ListParts
<1>4. L!LIndex(L!LSet(l, i, e), i) = <<e>>
  <2>r. PICK r : r = L!LSet(l, i, e)  OBVIOUS
  <2>1. GoodList(r) /\ L!Length(r) = n /\ ValuesOf(r)[p] = e  BY <1>p, <2>r, LSetGives
  <2>2. L!Has(L!Length(r), i) => L!LIndex(r, i) = <<ValuesOf(r)[L!Position(L!Length(r), i) + 1]>>
    BY <2>1, IndexGives
  <2>. QED  BY <2>1, <2>2, <2>r, <1>p
<1>5. L!Clamped(n, i) + 1 = p
  <2>1. L!Clamped(n, i) = IF i < 0 THEN (IF n + i >= 0 THEN n + i ELSE 0) ELSE IF i <= n - 1 THEN i ELSE n - 1
    BY <1>3, ClampedIs
  <2>2. p = (IF i < 0 THEN n + i ELSE i) + 1  BY <1>p DEF L!Position
  <2>. QED  BY <2>1, <2>2, <1>1, <1>2
<1>6. L!LRange(l, i, i) = SubSeq(v, p, p)
  BY <1>3, <1>5, <1>p, RangesGive
<1>7. SubSeq(v, p, p) = <<v[p]>>
  BY <1>1, <1>2, OneOf
<1>. QED  BY <1>1, <1>4, <1>6, <1>7

\* The commands on one list behave as on a sequence.
LEMMA ListBehaves ==
    ASSUME NEW l, GoodList(l)
    PROVE  PushesJoin(l) /\ PopsSplit(l) /\ RemovalsDrop(l) /\ RangesCut(l) /\ IndicesHold(l)
<1>p. PICK v, n : v = Value(l) /\ n = Len(v)
  OBVIOUS
<1>1. v = ValuesOf(l) /\ n = L!Length(l) /\ DOMAIN v = 1..n
  BY <1>p, ValueIs, ValuesType
<1>2. PushesJoin(l)
  <2>1. ASSUME NEW values \in Batches(Values)
        PROVE  /\ Value(L!LPush(l, values).list) = Reverse(values) \o ValuesOf(l)
               /\ Value(L!RPush(l, values).list) = ValuesOf(l) \o values
               /\ {L!LPush(l, values).reply, L!RPush(l, values).reply} = {Len(ValuesOf(l)) + Len(values)}
    BY PushedIs
  <2>. QED  BY <2>1, <1>1, <1>p DEF PushesJoin
<1>3. PopsSplit(l)
  <2>1. ASSUME NEW count \in Counts
        PROVE  /\ ValuesOf(l) = L!LPop(l, count).reply \o Value(L!LPop(l, count).list)
               /\ ValuesOf(l) = Value(L!RPop(l, count).list) \o Reverse(L!RPop(l, count).reply)
               /\ {Len(L!LPop(l, count).reply), Len(L!RPop(l, count).reply)}
                    = {Min({Len(ValuesOf(l)), count})}
    <3>1. count \in Nat  BY CountsAre
    <3>. QED  BY <3>1, PoppedIs
  <2>. QED  BY <2>1, <1>1, <1>p DEF PopsSplit
<1>4. RemovalsDrop(l)
  <2>1. ASSUME NEW count \in Indices, NEW e \in Values
        PROVE  /\ Value(L!LRem(l, count, e).list) = Dropping(v, Matches(v, count, e))
               /\ L!LRem(l, count, e).reply = Cardinality(Matches(v, count, e))
    <3>0. count \in Int  BY CountsAre
    <3>. QED  BY <3>0, <1>1, LRemDrops
  <2>. QED  BY <2>1, <1>p DEF RemovalsDrop
<1>5. RangesCut(l)
  <2>1. ASSUME NEW i \in Indices, NEW j \in Indices, n > 0
        PROVE  /\ Value(L!LTrim(l, i, j)) = L!LRange(l, i, j)
               /\ Proper(n, i, j) => L!LRange(l, i, j) = Dropping(v, 1..n \ InRange(n, i, j))
    <3>0. i \in Int /\ j \in Int  BY CountsAre
    <3>1. v \in Seq(Values) /\ n \in Nat \ {0} /\ l # L!NoList
      BY <2>1, <1>1, ValuesType, ListParts
    <3>p. PICK a, b : a = L!Clamped(n, i) + 1 /\ b = L!Clamped(n, j) + 1
      OBVIOUS
    <3>2. a \in 1..n /\ b \in 1..n
      <4>1. L!Clamped(n, i) \in 0..(n - 1) /\ L!Clamped(n, j) \in 0..(n - 1)  BY <3>0, <3>1, ClampedIs
      <4>. QED  BY <4>1, <3>1, <3>p
    <3>3. /\ GoodList(L!LTrim(l, i, j))
          /\ ValuesOf(L!LTrim(l, i, j)) = SubSeq(v, a, b)
          /\ L!LRange(l, i, j) = SubSeq(v, a, b)
      BY <1>1, <3>0, <3>1, <3>p, RangesGive
    <3>4. Value(L!LTrim(l, i, j)) = SubSeq(v, a, b)
      BY <3>3, ValueIs
    <3>5. Dropping(v, 1..n \ (a..b)) = SubSeq(v, a, b)
      <4>1. a \in Int /\ b \in Int /\ 1 <= a /\ b <= Len(v)  BY <3>1, <3>2, <1>p
      <4>2. Dropping(v, 1..Len(v) \ (a..b)) = SubSeq(v, a, b)  BY <4>1, <3>1, DropOutside
      <4>. QED  BY <4>2, <1>p
    <3>6. Proper(n, i, j) => InRange(n, i, j) = a..b
      BY <3>0, <3>1, <3>p, InRangeIs
    <3>. QED  BY <3>3, <3>4, <3>5, <3>6
  <2>. QED  BY <2>1, <1>p DEF RangesCut
<1>6. IndicesHold(l)
  <2>1. ASSUME NEW i \in Indices, NEW e \in Values, L!Has(n, i)
        PROVE  L!LIndex(L!LSet(l, i, e), i) = <<e>> /\ L!LIndex(l, i) = L!LRange(l, i, i)
    <3>1. i \in Int  BY CountsAre
    <3>. QED  BY <3>1, <2>1, <1>1, SetIsThere
  <2>. QED  BY <2>1, <1>p DEF IndicesHold
<1>. QED  BY <1>2, <1>3, <1>4, <1>5, <1>6

\* The list commands, on rows numbered from head to tail, do what their Redis namesakes
\* do to a sequence, for every list a key can have.
THEOREM ListCommandsBehave == Spec => []ListsBehave
<1>1. Spec => []IInv
  BY AlwaysIInv
<1>2. IInv => ListsBehave
  BY RowsOf, ListBehaves DEF ListsBehave
<1>. QED  BY <1>1, <1>2, PTL

-----------------------------------------------------------------------------
(* How the commands on a sorted set agree with each other.                 *)

\* The greatest number of a set.
LEMMA GreatestIs ==
    ASSUME NEW T \in SUBSET Int, NEW i \in T, \A j \in T : j <= i
    PROVE  Max(T) = i
<1>1. i \in T /\ \A j \in T : i >= j
  OBVIOUS
<1>2. \A x \in T : (\A y \in T : x >= y) => x = i
  OBVIOUS
<1>. QED  BY <1>1, <1>2 DEF Max

\* ZADD replies how many members it added.
LEMMA AdditionIs ==
    ASSUME NEW z, GoodZset(z), NEW pairs \in Batches(Members \X Scores)
    PROVE  /\ Z!Add(z, pairs).reply
                = Cardinality(DOMAIN Z!Add(z, pairs).zset.scores) - Cardinality(DOMAIN z.scores)
           /\ After(Z!Add(z, pairs).zset.scores, Len(pairs), z.scores, pairs)
           /\ pairs \in [1..Len(pairs) -> Members \X Scores] /\ Len(pairs) \in Nat
<1>p. PICK f, g : f = z.scores /\ g = Z!Add(z, pairs).zset.scores
  OBVIOUS
<1>1. pairs \in Seq(Members \X Scores) /\ Len(pairs) \in Nat
  BY BatchIs
<1>2. pairs \in [1..Len(pairs) -> Members \X Scores]
  BY <1>1, LenProperties
<1>3. DOMAIN f \in SUBSET Members /\ f \in [DOMAIN f -> Scores]
  BY <1>p, ZsetParts
<1>4. g = Z!Upserted(f, pairs) /\ Z!Add(z, pairs).reply = Cardinality(DOMAIN g \ DOMAIN f)
  BY <1>p, Same DEF Z!Add
<1>5. After(g, Len(pairs), f, pairs)
  <2>1. f = [m \in DOMAIN f |-> f[m]]  BY <1>3
  <2>2. After(Z!Upserted(f, pairs), Len(pairs), f, pairs)  BY <2>1, <1>1, UpsertedGives
  <2>. QED  BY <2>2, <1>4
<1>6. Cardinality(DOMAIN g) = Cardinality(DOMAIN f) + Cardinality(DOMAIN g \ DOMAIN f)
  <2>p. PICK N : N = {pairs[i][1] : i \in 1..Len(pairs)}  OBVIOUS
  <2>1. N \in SUBSET Members  BY <1>2, <2>p
  <2>2. DOMAIN g = DOMAIN f \cup N  BY <1>5, <2>p DEF After
  <2>3. Cardinality(DOMAIN f \cup N) = Cardinality(DOMAIN f) + Cardinality((DOMAIN f \cup N) \ DOMAIN f)
    BY <1>3, <2>1, CountsAdd
  <2>. QED  BY <2>2, <2>3
<1>7. Cardinality(DOMAIN f) \in Nat /\ Cardinality(DOMAIN g \ DOMAIN f) \in Nat
  <2>1. DOMAIN g \ DOMAIN f \in SUBSET Members
    <3>1. DOMAIN g = DOMAIN f \cup {pairs[i][1] : i \in 1..Len(pairs)}  BY <1>5 DEF After
    <3>. QED  BY <3>1, <1>2
  <2>. QED  BY <2>1, <1>3, FiniteMembers
<1>. QED  BY <1>1, <1>2, <1>4, <1>5, <1>6, <1>7, <1>p

\* ZADD's reply and scores agree with the pairs it was given.
LEMMA AdditionsAreCounted ==
    ASSUME NEW z, GoodZset(z)
    PROVE  AdditionsCount(z)
<1>1. ASSUME NEW pairs \in Batches(Members \X Scores), NEW m \in DOMAIN Z!Add(z, pairs).zset.scores
      PROVE  Z!Add(z, pairs).zset.scores[m]
               = IF {i \in DOMAIN pairs : pairs[i][1] = m} = {} THEN z.scores[m]
                 ELSE pairs[Max({i \in DOMAIN pairs : pairs[i][1] = m})][2]
  <2>p. PICK f, g, k, given : /\ f = z.scores /\ g = Z!Add(z, pairs).zset.scores /\ k = Len(pairs)
                              /\ given = {i \in DOMAIN pairs : pairs[i][1] = m}
    OBVIOUS
  <2>1. After(g, k, f, pairs) /\ DOMAIN pairs = 1..k /\ k \in Nat
    BY <2>p, AdditionIs
  <2>2. \/ (\A i \in 1..k : pairs[i][1] # m) /\ g[m] = f[m]
        \/ \E i \in 1..k : /\ pairs[i][1] = m /\ g[m] = pairs[i][2]
                           /\ \A j \in 1..k : pairs[j][1] = m => j <= i
    BY <2>1, <2>p DEF After
  <2>3. CASE (\A i \in 1..k : pairs[i][1] # m) /\ g[m] = f[m]
    BY <2>1, <2>3, <2>p
  <2>4. CASE \E i \in 1..k : /\ pairs[i][1] = m /\ g[m] = pairs[i][2]
                             /\ \A j \in 1..k : pairs[j][1] = m => j <= i
    <3>1. PICK i \in 1..k : /\ pairs[i][1] = m /\ g[m] = pairs[i][2]
                            /\ \A j \in 1..k : pairs[j][1] = m => j <= i
      BY <2>4
    <3>2. i \in given /\ (\A j \in given : j <= i) /\ given \in SUBSET Int  BY <3>1, <2>1, <2>p
    <3>3. Max(given) = i  BY <3>2, GreatestIs
    <3>. QED  BY <3>1, <3>2, <3>3, <2>p
  <2>. QED  BY <2>2, <2>3, <2>4
<1>2. ASSUME NEW pairs \in Batches(Members \X Scores)
      PROVE  Z!Add(z, pairs).reply
               = Cardinality(DOMAIN Z!Add(z, pairs).zset.scores) - Cardinality(DOMAIN z.scores)
  BY AdditionIs
<1>. QED  BY <1>1, <1>2 DEF AdditionsCount

\* LIMIT and OFFSET when neither is negative, and without a limit.
LEMMA PageFrom ==
    ASSUME NEW V, NEW s \in Seq(V), NEW limit \in Nat, NEW offset \in Nat
    PROVE  Z!Page(s, limit, offset)
             = SubSeq(s, offset + 1, IF offset + limit <= Len(s) THEN offset + limit ELSE Len(s))
<1>p. PICK n, c : n = Len(s) /\ c = offset + limit
  OBVIOUS
<1>0. n \in Nat /\ c \in Nat
  BY <1>p, LenProperties
<1>1. ~(limit < 0) /\ (offset + 1) + limit - 1 = c
  BY <1>p
<1>2. Max({0, offset}) = offset
  BY MaxZero
<1>3. Z!Page(s, limit, offset)
        = SubSeq(s, Max({0, offset}) + 1, IF limit < 0 THEN n ELSE Min({n, (Max({0, offset}) + 1) + limit - 1}))
  BY <1>p, Same DEF Z!Page
<1>4. Z!Page(s, limit, offset) = SubSeq(s, offset + 1, Min({n, c}))
  BY <1>1, <1>2, <1>3
<1>5. Min({n, c}) = IF c <= n THEN c ELSE n
  <2>1. Min({n, c}) = IF n <= c THEN n ELSE c  BY <1>0, MinMax
  <2>. QED  BY <2>1, <1>0
<1>. QED  BY <1>4, <1>5, <1>p

\* A part from the first to the last element is everything.
LEMMA WholeSeq ==
    ASSUME NEW V, NEW s \in Seq(V)
    PROVE  SubSeq(s, 1, Len(s)) = s
<1>p. PICK n, u : n = Len(s) /\ u = SubSeq(s, 1, n)
  OBVIOUS
<1>1. n \in Nat /\ n \in Int /\ 1 \in Int /\ 1 <= 1 /\ n <= Len(s)
  BY <1>p, LenProperties
<1>2. u = [i \in 1..(n - 1 + 1) |-> s[1 + i - 1]] /\ u \in Seq(V) /\ Len(u) = IF 1 <= n THEN n - 1 + 1 ELSE 0
  BY <1>1, <1>p, SubSeqIs
<1>3. Len(u) = n
  BY <1>1, <1>2
<1>4. \A i \in 1..n : u[i] = s[i]
  <2>1. n - 1 + 1 = n /\ \A i \in 1..n : 1 + i - 1 = i  BY <1>1
  <2>. QED  BY <2>1, <1>2
<1>5. u = s
  BY <1>2, <1>3, <1>4, <1>p, SeqEqual
<1>. QED  BY <1>5, <1>p

\* A page with no limit and no offset is everything.
LEMMA PageAll ==
    ASSUME NEW V, NEW s \in Seq(V)
    PROVE  /\ Z!Page(s, -1, 0) = s
           /\ Z!RankPageAsc(s, Len(s), 0, Len(s)) = s
<1>p. PICK n : n = Len(s)
  OBVIOUS
<1>1. n \in Nat /\ SubSeq(s, 1, n) = s
  BY <1>p, LenProperties, WholeSeq
<1>2. Z!Page(s, -1, 0) = s
  <2>1. Max({0, 0}) = 0  BY MaxZero
  <2>2. -1 < 0 /\ 0 + 1 = 1  OBVIOUS
  <2>3. Z!Page(s, -1, 0) = SubSeq(s, Max({0, 0}) + 1,
                                  IF -1 < 0 THEN n ELSE Min({n, (Max({0, 0}) + 1) + (-1) - 1}))
    BY <1>p, Same DEF Z!Page
  <2>. QED  BY <2>1, <2>2, <2>3, <1>1
<1>3. Z!RankPageAsc(s, n, 0, n) = s
  <2>1. 0 >= 0 /\ n >= 0 /\ 0 <= n /\ ~(0 > n)  BY <1>1
  <2>2. Z!RankPageAsc(s, n, 0, n) = Z!Page(s, n - 0 + 1, 0)  BY <2>1 DEF Z!RankPageAsc
  <2>m. PICK m : m = n - 0 + 1  OBVIOUS
  <2>3. m \in Nat /\ ~(0 + m <= n) /\ 0 + 1 = 1 /\ 0 \in Nat  BY <1>1, <2>m
  <2>4. Z!Page(s, m, 0) = SubSeq(s, 0 + 1, IF 0 + m <= Len(s) THEN 0 + m ELSE Len(s))
    BY <2>3, PageFrom
  <2>. QED  BY <2>2, <2>3, <2>4, <2>m, <1>1, <1>p
<1>. QED  BY <1>2, <1>3, <1>p

\* The members a removal by rank or by score leaves, and its reply.
LEMMA CutIs ==
    ASSUME NEW z, GoodZset(z), NEW i, NEW j
    PROVE  /\ DOMAIN Z!RemoveRangeByRank(z, i, j).zset.scores
                = DOMAIN z.scores \ ToSet(Z!RankPage(Z!Ordered(z.scores), Z!Count(z), i, j))
           /\ Z!RemoveRangeByRank(z, i, j).reply
                = Cardinality(ToSet(Z!RankPage(Z!Ordered(z.scores), Z!Count(z), i, j)))
           /\ DOMAIN Z!RemoveRangeByScore(z, i, j).zset.scores
                = DOMAIN z.scores \ ToSet(Z!Within(z, i, j))
<1>h. PICK y : y = Z!Hydrated(z)
  OBVIOUS
<1>1. GoodZset(y) /\ y.scores = z.scores
  BY <1>h, ZsetHydrated
<1>2. ASSUME NEW x, GoodZset(x), NEW gone
      PROVE  DOMAIN Z!Left(x, Z!Less(x, gone), Cardinality(DOMAIN Z!Less(x, gone))).scores
               = DOMAIN x.scores \ gone
  <2>f. PICK f : f = Z!Less(x, gone)
    OBVIOUS
  <2>1. Z!Left(x, f, Cardinality(DOMAIN f)).scores = f /\ DOMAIN f = DOMAIN x.scores \ gone
    BY <1>2, <2>f, LeftGives
  <2>. QED  BY <2>1, <2>f
<1>3. ASSUME NEW gone
      PROVE  DOMAIN Z!Left(y, Z!Less(z, gone), Cardinality(DOMAIN Z!Less(z, gone))).scores
               = DOMAIN z.scores \ gone
  <2>1. Z!Less(z, gone) = Z!Less(y, gone)  BY <1>1 DEF Z!Less
  <2>2. DOMAIN Z!Left(y, Z!Less(y, gone), Cardinality(DOMAIN Z!Less(y, gone))).scores = DOMAIN y.scores \ gone
    BY <1>1, <1>2
  <2>. QED  BY <2>1, <2>2, <1>1
<1>r. PICK a, b : /\ a = ToSet(Z!RankPage(Z!Ordered(z.scores), Z!Count(z), i, j))
                  /\ b = ToSet(Z!Within(z, i, j))
  OBVIOUS
<1>4. /\ Z!RemoveRangeByRank(z, i, j).zset = Z!Left(y, Z!Less(z, a), Cardinality(DOMAIN Z!Less(z, a)))
      /\ Z!RemoveRangeByRank(z, i, j).reply = Cardinality(a)
  BY <1>h, <1>r, Same DEF Z!RemoveRangeByRank
<1>5. Z!RemoveRangeByScore(z, i, j).zset = Z!Left(z, Z!Less(z, b), Cardinality(DOMAIN Z!Less(z, b)))
  BY <1>r, Same DEF Z!RemoveRangeByScore
<1>. QED  BY <1>2, <1>3, <1>4, <1>5, <1>r

\* ZRANGEBYSCORE with no limit shows all the members within bounds.
LEMMA ScoreRangeIs ==
    ASSUME NEW z, GoodZset(z), NEW min, NEW max
    PROVE  /\ Z!RangeByScore(z, min, max, -1, 0) = Z!Shown(z.scores, Z!Within(z, min, max))
           /\ Z!Shown(z.scores, Z!Within(z, min, max)) \in Seq(Pairs(z.scores, DOMAIN z.scores))
           /\ Len(Z!Shown(z.scores, Z!Within(z, min, max))) = Z!CountByScore(z, min, max)
<1>p. PICK f, u : f = z.scores /\ u = Z!Within(z, min, max)
  OBVIOUS
<1>1. u \in Seq(DOMAIN f)
  BY <1>p, WithinIs
<1>2. Z!Page(u, -1, 0) = u
  BY <1>1, PageAll
<1>3. Z!Shown(f, u) \in Seq(Pairs(f, DOMAIN f)) /\ Len(Z!Shown(f, u)) = Len(u)
  BY <1>1, ShownType
<1>. QED  BY <1>2, <1>3, <1>p DEF Z!RangeByScore, Z!CountByScore

\* The commands by score agree with the whole range.
LEMMA ScoreRangesHold ==
    ASSUME NEW z, GoodZset(z)
    PROVE  ScoreRangesAgree(z)
<1>p. PICK f : f = z.scores
  OBVIOUS
<1>q. PICK D, n, s, w : /\ D = DOMAIN f /\ n = Cardinality(DOMAIN f) /\ s = Z!Ordered(f)
                        /\ w = WholeOf(f)
  OBVIOUS
<1>1. f \in [D -> Scores] /\ n \in Nat /\ Z!Count(z) = n /\ Scores \subseteq Int
  BY <1>p, <1>q, ZsetParts, CollectionsAssumption DEF CollectionsAssumption
<1>2. s \in Seq(D) /\ Len(s) = n /\ s \in [1..n -> D] /\ w = Z!Shown(f, s)
  <2>1. GoodScores(f)  BY <1>p DEF GoodZset
  <2>. QED  BY <2>1, <1>q, WholeIs DEF WholeOf
<1>3. Z!RangeByRank(z, 0, n) = w
  <2>1. Z!RankPageAsc(s, Len(s), 0, Len(s)) = s  BY <1>2, PageAll
  <2>. QED  BY <2>1, <1>1, <1>2, <1>p, <1>q DEF Z!RangeByRank
<1>4. DOMAIN w = 1..n /\ \A i \in 1..n : w[i][1] = s[i]
  <2>1. DOMAIN s = 1..n  BY <1>2
  <2>. QED  BY <2>1, <1>2 DEF Z!Shown
<1>5. ASSUME NEW min \in Scores, NEW max \in Scores
      PROVE  /\ Z!RangeByScore(z, min, max, -1, 0)
                  = EntriesOf(w, Scored(f, min, max))
             /\ Len(Z!RangeByScore(z, min, max, -1, 0)) = Z!CountByScore(z, min, max)
             /\ DOMAIN Z!RemoveRangeByScore(z, min, max).zset.scores = DOMAIN f \ Scored(f, min, max)
             /\ \A offset, limit \in 0..2 :
                  Z!RangeByScoreReverse(z, max, min, limit, offset)
                    = SubSeq(Reverse(Z!RangeByScore(z, min, max, -1, 0)), offset + 1,
                             Min({offset + limit, Len(Z!RangeByScore(z, min, max, -1, 0))}))
  <2>t. PICK T, u, v : /\ T = Stretch(f, min, max) /\ u = Z!Within(z, min, max)
                       /\ v = Z!Shown(f, u)
    OBVIOUS
  <2>1. Z!RangeByScore(z, min, max, -1, 0) = v /\ v \in Seq(Pairs(f, D)) /\ Len(v) = Z!CountByScore(z, min, max)
    BY <1>p, <1>q, <2>t, ScoreRangeIs
  <2>m. Scored(f, min, max) = InBounds(f, min, max)
    <3>1. \A m \in D : f[m] \in min..max <=> min <= f[m] /\ f[m] <= max
      <4>1. \A m \in D : f[m] \in Int  BY <1>1
      <4>2. min \in Int /\ max \in Int  BY <1>1
      <4>. QED  BY <4>1, <4>2
    <3>. QED  BY <3>1, <1>q DEF Scored, InBounds
  <2>2. {i \in DOMAIN w : w[i][1] \in Scored(f, min, max)} = T
    <3>1. T = {i \in 1..n : min <= f[s[i]] /\ f[s[i]] <= max}  BY <1>q, <2>t DEF Stretch
    <3>2. \A i \in 1..n : w[i][1] \in InBounds(f, min, max) <=> min <= f[s[i]] /\ f[s[i]] <= max
      BY <1>2, <1>4, <1>q DEF InBounds
    <3>. QED  BY <3>1, <3>2, <2>m, <1>4
  <2>3. EntriesOf(w, Scored(f, min, max)) = v
    <3>1. Picked(w, T) = v  BY <1>p, <1>q, <2>t, StretchShown
    <3>. QED  BY <3>1, <2>2 DEF EntriesOf
  <2>4. DOMAIN Z!RemoveRangeByScore(z, min, max).zset.scores = DOMAIN f \ Scored(f, min, max)
    <3>m. PICK M : M = InBounds(z.scores, min, max)  OBVIOUS
    <3>1. ToSet(Z!Within(z, min, max)) = M
      BY <3>m, WithinIs
    <3>2. DOMAIN Z!RemoveRangeByScore(z, min, max).zset.scores = DOMAIN z.scores \ ToSet(Z!Within(z, min, max))
      BY CutIs
    <3>. QED  BY <3>1, <3>2, <3>m, <2>m, <1>p
  <2>5. ASSUME NEW offset \in 0..2, NEW limit \in 0..2
        PROVE  Z!RangeByScoreReverse(z, max, min, limit, offset)
                 = SubSeq(Reverse(v), offset + 1, Min({offset + limit, Len(v)}))
    <3>r. PICK r, x : r = Reverse(u) /\ x = Reverse(v)  OBVIOUS
    <3>1. u \in Seq(D)  BY <1>p, <1>q, <2>t, WithinIs
    <3>2. r \in Seq(D) /\ Z!Shown(f, r) = x  BY <3>1, <3>r, <2>t, ReverseIs, ShownReverse
    <3>3. x \in Seq(Pairs(f, D)) /\ Len(x) = Len(v) /\ Len(v) \in Nat  BY <2>1, <3>r, ReverseIs, LenProperties
    <3>4. limit \in Nat /\ offset \in Nat /\ limit \in Int /\ offset \in Int  OBVIOUS
    <3>5. Z!RangeByScoreReverse(z, max, min, limit, offset) = Z!Shown(f, Z!Page(r, limit, offset))
      BY <1>p, <2>t, <3>r, Same DEF Z!RangeByScoreReverse
    <3>6. Z!Shown(f, Z!Page(r, limit, offset)) = Z!Page(Z!Shown(f, r), limit, offset)
      BY <3>2, <3>4, ShownPage
    <3>7. Z!Page(x, limit, offset)
            = SubSeq(x, offset + 1, IF offset + limit <= Len(x) THEN offset + limit ELSE Len(x))
      BY <3>3, <3>4, PageFrom
    <3>c. PICK c, k : c = offset + limit /\ k = Len(v)  OBVIOUS
    <3>8. Min({c, k}) = IF c <= k THEN c ELSE k
      <4>1. c \in Int /\ k \in Int  BY <3>3, <3>4, <3>c
      <4>. QED  BY <4>1, MinMax
    <3>9. Z!Page(x, limit, offset) = SubSeq(x, offset + 1, Min({c, k}))
      BY <3>3, <3>7, <3>8, <3>c
    <3>. QED  BY <3>2, <3>5, <3>6, <3>9, <3>c, <3>r
  <2>. QED  BY <2>1, <2>2, <2>3, <2>4, <2>5
<1>6. Z!RangeByRank(z, 0, Cardinality(DOMAIN z.scores)) = w
  BY <1>3, <1>p, <1>q
<1>. QED  BY <1>5, <1>6, <1>p DEF ScoreRangesAgree

\* A page by rank has what is between the clamped ranks.
LEMMA RankPageIs ==
    ASSUME NEW V, NEW s \in Seq(V), s # <<>>, NEW i \in Int, NEW j \in Int, Proper(Len(s), i, j)
    PROVE  /\ Z!RankPage(s, Len(s), i, j)
                = SubSeq(s, L!Clamped(Len(s), i) + 1, L!Clamped(Len(s), j) + 1)
           /\ Z!RankPageAsc(s, Len(s), i, j)
                = SubSeq(s, L!Clamped(Len(s), i) + 1, L!Clamped(Len(s), j) + 1)
<1>p. PICK n, a, b : n = Len(s) /\ a = L!Clamped(Len(s), i) /\ b = L!Clamped(Len(s), j)
  OBVIOUS
<1>1. n \in Nat \ {0}
  BY <1>p, LenProperties, EmptySeq
<1>2. i < n /\ j >= -n
  BY <1>p DEF Proper
<1>3. a \in 0..(n - 1) /\ a = IF i < 0 THEN (IF n + i >= 0 THEN n + i ELSE 0) ELSE i
  <2>1. /\ a \in 0..(n - 1)
        /\ a = IF i < 0 THEN (IF n + i >= 0 THEN n + i ELSE 0) ELSE IF i <= n - 1 THEN i ELSE n - 1
    BY <1>1, <1>p, ClampedIs
  <2>2. i <= n - 1  BY <1>1, <1>2
  <2>. QED  BY <2>1, <2>2
<1>4. b \in 0..(n - 1) /\ b = IF j < 0 THEN n + j ELSE IF j <= n - 1 THEN j ELSE n - 1
  <2>1. /\ b \in 0..(n - 1)
        /\ b = IF j < 0 THEN (IF n + j >= 0 THEN n + j ELSE 0) ELSE IF j <= n - 1 THEN j ELSE n - 1
    BY <1>1, <1>p, ClampedIs
  <2>2. n + j >= 0  BY <1>1, <1>2
  <2>. QED  BY <2>1, <2>2
<1>e. PICK t : t = SubSeq(s, a + 1, b + 1)
  OBVIOUS
<1>5. a > b => t = <<>>
  <2>1. ASSUME a > b PROVE t = <<>>
    <3>1. a + 1 \in Int /\ b + 1 \in Int /\ 1 <= a + 1 /\ b + 1 <= Len(s) /\ ~(a + 1 <= b + 1)
      BY <2>1, <1>1, <1>3, <1>4, <1>p
    <3>2. t \in Seq(V) /\ Len(t) = IF a + 1 <= b + 1 THEN (b + 1) - (a + 1) + 1 ELSE 0
      BY <3>1, <1>e, SubSeqIs
    <3>. QED  BY <3>1, <3>2, EmptySeq
  <2>. QED  BY <2>1
\* A page with the limit that makes it end at b.
<1>6. ASSUME a <= b, NEW k \in Nat, k >= b - a + 1, k = b - a + 1 \/ b = n - 1
      PROVE  Z!Page(s, k, a) = t
  <2>1. a \in Nat /\ b \in Nat  BY <1>1, <1>3, <1>4
  <2>2. Z!Page(s, k, a) = SubSeq(s, a + 1, IF a + k <= Len(s) THEN a + k ELSE Len(s))
    BY <2>1, PageFrom
  <2>3. (IF a + k <= n THEN a + k ELSE n) = b + 1
    BY <2>1, <1>1, <1>4, <1>6
  <2>. QED  BY <2>2, <2>3, <1>e, <1>p
<1>7. Z!RankPage(s, n, i, j) = t
  <2>p. PICK p, q : /\ p = IF i < 0 THEN Max({0, n + i}) ELSE i
                    /\ q = IF j < 0 THEN Max({0, n + j}) ELSE j
    OBVIOUS
  <2>m. PICK y, u, v : y = n - 1 /\ u = Min({q, n - 1}) /\ v = Min({p, n - 1})
    OBVIOUS
  <2>1. p = a
    <3>1. n + i \in Int  BY <1>1
    <3>2. Max({0, n + i}) = IF 0 <= n + i THEN n + i ELSE 0  BY <3>1, MaxFromZero
    <3>. QED  BY <3>1, <3>2, <2>p, <1>3
  <2>2. q = IF j < 0 THEN n + j ELSE j
    <3>1. n + j \in Int /\ 0 <= n + j  BY <1>1, <1>2
    <3>2. Max({0, n + j}) = IF 0 <= n + j THEN n + j ELSE 0  BY <3>1, MaxFromZero
    <3>. QED  BY <3>1, <3>2, <2>p
  <2>3. q \in Int /\ p \in Int /\ y \in Int  BY <2>1, <2>2, <2>m, <1>1, <1>3
  <2>4. u = IF q <= y THEN q ELSE y  BY <2>3, <2>m, MinMax
  <2>5. v = IF p <= y THEN p ELSE y  BY <2>3, <2>m, MinMax
  <2>6. u = b /\ v = a  BY <2>1, <2>2, <2>4, <2>5, <2>m, <1>1, <1>3, <1>4
  <2>7. Z!RankPage(s, n, i, j) = IF n = 0 \/ p > q THEN <<>> ELSE Z!Page(s, u - v + 1, v)
    BY <2>p, <2>m, Same DEF Z!RankPage
  <2>8. CASE p > q
    <3>1. a > b  BY <2>8, <2>1, <2>2, <1>1, <1>2, <1>3, <1>4
    <3>. QED  BY <3>1, <2>7, <2>8, <1>5
  <2>9. CASE ~(p > q)
    <3>1. a <= b  BY <2>9, <2>1, <2>2, <1>1, <1>2, <1>3, <1>4
    <3>k. PICK k : k = b - a + 1  OBVIOUS
    <3>2. k \in Nat /\ k >= b - a + 1  BY <3>1, <3>k, <1>1, <1>3, <1>4
    <3>3. Z!Page(s, k, a) = t  BY <3>1, <3>2, <3>k, <1>6
    <3>. QED  BY <3>3, <3>k, <2>6, <2>7, <2>9, <1>1
  <2>. QED  BY <2>8, <2>9
<1>8. Z!RankPageAsc(s, n, i, j) = t
  <2>1. CASE i >= 0 /\ j >= 0 /\ i > j
    <3>1. a > b  BY <2>1, <1>1, <1>2, <1>3, <1>4
    <3>2. Z!RankPageAsc(s, n, i, j) = <<>>  BY <2>1 DEF Z!RankPageAsc
    <3>. QED  BY <3>1, <3>2, <1>5
  <2>2. CASE i >= 0 /\ j >= 0 /\ i <= j
    <3>1. a <= b /\ a = i  BY <2>2, <1>1, <1>2, <1>3, <1>4
    <3>k. PICK k : k = j - i + 1  OBVIOUS
    <3>2. k \in Nat /\ k >= b - a + 1 /\ (k = b - a + 1 \/ b = n - 1)
      BY <3>1, <3>k, <2>2, <1>1, <1>3, <1>4
    <3>3. Z!Page(s, k, a) = t  BY <3>1, <3>2, <1>6
    <3>4. Z!RankPageAsc(s, n, i, j) = Z!Page(s, k, i)
      <4>1. ~(i > j)  BY <2>2
      <4>. QED  BY <4>1, <2>2, <3>k DEF Z!RankPageAsc
    <3>. QED  BY <3>1, <3>3, <3>4
  <2>3. CASE ~(i >= 0 /\ j >= 0)
    <3>1. Z!RankPageAsc(s, n, i, j) = Z!RankPage(s, n, i, j)  BY <2>3 DEF Z!RankPageAsc
    <3>. QED  BY <3>1, <1>7
  <2>. QED  BY <2>1, <2>2, <2>3
<1>. QED  BY <1>7, <1>8, <1>e, <1>p

\* The rank of a member is where the order has it.
LEMMA RankIs ==
    ASSUME NEW z, GoodZset(z), NEW i \in 1..Len(Z!Ordered(z.scores))
    PROVE  /\ Z!Ordered(z.scores)[i] \in DOMAIN z.scores
           /\ Z!Rank(z, Z!Ordered(z.scores)[i]) = i - 1
           /\ Z!RankReverse(z, Z!Ordered(z.scores)[i]) = Len(Z!Ordered(z.scores)) - i
<1>p. PICK f : f = z.scores
  OBVIOUS
<1>q. PICK D, n, s : D = DOMAIN f /\ n = Cardinality(DOMAIN f) /\ s = Z!Ordered(f)
  OBVIOUS
<1>1. D \in SUBSET Members /\ f \in [D -> Scores] /\ IsFiniteSet(D) /\ n \in Nat /\ n = Cardinality(D)
  BY <1>p, <1>q, ZsetParts
<1>2. GoodScores(f)
  BY <1>p DEF GoodZset
<1>3. Len(s) = n
  BY <1>2, <1>q, WholeIs
<1>r. PICK R : R = ByScore(f, D)
  OBVIOUS
<1>4. Arranges(s, n, D, R) /\ Orders(R, D)
  BY <1>1, <1>q, <1>r, OrderedArranges, ScoresOrder
<1>m. PICK m : m = s[i]
  OBVIOUS
<1>5. i \in 1..n /\ m \in D
  <2>1. i \in 1..n  BY <1>3, <1>p, <1>q
  <2>. QED  BY <2>1, <1>4, <1>m DEF Arranges
<1>6. Cardinality(Lower(R, D, m)) = i - 1
  BY <1>1, <1>4, <1>5, <1>m, ArrangedByRank
<1>7. Cardinality(Upper(R, D, m)) = n - i
  <2>1. Cardinality(Upper(R, D, m)) = n - 1 - (i - 1)  BY <1>6, <1>1, <1>4, <1>5, BothSides
  <2>. QED  BY <2>1, <1>1
<1>8. Z!Rank(z, m) = Cardinality(Lower(R, D, m))
  <2>1. Lower(R, D, m) = {o \in D : Z!Before(f, o, m)}  BY <1>1, <1>r, <1>5, ScoresOrder
  <2>. QED  BY <2>1, <1>5, <1>p, <1>q, Same DEF Z!Rank
<1>9. Z!RankReverse(z, m) = Cardinality(Upper(R, D, m))
  <2>1. Upper(R, D, m) = {o \in D : Z!Before(f, m, o)}  BY <1>r, <1>5 DEF Upper, ByScore
  <2>. QED  BY <2>1, <1>5, <1>p, <1>q, Same DEF Z!RankReverse
<1>. QED  BY <1>3, <1>5, <1>6, <1>7, <1>8, <1>9, <1>m, <1>p, <1>q

\* The rank of a member is its place in the range.
LEMMA RanksHold ==
    ASSUME NEW z, GoodZset(z)
    PROVE  RanksAgree(z)
<1>p. PICK f : f = z.scores
  OBVIOUS
<1>q. PICK D, n, s, R : D = DOMAIN f /\ n = Cardinality(DOMAIN f) /\ s = Z!Ordered(f) /\ R = ByScore(f, DOMAIN f)
  OBVIOUS
<1>1. D \in SUBSET Members /\ f \in [D -> Scores] /\ n \in Nat /\ n = Z!Count(z) /\ Scores \subseteq Int
  BY <1>p, <1>q, ZsetParts, CollectionsAssumption DEF CollectionsAssumption
<1>2. s \in Seq(D) /\ Len(s) = n
  BY <1>p, <1>q, WholeIs DEF GoodZset
<1>3. Arranges(s, n, D, R)
  BY <1>1, <1>q, OrderedArranges
<1>4. ASSUME NEW i \in 1..n
      PROVE  s[i] \in D /\ Z!Rank(z, s[i]) = i - 1 /\ Z!RankReverse(z, s[i]) = n - i
  BY <1>2, <1>p, <1>q, RankIs
<1>5. ASSUME NEW m \in D
      PROVE  /\ Z!RangeByRank(z, Z!Rank(z, m), Z!Rank(z, m)) = Z!Shown(f, <<m>>)
             /\ Z!RankReverse(z, m) = n - 1 - Z!Rank(z, m)
             /\ \A o \in D : f[o] < f[m] => Z!Rank(z, o) < Z!Rank(z, m)
  <2>1. PICK i \in 1..n : s[i] = m
    BY <1>3 DEF Arranges
  <2>r. PICK r : r = i - 1
    OBVIOUS
  <2>2. Z!Rank(z, m) = r /\ Z!RankReverse(z, m) = n - 1 - r
    <3>1. Z!RankReverse(z, m) = n - i /\ Z!Rank(z, m) = i - 1  BY <2>1, <1>4
    <3>2. n - i = n - 1 - r  BY <2>r, <1>1
    <3>. QED  BY <3>1, <3>2, <2>r
  <2>3. Z!RangeByRank(z, r, r) = Z!Shown(f, <<m>>)
    <3>1. r \in Int /\ r \in 0..(n - 1) /\ n \in Nat \ {0} /\ r + 1 = i  BY <2>r, <1>1
    <3>2. Proper(Len(s), r, r)  BY <3>1, <1>2 DEF Proper
    <3>3. L!Clamped(n, r) = r
      <4>1. L!Clamped(n, r) = IF r < 0 THEN (IF n + r >= 0 THEN n + r ELSE 0)
                              ELSE IF r <= n - 1 THEN r ELSE n - 1
        BY <3>1, ClampedIs
      <4>. QED  BY <4>1, <3>1
    <3>4. s # <<>>  BY <1>2, <3>1, EmptySeq
    <3>5. Z!RankPageAsc(s, Len(s), r, r) = SubSeq(s, L!Clamped(Len(s), r) + 1, L!Clamped(Len(s), r) + 1)
      BY <3>1, <3>2, <3>4, <1>2, RankPageIs
    <3>6. Z!RankPageAsc(s, n, r, r) = SubSeq(s, i, i)  BY <3>1, <3>3, <3>5, <1>2
    <3>7. SubSeq(s, i, i) = <<s[i]>>  BY <1>2, OneOf
    <3>. QED  BY <3>6, <3>7, <2>1, <1>1, <1>p, <1>q DEF Z!RangeByRank
  <2>4. ASSUME NEW o \in D, f[o] < f[m] PROVE Z!Rank(z, o) < Z!Rank(z, m)
    <3>1. PICK j \in 1..n : s[j] = o
      BY <1>3 DEF Arranges
    <3>0. f[o] \in Int /\ f[m] \in Int  BY <1>1
    <3>2. ~(i < j)
      <4>1. SUFFICES ASSUME i < j PROVE FALSE  OBVIOUS
      <4>2. <<m, o>> \in R  BY <4>1, <3>1, <2>1, <1>3 DEF Arranges
      <4>3. Z!Before(f, m, o)  BY <4>2, <1>q DEF ByScore
      <4>. QED  BY <4>3, <3>0, <2>4 DEF Z!Before
    <3>3. j # i  BY <3>0, <3>1, <2>1, <2>4
    <3>4. Z!Rank(z, o) = j - 1  BY <3>1, <1>4
    <3>. QED  BY <3>2, <3>3, <3>4, <2>2, <2>r
  <2>. QED  BY <2>2, <2>3, <2>4
<1>. QED  BY <1>5, <1>p, <1>q DEF RanksAgree

\* The members of what is shown.
LEMMA MembersAre ==
    ASSUME NEW f, NEW D, NEW s \in Seq(D)
    PROVE  Z!MembersOf(Z!Shown(f, s)) = s
<1>p. PICK n, w, t : n = Len(s) /\ w = Z!Shown(f, s) /\ t = Z!MembersOf(w)
  OBVIOUS
<1>1. DOMAIN s = 1..n /\ s \in [1..n -> D]
  BY <1>p, LenProperties
<1>2. w = [i \in 1..n |-> <<s[i], Z!FormatScore(f[s[i]])>>]
  BY <1>1, <1>p DEF Z!Shown
<1>3. t = [i \in 1..n |-> w[i][1]]
  BY <1>2, <1>p DEF Z!MembersOf
<1>4. \A i \in 1..n : w[i][1] = s[i]
  BY <1>2
<1>5. t = [i \in 1..n |-> s[i]]
  BY <1>3, <1>4
<1>6. s = [i \in 1..n |-> s[i]]
  BY <1>1
<1>. QED  BY <1>5, <1>6, <1>p

\* As many members as positions.
PlacedAt(s, a, b) == {s[i] : i \in a..b}

\* Elements that are each listed once are as many as their positions.
LEMMA ManyAsPositions ==
    ASSUME NEW D, NEW R, NEW n \in Nat, NEW s, Arranges(s, n, D, R), Orders(R, D),
           NEW a \in Int, NEW b \in Int, 1 <= a, b <= n
    PROVE  Cardinality(PlacedAt(s, a, b)) = Cardinality(a..b)
<1>g. PICK T, g : T = {s[i] : i \in a..b} /\ g = [i \in a..b |-> s[i]]
  OBVIOUS
<1>0. PlacedAt(s, a, b) = T
  BY <1>g DEF PlacedAt
<1>1. \A i \in a..b : i \in 1..n /\ s[i] \in D
  BY DEF Arranges
<1>2. ASSUME NEW i \in a..b, NEW j \in a..b, s[i] = s[j] PROVE i = j
  <2>1. i < j \/ j < i \/ i = j  OBVIOUS
  <2>2. <<s[i], s[i]>> \notin R  BY <1>1 DEF Orders
  <2>3. i < j => <<s[i], s[j]>> \in R  BY <1>1 DEF Arranges
  <2>4. j < i => <<s[j], s[i]>> \in R  BY <1>1 DEF Arranges
  <2>. QED  BY <2>1, <2>2, <2>3, <2>4, <1>2
<1>3. g \in Bijection(a..b, T)
  <2>1. g \in [a..b -> T]  BY <1>g
  <2>2. \A i, j \in a..b : g[i] = g[j] => i = j  BY <1>2, <1>g
  <2>3. \A t \in T : \E i \in a..b : g[i] = t  BY <1>g
  <2>. QED  BY <2>1, <2>2, <2>3 DEF Bijection, Injection, Surjection, IsInjective
<1>4. IsFiniteSet(a..b) /\ ExistsBijection(a..b, T)
  BY <1>3, FS_Interval DEF ExistsBijection
<1>. QED  BY <1>0, <1>4, FS_Bijection

\* A part of the reverse is the mirrored part reversed.
LEMMA ReverseSub ==
    ASSUME NEW V, NEW s \in Seq(V), NEW p \in 0..(Len(s) - 1), NEW q \in 0..(Len(s) - 1)
    PROVE  SubSeq(Reverse(s), p + 1, q + 1) = Reverse(SubSeq(s, Len(s) - q, Len(s) - p))
<1>p. PICK n, r, t, m : /\ n = Len(s) /\ r = Reverse(s) /\ t = SubSeq(s, Len(s) - q, Len(s) - p)
                        /\ m = q - p + 1
  OBVIOUS
<1>1. n \in Nat /\ p \in 0..(n - 1) /\ q \in 0..(n - 1)
  BY <1>p, LenProperties
<1>2. r = [i \in 1..n |-> s[n - i + 1]] /\ r \in Seq(V) /\ Len(r) = n
  BY <1>p, ReverseIs
<1>3. /\ n - q \in Int /\ n - p \in Int /\ 1 <= n - q /\ n - p <= n
      /\ (n - p) - (n - q) + 1 = m
      /\ p + 1 \in Int /\ q + 1 \in Int /\ 1 <= p + 1 /\ q + 1 <= n
      /\ (q + 1) - (p + 1) + 1 = m
  BY <1>1, <1>p
<1>k. PICK x, y : x = n - q /\ y = n - p
  OBVIOUS
<1>4. /\ t = [i \in 1..m |-> s[x + i - 1]] /\ t \in Seq(V)
      /\ Len(t) = IF x <= y THEN m ELSE 0
  <2>1. x \in Int /\ y \in Int /\ 1 <= x /\ y <= Len(s) /\ y - x + 1 = m /\ t = SubSeq(s, x, y)
    BY <1>3, <1>p, <1>k
  <2>2. /\ SubSeq(s, x, y) = [i \in 1..(y - x + 1) |-> s[x + i - 1]] /\ SubSeq(s, x, y) \in Seq(V)
        /\ Len(SubSeq(s, x, y)) = IF x <= y THEN y - x + 1 ELSE 0
    BY <2>1, SubSeqIs
  <2>. QED  BY <2>1, <2>2
<1>u. PICK u, c : u = SubSeq(r, p + 1, q + 1) /\ c = p + 1
  OBVIOUS
<1>5. /\ u = [i \in 1..m |-> r[c + i - 1]] /\ u \in Seq(V)
      /\ Len(u) = IF c <= q + 1 THEN m ELSE 0
  <2>d. PICK d : d = q + 1  OBVIOUS
  <2>1. c \in Int /\ d \in Int /\ 1 <= c /\ d <= Len(r) /\ d - c + 1 = m /\ u = SubSeq(r, c, d)
    BY <1>2, <1>3, <1>u, <2>d
  <2>0. r \in Seq(V) /\ c \in Int /\ d \in Int /\ 1 <= c /\ d <= Len(r)
    BY <2>1, <1>2
  <2>2. /\ SubSeq(r, c, d) = [i \in 1..(d - c + 1) |-> r[c + i - 1]] /\ SubSeq(r, c, d) \in Seq(V)
        /\ Len(SubSeq(r, c, d)) = IF c <= d THEN d - c + 1 ELSE 0
    BY <2>0, SubSeqIs
  <2>. QED  BY <2>1, <2>2, <2>d
<1>6. Reverse(t) \in Seq(V) /\ Len(Reverse(t)) = Len(t) /\ Reverse(t) = [i \in 1..Len(t) |-> t[Len(t) - i + 1]]
  <2>1. t \in Seq(V)  BY <1>4
  <2>. QED  BY <2>1, ReverseIs
<1>7. Len(u) = Len(t) /\ (Len(t) # 0 => Len(t) = m /\ m > 0)
  <2>1. x <= y <=> c <= q + 1  BY <1>1, <1>k, <1>u
  <2>2. x <= y => m > 0  BY <1>1, <1>k, <1>p
  <2>3. Len(t) = IF x <= y THEN m ELSE 0  BY <1>4
  <2>4. Len(u) = IF c <= q + 1 THEN m ELSE 0  BY <1>5
  <2>5. CASE x <= y
    <3>1. Len(t) = m /\ m > 0  BY <2>5, <2>2, <2>3
    <3>2. Len(u) = m  BY <2>5, <2>1, <2>4
    <3>. QED  BY <3>1, <3>2
  <2>6. CASE ~(x <= y)
    <3>1. Len(t) = 0  BY <2>6, <2>3
    <3>2. Len(u) = 0  BY <2>6, <2>1, <2>4
    <3>. QED  BY <3>1, <3>2
  <2>. QED  BY <2>5, <2>6
<1>8. ASSUME NEW i \in 1..Len(u) PROVE u[i] = Reverse(t)[i]
  <2>1. Len(t) = m /\ m \in Nat /\ i \in 1..m  BY <1>7, <1>1, <1>p
  <2>j. PICK j : j = m - i + 1  OBVIOUS
  <2>2. j \in 1..m /\ Reverse(t)[i] = t[j]  BY <2>1, <2>j, <1>6
  <2>3. t[j] = s[x + j - 1]  BY <2>2, <1>4
  <2>4. u[i] = r[c + i - 1]  BY <2>1, <1>5
  <2>k. PICK k : k = c + i - 1  OBVIOUS
  <2>5. k \in 1..n /\ n - k + 1 = x + j - 1  BY <2>1, <2>j, <2>k, <1>1, <1>k, <1>p, <1>u
  <2>6. r[k] = s[n - k + 1]  BY <2>5, <1>2
  <2>. QED  BY <2>2, <2>3, <2>4, <2>5, <2>6, <2>k
<1>9. u = Reverse(t)
  BY <1>5, <1>6, <1>7, <1>8, SeqEqual
<1>. QED  BY <1>9, <1>p, <1>u

\* A range by rank is the stretch between the ends brought into the set, and a removal by rank
\* removes its members.
LEMMA RankRangeIs ==
    ASSUME NEW z, GoodZset(z), Z!Ordered(z.scores) # <<>>, NEW i \in Int, NEW j \in Int,
           Proper(Z!Count(z), i, j)
    PROVE  /\ Z!RangeByRank(z, i, j)
                = Z!Shown(z.scores, SubSeq(Z!Ordered(z.scores), L!Clamped(Z!Count(z), i) + 1,
                                           L!Clamped(Z!Count(z), j) + 1))
           /\ Z!RangeByRankReverse(z, i, j)
                = Z!Shown(z.scores, SubSeq(Reverse(Z!Ordered(z.scores)), L!Clamped(Z!Count(z), i) + 1,
                                           L!Clamped(Z!Count(z), j) + 1))
           /\ Len(Z!RangeByRank(z, i, j)) = Cardinality(InRange(Z!Count(z), i, j))
           /\ DOMAIN Z!RemoveRangeByRank(z, i, j).zset.scores
                = DOMAIN z.scores \ ToSet(Z!MembersOf(Z!RangeByRank(z, i, j)))
           /\ Z!RemoveRangeByRank(z, i, j).reply = Len(Z!RangeByRank(z, i, j))
<1>p. PICK f : f = z.scores
  OBVIOUS
<1>q. PICK D, n, s, R : D = DOMAIN f /\ n = Z!Count(z) /\ s = Z!Ordered(f) /\ R = ByScore(f, DOMAIN f)
  OBVIOUS
<1>1. D \in SUBSET Members /\ f \in [D -> Scores] /\ n \in Nat /\ n = Cardinality(D)
  BY <1>p, <1>q, ZsetParts
<1>2. s \in Seq(D) /\ Len(s) = n /\ s # <<>> /\ n # 0
  <2>1. s \in Seq(D) /\ Len(s) = n  BY <1>p, <1>q, CachedIs
  <2>2. s # <<>>  BY <1>p, <1>q
  <2>. QED  BY <2>1, <2>2, EmptySeq
<1>3. Arranges(s, n, D, R) /\ Orders(R, D)
  BY <1>1, <1>q, OrderedArranges, ScoresOrder
<1>e. PICK a, b : a = L!Clamped(n, i) + 1 /\ b = L!Clamped(n, j) + 1
  OBVIOUS
<1>4. a \in 1..n /\ b \in 1..n
  <2>1. n \in Nat \ {0}  BY <1>1, <1>2
  <2>2. L!Clamped(n, i) \in 0..(n - 1) /\ L!Clamped(n, j) \in 0..(n - 1)  BY <2>1, ClampedIs
  <2>. QED  BY <2>1, <2>2, <1>e
<1>5. a \in Int /\ b \in Int /\ 1 <= a /\ b <= n /\ b <= Len(s)
  BY <1>1, <1>2, <1>4
<1>t. PICK t : t = SubSeq(s, a, b)
  OBVIOUS
<1>6. Z!RankPage(s, n, i, j) = t /\ Z!RankPageAsc(s, n, i, j) = t
  <2>1. Proper(Len(s), i, j)  BY <1>2, <1>q
  <2>2. /\ Z!RankPage(s, Len(s), i, j) = SubSeq(s, L!Clamped(Len(s), i) + 1, L!Clamped(Len(s), j) + 1)
        /\ Z!RankPageAsc(s, Len(s), i, j) = SubSeq(s, L!Clamped(Len(s), i) + 1, L!Clamped(Len(s), j) + 1)
    BY <2>1, <1>2, RankPageIs
  <2>. QED  BY <2>2, <1>2, <1>e, <1>t
<1>7. Z!RangeByRank(z, i, j) = Z!Shown(f, t)
  BY <1>6, <1>p, <1>q DEF Z!RangeByRank
<1>8. Z!RangeByRankReverse(z, i, j) = Z!Shown(f, SubSeq(Reverse(s), a, b))
  <2>r. PICK r : r = Reverse(s)  OBVIOUS
  <2>1. r \in Seq(D) /\ Len(r) = n  BY <1>2, <2>r, ReverseIs
  <2>2. r # <<>>  BY <2>1, <1>2, EmptySeq
  <2>3. Proper(Len(r), i, j)  BY <2>1, <1>q
  <2>4. Z!RankPage(r, Len(r), i, j) = SubSeq(r, L!Clamped(Len(r), i) + 1, L!Clamped(Len(r), j) + 1)
    BY <2>1, <2>2, <2>3, RankPageIs
  <2>5. Z!RankPage(r, n, i, j) = SubSeq(r, a, b)  BY <2>1, <2>4, <1>e
  <2>6. Z!RangeByRankReverse(z, i, j) = Z!Shown(f, Z!RankPage(r, n, i, j))
    BY <1>p, <1>q, <2>r, Same DEF Z!RangeByRankReverse
  <2>. QED  BY <2>5, <2>6, <2>r
<1>9. t \in Seq(D) /\ Len(t) = Cardinality(a..b)
  <2>1. t \in Seq(D) /\ Len(t) = IF a <= b THEN b - a + 1 ELSE 0
    BY <1>2, <1>5, <1>t, SubSeqIs
  <2>2. Cardinality(a..b) = IF a > b THEN 0 ELSE b - a + 1
    BY <1>5, FS_Interval
  <2>. QED  BY <2>1, <2>2, <1>5
<1>10. Len(Z!Shown(f, t)) = Len(t)
  BY <1>9, ShownType
<1>11. InRange(n, i, j) = a..b
  <2>1. n \in Nat \ {0} /\ Proper(n, i, j)  BY <1>1, <1>2, <1>q
  <2>. QED  BY <2>1, <1>e, InRangeIs
<1>12. Cardinality(ToSet(t)) = Cardinality(a..b)
  <2>1. ToSet(t) = PlacedAt(s, a, b)
    <3>1. ToSet(SubSeq(s, a, b)) = {s[k] : k \in a..b}  BY <1>2, <1>5, ToSetSub
    <3>. QED  BY <3>1, <1>t DEF PlacedAt
  <2>2. Cardinality(PlacedAt(s, a, b)) = Cardinality(a..b)
    BY <1>1, <1>3, <1>5, ManyAsPositions
  <2>. QED  BY <2>1, <2>2
<1>13. Z!MembersOf(Z!Shown(f, t)) = t
  BY <1>9, MembersAre
<1>14. /\ DOMAIN Z!RemoveRangeByRank(z, i, j).zset.scores = D \ ToSet(t)
       /\ Z!RemoveRangeByRank(z, i, j).reply = Cardinality(ToSet(t))
  <2>1. /\ DOMAIN Z!RemoveRangeByRank(z, i, j).zset.scores
             = DOMAIN z.scores \ ToSet(Z!RankPage(Z!Ordered(z.scores), Z!Count(z), i, j))
        /\ Z!RemoveRangeByRank(z, i, j).reply
             = Cardinality(ToSet(Z!RankPage(Z!Ordered(z.scores), Z!Count(z), i, j)))
    BY CutIs
  <2>. QED  BY <2>1, <1>6, <1>p, <1>q
<1>15. Z!RangeByRank(z, i, j) = Z!Shown(z.scores, SubSeq(Z!Ordered(z.scores), L!Clamped(Z!Count(z), i) + 1,
                                           L!Clamped(Z!Count(z), j) + 1))
  BY <1>7, <1>t, <1>e, <1>p, <1>q
<1>16. Z!RangeByRankReverse(z, i, j)
         = Z!Shown(z.scores, SubSeq(Reverse(Z!Ordered(z.scores)), L!Clamped(Z!Count(z), i) + 1,
                                           L!Clamped(Z!Count(z), j) + 1))
  BY <1>8, <1>e, <1>p, <1>q
<1>17. Len(Z!RangeByRank(z, i, j)) = Cardinality(a..b)
  BY <1>7, <1>9, <1>10
<1>18. Len(Z!RangeByRank(z, i, j)) = Cardinality(InRange(Z!Count(z), i, j))
  BY <1>17, <1>11, <1>q
<1>19. /\ DOMAIN Z!RemoveRangeByRank(z, i, j).zset.scores
            = DOMAIN z.scores \ ToSet(Z!MembersOf(Z!RangeByRank(z, i, j)))
       /\ Z!RemoveRangeByRank(z, i, j).reply = Len(Z!RangeByRank(z, i, j))
  <2>1. Z!MembersOf(Z!RangeByRank(z, i, j)) = t  BY <1>7, <1>13
  <2>2. Z!RemoveRangeByRank(z, i, j).reply = Cardinality(a..b)  BY <1>12, <1>14
  <2>. QED  BY <2>1, <2>2, <1>14, <1>17, <1>p, <1>q
<1>. QED  BY <1>15, <1>16, <1>18, <1>19

\* ZREVRANGE is ZRANGE from the other end.
LEMMA RankRangeMirrored ==
    ASSUME NEW z, GoodZset(z), NEW i \in Int, NEW j \in Int,
           L!Has(Z!Count(z), i), L!Has(Z!Count(z), j)
    PROVE  Z!RangeByRankReverse(z, i, j)
             = Reverse(Z!RangeByRank(z, Z!Count(z) - 1 - L!Position(Z!Count(z), j),
                                        Z!Count(z) - 1 - L!Position(Z!Count(z), i)))
<1>p. PICK f : f = z.scores
  OBVIOUS
<1>q. PICK D, n, s : D = DOMAIN f /\ n = Z!Count(z) /\ s = Z!Ordered(f)
  OBVIOUS
<1>e. PICK p, q : p = L!Position(n, i) /\ q = L!Position(n, j)
  OBVIOUS
<1>1. s \in Seq(D) /\ Len(s) = n /\ n \in Nat
  BY <1>p, <1>q, CachedIs
<1>2. p \in 0..(n - 1) /\ q \in 0..(n - 1) /\ n \in Nat \ {0}
  BY <1>1, <1>q, <1>e DEF L!Has
<1>3. s # <<>>
  BY <1>1, <1>2, EmptySeq
<1>4. p = (IF i < 0 THEN n + i ELSE i) /\ q = (IF j < 0 THEN n + j ELSE j)
  BY <1>e DEF L!Position
<1>5. Proper(n, i, j)
  BY <1>2, <1>4 DEF Proper
<1>6. L!Clamped(n, i) = p /\ L!Clamped(n, j) = q
  <2>1. /\ L!Clamped(n, i) = IF i < 0 THEN (IF n + i >= 0 THEN n + i ELSE 0)
                             ELSE IF i <= n - 1 THEN i ELSE n - 1
        /\ L!Clamped(n, j) = IF j < 0 THEN (IF n + j >= 0 THEN n + j ELSE 0)
                             ELSE IF j <= n - 1 THEN j ELSE n - 1
    BY <1>2, ClampedIs
  <2>. QED  BY <2>1, <1>2, <1>4
<1>7. Z!RangeByRankReverse(z, i, j) = Z!Shown(f, SubSeq(Reverse(s), p + 1, q + 1))
  <2>1. Z!RangeByRankReverse(z, i, j)
         = Z!Shown(z.scores, SubSeq(Reverse(Z!Ordered(z.scores)), L!Clamped(Z!Count(z), i) + 1,
                                           L!Clamped(Z!Count(z), j) + 1))
    BY <1>3, <1>5, <1>p, <1>q, RankRangeIs
  <2>. QED  BY <2>1, <1>6, <1>p, <1>q
<1>m. PICK x, y : x = n - 1 - q /\ y = n - 1 - p
  OBVIOUS
<1>8. x \in Int /\ y \in Int /\ x \in 0..(n - 1) /\ y \in 0..(n - 1)
  BY <1>2, <1>m
<1>9. Z!RangeByRank(z, x, y) = Z!Shown(f, SubSeq(s, n - q, n - p))
  <2>1. Proper(n, x, y)  BY <1>2, <1>8 DEF Proper
  <2>2. L!Clamped(n, x) = x /\ L!Clamped(n, y) = y
    <3>1. /\ L!Clamped(n, x) = IF x < 0 THEN (IF n + x >= 0 THEN n + x ELSE 0)
                               ELSE IF x <= n - 1 THEN x ELSE n - 1
          /\ L!Clamped(n, y) = IF y < 0 THEN (IF n + y >= 0 THEN n + y ELSE 0)
                               ELSE IF y <= n - 1 THEN y ELSE n - 1
      BY <1>2, <1>8, ClampedIs
    <3>. QED  BY <3>1, <1>2, <1>8
  <2>3. Z!RangeByRank(z, x, y)
          = Z!Shown(z.scores, SubSeq(Z!Ordered(z.scores), L!Clamped(Z!Count(z), x) + 1,
                                           L!Clamped(Z!Count(z), y) + 1))
    BY <2>1, <1>3, <1>8, <1>p, <1>q, RankRangeIs
  <2>4. x + 1 = n - q /\ y + 1 = n - p  BY <1>2, <1>m
  <2>. QED  BY <2>2, <2>3, <2>4, <1>p, <1>q
<1>10. SubSeq(Reverse(s), p + 1, q + 1) = Reverse(SubSeq(s, n - q, n - p))
  <2>1. p \in 0..(Len(s) - 1) /\ q \in 0..(Len(s) - 1)  BY <1>1, <1>2
  <2>2. SubSeq(Reverse(s), p + 1, q + 1) = Reverse(SubSeq(s, Len(s) - q, Len(s) - p))
    BY <2>1, <1>1, ReverseSub
  <2>. QED  BY <2>2, <1>1
<1>11. SubSeq(s, n - q, n - p) \in Seq(D)
  <2>1. n - q \in Int /\ n - p \in Int /\ 1 <= n - q /\ n - p <= Len(s)  BY <1>1, <1>2
  <2>. QED  BY <2>1, <1>1, SubSeqIs
<1>12. Z!RangeByRankReverse(z, i, j) = Reverse(Z!RangeByRank(z, x, y))
  <2>u. PICK u : u = SubSeq(s, n - q, n - p)  OBVIOUS
  <2>1. Z!Shown(f, Reverse(u)) = Reverse(Z!Shown(f, u))  BY <1>11, <2>u, ShownReverse
  <2>. QED  BY <2>1, <2>u, <1>7, <1>9, <1>10
<1>. QED  BY <1>12, <1>m, <1>e, <1>q

\* The commands by rank agree with each other.
LEMMA RankRangesHold ==
    ASSUME NEW z, GoodZset(z)
    PROVE  RankRangesAgree(z)
<1>q. PICK f, n, s : f = z.scores /\ n = Cardinality(DOMAIN f) /\ s = Z!Ordered(f)
  OBVIOUS
<1>1. n \in Nat /\ n = Z!Count(z)
  BY <1>q, ZsetParts
<1>2. s \in Seq(DOMAIN f) /\ Len(s) = n
  BY <1>1, <1>q, CachedIs
<1>3. ASSUME NEW i \in Indices, NEW j \in Indices, Proper(n, i, j)
      PROVE  /\ Len(Z!RangeByRank(z, i, j)) = Cardinality(InRange(n, i, j))
             /\ L!Has(n, i) /\ L!Has(n, j) =>
                  Z!RangeByRankReverse(z, i, j)
                    = Reverse(Z!RangeByRank(z, n - 1 - L!Position(n, j), n - 1 - L!Position(n, i)))
             /\ DOMAIN Z!RemoveRangeByRank(z, i, j).zset.scores
                  = DOMAIN f \ ToSet(Z!MembersOf(Z!RangeByRank(z, i, j)))
             /\ Z!RemoveRangeByRank(z, i, j).reply = Len(Z!RangeByRank(z, i, j))
  <2>0. i \in Int /\ j \in Int
    BY CountsAre
  <2>1. CASE n # 0
    <3>1. s # <<>>  BY <2>1, <1>2, EmptySeq
    <3>2. Proper(Z!Count(z), i, j) /\ Z!Ordered(z.scores) # <<>>  BY <3>1, <1>3, <1>1, <1>q
    <3>3. /\ Len(Z!RangeByRank(z, i, j)) = Cardinality(InRange(Z!Count(z), i, j))
          /\ DOMAIN Z!RemoveRangeByRank(z, i, j).zset.scores
               = DOMAIN z.scores \ ToSet(Z!MembersOf(Z!RangeByRank(z, i, j)))
          /\ Z!RemoveRangeByRank(z, i, j).reply = Len(Z!RangeByRank(z, i, j))
      BY <3>2, <2>0, RankRangeIs
    <3>4. L!Has(n, i) /\ L!Has(n, j) =>
            Z!RangeByRankReverse(z, i, j)
              = Reverse(Z!RangeByRank(z, n - 1 - L!Position(n, j), n - 1 - L!Position(n, i)))
      BY <2>0, <1>1, RankRangeMirrored
    <3>. QED  BY <3>3, <3>4, <1>1, <1>q
  <2>2. CASE n = 0
    <3>1. s = <<>>  BY <2>2, <1>2, EmptySeq
    <3>2. Z!RankPage(s, n, i, j) = <<>>  BY <2>2 DEF Z!RankPage
    <3>3. Z!RankPageAsc(s, n, i, j) = <<>>
      <4>1. i < 0  BY <1>3, <2>0, <2>2 DEF Proper
      <4>2. ~(i >= 0 /\ j >= 0)  BY <4>1, <2>0
      <4>3. Z!RankPageAsc(s, n, i, j) = Z!RankPage(s, n, i, j)  BY <4>2 DEF Z!RankPageAsc
      <4>. QED  BY <4>3, <3>2
    <3>4. Z!RangeByRank(z, i, j) = <<>>
      <4>1. Z!RangeByRank(z, i, j) = Z!Shown(f, Z!RankPageAsc(s, n, i, j))
        BY <1>1, <1>q DEF Z!RangeByRank
      <4>. QED  BY <4>1, <3>3, ShownNothing
    <3>5. InRange(n, i, j) = {}
      <4>1. 1..n = {}  BY <2>2
      <4>. QED  BY <4>1 DEF InRange
    <3>6. ~L!Has(n, i)
      <4>1. 0..(n - 1) = {}  BY <2>2
      <4>. QED  BY <4>1 DEF L!Has
    <3>7. ToSet(<<>>) = {}  BY DEF ToSet
    <3>8. Z!MembersOf(<<>>) = <<>>
      <4>1. <<>> \in Seq({}) /\ Z!Shown(f, <<>>) = <<>>  BY EmptySeq, ShownNothing
      <4>2. Z!MembersOf(Z!Shown(f, <<>>)) = <<>>  BY <4>1, MembersAre
      <4>. QED  BY <4>1, <4>2
    <3>9. /\ DOMAIN Z!RemoveRangeByRank(z, i, j).zset.scores = DOMAIN f \ {}
          /\ Z!RemoveRangeByRank(z, i, j).reply = Cardinality({})
      <4>1. /\ DOMAIN Z!RemoveRangeByRank(z, i, j).zset.scores
                 = DOMAIN z.scores \ ToSet(Z!RankPage(Z!Ordered(z.scores), Z!Count(z), i, j))
            /\ Z!RemoveRangeByRank(z, i, j).reply
                 = Cardinality(ToSet(Z!RankPage(Z!Ordered(z.scores), Z!Count(z), i, j)))
        BY CutIs
      <4>. QED  BY <4>1, <3>2, <3>7, <1>1, <1>q
    <3>10. Cardinality({}) = 0 /\ Len(<<>>) = 0  BY FS_EmptySet
    <3>. QED  BY <3>4, <3>5, <3>6, <3>7, <3>8, <3>9, <3>10
  <2>. QED  BY <2>1, <2>2
<1>. QED  BY <1>3, <1>q DEF RankRangesAgree

\* The commands on one sorted set agree with each other.
LEMMA SortedSetBehaves ==
    ASSUME NEW z, GoodZset(z)
    PROVE  RanksAgree(z) /\ RankRangesAgree(z) /\ ScoreRangesAgree(z) /\ AdditionsCount(z)
  BY RanksHold, RankRangesHold, ScoreRangesHold, AdditionsAreCounted

\* The sorted set commands agree with each other, by rank, by score and after additions
\* and removals, for every sorted set a key can have.
THEOREM SortedSetCommandsBehave == Spec => []SortedSetsBehave
<1>1. Spec => []IInv
  BY AlwaysIInv
<1>2. IInv => SortedSetsBehave
  BY RowsOf, SortedSetBehaves DEF SortedSetsBehave
<1>. QED  BY <1>1, <1>2, PTL
=============================================================================

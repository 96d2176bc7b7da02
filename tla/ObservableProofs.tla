-------------------------- MODULE ObservableProofs --------------------------
(***************************************************************************)
(* Theorems of Observable, for any number of threads and observers: nobody *)
(* is called twice for one change, and with one thread that calls set() no *)
(* change is lost.                                                         *)
(***************************************************************************)
EXTENDS Observable, SequenceTheorems, WellFoundedInduction, TLAPS

-----------------------------------------------------------------------------
\* A set of natural numbers has a least one.
LEMMA LeastNumber ==
    ASSUME NEW T \in SUBSET Nat, T # {}
    PROVE  \E n \in T : \A m \in T : n <= m
<1> DEFINE R == OpToRel(<, Nat)
<1>1. IsWellFoundedOn(R, Nat)
  BY NatLessThanWellFounded
<1>2. \A x, y \in Nat : x < y => <<x, y>> \in R
  BY DEF OpToRel
<1> HIDE DEF R
<1>3. PICK n \in T : \A m \in T : ~(<<m, n>> \in R)
  BY <1>1, WFMin
<1>4. ASSUME NEW m \in T PROVE n <= m
  <2>1. m \in Nat /\ n \in Nat
    OBVIOUS
  <2>2. ~(m < n)
    BY <1>2, <1>3, <2>1
  <2> QED
    BY <2>1, <2>2
<1> QED
  BY <1>4

\* A set with 0 in which each number is followed by the next one has them all.
LEMMA Induction ==
    ASSUME NEW T, 0 \in T, \A n \in Nat : n \in T => n + 1 \in T
    PROVE  Nat \subseteq T
<1> DEFINE Missing == Nat \ T
<1>1. CASE Missing # {}
  <2>1. PICK n \in Missing : \A m \in Missing : n <= m
    BY <1>1, LeastNumber
  <2>2. n # 0 /\ n - 1 \in Nat /\ n - 1 \notin Missing
    BY <2>1
  <2> QED
    BY <2>2
<1> QED
  BY <1>1

-----------------------------------------------------------------------------
\* An observer at the end of a list.
LEMMA Added ==
    ASSUME NEW S, NEW list \in Seq(S), NEW o \in S
    PROVE  /\ Append(list, o) \in Seq(S)
           /\ \A e : Contains(Append(list, o), e) <=> Contains(list, e) \/ o = e
           /\ IsInjective(list) /\ ~Contains(list, o) => IsInjective(Append(list, o))
<1> DEFINE N == Len(list)
           longer == Append(list, o)
<1>1. /\ longer \in Seq(S) /\ Len(longer) = N + 1 /\ longer[N + 1] = o
      /\ \A i \in 1 .. N : longer[i] = list[i]
      /\ N \in Nat /\ DOMAIN list = 1 .. N
  BY AppendProperties, LenProperties
<1>2. DOMAIN longer = 1 .. N + 1
  BY <1>1, LenProperties
<1>3. 1 .. N + 1 = (1 .. N) \cup {N + 1}
  BY <1>1
<1> HIDE DEF longer, N
<1>4. \A e : Contains(longer, e) <=> (\E i \in 1 .. N : list[i] = e) \/ o = e
  BY <1>1, <1>3 DEF Contains
<1>5. \A e : Contains(list, e) <=> \E i \in 1 .. N : list[i] = e
  BY DEF Contains, N
<1>6. IsInjective(list) /\ ~Contains(list, o) => IsInjective(longer)
  BY <1>1, <1>2, <1>3, <1>5 DEF IsInjective
<1> QED
  BY <1>1, <1>4, <1>5, <1>6 DEF longer

\* Two lists, one after the other.
LEMMA Joined ==
    ASSUME NEW S, NEW a \in Seq(S), NEW b \in Seq(S)
    PROVE  /\ a \o b \in Seq(S)
           /\ \A e : Contains(a \o b, e) <=> Contains(a, e) \/ Contains(b, e)
           /\ IsInjective(a) /\ IsInjective(b) /\ (\A e : ~(Contains(a, e) /\ Contains(b, e)))
                  => IsInjective(a \o b)
<1> DEFINE M == Len(a)
           N == Len(b)
           both == a \o b
<1>1. /\ both \in Seq(S) /\ Len(both) = M + N
      /\ \A i \in 1 .. M + N : both[i] = IF i <= M THEN a[i] ELSE b[i - M]
  BY ConcatProperties
<1>2. M \in Nat /\ N \in Nat /\ DOMAIN a = 1 .. M /\ DOMAIN b = 1 .. N
  BY LenProperties
<1>3. DOMAIN both = 1 .. M + N
  BY <1>1, LenProperties
<1> HIDE DEF both, M, N
<1>4. \A i \in 1 .. M + N : \/ i \in 1 .. M /\ both[i] = a[i]
                            \/ i - M \in 1 .. N /\ both[i] = b[i - M]
  BY <1>1, <1>2
<1>5. /\ \A i \in 1 .. M : i \in 1 .. M + N /\ both[i] = a[i]
      /\ \A j \in 1 .. N : j + M \in 1 .. M + N /\ both[j + M] = b[j]
  BY <1>1, <1>2
<1>6. /\ \A e : Contains(a, e) <=> \E i \in 1 .. M : a[i] = e
      /\ \A e : Contains(b, e) <=> \E i \in 1 .. N : b[i] = e
      /\ \A e : Contains(both, e) <=> \E i \in 1 .. M + N : both[i] = e
  BY <1>1 DEF Contains, M, N
<1>7. \A e : Contains(both, e) <=> Contains(a, e) \/ Contains(b, e)
  BY <1>4, <1>5, <1>6
<1>8. ASSUME IsInjective(a), IsInjective(b), \A e : ~(Contains(a, e) /\ Contains(b, e))
      PROVE  IsInjective(both)
  <2>1. ASSUME NEW i \in 1 .. M + N, NEW j \in 1 .. M + N, both[i] = both[j] PROVE i = j
    <3>1. CASE i \in 1 .. M /\ both[i] = a[i] /\ j \in 1 .. M /\ both[j] = a[j]
      BY <1>2, <1>8, <2>1, <3>1 DEF IsInjective
    <3>2. CASE i - M \in 1 .. N /\ both[i] = b[i - M] /\ j - M \in 1 .. N /\ both[j] = b[j - M]
      <4>1. i - M = j - M
        BY <1>2, <1>8, <2>1, <3>2 DEF IsInjective
      <4> QED
        BY <1>2, <4>1
    <3>3. ASSUME NEW k \in 1 .. M, NEW l \in 1 .. N PROVE a[k] # b[l]
      BY <1>6, <1>8
    <3> QED
      BY <1>4, <2>1, <3>1, <3>2, <3>3
  <2> QED
    BY <1>3, <2>1 DEF IsInjective
<1> QED
  BY <1>1, <1>7, <1>8 DEF both

\* A part of a list.
LEMMA Part ==
    ASSUME NEW S, NEW list \in Seq(S), NEW m \in Nat, NEW n \in Nat, 0 < m, n <= Len(list)
    PROVE  /\ SubSeq(list, m, n) \in Seq(S)
           /\ \A e : Contains(SubSeq(list, m, n), e) <=> \E i \in m .. n : list[i] = e
           /\ IsInjective(list) => IsInjective(SubSeq(list, m, n))
<1> DEFINE part == SubSeq(list, m, n)
           L == IF m <= n THEN n - m + 1 ELSE 0
<1>0. Len(list) \in Nat /\ DOMAIN list = 1 .. Len(list) /\ \A i \in 1 .. Len(list) : list[i] \in S
  BY LenProperties, ElementOfSeq
<1>1. /\ part \in Seq(S) /\ Len(part) = L
      /\ \A i \in 1 .. n - m + 1 : part[i] = list[m + i - 1]
  <2>1. \A i \in m .. n : list[i] \in S
    BY <1>0
  <2> QED
    BY <2>1, SubSeqProperties
<1>2. DOMAIN part = 1 .. L
  BY <1>1, LenProperties
<1> HIDE DEF part
<1>3. \A i \in 1 .. L : m + i - 1 \in m .. n /\ part[i] = list[m + i - 1]
  BY <1>1
<1>4. \A j \in m .. n : j - m + 1 \in 1 .. L /\ part[j - m + 1] = list[j]
  <2>1. ASSUME NEW j \in m .. n PROVE j - m + 1 \in 1 .. L /\ m + (j - m + 1) - 1 = j
    OBVIOUS
  <2> QED
    BY <1>3, <2>1
<1>5. \A e : Contains(part, e) <=> \E i \in m .. n : list[i] = e
  <2>1. \A e : Contains(part, e) <=> \E i \in 1 .. L : part[i] = e
    BY <1>1 DEF Contains
  <2> HIDE DEF L
  <2> QED
    BY <2>1, <1>3, <1>4
<1>6. ASSUME IsInjective(list) PROVE IsInjective(part)
  <2>1. ASSUME NEW i \in 1 .. L, NEW j \in 1 .. L, part[i] = part[j] PROVE i = j
    <3>1. m + i - 1 \in 1 .. Len(list) /\ m + j - 1 \in 1 .. Len(list)
      BY <1>0, <1>3
    <3>2. list[m + i - 1] = list[m + j - 1]
      BY <1>3, <2>1
    <3>3. m + i - 1 = m + j - 1
      BY <1>0, <1>6, <3>1, <3>2 DEF IsInjective
    <3> QED
      BY <3>3
  <2> QED
    BY <1>2, <2>1 DEF IsInjective
<1> QED
  BY <1>1, <1>5, <1>6 DEF part

-----------------------------------------------------------------------------
\* What is left of an entry's predecessors and itself.
KeptWith(list, rest, n) == IF Alive(list[n]) THEN Append(rest, list[n]) ELSE rest

\* The list of the entries that are kept is built up from its beginning.
LEMMA LiveIsBuiltUp ==
    ASSUME NEW list \in Seq(Observers)
    PROVE  \E kept : /\ kept[0] = <<>> /\ Live(list) = kept[Len(list)]
                     /\ \A n \in 1 .. Len(list) : kept[n] = KeptWith(list, kept[n - 1], n)
<1> DEFINE N == Len(list)
           Fits(f, n) == /\ f \in [0 .. n -> Seq(Observers)] /\ f[0] = <<>>
                         /\ \A i \in 1 .. n : f[i] = KeptWith(list, f[i - 1], i)
           T == {n \in Nat : n <= N => \E f : Fits(f, n)}
           Body(f) == [n \in 0 .. N |->
                          IF n = 0 THEN <<>>
                          ELSE IF Alive(list[n]) THEN Append(f[n - 1], list[n]) ELSE f[n - 1]]
<1>0. N \in Nat /\ \A n \in 1 .. N : list[n] \in Observers
  BY LenProperties, ElementOfSeq
<1>a. \A n \in Nat : n \in T <=> (n <= N => \E f : Fits(f, n))
  OBVIOUS
<1> HIDE DEF T
<1>1. 0 \in T
  <2>1. Fits([i \in 0 .. 0 |-> <<>>], 0)
    BY EmptySeq
  <2> QED
    BY <1>a, <2>1
<1>2. ASSUME NEW n \in Nat, n \in T PROVE n + 1 \in T
  <2>0. n + 1 \in Nat
    OBVIOUS
  <2>1. SUFFICES ASSUME n + 1 <= N PROVE \E f : Fits(f, n + 1)
    BY <1>a, <2>0
  <2>2. PICK f : Fits(f, n)
    <3>1. n <= N
      BY <1>0, <2>1
    <3> QED
      BY <1>2, <1>a, <3>1
  <2> DEFINE last == KeptWith(list, f[n], n + 1)
             g == [i \in 0 .. n + 1 |-> IF i = n + 1 THEN last ELSE f[i]]
  <2>3. f[n] \in Seq(Observers) /\ list[n + 1] \in Observers
    BY <1>0, <2>1, <2>2
  <2>4. last \in Seq(Observers)
    BY <2>3, AppendProperties DEF KeptWith
  <2> HIDE DEF last
  <2>5. \A i \in 0 .. n : g[i] = f[i] /\ f[i] \in Seq(Observers)
    BY <2>2
  <2>6. g \in [0 .. n + 1 -> Seq(Observers)] /\ g[0] = <<>> /\ g[n + 1] = last
    BY <2>2, <2>4, <2>5
  <2> HIDE DEF g
  <2>7. ASSUME NEW i \in 1 .. n + 1 PROVE g[i] = KeptWith(list, g[i - 1], i)
    <3>1. CASE i = n + 1
      <4>1. g[i - 1] = f[n]
        BY <2>5, <3>1
      <4> QED
        BY <2>6, <3>1, <4>1 DEF last
    <3>2. CASE i # n + 1
      <4>1. i \in 1 .. n /\ i - 1 \in 0 .. n /\ i \in 0 .. n
        BY <3>2
      <4>2. g[i] = f[i] /\ g[i - 1] = f[i - 1] /\ f[i] = KeptWith(list, f[i - 1], i)
        BY <2>2, <2>5, <4>1
      <4> QED
        BY <4>2
    <3> QED
      BY <3>1, <3>2
  <2>8. Fits(g, n + 1)
    BY <2>6, <2>7
  <2> QED
    BY <2>8
<1>3. PICK f : Fits(f, N)
  <2>1. Nat \subseteq T
    BY <1>1, <1>2, Induction
  <2>2. N \in T /\ N <= N
    BY <1>0, <2>1
  <2> QED
    BY <1>0, <1>a, <2>2
<1>4. f = Body(f)
  <2>1. f = [n \in 0 .. N |-> f[n]]
    BY <1>3
  <2>2. \A n \in 0 .. N : f[n] = Body(f)[n]
    <3>1. \A n \in 1 .. N : f[n] = KeptWith(list, f[n - 1], n)
      BY <1>3
    <3>2. f[0] = <<>>
      BY <1>3
    <3> QED
      BY <1>0, <3>1, <3>2 DEF KeptWith
  <2> QED
    BY <2>1, <2>2
<1> DEFINE kept == CHOOSE g : g = Body(g)
<1>5. kept = Body(kept)
  BY <1>4
<1>6. Live(list) = kept[N]
  BY DEF Live
<1> HIDE DEF kept
<1>7. kept[0] = <<>> /\ \A n \in 1 .. N : kept[n] = KeptWith(list, kept[n - 1], n)
  <2>1. \A n \in 0 .. N :
          kept[n] = IF n = 0 THEN <<>> ELSE IF Alive(list[n]) THEN Append(kept[n - 1], list[n]) ELSE kept[n - 1]
    BY <1>5
  <2>2. \A n \in 1 .. N : n \in 0 .. N /\ n # 0
    BY <1>0
  <2>3. 0 \in 0 .. N
    BY <1>0
  <2> QED
    BY <2>1, <2>2, <2>3 DEF KeptWith
<1> QED
  BY <1>6, <1>7

-----------------------------------------------------------------------------
\* What pruning makes of a list: the same observers, the expired ones left out.
LEMMA Pruned ==
    ASSUME NEW list \in Seq(Observers)
    PROVE  /\ Live(list) \in Seq(Observers)
           /\ \A o : Contains(Live(list), o) <=> Contains(list, o) /\ Alive(o)
           /\ IsInjective(list) => IsInjective(Live(list))
<1> DEFINE N == Len(list)
<1>0. N \in Nat /\ \A n \in 1 .. N : list[n] \in Observers
  BY LenProperties, ElementOfSeq
<1>1. PICK kept : /\ kept[0] = <<>> /\ Live(list) = kept[N]
                  /\ \A n \in 1 .. N : kept[n] = KeptWith(list, kept[n - 1], n)
  BY LiveIsBuiltUp
<1> DEFINE Right(n) ==
        /\ kept[n] \in Seq(Observers)
        /\ \A o : Contains(kept[n], o) <=> Alive(o) /\ \E i \in 1 .. n : list[i] = o
        /\ IsInjective(list) => IsInjective(kept[n])
    T == {n \in Nat : n <= N => Right(n)}
<1>2. \A n \in Nat : n \in T <=> (n <= N => Right(n))
  OBVIOUS
<1> HIDE DEF T
<1>3. 0 \in T
  <2>1. Right(0)
    BY <1>1, EmptySeq DEF Contains, IsInjective
  <2> QED
    BY <1>2, <2>1
<1>4. ASSUME NEW n \in Nat, n \in T PROVE n + 1 \in T
  <2>0. n + 1 \in Nat
    OBVIOUS
  <2>1. SUFFICES ASSUME n + 1 <= N PROVE Right(n + 1)
    BY <1>2, <2>0
  <2>2. Right(n)
    <3>1. n <= N
      BY <1>0, <2>1
    <3> QED
      BY <1>2, <1>4, <3>1
  <2>3. n + 1 \in 1 .. N /\ list[n + 1] \in Observers /\ (n + 1) - 1 = n
    BY <1>0, <2>1
  <2>4. kept[n + 1] = KeptWith(list, kept[n], n + 1)
    BY <1>1, <2>3
  <2>5. \A o : (\E i \in 1 .. n + 1 : list[i] = o) <=> (\E i \in 1 .. n : list[i] = o) \/ list[n + 1] = o
    <3>1. 1 .. n + 1 = (1 .. n) \cup {n + 1}
      OBVIOUS
    <3> QED
      BY <3>1
  <2>6. CASE ~Alive(list[n + 1])
    <3>1. kept[n + 1] = kept[n]
      BY <2>4, <2>6 DEF KeptWith
    <3> QED
      BY <2>2, <2>5, <2>6, <3>1
  <2>7. CASE Alive(list[n + 1])
    <3> DEFINE rest == kept[n]
    <3>1. kept[n + 1] = Append(rest, list[n + 1])
      BY <2>4, <2>7 DEF KeptWith
    <3>2. rest \in Seq(Observers)
      BY <2>2
    <3>3. IsInjective(list) => ~Contains(rest, list[n + 1])
      <4>1. ASSUME IsInjective(list), NEW i \in 1 .. n PROVE list[i] # list[n + 1]
        <5>1. i \in DOMAIN list /\ n + 1 \in DOMAIN list /\ i # n + 1
          BY <2>3, <1>0, LenProperties
        <5> QED
          BY <4>1, <5>1 DEF IsInjective
      <4> QED
        BY <2>2, <4>1
    <3> HIDE DEF rest
    <3>4. /\ Append(rest, list[n + 1]) \in Seq(Observers)
          /\ \A o : Contains(Append(rest, list[n + 1]), o) <=> Contains(rest, o) \/ list[n + 1] = o
          /\ IsInjective(rest) /\ ~Contains(rest, list[n + 1]) => IsInjective(Append(rest, list[n + 1]))
      BY <2>3, <3>2, Added
    <3> QED
      BY <2>2, <2>5, <2>7, <3>1, <3>2, <3>3, <3>4 DEF rest
  <2> QED
    BY <2>6, <2>7
<1>5. N \in T
  <2>1. Nat \subseteq T
    BY <1>3, <1>4, Induction
  <2> QED
    BY <1>0, <2>1
<1>6. Right(N)
  <2>1. N <= N
    BY <1>0
  <2> HIDE DEF Right
  <2> QED
    BY <1>0, <1>2, <1>5, <2>1
<1>7. \A o : Contains(list, o) <=> \E i \in 1 .. N : list[i] = o
  BY DEF Contains
<1> QED
  BY <1>1, <1>6, <1>7

\* The rest of a list, without its first entry.
LEMMA Rest ==
    ASSUME NEW S, NEW list \in Seq(S), list # <<>>
    PROVE  /\ Head(list) \in S /\ Tail(list) \in Seq(S) /\ Contains(list, Head(list))
           /\ \A e : Contains(list, e) <=> Head(list) = e \/ Contains(Tail(list), e)
           /\ IsInjective(list) => IsInjective(Tail(list)) /\ ~Contains(Tail(list), Head(list))
<1> DEFINE N == Len(list)
<1>1. N \in Nat /\ N # 0 /\ DOMAIN list = 1 .. N
  BY LenProperties, EmptySeq
<1>2. Head(list) = list[1] /\ Head(list) \in S /\ Tail(list) = SubSeq(list, 2, N)
  <2>1. 1 \in 1 .. N
    BY <1>1
  <2>2. list[1] \in S
    BY <2>1, ElementOfSeq
  <2>3. Head(list) = list[1]
    OBVIOUS
  <2>4. Tail(list) = SubSeq(list, 2, N)
    BY TailIsSubSeq
  <2> QED
    BY <2>2, <2>3, <2>4
<1>3. /\ Tail(list) \in Seq(S)
      /\ \A e : Contains(Tail(list), e) <=> \E i \in 2 .. N : list[i] = e
      /\ IsInjective(list) => IsInjective(Tail(list))
  <2>1. /\ SubSeq(list, 2, N) \in Seq(S)
        /\ \A e : Contains(SubSeq(list, 2, N), e) <=> \E i \in 2 .. N : list[i] = e
        /\ IsInjective(list) => IsInjective(SubSeq(list, 2, N))
    <3>1. 2 \in Nat /\ 0 < 2 /\ N <= N
      BY <1>1
    <3> QED
      BY <1>1, <3>1, Part
  <2> QED
    BY <1>2, <2>1, Zenon
<1>4. 1 .. N = {1} \cup 2 .. N
  BY <1>1
<1>5. \A e : Contains(list, e) <=> \E i \in 1 .. N : list[i] = e
  BY DEF Contains
<1>6. ASSUME IsInjective(list) PROVE ~Contains(Tail(list), Head(list))
  <2>1. ASSUME NEW i \in 2 .. N PROVE list[i] # list[1]
    <3>1. i \in 1 .. N /\ 1 \in 1 .. N /\ i # 1
      BY <1>1
    <3> QED
      BY <1>1, <1>6, <3>1 DEF IsInjective
  <2> QED
    BY <1>2, <1>3, <2>1
<1> HIDE DEF N
<1>7. \A e : Contains(list, e) <=> Head(list) = e \/ Contains(Tail(list), e)
  BY <1>2, <1>3, <1>4, <1>5
<1> QED
  BY <1>2, <1>3, <1>6, <1>7

\* What a search passes before and after the observer it looks for.
LEMMA Searched ==
    ASSUME observers \in Seq(Observers), IsInjective(observers), NEW o, Contains(observers, o)
    PROVE  /\ o \in Observers
           /\ Before(o) \in Seq(Observers) /\ IsInjective(Before(o))
           /\ After(o) \in Seq(Observers) /\ IsInjective(After(o))
           /\ \A e : /\ Contains(Before(o), e) => Contains(observers, e) /\ e # o
                     /\ Contains(After(o), e) => Contains(observers, e) /\ e # o
                     /\ ~(Contains(Before(o), e) /\ Contains(After(o), e))
<1> DEFINE N == Len(observers)
           p == Place(o)
<1>1. N \in Nat /\ DOMAIN observers = 1 .. N /\ \A i \in 1 .. N : observers[i] \in Observers
  BY LenProperties, ElementOfSeq
<1>2. p \in 1 .. N /\ observers[p] = o
  BY <1>1 DEF Contains, Place
<1>3. \A i, j \in 1 .. N : observers[i] = observers[j] => i = j
  BY <1>1 DEF IsInjective
<1> DEFINE prefix == SubSeq(observers, 1, p - 1)
<1> HIDE DEF p
<1>4. /\ prefix \in Seq(Observers) /\ IsInjective(prefix)
      /\ \A e : Contains(prefix, e) <=> \E i \in 1 .. p - 1 : observers[i] = e
  <2>1. 1 \in Nat /\ p - 1 \in Nat /\ 0 < 1 /\ p - 1 <= N
    BY <1>1, <1>2
  <2> QED
    BY <2>1, Part
<1>5. /\ After(o) \in Seq(Observers) /\ IsInjective(After(o))
      /\ \A e : Contains(After(o), e) <=> \E i \in p + 1 .. N : observers[i] = e
  <2>1. p + 1 \in Nat /\ N \in Nat /\ 0 < p + 1 /\ N <= N
    BY <1>1, <1>2
  <2> QED
    BY <2>1, Part DEF After, p
<1> HIDE DEF prefix
<1>6. /\ Before(o) \in Seq(Observers) /\ IsInjective(Before(o))
      /\ \A e : Contains(Before(o), e) => Contains(prefix, e)
  BY <1>4, Pruned DEF Before, prefix, p
<1>7. \A i \in 1 .. p - 1 : i \in 1 .. N /\ i # p
  BY <1>1, <1>2
<1>8. \A i \in p + 1 .. N : i \in 1 .. N /\ i # p
  BY <1>1, <1>2
<1>9. \A i \in 1 .. p - 1, j \in p + 1 .. N : i # j
  BY <1>1, <1>2
<1>10. \A e : Contains(observers, e) <=> \E i \in 1 .. N : observers[i] = e
  BY DEF Contains
<1> HIDE DEF N
<1> QED
  BY <1>1, <1>2, <1>3, <1>4, <1>5, <1>6, <1>7, <1>8, <1>9, <1>10

-----------------------------------------------------------------------------
\* Where the variables are.
Types ==
    /\ observers \in Seq(Observers) /\ owned \subseteq Observers
    /\ pc \in [Threads -> {"idle", "walk", "call", "note"}]
    /\ otbn \in [Threads -> Seq(Observers)]
    /\ spo \in [Threads -> Observers \cup {NoObserver}]
    /\ DOMAIN found = Threads /\ DOMAIN read = Threads /\ DOMAIN told = Observers

\* Who is in set() may call it, and has an observer while calling it.
Calling == \A t \in Threads :
    /\ pc[t] # "idle" => t \in Setters
    /\ pc[t] \in {"call", "note"} <=> spo[t] # NoObserver

\* Lists and copies with each observer once.
Once == Types /\ Calling /\ CalledOnce

\* Nobody is an entry.
LEMMA NobodyListed == ASSUME NEW list \in Seq(Observers) PROVE ~Contains(list, NoObserver)
<1>1. \A i \in 1 .. Len(list) : list[i] \in Observers
  BY ElementOfSeq
<1> QED
  BY <1>1, ObserversAssumption DEF Contains

\* It is so in the beginning.
LEMMA OnceStart == Init => Once
<1> SUFFICES ASSUME Init PROVE Once
  OBVIOUS
<1>1. <<>> \in Seq(Observers) /\ IsInjective(<<>>) /\ \A o : ~Contains(<<>>, o)
  BY EmptySeq DEF IsInjective, Contains
<1> QED
  BY <1>1 DEF Init, Once, Types, Calling, CalledOnce

\* Adding an observer that is known changes nothing but entries that expired.
LEMMA KnownStays ==
    ASSUME observers \in Seq(Observers), IsInjective(observers), NEW o, Contains(observers, o)
    PROVE  LET list == Before(o) \o <<o>> \o After(o)
           IN  /\ list \in Seq(Observers) /\ IsInjective(list)
               /\ \A e : Contains(list, e) => Contains(observers, e)
<1> DEFINE front == Before(o) \o <<o>>
<1>1. /\ o \in Observers
      /\ Before(o) \in Seq(Observers) /\ IsInjective(Before(o))
      /\ After(o) \in Seq(Observers) /\ IsInjective(After(o))
      /\ \A e : /\ Contains(Before(o), e) => Contains(observers, e) /\ e # o
                /\ Contains(After(o), e) => Contains(observers, e) /\ e # o
                /\ ~(Contains(Before(o), e) /\ Contains(After(o), e))
  BY Searched
<1>2. <<o>> \in Seq(Observers) /\ IsInjective(<<o>>) /\ \A e : Contains(<<o>>, e) <=> e = o
  BY <1>1 DEF IsInjective, Contains
<1>3. /\ front \in Seq(Observers) /\ IsInjective(front)
      /\ \A e : Contains(front, e) <=> Contains(Before(o), e) \/ e = o
  BY <1>1, <1>2, Joined
<1> HIDE DEF front
<1>4. /\ front \o After(o) \in Seq(Observers) /\ IsInjective(front \o After(o))
      /\ \A e : Contains(front \o After(o), e) <=> Contains(front, e) \/ Contains(After(o), e)
  BY <1>1, <1>3, Joined
<1> QED
  BY <1>1, <1>3, <1>4 DEF front

\* What joins and leaves: the list names nobody twice and, except the observer that
\* is added, nobody who was not there.
LEMMA ListAfter ==
    ASSUME observers \in Seq(Observers), IsInjective(observers), NEW t \in Threads,
           NEW o \in Observers, AddObserver(t, o) \/ RemoveObserver(t, o)
    PROVE  /\ observers' \in Seq(Observers) /\ IsInjective(observers')
           /\ \A e : Contains(observers', e) =>
                  Contains(observers, e) \/ (AddObserver(t, o) /\ e = o /\ told' = [told EXCEPT ![o] = value])
<1> DEFINE live == Live(observers)
<1>1. /\ live \in Seq(Observers) /\ IsInjective(live)
      /\ \A e : Contains(live, e) => Contains(observers, e)
  BY Pruned
<1>2. CASE AddObserver(t, o)
  <2>1. CASE Contains(observers, o) /\ observers' = Before(o) \o <<o>> \o After(o)
    BY <2>1, KnownStays
  <2>2. CASE /\ ~Contains(observers, o) /\ observers' = Append(live, o)
             /\ told' = [told EXCEPT ![o] = value]
    <3> HIDE DEF live
    <3>1. ~Contains(live, o)
      BY <1>1, <2>2
    <3>2. /\ Append(live, o) \in Seq(Observers) /\ IsInjective(Append(live, o))
          /\ \A e : Contains(Append(live, o), e) <=> Contains(live, e) \/ o = e
      BY <1>1, <3>1, Added
    <3> QED
      BY <1>1, <1>2, <2>2, <3>2, Zenon
  <2> QED
    BY <1>2, <2>1, <2>2 DEF AddObserver
<1>3. CASE RemoveObserver(t, o)
  <2>1. CASE Contains(observers, o)
    <3>1. observers' = Before(o) \o After(o)
      BY <1>3, <2>1 DEF RemoveObserver
    <3>2. /\ Before(o) \in Seq(Observers) /\ IsInjective(Before(o))
          /\ After(o) \in Seq(Observers) /\ IsInjective(After(o))
          /\ \A e : /\ Contains(Before(o), e) => Contains(observers, e)
                    /\ Contains(After(o), e) => Contains(observers, e)
                    /\ ~(Contains(Before(o), e) /\ Contains(After(o), e))
      BY <2>1, Searched
    <3>3. /\ Before(o) \o After(o) \in Seq(Observers) /\ IsInjective(Before(o) \o After(o))
          /\ \A e : Contains(Before(o) \o After(o), e) <=> Contains(Before(o), e) \/ Contains(After(o), e)
      BY <3>2, Joined
    <3> QED
      BY <3>1, <3>2, <3>3, Zenon
  <2>2. CASE ~Contains(observers, o)
    BY <1>1, <1>3, <2>2 DEF RemoveObserver
  <2> QED
    BY <2>1, <2>2
<1> QED
  BY <1>2, <1>3

\* Every step keeps it.
LEMMA OnceStep == Once /\ [Next]_vars => Once'
<1> SUFFICES ASSUME Types, Calling, CalledOnce, [Next]_vars PROVE Once'
  BY DEF Once
<1> USE DEF Once
<1>1. ASSUME NEW o \in Observers, NEW t \in Threads, AddObserver(t, o) \/ RemoveObserver(t, o)
      PROVE  Once'
  <2>1. observers' \in Seq(Observers) /\ IsInjective(observers')
    BY <1>1, ListAfter DEF Types, CalledOnce
  <2>2. UNCHANGED <<pc, otbn, spo, found, read, owned>> /\ DOMAIN told' = DOMAIN told
    BY <1>1 DEF AddObserver, RemoveObserver, locals
  <2> QED
    BY <2>1, <2>2 DEF Types, Calling, CalledOnce
<1>2. ASSUME NEW o \in Observers, Drop(o) PROVE Once'
  BY <1>2 DEF Drop, locals, Types, Calling, CalledOnce
<1>3. ASSUME NEW t \in Threads, NEW v \in Values, SetStart(t, v) PROVE Once'
  <2>1. spo[t] = NoObserver /\ ~Contains(observers, NoObserver)
    BY <1>3, NobodyListed DEF SetStart, Types, Calling
  <2> QED
    BY <1>3, <2>1 DEF SetStart, Types, Calling, CalledOnce
<1>4. ASSUME NEW t \in Threads, Skip(t) \/ Take(t) PROVE Once'
  <2>1. otbn[t] \in Seq(Observers) /\ otbn[t] # <<>>
    BY <1>4 DEF Skip, Take, Types
  <2>2. /\ Head(otbn[t]) \in Observers /\ Tail(otbn[t]) \in Seq(Observers)
        /\ \A e : Contains(Tail(otbn[t]), e) => Contains(otbn[t], e)
        /\ IsInjective(Tail(otbn[t])) /\ ~Contains(Tail(otbn[t]), Head(otbn[t]))
    BY <2>1, Rest DEF CalledOnce
  <2>3. otbn' = [otbn EXCEPT ![t] = Tail(otbn[t])] /\ UNCHANGED <<observers, owned, read, told>>
        /\ DOMAIN found' = Threads
    BY <1>4 DEF Skip, Take, Types
  <2>4. CASE Skip(t)
    BY <2>2, <2>3, <2>4 DEF Skip, Types, Calling, CalledOnce
  <2>5. CASE Take(t)
    <3>1. Head(otbn[t]) # NoObserver
      BY <2>2, ObserversAssumption
    <3>2. pc' = [pc EXCEPT ![t] = "call"] /\ spo' = [spo EXCEPT ![t] = Head(otbn[t])] /\ pc[t] = "walk"
      BY <2>5 DEF Take
    <3>3. Types' /\ Calling'
      BY <2>2, <2>3, <3>1, <3>2 DEF Types, Calling
    <3>4. CalledOnce'
      BY <2>2, <2>3, <3>2 DEF Types, CalledOnce
    <3> QED
      BY <3>3, <3>4
  <2> QED
    BY <1>4, <2>4, <2>5
<1>5. ASSUME NEW t \in Threads, Read(t) PROVE Once'
  BY <1>5 DEF Read, Types, Calling, CalledOnce
<1>6. ASSUME NEW t \in Threads, Note(t) PROVE Once'
  <2>1. ~Contains(otbn[t], NoObserver)
    BY NobodyListed DEF Types
  <2> QED
    BY <1>6, <2>1 DEF Note, Types, Calling, CalledOnce
<1>7. ASSUME NEW t \in Threads, Throw(t) PROVE Once'
  <2>1. <<>> \in Seq(Observers) /\ IsInjective(<<>>) /\ \A o : ~Contains(<<>>, o)
    BY EmptySeq DEF IsInjective, Contains
  <2> QED
    BY <1>7, <2>1 DEF Throw, Types, Calling, CalledOnce
<1>8. ASSUME NEW t \in Threads, SetEnd(t) PROVE Once'
  <2>1. observers' = observers \/ observers' = Live(observers)
    BY <1>8 DEF SetEnd
  <2>2. observers' \in Seq(Observers) /\ IsInjective(observers')
    BY <2>1, Pruned DEF Types, CalledOnce
  <2>3. spo[t] = NoObserver
    BY <1>8 DEF SetEnd, Types, Calling
  <2> QED
    BY <1>8, <2>2, <2>3 DEF SetEnd, Types, Calling, CalledOnce
<1>9. CASE UNCHANGED vars
  BY <1>9 DEF vars, locals, Types, Calling, CalledOnce
<1> QED
  BY <1>1, <1>2, <1>3, <1>4, <1>5, <1>6, <1>7, <1>8, <1>9 DEF Next, Notifying

\* No observer would be called twice for one change, whatever is added, removed
\* and let go of while observers are called.
THEOREM NobodyTwice == Spec => []CalledOnce
<1>1. Once => CalledOnce
  BY DEF Once
<1> QED
  BY <1>1, OnceStart, OnceStep, PTL DEF Spec

-----------------------------------------------------------------------------
\* An observer knows the value, or will be told.
Served(o) == told[o] = value \/ \E t \in Threads : spo[t] = o \/ Contains(otbn[t], o)

\* A call that is about to be noted has read the value that is set.
Fresh == FreshOrDue /\ \A t \in Threads : pc[t] = "note" => read[t] = value

\* It is so in the beginning.
LEMMA FreshStart == Init => Fresh
  BY DEF Init, Fresh, FreshOrDue, Contains

\* Every step keeps it when only one thread sets the value.
LEMMA FreshStep ==
    ASSUME \A s, u \in Setters : s = u, Once, Fresh, [Next]_vars
    PROVE  Fresh'
<1> USE DEF Once
<1>0. ~broken => \A o \in Observers : Contains(observers, o) /\ Alive(o) => Served(o)
  BY DEF Fresh, FreshOrDue, Served
<1>1. ASSUME NEW o \in Observers, NEW t \in Threads, AddObserver(t, o) \/ RemoveObserver(t, o)
      PROVE  Fresh'
  <2>1. UNCHANGED <<value, owned, pc, otbn, spo, read, broken>>
    BY <1>1 DEF AddObserver, RemoveObserver, locals
  <2>2. \A e : Contains(observers', e) =>
            Contains(observers, e) \/ (AddObserver(t, o) /\ e = o /\ told' = [told EXCEPT ![o] = value])
    BY <1>1, ListAfter DEF Types, CalledOnce
  <2>3. told' = told \/ told' = [told EXCEPT ![o] = value]
    BY <1>1 DEF AddObserver, RemoveObserver
  <2>4. ASSUME NEW e \in Observers, ~broken, Contains(observers', e), Alive(e) PROVE Served(e)'
    <3>1. CASE Contains(observers, e)
      BY <1>0, <2>1, <2>3, <2>4, <3>1 DEF Types, Served
    <3>2. CASE e = o /\ told' = [told EXCEPT ![o] = value]
      BY <2>1, <3>2 DEF Types, Served
    <3> QED
      BY <2>2, <2>4, <3>1, <3>2
  <2> QED
    BY <2>1, <2>4 DEF Fresh, FreshOrDue, Served, Alive
<1>2. ASSUME NEW o \in Observers, Drop(o) PROVE Fresh'
  <2>1. UNCHANGED <<value, observers, pc, otbn, spo, read, told, broken>> /\ owned' \subseteq owned
    BY <1>2 DEF Drop, locals
  <2> QED
    BY <2>1 DEF Fresh, FreshOrDue, Alive
<1>3. ASSUME NEW t \in Threads, NEW v \in Values, SetStart(t, v) PROVE Fresh'
  <2>1. \A o : Contains(observers, o) => Contains(otbn'[t], o)
    BY <1>3 DEF SetStart, Types
  <2>2. \A u \in Threads : pc'[u] # "note"
    BY <1>3 DEF SetStart, Types, Calling
  <2>3. UNCHANGED observers
    BY <1>3 DEF SetStart
  <2> QED
    BY <2>1, <2>2, <2>3 DEF Fresh, FreshOrDue
<1>4. ASSUME NEW t \in Threads, Skip(t) \/ Take(t) PROVE Fresh'
  <2>1. otbn[t] \in Seq(Observers) /\ otbn[t] # <<>>
    BY <1>4 DEF Skip, Take, Types
  <2>2. \A e : Contains(otbn[t], e) <=> Head(otbn[t]) = e \/ Contains(Tail(otbn[t]), e)
    BY <2>1, Rest
  <2>3. /\ otbn' = [otbn EXCEPT ![t] = Tail(otbn[t])]
        /\ UNCHANGED <<value, observers, owned, read, told, broken>>
    BY <1>4 DEF Skip, Take
  <2>4. \A u \in Threads : pc'[u] = "note" => pc[u] = "note"
    BY <1>4 DEF Skip, Take, Types
  <2>5. \A u \in Threads : u # t => spo'[u] = spo[u]
    BY <1>4 DEF Skip, Take, Types
  <2>6. \/ spo' = spo /\ ~Alive(Head(otbn[t]))
        \/ spo'[t] = Head(otbn[t]) /\ Alive(Head(otbn[t])) /\ spo[t] = NoObserver
    BY <1>4 DEF Skip, Take, Types, Calling
  <2>7. \A o \in Observers : Alive(o)' => Alive(o)
    BY <2>3, <2>5, <2>6 DEF Alive
  <2>8. ASSUME NEW o \in Observers, Served(o), Alive(o) PROVE Served(o)'
    <3>1. CASE told[o] = value
      BY <2>3, <3>1 DEF Served
    <3>2. ASSUME NEW u \in Threads, spo[u] = o PROVE spo'[u] = o
      BY <2>5, <2>6, <3>2, ObserversAssumption
    <3>3. ASSUME NEW u \in Threads, Contains(otbn[u], o) PROVE spo'[u] = o \/ Contains(otbn'[u], o)
      <4>1. CASE u # t
        BY <2>3, <3>3, <4>1 DEF Types
      <4>2. CASE u = t
        <5>1. otbn'[t] = Tail(otbn[t])
          BY <2>3 DEF Types
        <5> QED
          BY <2>2, <2>6, <2>8, <3>3, <4>2, <5>1
      <4> QED
        BY <4>1, <4>2
    <3> QED
      BY <2>8, <3>1, <3>2, <3>3 DEF Served
  <2>9. ~broken => \A o \in Observers : Contains(observers, o) /\ Alive(o)' => Served(o)'
    BY <1>0, <2>7, <2>8
  <2> QED
    BY <2>3, <2>4, <2>9 DEF Fresh, FreshOrDue, Served
<1>5. ASSUME NEW t \in Threads, Read(t) PROVE Fresh'
  <2>1. UNCHANGED <<value, observers, owned, otbn, spo, told, broken>>
    BY <1>5 DEF Read
  <2>2. FreshOrDue'
    BY <2>1 DEF Fresh, FreshOrDue, Alive
  <2> QED
    BY <1>5, <2>2 DEF Read, Fresh, Types
<1>6. ASSUME NEW t \in Threads, Note(t) PROVE Fresh'
  <2>1. /\ UNCHANGED <<value, observers, owned, otbn, read, broken>> /\ spo[t] \in Observers
        /\ told' = [told EXCEPT ![spo[t]] = value] /\ spo' = [spo EXCEPT ![t] = NoObserver]
        /\ \A u \in Threads : pc'[u] = "note" => pc[u] = "note"
    BY <1>6 DEF Note, Fresh, Types, Calling
  <2>2. \A o \in Observers : Alive(o)' => Alive(o)
    BY <2>1, ObserversAssumption DEF Alive, Types
  <2>3. ASSUME NEW o \in Observers, Served(o) PROVE Served(o)'
    <3>1. CASE o = spo[t]
      BY <2>1, <3>1 DEF Served, Types
    <3>2. CASE o # spo[t]
      BY <2>1, <2>3, <3>2 DEF Served, Types
    <3> QED
      BY <3>1, <3>2
  <2>4. FreshOrDue'
    BY <1>0, <2>1, <2>2, <2>3 DEF FreshOrDue, Served
  <2> QED
    BY <2>1, <2>4 DEF Fresh
<1>7. ASSUME NEW t \in Threads, Throw(t) PROVE Fresh'
  BY <1>7 DEF Throw, Fresh, FreshOrDue, Types
<1>8. ASSUME NEW t \in Threads, SetEnd(t) PROVE Fresh'
  <2>1. /\ UNCHANGED <<value, owned, otbn, spo, read, told, broken>>
        /\ \A u \in Threads : pc'[u] = "note" => pc[u] = "note"
    BY <1>8 DEF SetEnd, Types
  <2>2. \A o : Contains(observers', o) => Contains(observers, o)
    <3>1. \A o : Contains(Live(observers), o) => Contains(observers, o)
      BY Pruned DEF Types
    <3> QED
      BY <1>8, <3>1 DEF SetEnd
  <2> QED
    BY <2>1, <2>2 DEF Fresh, FreshOrDue, Alive
<1>9. CASE UNCHANGED vars
  BY <1>9 DEF vars, locals, Fresh, FreshOrDue, Alive
<1> QED
  BY <1>1, <1>2, <1>3, <1>4, <1>5, <1>6, <1>7, <1>8, <1>9 DEF Next, Notifying

\* With one thread that sets the value no change is lost on an observer that is
\* registered and alive, unless an observer throws.  With two of them one may be.
THEOREM NoChangeLost ==
    ASSUME \A s, u \in Setters : s = u
    PROVE  Spec => []FreshOrDue
<1>1. Once /\ Fresh /\ [Next]_vars => Fresh'
  BY FreshStep
<1>2. Fresh => FreshOrDue
  BY DEF Fresh
<1> QED
  BY <1>1, <1>2, OnceStart, OnceStep, FreshStart, PTL DEF Spec
=============================================================================

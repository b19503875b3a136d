----------------------------- MODULE ListProofs -----------------------------
(***************************************************************************)
(* Induction over numbers, for what the recursive functions of the other   *)
(* modules compute.  The theorems of the library take the predicate to be  *)
(* proved as an operator; here it is the set of the numbers that have it.  *)
(***************************************************************************)
EXTENDS Lists, SequencesExt, FiniteSetTheorems, SequenceTheorems,
        WellFoundedInduction, TLAPS

(* A set of natural numbers has a least one.                               *)
LEMMA LeastNumber ==
  ASSUME NEW T, T \subseteq Nat, T # {}
  PROVE  \E n \in T : \A m \in T : n <= m
<1>1. PICK n \in T : \A m \in T : ~(<<m, n>> \in OpToRel(<, Nat))
  BY NatLessThanWellFounded, WFMin
<1>2. ASSUME NEW m \in T PROVE n <= m
  <2>1. SUFFICES ASSUME m < n PROVE FALSE
    OBVIOUS
  <2>2. <<m, n>> \in OpToRel(<, Nat)
    BY <2>1 DEF OpToRel
  <2> QED BY <2>2, <1>1
<1> QED BY <1>2

(* A set that has 0, and with a number the next one, up to n.              *)
LEMMA InductionTo ==
  ASSUME NEW n \in Nat, NEW T, 0 \in T,
         \A i \in 1..n : i - 1 \in T => i \in T
  PROVE  \A i \in 0..n : i \in T
<1>1. SUFFICES ASSUME NEW k \in 0..n, k \notin T PROVE FALSE
  OBVIOUS
<1> DEFINE Others == {i \in Nat : i \in 0..n /\ i \notin T}
<1>2. k \in Others
  BY <1>1
<1>3. \E i \in Others : \A j \in Others : i <= j
  <2> HIDE DEF Others
  <2>1. Others \subseteq Nat /\ Others # {}
    BY <1>2 DEF Others
  <2> QED BY <2>1, LeastNumber
<1>4. PICK i \in Others : \A j \in Others : i <= j
  BY <1>3
<1>5. CASE i = 0
  BY <1>5, <1>4
<1>6. CASE i # 0
  <2>1. i \in 1..n /\ i - 1 \in Nat /\ i - 1 \in 0..n
    BY <1>6, <1>4
  <2>2. i - 1 \in T
    BY <2>1, <1>4
  <2> QED BY <2>1, <2>2, <1>4
<1> QED BY <1>5, <1>6

(* f starts with first and takes the step Step[x, i] from its value x at   *)
(* i - 1, up to n.                                                         *)
Iterates(f, S, first, n, Step) ==
  /\ f \in [0..n -> S]
  /\ f[0] = first
  /\ \A i \in 1..n : f[i] = Step[<<f[i - 1], i>>]

(* There is such a function, so that one defined by these equations has    *)
(* them.                                                                   *)
LEMMA RecursionTo ==
  ASSUME NEW S, NEW first \in S, NEW n \in Nat, NEW Step \in [S \X (1..n) -> S]
  PROVE  \E f : Iterates(f, S, first, n, Step)
<1> DEFINE Starts(f, k) == Iterates(f, S, first, k, Step)
           T == {k \in 0..n : \E f : Starts(f, k)}
<1>1. 0 \in T
  <2> DEFINE f == [i \in 0..0 |-> first]
  <2>1. Starts(f, 0)
    BY DEF Iterates
  <2> HIDE DEF f
  <2> QED BY <2>1
<1>2. ASSUME NEW k \in 1..n, k - 1 \in T PROVE k \in T
  <2>1. PICK f : Starts(f, k - 1)
    BY <1>2
  <2> DEFINE next == Step[<<f[k - 1], k>>]
             g == [i \in 0..k |-> IF i = k THEN next ELSE f[i]]
  <2>2. f[k - 1] \in S
    BY <2>1 DEF Iterates
  <2>3. next \in S
    BY <2>2
  <2> HIDE DEF next
  <2>4. g \in [0..k -> S]
    BY <2>1, <2>3 DEF Iterates
  <2>5. g[0] = first
    BY <2>1 DEF Iterates
  <2>6. ASSUME NEW i \in 1..k PROVE g[i] = Step[<<g[i - 1], i>>]
    <3>1. CASE i = k
      <4>1. k - 1 \in 0..k /\ k - 1 # k /\ k \in 0..k
        OBVIOUS
      <4>2. g[k] = next /\ g[k - 1] = f[k - 1]
        BY <4>1
      <4> HIDE DEF g
      <4> QED BY <3>1, <4>2 DEF next
    <3>2. CASE i # k
      <4>1. i \in 1..(k - 1) /\ i - 1 \in 0..k /\ i - 1 # k
        BY <3>2
      <4>2. g[i] = f[i] /\ g[i - 1] = f[i - 1]
        BY <4>1
      <4> QED BY <4>1, <4>2, <2>1 DEF Iterates
    <3> QED BY <3>1, <3>2
  <2> HIDE DEF g
  <2>7. Starts(g, k)
    BY <2>4, <2>5, <2>6 DEF Iterates
  <2> QED BY <2>7
<1>3. n \in T
  <2> HIDE DEF T
  <2>1. \A i \in 0..n : i \in T
    BY <1>1, <1>2, InductionTo
  <2> QED BY <2>1
<1>4. PICK f : Starts(f, n)
  BY <1>3
<1> QED BY <1>4

-----------------------------------------------------------------------------
(* f[n] is what is kept of the first n elements.                           *)
KeepsTo(f, S, s, T) ==
  /\ f \in [0..Len(s) -> Seq(S)]
  /\ f[0] = <<>>
  /\ \A n \in 1..Len(s) :
       f[n] = IF s[n] \in T THEN Append(f[n - 1], s[n]) ELSE f[n - 1]

(* Kept goes through the list step by step.                                *)
LEMMA KeptSteps ==
  ASSUME NEW S, NEW s \in Seq(S), NEW T
  PROVE  \E f : KeepsTo(f, S, s, T) /\ Kept(s, T) = f[Len(s)]
<1> DEFINE first == <<>>
           SeqS == Seq(S)
           N == Len(s)
           Step == [p \in SeqS \X (1..N) |->
                      IF s[p[2]] \in T THEN Append(p[1], s[p[2]]) ELSE p[1]]
           IsKept(g) == g = [n \in 0..Len(s) |->
                               IF n = 0 THEN <<>>
                               ELSE IF s[n] \in T THEN Append(g[n - 1], s[n]) ELSE g[n - 1]]
           kept == CHOOSE g : IsKept(g)
<1>1. N \in Nat /\ first \in SeqS
  OBVIOUS
<1>2. Step \in [SeqS \X (1..N) -> SeqS]
  OBVIOUS
<1> HIDE DEF Step, first, SeqS, N
<1>3. PICK f : Iterates(f, SeqS, first, N, Step)
  BY <1>1, <1>2, RecursionTo
<1> USE DEF Step, first, SeqS, N, Iterates
<1>4. ASSUME NEW n \in 1..N
      PROVE  f[n] = IF s[n] \in T THEN Append(f[n - 1], s[n]) ELSE f[n - 1]
  <2>1. f[n - 1] \in SeqS
    BY <1>3
  <2> QED BY <2>1, <1>3
<1>5. \A n \in 0..N : n # 0 => n \in 1..N
  BY <1>1
<1>6. IsKept(f)
  <2>1. ASSUME NEW n \in 0..N
        PROVE  f[n] = IF n = 0 THEN <<>>
                      ELSE IF s[n] \in T THEN Append(f[n - 1], s[n]) ELSE f[n - 1]
    BY <1>3, <1>4, <1>5
  <2> QED BY <2>1, <1>3, Zenon
<1>7. IsKept(kept)
  <2> HIDE DEF IsKept
  <2> QED BY <1>6
<1>8. Kept(s, T) = kept[N]
  BY DEF Kept
<1> HIDE DEF kept
<1>9. \A n \in 0..N : kept[n] = IF n = 0 THEN <<>>
                                 ELSE IF s[n] \in T THEN Append(kept[n - 1], s[n])
                                 ELSE kept[n - 1]
  BY <1>7
<1> DEFINE Same == {n \in 0..N : kept[n] = f[n]}
<1>10. \A n \in 0..N : n \in Same
  <2>1. 0 \in Same
    BY <1>1, <1>3, <1>9
  <2>2. ASSUME NEW n \in 1..N, n - 1 \in Same PROVE n \in Same
    <3>1. n \in 0..N /\ n # 0 /\ kept[n - 1] = f[n - 1]
      BY <1>1, <2>2
    <3> QED BY <3>1, <1>4, <1>9
  <2> HIDE DEF Same, N
  <2> QED BY <1>1, <2>1, <2>2, InductionTo
<1>11. Kept(s, T) = f[N]
  BY <1>1, <1>8, <1>10
<1>12. KeepsTo(f, S, s, T)
  BY <1>3, <1>4 DEF KeepsTo
<1> QED BY <1>11, <1>12

(* m says where the elements of the list t stand in s, and that these are  *)
(* all that are in T up to the n-th.                                       *)
PicksTo(m, t, s, T, n) ==
  /\ m \in [1..Len(t) -> 1..n]
  /\ \A i, j \in 1..Len(t) : i < j => m[i] < m[j]
  /\ \A j \in 1..Len(t) : t[j] = s[m[j]] /\ s[m[j]] \in T
  /\ \A i \in 1..n : s[i] \in T => \E j \in 1..Len(t) : m[j] = i

(* Kept takes what is in T, all of it, each element once and in order.     *)
LEMMA KeptPicks ==
  ASSUME NEW S, NEW s \in Seq(S), NEW T
  PROVE  Kept(s, T) \in Seq(S) /\ \E m : PicksTo(m, Kept(s, T), s, T, Len(s))
<1> DEFINE N == Len(s)
<1>0. PICK f : KeepsTo(f, S, s, T) /\ Kept(s, T) = f[N]
  BY KeptSteps
<1>1. /\ f \in [0..N -> Seq(S)]
      /\ f[0] = <<>>
      /\ \A n \in 1..N :
           f[n] = IF s[n] \in T THEN Append(f[n - 1], s[n]) ELSE f[n - 1]
      /\ Kept(s, T) = f[N]
  BY <1>0 DEF KeepsTo
<1>2. N \in Nat
  OBVIOUS
<1> DEFINE Good == {n \in 0..N : \E m : PicksTo(m, f[n], s, T, n)}
<1>3. 0 \in Good
  <2> DEFINE m == [i \in {} |-> i]
  <2>1. PicksTo(m, f[0], s, T, 0)
    BY <1>1 DEF PicksTo
  <2> HIDE DEF m
  <2> QED BY <2>1, <1>2
<1>4. ASSUME NEW n \in 1..N, n - 1 \in Good PROVE n \in Good
  <2>1. PICK m : PicksTo(m, f[n - 1], s, T, n - 1)
    BY <1>4
  <2> DEFINE t == f[n - 1]
             L == Len(t)
  <2>2. t \in Seq(S) /\ L \in Nat /\ n - 1 \in Nat /\ n \in Nat /\ s[n] \in S
    BY <1>1, <1>2
  <2>3. CASE s[n] \in T
    <3> DEFINE u == Append(t, s[n])
               w == [j \in 1..(L + 1) |-> IF j = L + 1 THEN n ELSE m[j]]
    <3>1. f[n] = u
      BY <2>3, <1>1
    <3>2. Len(u) = L + 1 /\ u[L + 1] = s[n] /\ \A j \in 1..L : u[j] = t[j]
      BY <2>2
    <3>3. \A j \in 1..L : m[j] \in 1..(n - 1)
      BY <2>1 DEF PicksTo
    <3> HIDE DEF L, u
    <3>4. w \in [1..(L + 1) -> 1..n]
      BY <2>2, <3>3
    <3>5. \A i, j \in 1..(L + 1) : i < j => w[i] < w[j]
      <4>1. \A i, j \in 1..L : i < j => m[i] < m[j]
        BY <2>1 DEF PicksTo, L
      <4>2. SUFFICES ASSUME NEW i \in 1..(L + 1), NEW j \in 1..(L + 1), i < j
                     PROVE  w[i] < w[j]
        OBVIOUS
      <4>3. i \in 1..L /\ i # L + 1
        BY <4>2, <2>2
      <4> QED BY <4>1, <4>2, <4>3, <2>2, <3>3
    <3>6. \A j \in 1..(L + 1) : u[j] = s[w[j]] /\ s[w[j]] \in T
      <4>1. \A j \in 1..L : t[j] = s[m[j]] /\ s[m[j]] \in T
        BY <2>1 DEF PicksTo, L
      <4> QED BY <4>1, <2>2, <2>3, <3>2
    <3>7. ASSUME NEW i \in 1..n, s[i] \in T
          PROVE  \E j \in 1..(L + 1) : w[j] = i
      <4>1. CASE i = n
        BY <4>1, <2>2
      <4>2. CASE i # n
        <5>1. i \in 1..(n - 1)
          BY <4>2, <2>2
        <5>2. PICK j \in 1..L : m[j] = i
          BY <5>1, <3>7, <2>1 DEF PicksTo, L
        <5>3. j \in 1..(L + 1) /\ j # L + 1
          BY <5>2, <2>2
        <5> QED BY <5>2, <5>3
      <4> QED BY <4>1, <4>2
    <3> HIDE DEF w
    <3>8. PicksTo(w, u, s, T, n)
      BY <3>2, <3>4, <3>5, <3>6, <3>7 DEF PicksTo
    <3> QED BY <3>1, <3>8
  <2>4. CASE s[n] \notin T
    <3>1. f[n] = t
      BY <2>4, <1>1
    <3>2. PicksTo(m, t, s, T, n)
      <4>1. \A i \in 1..n : s[i] \in T => i \in 1..(n - 1)
        BY <2>2, <2>4
      <4>2. \A i \in 1..(n - 1) : i \in 1..n
        BY <2>2
      <4> HIDE DEF t
      <4> QED BY <2>1, <4>1, <4>2 DEF PicksTo, t
    <3> QED BY <3>1, <3>2
  <2> QED BY <2>3, <2>4
<1>5. \A n \in 0..N : n \in Good
  <2> HIDE DEF Good, N
  <2> QED BY <1>2, <1>3, <1>4, InductionTo
<1>6. N \in Good /\ f[N] \in Seq(S)
  BY <1>1, <1>2, <1>5
<1> QED BY <1>1, <1>6

(* The list of what is kept is no longer than the list, and has as many    *)
(* elements as there are places to keep.                                   *)
LEMMA KeptLength ==
  ASSUME NEW S, NEW s \in Seq(S), NEW T
  PROVE  /\ Len(Kept(s, T)) = Cardinality({i \in 1..Len(s) : s[i] \in T})
         /\ Len(Kept(s, T)) <= Len(s)
<1> DEFINE t == Kept(s, T)
           Places == {i \in 1..Len(s) : s[i] \in T}
<1>1. PICK m : PicksTo(m, t, s, T, Len(s))
  BY KeptPicks
<1>2. t \in Seq(S) /\ Len(t) \in Nat /\ Len(s) \in Nat
  <2>1. t \in Seq(S)
    BY KeptPicks
  <2> HIDE DEF t
  <2> QED BY <2>1
<1> HIDE DEF t
<1>3. m \in Bijection(1..Len(t), Places)
  <2>1. \A i, j \in 1..Len(t) : m[i] = m[j] => i = j
    BY <1>1, <1>2 DEF PicksTo
  <2>2. m \in [1..Len(t) -> Places]
    BY <1>1 DEF PicksTo
  <2>3. \A i \in Places : \E j \in 1..Len(t) : m[j] = i
    BY <1>1 DEF PicksTo
  <2> QED BY <2>1, <2>2, <2>3 DEF Bijection, Injection, Surjection, IsInjective
<1> HIDE DEF Places
<1>4. ASSUME NEW n \in Nat PROVE IsFiniteSet(1..n) /\ Cardinality(1..n) = n
  <2>1. 1 \in Int /\ n \in Int
    OBVIOUS
  <2>2. /\ IsFiniteSet(1..n)
        /\ Cardinality(1..n) = IF 1 > n THEN 0 ELSE n - 1 + 1
    BY <2>1, FS_Interval
  <2> QED BY <2>2
<1>5. Cardinality(Places) = Len(t)
  <2>1. ExistsBijection(1..Len(t), Places)
    BY <1>3 DEF ExistsBijection
  <2> QED BY <2>1, <1>2, <1>4, FS_Bijection
<1>6. Cardinality(Places) <= Len(s)
  <2>1. Places \in SUBSET (1..Len(s))
    BY DEF Places
  <2>2. IsFiniteSet(1..Len(s)) /\ Cardinality(1..Len(s)) = Len(s)
    BY <1>2, <1>4
  <2>3. Cardinality(Places) <= Cardinality(1..Len(s))
    BY <2>1, <2>2, FS_Subset
  <2> QED BY <2>2, <2>3
<1> QED BY <1>5, <1>6 DEF t, Places

-----------------------------------------------------------------------------
(* Where the elements of two lists, one behind the other, come from.       *)
Joins(u, s, t) ==
  /\ Len(s) \in Nat /\ Len(t) \in Nat /\ Len(u) = Len(s) + Len(t)
  /\ \A i \in 1..Len(s) : u[i] = s[i]
  /\ \A i \in 1..Len(t) : u[Len(s) + i] = t[i]
  /\ \A i \in 1..Len(u) : i \in 1..Len(s) \/ i - Len(s) \in 1..Len(t)
  /\ \A i \in 1..Len(u) : i - Len(s) \in 1..Len(t) => u[i] = t[i - Len(s)]

LEMMA ConcatElements ==
  ASSUME NEW S, NEW s \in Seq(S), NEW t \in Seq(S)
  PROVE  s \o t \in Seq(S) /\ Joins(s \o t, s, t)
<1> DEFINE u == s \o t
<1>1. Len(s) \in Nat /\ Len(t) \in Nat
  OBVIOUS
<1>2. /\ u \in Seq(S) /\ Len(u) = Len(s) + Len(t)
      /\ \A i \in 1..(Len(s) + Len(t)) :
           u[i] = IF i <= Len(s) THEN s[i] ELSE t[i - Len(s)]
  BY ConcatProperties
<1> HIDE DEF u
<1>3. \A i \in 1..Len(s) : u[i] = s[i]
  <2>1. \A i \in 1..Len(s) : i \in 1..(Len(s) + Len(t)) /\ i <= Len(s)
    BY <1>1
  <2> QED BY <2>1, <1>2
<1>4. ASSUME NEW i \in 1..Len(t) PROVE u[Len(s) + i] = t[i]
  <2> DEFINE k == Len(s) + i
  <2>1. k \in 1..(Len(s) + Len(t)) /\ ~(k <= Len(s)) /\ k - Len(s) = i
    BY <1>1
  <2> HIDE DEF k
  <2>2. u[k] = t[i]
    BY <2>1, <1>2
  <2> QED BY <2>2 DEF k
<1>5. \A i \in 1..Len(u) : i \in 1..Len(s) \/ i - Len(s) \in 1..Len(t)
  BY <1>1, <1>2
<1>6. \A i \in 1..Len(u) : i - Len(s) \in 1..Len(t) => u[i] = t[i - Len(s)]
  <2>1. \A i \in 1..Len(u) : i - Len(s) \in 1..Len(t) =>
          i \in 1..(Len(s) + Len(t)) /\ ~(i <= Len(s))
    BY <1>1, <1>2
  <2> QED BY <2>1, <1>2
<1> QED BY <1>1, <1>2, <1>3, <1>4, <1>5, <1>6 DEF u, Joins

(* The list without its first element.                                     *)
LEMMA TailElements ==
  ASSUME NEW S, NEW s \in Seq(S), s # <<>>
  PROVE  /\ Head(s) \in S /\ Head(s) = s[1] /\ Tail(s) \in Seq(S)
         /\ Len(s) \in Nat /\ Len(s) >= 1 /\ Len(Tail(s)) = Len(s) - 1
         /\ \A i \in 1..(Len(s) - 1) : Tail(s)[i] = s[i + 1]
  OBVIOUS

(* RemoveAt leaves the elements before p in their places and moves those   *)
(* after it one place forwards.                                            *)
LEMMA RemoveAtElements ==
  ASSUME NEW S, NEW s \in Seq(S), NEW p \in 1..Len(s)
  PROVE  /\ RemoveAt(s, p) \in Seq(S)
         /\ Len(RemoveAt(s, p)) = Len(s) - 1
         /\ \A i \in 1..(p - 1) : RemoveAt(s, p)[i] = s[i]
         /\ \A i \in p..(Len(s) - 1) : RemoveAt(s, p)[i] = s[i + 1]
<1> DEFINE before == SubSeq(s, 1, p - 1)
           after == SubSeq(s, p + 1, Len(s))
           N == Len(s)
<1>1. N \in Nat /\ p \in Int /\ p >= 1 /\ p <= N /\ \A i \in 1..N : s[i] \in S
  OBVIOUS
<1>2. RemoveAt(s, p) = before \o after
  BY DEF RemoveAt
<1>3. /\ before \in Seq(S) /\ Len(before) = p - 1
      /\ \A i \in 1..(p - 1) : before[i] = s[i]
  BY <1>1
<1>4. /\ after \in Seq(S) /\ Len(after) = N - p
      /\ \A i \in 1..(N - p) : after[i] = s[p + 1 + i - 1]
  BY <1>1
<1> DEFINE t == before \o after
<1> HIDE DEF before, after
<1>5. /\ t \in Seq(S) /\ Len(t) = Len(before) + Len(after)
      /\ \A i \in 1..(Len(before) + Len(after)) :
           t[i] = IF i <= Len(before) THEN before[i] ELSE after[i - Len(before)]
  BY <1>3, <1>4, ConcatProperties
<1> HIDE DEF t, N
<1>6. \A i \in 1..(p - 1) : t[i] = s[i]
  <2>1. \A i \in 1..(p - 1) : i \in 1..(Len(before) + Len(after)) /\ i <= Len(before)
    BY <1>1, <1>3, <1>4
  <2> QED BY <1>3, <1>5, <2>1
<1>7. \A i \in p..(N - 1) : t[i] = s[i + 1]
  <2>1. SUFFICES ASSUME NEW i \in p..(N - 1) PROVE t[i] = s[i + 1]
    OBVIOUS
  <2>2. /\ i \in 1..(Len(before) + Len(after)) /\ ~(i <= Len(before))
        /\ i - Len(before) \in 1..(N - p) /\ p + 1 + (i - Len(before)) - 1 = i + 1
    BY <1>1, <1>3, <1>4
  <2> QED BY <1>4, <1>5, <2>2
<1> QED BY <1>1, <1>2, <1>3, <1>4, <1>5, <1>6, <1>7 DEF t, N
=============================================================================

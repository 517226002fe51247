--------------------------- MODULE Hierarchy_proofs ---------------------------
(***************************************************************************)
(* Lemmas about hierarchies of every size: what a walk finds, and what the *)
(* calls that edit a hierarchy do to it.                                   *)
(***************************************************************************)
EXTENDS Hierarchy, FiniteSetTheorems, WellFoundedInduction, TLAPS

-----------------------------------------------------------------------------
(* Induction and recursion over the natural numbers, for sets and          *)
(* functions.                                                              *)

\* A set of naturals that is not empty has a least member.
LEMMA LeastMember ==
  ASSUME NEW T \in SUBSET Nat, T # {}
  PROVE  \E x \in T : \A y \in T : x <= y
<1>1. PICK x \in T : \A y \in T : ~ (<<y, x>> \in OpToRel(<, Nat))
  BY NatLessThanWellFounded, WFMin
<1>2. \A y \in T : ~ (y < x)
  BY <1>1 DEF OpToRel
<1> QED BY <1>2

\* A set that has 0 and the successor of every member has every natural.
LEMMA SetInduction ==
  ASSUME NEW S, 0 \in S, \A n \in Nat : n \in S => n + 1 \in S
  PROVE  Nat \subseteq S
<1> DEFINE T == {n \in Nat : n \notin S}
<1>1. SUFFICES ASSUME T # {} PROVE FALSE
  OBVIOUS
<1>2. PICK x \in T : \A y \in T : x <= y
  BY <1>1, LeastMember
<1>3. x # 0 /\ x - 1 \in Nat /\ x - 1 \notin T
  BY <1>2
<1>4. x \in S
  BY <1>3, x = (x - 1) + 1
<1> QED BY <1>4

\* The function f on 0..N starts with a, and the n-th of the steps F makes
\* every other value of the one before it.
Solves(f, V, a, F, N) ==
  /\ f \in [0..N -> V]
  /\ f[0] = a
  /\ \A n \in 1..N : f[n] = F[n][f[n - 1]]

\* A recursion over 0..N has a solution.
LEMMA Recursion ==
  ASSUME NEW V, NEW a \in V, NEW F \in [Nat -> [V -> V]], NEW N \in Nat
  PROVE  \E f : Solves(f, V, a, F, N)
<1> DEFINE S == {m \in Nat : \E f : Solves(f, V, a, F, m)}
<1>1. 0 \in S
  <2>1. Solves([i \in 0..0 |-> a], V, a, F, 0)
    BY DEF Solves
  <2> QED BY <2>1
<1>2. ASSUME NEW m \in Nat, m \in S PROVE m + 1 \in S
  <2>0. PICK f : Solves(f, V, a, F, m)
    BY <1>2
  <2>1. f \in [0..m -> V] /\ f[0] = a /\ \A n \in 1..m : f[n] = F[n][f[n - 1]]
    BY <2>0 DEF Solves
  <2> DEFINE g == [i \in 0..(m + 1) |-> IF i = m + 1 THEN F[m + 1][f[m]] ELSE f[i]]
  <2>2. g \in [0..(m + 1) -> V]
    BY <2>1
  <2>3. g[0] = a
    BY <2>1
  <2>4. ASSUME NEW n \in 1..(m + 1) PROVE g[n] = F[n][g[n - 1]]
    <3>1. CASE n = m + 1
      <4>1. g[n] = F[m + 1][f[m]] /\ g[n - 1] = f[m] /\ n - 1 = m
        BY <3>1
      <4> QED BY <4>1, <3>1
    <3>2. CASE n # m + 1
      <4>1. n \in 1..m /\ n - 1 \in 0..m
        BY <3>2
      <4>2. g[n] = f[n] /\ g[n - 1] = f[n - 1]
        BY <4>1, <3>2
      <4> QED BY <4>1, <4>2, <2>1
    <3> QED BY <3>1, <3>2
  <2> HIDE DEF g
  <2>5. Solves(g, V, a, F, m + 1)
    BY <2>2, <2>3, <2>4 DEF Solves
  <2> QED BY <2>5
<1> HIDE DEF S
<1>3. N \in S
  BY <1>1, <1>2, SetInduction
<1> QED BY <1>3 DEF S

-----------------------------------------------------------------------------
(* Sequences.                                                              *)

LEMMA RangeOfConcatenation ==
  ASSUME NEW T, NEW s \in Seq(T), NEW t \in Seq(T)
  PROVE  Range(s \o t) = Range(s) \cup Range(t)
<1>1. Range(s \o t) = {(s \o t)[i] : i \in 1..(Len(s) + Len(t))}
  BY DEF Range
<1>2. ASSUME NEW i \in 1..Len(s) PROVE s[i] \in Range(s \o t)
  BY <1>1, (s \o t)[i] = s[i]
<1>3. ASSUME NEW i \in 1..Len(t) PROVE t[i] \in Range(s \o t)
  <2>1. (s \o t)[Len(s) + i] = t[i] /\ Len(s) + i \in 1..(Len(s) + Len(t))
    OBVIOUS
  <2> QED BY <2>1, <1>1
<1>4. ASSUME NEW i \in 1..(Len(s) + Len(t))
      PROVE (s \o t)[i] \in Range(s) \cup Range(t)
  <2>1. CASE i <= Len(s)
    BY <2>1, (s \o t)[i] = s[i], i \in 1..Len(s) DEF Range
  <2>2. CASE i > Len(s)
    <3>1. (s \o t)[i] = t[i - Len(s)] /\ i - Len(s) \in 1..Len(t)
      BY <2>2
    <3> QED BY <3>1 DEF Range
  <2> QED BY <2>1, <2>2
<1>5. Range(s) = {s[i] : i \in 1..Len(s)} /\ Range(t) = {t[i] : i \in 1..Len(t)}
  BY DEF Range
<1>6. Range(s) \cup Range(t) \subseteq Range(s \o t)
  BY <1>2, <1>3, <1>5
<1> QED BY <1>1, <1>4, <1>6

\* What FlattenSeq computes on the way: the flattened first i sequences.
LEMMA PrefixesOfFlattened ==
  ASSUME NEW T, NEW ss \in Seq(Seq(T)), Len(ss) # 0
  PROVE  \E w \in [1..Len(ss) -> Seq(T)] :
           /\ w[1] = ss[1]
           /\ \A i \in 2..Len(ss) : w[i] = w[i - 1] \o ss[i]
           /\ FlattenSeq(ss) = w[Len(ss)]
<1> DEFINE Body(w) ==
      [i \in 1..Len(ss) |-> IF i = 1 THEN ss[i] ELSE w[i - 1] \o ss[i]]
    w == CHOOSE u : u = Body(u)
<1>1. FlattenSeq(ss) = w[Len(ss)]
  BY DEF FlattenSeq
<1>2. w = Body(w)
  <2> DEFINE V == Seq(T)
             N == Len(ss) - 1
             a == ss[1]
             F == [n \in Nat |->
                     [s \in V |-> IF n + 1 \in 1..Len(ss) THEN s \o ss[n + 1] ELSE s]]
  <2>0. ASSUME NEW n \in Nat, NEW s \in V, n + 1 \in 1..Len(ss)
        PROVE  F[n][s] = s \o ss[n + 1]
    BY <2>0
  <2>1. F \in [Nat -> [V -> V]] /\ a \in V /\ N \in Nat
    OBVIOUS
  <2> HIDE DEF F, V, N, a
  <2>2. PICK f : /\ f \in [0..N -> V]
                 /\ f[0] = a
                 /\ \A n \in 1..N : f[n] = F[n][f[n - 1]]
    <3>1. PICK g : Solves(g, V, a, F, N)
      BY <2>1, Recursion
    <3> QED BY <3>1 DEF Solves
  <2> DEFINE u == [i \in 1..Len(ss) |-> f[i - 1]]
  <2> USE DEF N, a
  <2>3. ASSUME NEW i \in 1..Len(ss) PROVE u[i] = Body(u)[i]
    <3>1. CASE i = 1
      BY <3>1, <2>2
    <3>2. CASE i # 1
      <4>1. i - 1 \in 1..(Len(ss) - 1) /\ i - 1 - 1 \in 0..(Len(ss) - 1)
        BY <3>2
      <4>2. f[i - 1 - 1] \in V /\ f[i - 1] = F[i - 1][f[i - 1 - 1]]
        BY <4>1, <2>2
      <4>3. f[i - 1] = f[i - 1 - 1] \o ss[i]
        <5>1. i - 1 \in Nat /\ (i - 1) + 1 = i
          BY <4>1
        <5>2. F[i - 1][f[i - 1 - 1]] = f[i - 1 - 1] \o ss[(i - 1) + 1]
          BY <2>0, <4>2, <5>1
        <5> QED BY <4>2, <5>1, <5>2
      <4>4. u[i - 1] = f[i - 1 - 1]
        BY <4>1
      <4> QED BY <4>3, <4>4, <3>2
    <3> QED BY <3>1, <3>2
  <2> HIDE DEF u
  <2>4. u = Body(u)
    BY <2>3 DEF u
  <2>5. \E x : x = Body(x)
    BY <2>4
  <2> HIDE DEF Body
  <2> QED BY <2>5
<1> HIDE DEF w
<1>3. /\ w[1] = ss[1]
      /\ \A i \in 2..Len(ss) : w[i] = w[i - 1] \o ss[i]
  <2>1. w[1] = ss[1]
    BY <1>2
  <2>2. ASSUME NEW i \in 2..Len(ss) PROVE w[i] = w[i - 1] \o ss[i]
    <3>1. i \in 1..Len(ss) /\ i # 1
      OBVIOUS
    <3> QED BY <1>2, <3>1
  <2> QED BY <2>1, <2>2
<1>4. ASSUME NEW i \in 1..Len(ss) PROVE w[i] \in Seq(T)
  <2> DEFINE S == {m \in Nat : m + 1 <= Len(ss) => w[m + 1] \in Seq(T)}
  <2>1. 0 \in S
    BY <1>3
  <2>2. ASSUME NEW m \in Nat, m \in S PROVE m + 1 \in S
    <3> SUFFICES ASSUME (m + 1) + 1 <= Len(ss) PROVE w[(m + 1) + 1] \in Seq(T)
      OBVIOUS
    <3>1. w[m + 1] \in Seq(T) /\ ss[m + 2] \in Seq(T)
      BY <2>2
    <3>2. w[m + 2] = w[m + 1] \o ss[m + 2]
      BY <1>3, m + 2 \in 2..Len(ss), (m + 2) - 1 = m + 1
    <3>3. w[m + 2] \in Seq(T)
      BY <3>1, <3>2
    <3>4. (m + 1) + 1 = m + 2
      OBVIOUS
    <3> QED BY <3>3, <3>4
  <2> HIDE DEF S
  <2>3. Nat \subseteq S
    BY <2>1, <2>2, SetInduction
  <2>4. i - 1 \in S
    BY <2>3
  <2> QED BY <2>4, (i - 1) + 1 = i DEF S
<1>5. w \in [1..Len(ss) -> Seq(T)]
  <2>1. w = [i \in 1..Len(ss) |-> w[i]]
    BY <1>2
  <2> HIDE DEF Body
  <2> QED BY <1>4, <2>1
<1> QED BY <1>1, <1>3, <1>5

\* A flattened sequence has the elements of the sequences it is made of.
LEMMA RangeOfFlattened ==
  ASSUME NEW T, NEW ss \in Seq(Seq(T))
  PROVE  /\ FlattenSeq(ss) \in Seq(T)
         /\ Range(FlattenSeq(ss)) = UNION {Range(ss[i]) : i \in 1..Len(ss)}
<1>1. CASE Len(ss) = 0
  <2>1. FlattenSeq(ss) = <<>>
    BY <1>1 DEF FlattenSeq
  <2> QED BY <2>1, <1>1 DEF Range
<1>2. CASE Len(ss) # 0
  <2>1. PICK w \in [1..Len(ss) -> Seq(T)] :
          /\ w[1] = ss[1]
          /\ \A i \in 2..Len(ss) : w[i] = w[i - 1] \o ss[i]
          /\ FlattenSeq(ss) = w[Len(ss)]
    BY <1>2, PrefixesOfFlattened
  <2> DEFINE Good(m) == Range(w[m]) = UNION {Range(ss[i]) : i \in 1..m}
             S == {m \in Nat : m + 1 <= Len(ss) => Good(m + 1)}
  <2>2. 0 \in S
    <3>1. Good(1)
      BY <2>1, 1..1 = {1}
    <3> QED BY <3>1
  <2>3. ASSUME NEW m \in Nat, m \in S PROVE m + 1 \in S
    <3> SUFFICES ASSUME m + 2 <= Len(ss) PROVE Good(m + 2)
      BY (m + 1) + 1 = m + 2
    <3>1. Good(m + 1) /\ ss[m + 2] \in Seq(T) /\ w[m + 1] \in Seq(T)
      BY <2>3
    <3>2. w[m + 2] = w[m + 1] \o ss[m + 2]
      BY <2>1, m + 2 \in 2..Len(ss), (m + 2) - 1 = m + 1
    <3>3. Range(w[m + 2]) = Range(w[m + 1]) \cup Range(ss[m + 2])
      BY <3>1, <3>2, RangeOfConcatenation
    <3>4. 1..(m + 2) = 1..(m + 1) \cup {m + 2}
      OBVIOUS
    <3> QED BY <3>1, <3>3, <3>4
  <2> HIDE DEF S
  <2>4. Nat \subseteq S
    BY <2>2, <2>3, SetInduction
  <2>5. Good(Len(ss))
    <3>1. Len(ss) - 1 \in S /\ (Len(ss) - 1) + 1 = Len(ss)
      BY <2>4, <1>2
    <3> QED BY <3>1 DEF S
  <2> QED BY <1>2, <2>1, <2>5
<1> QED BY <1>1, <1>2

\* Every one of them is in it, one behind the other: the i-th begins behind
\* the off[i]-th place.
LEMMA PlacesInFlattened ==
  ASSUME NEW T, NEW ss \in Seq(Seq(T))
  PROVE  \E off \in [1..(Len(ss) + 1) -> Nat] :
           /\ off[1] = 0
           /\ off[Len(ss) + 1] = Len(FlattenSeq(ss))
           /\ \A i \in 1..Len(ss) :
                /\ off[i + 1] = off[i] + Len(ss[i])
                /\ \A t \in 1..Len(ss[i]) : FlattenSeq(ss)[off[i] + t] = ss[i][t]
<1>1. CASE Len(ss) = 0
  <2>1. FlattenSeq(ss) = <<>>
    BY <1>1 DEF FlattenSeq
  <2> DEFINE off == [i \in 1..(Len(ss) + 1) |-> 0]
  <2>2. off \in [1..(Len(ss) + 1) -> Nat] /\ off[1] = 0 /\ off[Len(ss) + 1] = 0
    BY <1>1
  <2>3. Len(FlattenSeq(ss)) = 0 /\ 1..Len(ss) = {}
    BY <1>1, <2>1
  <2> HIDE DEF off
  <2> QED BY <2>2, <2>3
<1>2. CASE Len(ss) # 0
  <2>1. PICK w \in [1..Len(ss) -> Seq(T)] :
          /\ w[1] = ss[1]
          /\ \A i \in 2..Len(ss) : w[i] = w[i - 1] \o ss[i]
          /\ FlattenSeq(ss) = w[Len(ss)]
    BY <1>2, PrefixesOfFlattened
  <2>2. PICK N \in Nat : N = Len(ss)
    OBVIOUS
  <2>3. PICK flat \in Seq(T) : flat = FlattenSeq(ss)
    <3>1. Len(ss) \in 1..Len(ss)
      BY <1>2
    <3>2. w[Len(ss)] \in Seq(T)
      BY <3>1
    <3> QED BY <2>1, <3>2
  <2> DEFINE Leads(i) == \A t \in 1..Len(w[i]) : flat[t] = w[i][t]
             S == {m \in Nat : m < N => Leads(N - m)}
  <2>4. 0 \in S
    BY <1>2, <2>1, <2>2, <2>3, N - 0 = N
  <2>5. ASSUME NEW m \in Nat, m \in S PROVE m + 1 \in S
    <3> SUFFICES ASSUME m + 1 < N PROVE Leads(N - (m + 1))
      OBVIOUS
    <3>1. PICK i \in 2..N : i = N - m /\ i - 1 = N - (m + 1)
      OBVIOUS
    <3>2. Leads(N - m)
      <4> HIDE DEF Leads
      <4> QED BY <2>5
    <3>3. Leads(i)
      BY <3>1, <3>2
    <3>4. i \in 2..Len(ss) /\ i - 1 \in 1..Len(ss) /\ i \in 1..Len(ss)
      BY <2>2
    <3>5. PICK u \in Seq(T), v \in Seq(T) : u = w[i - 1] /\ v = ss[i]
      <4>1. w[i - 1] \in Seq(T)
        BY <3>4
      <4>2. ss[i] \in Seq(T)
        BY <3>4
      <4> QED BY <4>1, <4>2
    <3>6. w[i] = u \o v
      BY <2>1, <3>4, <3>5
    <3>7. ASSUME NEW t \in 1..Len(u) PROVE flat[t] = u[t]
      <4>1. t \in 1..Len(u \o v) /\ (u \o v)[t] = u[t]
        OBVIOUS
      <4> QED BY <3>3, <3>6, <4>1
    <3> QED BY <3>1, <3>5, <3>7
  <2> HIDE DEF S
  <2>6. ASSUME NEW i \in 1..N PROVE Leads(i)
    <3>1. Nat \subseteq S
      BY <2>4, <2>5, SetInduction
    <3>2. N - i \in Nat /\ N - i < N /\ N - (N - i) = i
      OBVIOUS
    <3>3. N - i \in S
      BY <3>1, <3>2
    <3> HIDE DEF Leads
    <3>4. Leads(N - (N - i))
      BY <3>2, <3>3 DEF S
    <3> QED BY <3>2, <3>4
  <2> DEFINE off == [i \in 1..(N + 1) |-> IF i = 1 THEN 0 ELSE Len(w[i - 1])]
  <2>7. off \in [1..(N + 1) -> Nat] /\ off[1] = 0 /\ off[N + 1] = Len(flat)
    <3>1. ASSUME NEW i \in 1..(N + 1), i # 1 PROVE Len(w[i - 1]) \in Nat
      <4>1. i - 1 \in 1..Len(ss)
        BY <2>2, <3>1
      <4>2. w[i - 1] \in Seq(T)
        BY <4>1
      <4> QED BY <4>2
    <3>2. N + 1 # 1 /\ (N + 1) - 1 = N
      BY <1>2, <2>2
    <3> QED BY <2>1, <2>2, <2>3, <3>1, <3>2
  <2>8. ASSUME NEW i \in 1..N
        PROVE  /\ off[i + 1] = off[i] + Len(ss[i])
               /\ \A t \in 1..Len(ss[i]) : flat[off[i] + t] = ss[i][t]
    <3>1. i \in 1..(N + 1) /\ i + 1 \in 1..(N + 1) /\ i + 1 # 1 /\ (i + 1) - 1 = i
      OBVIOUS
    <3>2. off[i + 1] = Len(w[i])
      BY <3>1
    <3>3. w[i] \in Seq(T) /\ ss[i] \in Seq(T) /\ Leads(i)
      BY <2>2, <2>6
    <3>4. CASE i = 1
      <4>1. off[i] = 0 /\ w[i] = ss[i]
        BY <2>1, <3>1, <3>4
      <4> HIDE DEF off
      <4> QED BY <3>2, <3>3, <4>1
    <3>5. CASE i # 1
      <4>1. w[i] = w[i - 1] \o ss[i] /\ w[i - 1] \in Seq(T)
        BY <2>1, <2>2, <3>5, i \in 2..Len(ss), i - 1 \in 1..Len(ss)
      <4>2. off[i] = Len(w[i - 1])
        BY <3>1, <3>5
      <4>3. Len(w[i]) = Len(w[i - 1]) + Len(ss[i])
        BY <3>3, <4>1
      <4>4. ASSUME NEW t \in 1..Len(ss[i]) PROVE flat[Len(w[i - 1]) + t] = ss[i][t]
        <5>1. PICK u \in Seq(T), v \in Seq(T) : u = w[i - 1] /\ v = ss[i]
          BY <3>3, <4>1
        <5>2. /\ Len(u) + t \in 1..Len(u \o v)
              /\ (u \o v)[Len(u) + t] = v[t]
          <6>1. t \in 1..Len(v)
            BY <5>1
          <6> QED BY <6>1
        <5>3. flat[Len(u) + t] = (u \o v)[Len(u) + t]
          BY <3>3, <4>1, <5>1, <5>2
        <5> QED BY <5>1, <5>2, <5>3
      <4> HIDE DEF off
      <4> QED BY <3>2, <4>2, <4>3, <4>4
    <3> QED BY <3>4, <3>5
  <2> HIDE DEF off
  <2> QED BY <2>2, <2>3, <2>7, <2>8
<1> QED BY <1>1, <1>2

-----------------------------------------------------------------------------
(* What a walk finds.                                                      *)

\* The lists of some documents and of all groups, no other layer having one.
IsHierarchy(k) ==
  /\ k \in [DOMAIN k -> Seq(Layers)]
  /\ DOMAIN k \cap Layers = Groups

LEMMA GroupCount == Cardinality(Groups) \in Nat /\ IsFiniteSet(Groups)
BY HierarchyAssumption, FS_Subset, FS_CardinalityType

\* A list in visiting order, when the lists of its groups are those of sub.
Pieces(k, n, p, sub) ==
  [i \in 1..Len(k[p]) |->
     <<<<p, i>>>> \o (IF n > 0 /\ k[p][i] \in Groups THEN sub[k[p][i]] ELSE <<>>)]

SlotsOf(k) == (DOMAIN k) \X Nat

\* The slots of such a list.
Visited(k, n, p, sub) ==
  {<<p, i>> : i \in 1..Len(k[p])} \cup
  (IF n > 0 THEN UNION {Range(sub[g]) : g \in Groups \cap Range(k[p])} ELSE {})

LEMMA PiecesType ==
  ASSUME NEW k, IsHierarchy(k), NEW n \in Nat, NEW p \in DOMAIN k,
         NEW sub, n > 0 => sub \in [DOMAIN k -> Seq(SlotsOf(k))]
  PROVE  /\ Pieces(k, n, p, sub) \in Seq(Seq(SlotsOf(k)))
         /\ FlattenSeq(Pieces(k, n, p, sub)) \in Seq(SlotsOf(k))
         /\ Range(FlattenSeq(Pieces(k, n, p, sub))) = Visited(k, n, p, sub)
<1> DEFINE T == SlotsOf(k)
           sl(i) == IF n > 0 /\ k[p][i] \in Groups THEN sub[k[p][i]] ELSE <<>>
           ps == Pieces(k, n, p, sub)
<1>1. k[p] \in Seq(Layers) /\ Len(k[p]) \in Nat /\ Groups \subseteq DOMAIN k
  BY DEF IsHierarchy
<1>2. ASSUME NEW i \in 1..Len(k[p])
      PROVE  /\ ps[i] \in Seq(T)
             /\ Range(ps[i]) = {<<p, i>>} \cup Range(sl(i))
  <2>1. <<p, i>> \in T
    BY <1>1 DEF SlotsOf
  <2>2. sl(i) \in Seq(T)
    BY <1>1
  <2> DEFINE hd == <<<<p, i>>>>
  <2>3. ps[i] = hd \o sl(i)
    BY DEF Pieces
  <2>4. hd \in Seq(T) /\ Range(hd) = {<<p, i>>}
    BY <2>1 DEF Range
  <2> HIDE DEF sl, ps, T, hd
  <2>5. Range(hd \o sl(i)) = Range(hd) \cup Range(sl(i))
    BY <2>2, <2>4, RangeOfConcatenation
  <2>6. hd \o sl(i) \in Seq(T)
    BY <2>2, <2>4
  <2> QED BY <2>3, <2>4, <2>5, <2>6
<1>3. ps \in Seq(Seq(T)) /\ Len(ps) = Len(k[p])
  <2>1. ps = [i \in 1..Len(k[p]) |-> ps[i]]
    BY DEF Pieces
  <2> HIDE DEF ps
  <2> QED BY <1>1, <1>2, <2>1
<1> HIDE DEF ps
<1>4. /\ FlattenSeq(ps) \in Seq(T)
      /\ Range(FlattenSeq(ps)) = UNION {Range(ps[i]) : i \in 1..Len(k[p])}
  BY <1>3, RangeOfFlattened
<1>5. Range(k[p]) = {k[p][i] : i \in 1..Len(k[p])} /\ Range(<<>>) = {}
  BY <1>1 DEF Range
<1>6. UNION {Range(ps[i]) : i \in 1..Len(k[p])}
        = UNION {{<<p, i>>} \cup Range(sl(i)) : i \in 1..Len(k[p])}
  BY <1>2
<1>7. UNION {{<<p, i>>} \cup Range(sl(i)) : i \in 1..Len(k[p])}
        = {<<p, i>> : i \in 1..Len(k[p])} \cup UNION {Range(sl(i)) : i \in 1..Len(k[p])}
  <2> HIDE DEF sl
  <2> QED OBVIOUS
<1>8. UNION {Range(sl(i)) : i \in 1..Len(k[p])}
        = IF n > 0 THEN UNION {Range(sub[g]) : g \in Groups \cap Range(k[p])} ELSE {}
  <2>1. CASE n > 0
    <3>1. ASSUME NEW i \in 1..Len(k[p]), NEW x \in Range(sl(i))
          PROVE  k[p][i] \in Groups /\ x \in Range(sub[k[p][i]])
      BY <1>5, <2>1
    <3>2. ASSUME NEW i \in 1..Len(k[p]), k[p][i] \in Groups
          PROVE  Range(sl(i)) = Range(sub[k[p][i]])
      BY <2>1, <3>2
    <3> HIDE DEF sl
    <3> QED BY <1>5, <2>1, <3>1, <3>2
  <2>2. CASE ~ (n > 0)
    BY <1>5, <2>2
  <2> QED BY <2>1, <2>2
<1> QED BY <1>3, <1>4, <1>6, <1>7, <1>8 DEF ps, Visited

\* The walk to depth n visits the slots of the list and, below depth 0, what
\* the walk to depth n - 1 visits below each of its groups.
LEMMA WalkStep ==
  ASSUME NEW k, IsHierarchy(k), NEW n \in 0..Cardinality(Groups), NEW p \in DOMAIN k
  PROVE  /\ SlotsToDepth(k)[n][p] \in Seq(SlotsOf(k))
         /\ Range(SlotsToDepth(k)[n][p]) = Visited(k, n, p, SlotsToDepth(k)[n - 1])
<1> DEFINE N == Cardinality(Groups)
           V == [DOMAIN k -> Seq(SlotsOf(k))]
           Body(w) == [m \in 0..N |->
             [q \in DOMAIN k |->
               FlattenSeq([i \in 1..Len(k[q]) |->
                 <<<<q, i>>>> \o
                 (IF m > 0 /\ k[q][i] \in Groups THEN w[m - 1][k[q][i]] ELSE <<>>)])]]
           w == SlotsToDepth(k)
<1>1. w = CHOOSE u : u = Body(u)
  BY DEF SlotsToDepth
<1>2. \E u : u = Body(u)
  <2> DEFINE none == [q \in DOMAIN k |-> <<>>]
             a == [q \in DOMAIN k |-> FlattenSeq(Pieces(k, 0, q, none))]
             F == [m \in Nat |-> [s \in V |->
                     [q \in DOMAIN k |-> FlattenSeq(Pieces(k, m, q, s))]]]
  <2>1. a \in V
    <3>1. ASSUME NEW q \in DOMAIN k
          PROVE  FlattenSeq(Pieces(k, 0, q, none)) \in Seq(SlotsOf(k))
      BY 0 \in Nat, ~ (0 > 0), PiecesType
    <3> QED BY <3>1
  <2>2. F \in [Nat -> [V -> V]]
    BY PiecesType
  <2>3. N \in Nat
    BY GroupCount
  <2>4. ASSUME NEW m \in Nat, NEW s \in V
        PROVE  F[m][s] = [q \in DOMAIN k |-> FlattenSeq(Pieces(k, m, q, s))]
    OBVIOUS
  <2> HIDE DEF a, F, V, N
  <2>5. PICK f : Solves(f, V, a, F, N)
    BY <2>1, <2>2, <2>3, Recursion
  <2>6. f \in [0..N -> V] /\ f[0] = a /\ \A m \in 1..N : f[m] = F[m][f[m - 1]]
    BY <2>5 DEF Solves
  <2>7. ASSUME NEW m \in 0..N PROVE f[m] = Body(f)[m]
    <3>1. CASE m = 0
      <4>1. ASSUME NEW q \in DOMAIN k
            PROVE  Pieces(k, 0, q, none) = [i \in 1..Len(k[q]) |->
                     <<<<q, i>>>> \o
                     (IF 0 > 0 /\ k[q][i] \in Groups THEN f[0 - 1][k[q][i]] ELSE <<>>)]
        BY DEF Pieces
      <4>2. Body(f)[0] = a
        BY <4>1, <2>3 DEF a
      <4> QED BY <4>2, <3>1, <2>6
    <3>2. CASE m # 0
      <4>1. m \in 1..N /\ m - 1 \in 0..N /\ m \in Nat
        BY <3>2, <2>3
      <4>2. f[m] = [q \in DOMAIN k |-> FlattenSeq(Pieces(k, m, q, f[m - 1]))]
        BY <4>1, <2>4, <2>6
      <4> QED BY <4>2 DEF Pieces
    <3> QED BY <3>1, <3>2
  <2>8. Body(f) = [m \in 0..N |-> Body(f)[m]] /\ f = [m \in 0..N |-> f[m]]
    BY <2>6
  <2> HIDE DEF Body
  <2>9. f = Body(f)
    BY <2>7, <2>8
  <2> QED BY <2>9
<1> HIDE DEF w
<1>3. w = Body(w)
  <2> HIDE DEF Body
  <2> QED BY <1>1, <1>2
<1>4. ASSUME NEW m \in 0..N, NEW q \in DOMAIN k
      PROVE  w[m][q] = FlattenSeq(Pieces(k, m, q, w[m - 1]))
  <2>1. w[m] = [r \in DOMAIN k |->
               FlattenSeq([i \in 1..Len(k[r]) |->
                 <<<<r, i>>>> \o
                 (IF m > 0 /\ k[r][i] \in Groups THEN w[m - 1][k[r][i]] ELSE <<>>)])]
    BY <1>3
  <2> HIDE DEF Body
  <2> QED BY <2>1 DEF Pieces
<1>5. ASSUME NEW m \in 0..N, m > 0 => w[m - 1] \in V PROVE w[m] \in V
  <2>1. m \in Nat
    OBVIOUS
  <2>2. ASSUME NEW q \in DOMAIN k PROVE w[m][q] \in Seq(SlotsOf(k))
    <3>1. FlattenSeq(Pieces(k, m, q, w[m - 1])) \in Seq(SlotsOf(k))
      BY <1>5, <2>1, PiecesType
    <3> QED BY <1>4, <3>1
  <2>3. w[m] = [q \in DOMAIN k |-> w[m][q]]
    BY <1>3
  <2> QED BY <2>2, <2>3
<1> HIDE DEF Body
<1>6. \A m \in 0..N : w[m] \in V
  <2> DEFINE S == {m \in Nat : m \in 0..N => w[m] \in V}
  <2>1. 0 \in S
    BY <1>5
  <2>2. ASSUME NEW m \in Nat, m \in S PROVE m + 1 \in S
    <3> SUFFICES ASSUME m + 1 \in 0..N PROVE w[m + 1] \in V
      OBVIOUS
    <3>1. m \in 0..N /\ (m + 1) - 1 = m
      BY GroupCount
    <3> QED BY <1>5, <2>2, <3>1
  <2> HIDE DEF S
  <2>3. Nat \subseteq S
    BY <2>1, <2>2, SetInduction
  <2> QED BY <2>3, GroupCount DEF S
<1>7. n \in Nat /\ (n > 0 => n - 1 \in 0..N)
  BY GroupCount
<1>8. n > 0 => w[n - 1] \in V
  BY <1>6, <1>7
<1>9. /\ FlattenSeq(Pieces(k, n, p, w[n - 1])) \in Seq(SlotsOf(k))
      /\ Range(FlattenSeq(Pieces(k, n, p, w[n - 1]))) = Visited(k, n, p, w[n - 1])
  BY <1>7, <1>8, PiecesType
<1>10. w[n][p] = FlattenSeq(Pieces(k, n, p, w[n - 1]))
  BY <1>4
<1> QED BY <1>9, <1>10 DEF w

\* The layers found to depth n.
Reached(k, n, p) == {At(k, s) : s \in Range(SlotsToDepth(k)[n][p])}

LEMMA GroupsHaveLists ==
  ASSUME NEW k, IsHierarchy(k), NEW p \in DOMAIN k
  PROVE  /\ k[p] \in Seq(Layers)
         /\ Len(k[p]) \in Nat
         /\ Range(k[p]) = {k[p][i] : i \in 1..Len(k[p])}
         /\ Range(k[p]) \subseteq Layers
         /\ Groups \subseteq DOMAIN k
BY DEF IsHierarchy, Range

\* From the top: a list, and what is found below its groups.
LEMMA ReachedStep ==
  ASSUME NEW k, IsHierarchy(k), NEW n \in 0..Cardinality(Groups), NEW p \in DOMAIN k,
         NEW y
  PROVE  y \in Reached(k, n, p)
           <=> \/ y \in Range(k[p])
               \/ n > 0 /\ \E g \in Groups : g \in Range(k[p]) /\ y \in Reached(k, n - 1, g)
<1>1. Range(SlotsToDepth(k)[n][p]) = Visited(k, n, p, SlotsToDepth(k)[n - 1])
  BY WalkStep
<1>2. Range(k[p]) = {At(k, <<p, i>>) : i \in 1..Len(k[p])}
  BY GroupsHaveLists DEF At
<1>3. y \in Reached(k, n, p)
        <=> \E s \in Visited(k, n, p, SlotsToDepth(k)[n - 1]) : y = At(k, s)
  BY <1>1 DEF Reached
<1>4. CASE n > 0
  <2>1. y \in Reached(k, n, p)
          <=> \/ \E i \in 1..Len(k[p]) : y = At(k, <<p, i>>)
              \/ \E g \in Groups \cap Range(k[p]) :
                   \E s \in Range(SlotsToDepth(k)[n - 1][g]) : y = At(k, s)
    BY <1>3, <1>4 DEF Visited
  <2> QED BY <1>2, <1>4, <2>1 DEF Reached
<1>5. CASE ~ (n > 0)
  BY <1>2, <1>3, <1>5 DEF Visited
<1> QED BY <1>4, <1>5

\* From the bottom: one level more adds the lists of the groups found.
LEMMA ReachedGrows ==
  ASSUME NEW k, IsHierarchy(k), NEW n \in Nat, n + 1 \in 0..Cardinality(Groups)
  PROVE  \A p \in DOMAIN k : \A y :
           y \in Reached(k, n + 1, p)
             <=> \/ y \in Reached(k, n, p)
                 \/ \E g \in Groups : g \in Reached(k, n, p) /\ y \in Range(k[g])
<1> DEFINE N == Cardinality(Groups)
           Grows(m) == \A p \in DOMAIN k : \A y :
             y \in Reached(k, m + 1, p)
               <=> \/ y \in Reached(k, m, p)
                   \/ \E g \in Groups : g \in Reached(k, m, p) /\ y \in Range(k[g])
           S == {m \in Nat : m + 1 \in 0..N => Grows(m)}
<1>1. 0 \in S
  <2> SUFFICES ASSUME 1 \in 0..N, NEW p \in DOMAIN k, NEW y
               PROVE  y \in Reached(k, 1, p)
                        <=> \/ y \in Reached(k, 0, p)
                            \/ \E g \in Groups : g \in Reached(k, 0, p) /\ y \in Range(k[g])
    OBVIOUS
  <2>1. 0 \in 0..N /\ ~ (0 > 0) /\ 1 > 0 /\ 1 - 1 = 0
    BY GroupCount
  <2>2. \A q \in DOMAIN k : \A z : z \in Reached(k, 0, q) <=> z \in Range(k[q])
    BY <2>1, ReachedStep
  <2>3. y \in Reached(k, 1, p)
          <=> \/ y \in Range(k[p])
              \/ \E g \in Groups : g \in Range(k[p]) /\ y \in Reached(k, 0, g)
    BY <2>1, ReachedStep
  <2> QED BY <2>2, <2>3, GroupsHaveLists
<1>2. ASSUME NEW m \in Nat, m \in S PROVE m + 1 \in S
  <2> SUFFICES ASSUME (m + 1) + 1 \in 0..N, NEW p \in DOMAIN k, NEW y
               PROVE  y \in Reached(k, (m + 1) + 1, p)
                        <=> \/ y \in Reached(k, m + 1, p)
                            \/ \E g \in Groups :
                                 g \in Reached(k, m + 1, p) /\ y \in Range(k[g])
    OBVIOUS
  <2>1. m \in 0..N /\ m + 1 \in 0..N /\ m + 1 > 0 /\ (m + 1) + 1 > 0
        /\ (m + 1) - 1 = m /\ ((m + 1) + 1) - 1 = m + 1
    BY GroupCount
  <2>2. Grows(m)
    BY <1>2, <2>1
  <2>3. \A z : z \in Reached(k, m + 1, p)
                 <=> \/ z \in Range(k[p])
                     \/ \E g \in Groups : g \in Range(k[p]) /\ z \in Reached(k, m, g)
    BY <2>1, ReachedStep
  <2>4. y \in Reached(k, (m + 1) + 1, p)
          <=> \/ y \in Range(k[p])
              \/ \E g \in Groups : g \in Range(k[p]) /\ y \in Reached(k, m + 1, g)
    BY <2>1, ReachedStep
  <2>5. \A g \in Groups : \A z \in Range(k[g]) : z \in Reached(k, m, g)
    BY <2>1, ReachedStep, GroupsHaveLists
  <2>6. Groups \subseteq DOMAIN k
    BY GroupsHaveLists
  <2> QED BY <2>2, <2>3, <2>4, <2>5, <2>6
<1> HIDE DEF S
<1>3. n \in S
  BY <1>1, <1>2, SetInduction
<1> QED BY <1>3 DEF S

\* A slot the walk visits is a place of the list it starts with, or of a
\* group the walk has found.
LEMMA SlotsAreFound ==
  ASSUME NEW k, IsHierarchy(k), NEW n \in 0..Cardinality(Groups)
  PROVE  \A p \in DOMAIN k : \A s \in Range(SlotsToDepth(k)[n][p]) :
           /\ s = <<s[1], s[2]>>
           /\ s[1] \in DOMAIN k
           /\ s[2] \in 1..Len(k[s[1]])
           /\ \/ s[1] = p
              \/ s[1] \in Groups /\ s[1] \in Reached(k, n, p)
<1> DEFINE N == Cardinality(Groups)
           Found_(s, m, p) == /\ s = <<s[1], s[2]>>
                              /\ s[1] \in DOMAIN k
                              /\ s[2] \in 1..Len(k[s[1]])
                              /\ \/ s[1] = p
                                 \/ s[1] \in Groups /\ s[1] \in Reached(k, m, p)
           Good(m) == \A p \in DOMAIN k : \A s \in Range(SlotsToDepth(k)[m][p]) :
                        Found_(s, m, p)
           S == {m \in Nat : m \in 0..N => Good(m)}
<1>1. ASSUME NEW p \in DOMAIN k, NEW i \in 1..Len(k[p]), NEW m
      PROVE  Found_(<<p, i>>, m, p)
  OBVIOUS
<1>2. 0 \in S
  <2>1. 0 \in 0..N /\ ~ (0 > 0)
    BY GroupCount
  <2>2. \A p \in DOMAIN k :
          Range(SlotsToDepth(k)[0][p]) = {<<p, i>> : i \in 1..Len(k[p])}
    BY <2>1, WalkStep DEF Visited
  <2> HIDE DEF Found_
  <2>3. Good(0)
    BY <1>1, <2>2
  <2> QED BY <2>3
<1>3. ASSUME NEW m \in Nat, m \in S PROVE m + 1 \in S
  <2> SUFFICES ASSUME m + 1 \in 0..N, NEW p \in DOMAIN k,
                      NEW s \in Range(SlotsToDepth(k)[m + 1][p])
               PROVE  Found_(s, m + 1, p)
    OBVIOUS
  <2>1. m \in 0..N /\ m + 1 > 0 /\ (m + 1) - 1 = m
    BY GroupCount
  <2>2. Good(m)
    BY <1>3, <2>1
  <2>3. s \in Visited(k, m + 1, p, SlotsToDepth(k)[m])
    BY <2>1, WalkStep
  <2>4. CASE \E i \in 1..Len(k[p]) : s = <<p, i>>
    <3> HIDE DEF Found_
    <3> QED BY <1>1, <2>4
  <2>5. CASE \E g \in Groups \cap Range(k[p]) : s \in Range(SlotsToDepth(k)[m][g])
    <3>1. PICK g \in Groups \cap Range(k[p]) : s \in Range(SlotsToDepth(k)[m][g])
      BY <2>5
    <3>2. Found_(s, m, g)
      <4> HIDE DEF Found_
      <4> QED BY <2>2, <3>1, GroupsHaveLists
    <3>3. g \in Reached(k, m + 1, p)
      BY <2>1, ReachedStep
    <3>4. s[1] \in Reached(k, m, g) => s[1] \in Reached(k, m + 1, p)
      BY <2>1, ReachedStep
    <3> QED BY <3>2, <3>3, <3>4
  <2> HIDE DEF Found_
  <2> QED BY <2>1, <2>3, <2>4, <2>5 DEF Visited
<1> HIDE DEF S, Good
<1>4. n \in S
  BY <1>2, <1>3, SetInduction
<1> QED BY <1>4 DEF S, Good

\* Every layer below a group of S is in S.
Closed(k, S) == \A g \in Groups : g \in S => Range(k[g]) \subseteq S

\* A walk that goes as deep as there are groups misses nothing: as long as
\* it does, every level finds a group more.
LEMMA WalkIsDeepEnough ==
  ASSUME NEW k, IsHierarchy(k), NEW p \in DOMAIN k
  PROVE  Closed(k, Reached(k, Cardinality(Groups), p))
<1> DEFINE N == Cardinality(Groups)
           R(m) == Reached(k, m, p)
           G(m) == Groups \cap R(m)
<1> SUFFICES ASSUME ~ Closed(k, R(N)) PROVE FALSE
  OBVIOUS
<1>1. N \in Nat /\ IsFiniteSet(Groups)
  BY GroupCount
<1>2. ASSUME NEW m \in Nat, m + 1 \in 0..N, ~ Closed(k, R(m + 1))
      PROVE  ~ Closed(k, R(m))
  <2> SUFFICES ASSUME Closed(k, R(m)) PROVE FALSE
    OBVIOUS
  <2>1. R(m + 1) = R(m)
    BY <1>2, ReachedGrows DEF Closed
  <2> QED BY <1>2, <2>1
<1>3. \A m \in 0..N : ~ Closed(k, R(m))
  <2> DEFINE S == {j \in Nat : j \in 0..N => ~ Closed(k, R(N - j))}
  <2>1. 0 \in S
    BY <1>1, N - 0 = N
  <2>2. ASSUME NEW j \in Nat, j \in S PROVE j + 1 \in S
    <3> SUFFICES ASSUME j + 1 \in 0..N PROVE ~ Closed(k, R(N - (j + 1)))
      OBVIOUS
    <3>1. /\ N - (j + 1) \in Nat
          /\ (N - (j + 1)) + 1 = N - j
          /\ N - j \in 0..N
          /\ j \in 0..N
      BY <1>1
    <3> HIDE DEF R, N
    <3> QED BY <1>2, <2>2, <3>1
  <2> HIDE DEF S
  <2>3. Nat \subseteq S
    BY <2>1, <2>2, SetInduction
  <2>4. ASSUME NEW m \in 0..N PROVE ~ Closed(k, R(m))
    <3>1. N - m \in Nat /\ N - m \in 0..N /\ N - (N - m) = m
      BY <1>1
    <3> HIDE DEF R, N
    <3> QED BY <2>3, <3>1 DEF S
  <2> QED BY <2>4
<1>4. \A m \in 0..N : \E g \in Groups : g \in R(m) /\ ~ (Range(k[g]) \subseteq R(m))
  BY <1>3 DEF Closed
<1>5. \A m : IsFiniteSet(G(m)) /\ Cardinality(G(m)) \in Nat
  <2>1. ASSUME NEW m PROVE IsFiniteSet(G(m)) /\ Cardinality(G(m)) \in Nat
    <3>1. G(m) \subseteq Groups
      OBVIOUS
    <3> HIDE DEF G
    <3> QED BY <1>1, <3>1, FS_Subset, FS_CardinalityType
  <2> QED BY <2>1
<1>6. ASSUME NEW m \in Nat, m + 1 \in 0..N
      PROVE  Cardinality(G(m + 1)) >= Cardinality(G(m)) + 1
  <2>1. PICK g \in Groups : g \in R(m + 1) /\ ~ (Range(k[g]) \subseteq R(m + 1))
    BY <1>4, <1>6
  <2>2. /\ R(m) \subseteq R(m + 1)
        /\ \A h \in Groups : h \in R(m) => Range(k[h]) \subseteq R(m + 1)
    BY <1>6, ReachedGrows
  <2>3. g \notin G(m) /\ G(m) \cup {g} \subseteq G(m + 1)
    BY <2>1, <2>2
  <2> HIDE DEF G
  <2>4. Cardinality(G(m) \cup {g}) = Cardinality(G(m)) + 1
    BY <1>5, <2>3, FS_AddElement
  <2>5. Cardinality(G(m) \cup {g}) <= Cardinality(G(m + 1))
    BY <1>5, <2>3, FS_Subset
  <2>6. Cardinality(G(m)) \in Nat /\ Cardinality(G(m + 1)) \in Nat
    BY <1>5
  <2> QED BY <2>4, <2>5, <2>6
<1>7. Cardinality(G(N)) >= N + 1
  <2> DEFINE S == {m \in Nat : m \in 0..N => Cardinality(G(m)) >= m + 1}
  <2>1. 0 \in S
    <3>1. PICK g \in Groups : g \in R(0)
      BY <1>1, <1>4
    <3>2. G(0) # {}
      BY <3>1
    <3> HIDE DEF G
    <3>3. Cardinality(G(0)) # 0
      BY <1>5, <3>2, FS_EmptySet
    <3>4. Cardinality(G(0)) \in Nat
      BY <1>5
    <3> QED BY <3>3, <3>4
  <2>2. ASSUME NEW m \in Nat, m \in S PROVE m + 1 \in S
    <3> HIDE DEF G
    <3> SUFFICES ASSUME m + 1 \in 0..N PROVE Cardinality(G(m + 1)) >= (m + 1) + 1
      OBVIOUS
    <3>1. Cardinality(G(m)) >= m + 1
      BY <1>1, <2>2
    <3>2. Cardinality(G(m)) \in Nat /\ Cardinality(G(m + 1)) \in Nat
      BY <1>5
    <3> QED BY <1>6, <3>1, <3>2
  <2> HIDE DEF S
  <2>3. N \in S
    BY <1>1, <2>1, <2>2, SetInduction
  <2> QED BY <1>1, <2>3 DEF S
<1>8. Cardinality(G(N)) <= N
  <2>1. G(N) \subseteq Groups
    OBVIOUS
  <2> HIDE DEF G
  <2> QED BY <1>1, <2>1, FS_Subset
<1>9. Cardinality(G(N)) \in Nat
  BY <1>5
<1> HIDE DEF G, N
<1> QED BY <1>1, <1>7, <1>8, <1>9

\* The layers found below p are the least set that has p's list and, with a
\* group, the group's list.
LEMMA WalkFindsAll ==
  ASSUME NEW k, IsHierarchy(k), NEW p \in DOMAIN k
  PROVE  /\ Range(k[p]) \subseteq LayersUnder(k, p)
         /\ LayersUnder(k, p) \subseteq Layers
         /\ Closed(k, LayersUnder(k, p))
<1>1. LayersUnder(k, p) = Reached(k, Cardinality(Groups), p)
  BY DEF LayersUnder, Reached, Slots
<1>2. Cardinality(Groups) \in 0..Cardinality(Groups)
  BY GroupCount
<1>3. Range(k[p]) \subseteq LayersUnder(k, p)
  BY <1>1, <1>2, ReachedStep
<1>4. ASSUME NEW y \in Reached(k, Cardinality(Groups), p) PROVE y \in Layers
  <2>1. PICK s \in Range(SlotsToDepth(k)[Cardinality(Groups)][p]) : y = At(k, s)
    BY DEF Reached
  <2>2. s[1] \in DOMAIN k /\ s[2] \in 1..Len(k[s[1]])
    BY <1>2, SlotsAreFound
  <2>3. y \in Range(k[s[1]])
    BY <2>1, <2>2, GroupsHaveLists DEF At
  <2> QED BY <2>2, <2>3, GroupsHaveLists
<1> QED BY <1>1, <1>3, <1>4, WalkIsDeepEnough

LEMMA WalkFindsOnly ==
  ASSUME NEW k, IsHierarchy(k), NEW p \in DOMAIN k,
         NEW S, Range(k[p]) \subseteq S, Closed(k, S)
  PROVE  LayersUnder(k, p) \subseteq S
<1> DEFINE N == Cardinality(Groups)
           T == {m \in Nat : m \in 0..N => Reached(k, m, p) \subseteq S}
<1>1. LayersUnder(k, p) = Reached(k, N, p) /\ N \in Nat
  BY GroupCount DEF LayersUnder, Reached, Slots
<1>2. 0 \in T
  <2>1. 0 \in 0..N /\ ~ (0 > 0)
    BY <1>1
  <2>2. \A y : y \in Reached(k, 0, p) <=> y \in Range(k[p])
    BY <2>1, ReachedStep
  <2> QED BY <2>2
<1>3. ASSUME NEW m \in Nat, m \in T PROVE m + 1 \in T
  <2> SUFFICES ASSUME m + 1 \in 0..N PROVE Reached(k, m + 1, p) \subseteq S
    OBVIOUS
  <2>1. Reached(k, m, p) \subseteq S
    BY <1>1, <1>3
  <2> QED BY <2>1, ReachedGrows DEF Closed
<1> HIDE DEF T
<1>4. N \in T
  BY <1>1, <1>2, <1>3, SetInduction
<1> QED BY <1>1, <1>4 DEF T

\* Every slot a walk visits is a place.
LEMMA SlotsAreValid ==
  ASSUME NEW k, IsHierarchy(k), NEW p \in DOMAIN k
  PROVE  /\ Slots(k, p) \in Seq(SlotsOf(k))
         /\ \A s \in Range(Slots(k, p)) :
              /\ s[1] \in DOMAIN k
              /\ s[2] \in 1..Len(k[s[1]])
              /\ \/ s[1] = p
                 \/ s[1] \in Groups /\ s[1] \in LayersUnder(k, p)
<1>1. Cardinality(Groups) \in 0..Cardinality(Groups)
  BY GroupCount
<1>2. LayersUnder(k, p) = Reached(k, Cardinality(Groups), p)
  BY DEF LayersUnder, Reached, Slots
<1>3. Slots(k, p) \in Seq(SlotsOf(k))
  BY <1>1, WalkStep DEF Slots
<1> QED BY <1>1, <1>2, <1>3, SlotsAreFound DEF Slots

\* A layer below p is in p's list or in that of a group below p.
LEMMA HasParent ==
  ASSUME NEW k, IsHierarchy(k), NEW p \in DOMAIN k, NEW y \in LayersUnder(k, p)
  PROVE  \E q \in DOMAIN k : /\ q = p \/ (q \in Groups /\ q \in LayersUnder(k, p))
                             /\ y \in Range(k[q])
<1>1. PICK s \in Range(Slots(k, p)) : y = At(k, s)
  BY DEF LayersUnder
<1>2. /\ s[1] \in DOMAIN k
      /\ s[2] \in 1..Len(k[s[1]])
      /\ s[1] = p \/ (s[1] \in Groups /\ s[1] \in LayersUnder(k, p))
  BY SlotsAreValid
<1>3. y \in Range(k[s[1]])
  BY <1>1, <1>2, GroupsHaveLists DEF At
<1> QED BY <1>2, <1>3

\* Below a layer that is below p there is nothing that is not below p.
LEMMA Nested ==
  ASSUME NEW k, IsHierarchy(k), NEW p, NEW x \in LayersUnder(k, p)
  PROVE  /\ p \in DOMAIN k
         /\ x \in Layers
         /\ Below(k, x) \subseteq LayersUnder(k, p)
         /\ x \notin Groups => LayersUnder(k, x) = {}
<1>1. p \in DOMAIN k
  BY DEF LayersUnder
<1>2. x \in Layers /\ Closed(k, LayersUnder(k, p))
  BY <1>1, WalkFindsAll
<1>3. CASE x \in Groups
  <2>1. x \in DOMAIN k /\ Range(k[x]) \subseteq LayersUnder(k, p)
    BY <1>2, <1>3, GroupsHaveLists, <1>1 DEF Closed
  <2>2. LayersUnder(k, x) \subseteq LayersUnder(k, p)
    BY <1>2, <2>1, WalkFindsOnly
  <2> QED BY <1>1, <1>2, <1>3, <2>2 DEF Below
<1>4. CASE x \notin Groups
  <2>1. x \notin DOMAIN k
    BY <1>2, <1>4 DEF IsHierarchy
  <2>2. LayersUnder(k, x) = {}
    BY <2>1 DEF LayersUnder
  <2> QED BY <1>1, <1>2, <1>4, <2>2 DEF Below
<1> QED BY <1>3, <1>4

-----------------------------------------------------------------------------
(* Forests.                                                                *)

\* No two places hold the same layer.
Unique(k) ==
  \A p, q \in DOMAIN k : \A i \in 1..Len(k[p]), j \in 1..Len(k[q]) :
    k[p][i] = k[q][j] => p = q /\ i = j

LEMMA PlacesOf ==
  ASSUME NEW k, NEW l
  PROVE  /\ \A p \in DOMAIN k : \A i \in 1..Len(k[p]) :
              k[p][i] = l <=> <<p, i>> \in Places(k, l)
         /\ \A s \in Places(k, l) : /\ s = <<s[1], s[2]>>
                                    /\ s[1] \in DOMAIN k
                                    /\ s[2] \in 1..Len(k[s[1]])
                                    /\ k[s[1]][s[2]] = l
<1>1. ASSUME NEW p \in DOMAIN k, NEW i \in 1..Len(k[p])
      PROVE  k[p][i] = l <=> <<p, i>> \in Places(k, l)
  <2>1. <<p, i>> \in UNION {{r} \X (1..Len(k[r])) : r \in DOMAIN k}
    OBVIOUS
  <2> QED BY <2>1 DEF Places, At
<1>2. ASSUME NEW s \in Places(k, l)
      PROVE  /\ s = <<s[1], s[2]>>
             /\ s[1] \in DOMAIN k
             /\ s[2] \in 1..Len(k[s[1]])
             /\ k[s[1]][s[2]] = l
  <2>1. PICK p \in DOMAIN k : s \in {p} \X (1..Len(k[p]))
    BY DEF Places
  <2> QED BY <2>1 DEF Places, At
<1> QED BY <1>1, <1>2

LEMMA NoPlace ==
  ASSUME NEW k, IsHierarchy(k), NEW l
  PROVE  Places(k, l) = {} <=> \A p \in DOMAIN k : l \notin Range(k[p])
<1>1. ASSUME NEW p \in DOMAIN k, l \in Range(k[p]) PROVE Places(k, l) # {}
  <2>1. PICK i \in 1..Len(k[p]) : k[p][i] = l
    BY <1>1, GroupsHaveLists
  <2> QED BY <2>1, PlacesOf
<1>2. ASSUME NEW s \in Places(k, l) PROVE \E p \in DOMAIN k : l \in Range(k[p])
  <2>1. s[1] \in DOMAIN k /\ s[2] \in 1..Len(k[s[1]]) /\ k[s[1]][s[2]] = l
    BY PlacesOf
  <2> QED BY <2>1, GroupsHaveLists
<1> QED BY <1>1, <1>2

LEMMA ForestMeans ==
  ASSUME NEW k, IsHierarchy(k)
  PROVE  IsForest(k) <=> Unique(k) /\ ~ Cyclic(k)
<1>1. ASSUME IsForest(k) PROVE Unique(k)
  <2> SUFFICES ASSUME NEW p \in DOMAIN k, NEW q \in DOMAIN k,
                      NEW i \in 1..Len(k[p]), NEW j \in 1..Len(k[q]),
                      k[p][i] = k[q][j]
               PROVE  p = q /\ i = j
    BY DEF Unique
  <2>1. k[p][i] \in Layers
    BY GroupsHaveLists
  <2>2. <<p, i>> \in Places(k, k[p][i]) /\ <<q, j>> \in Places(k, k[p][i])
    BY PlacesOf
  <2>3. <<p, i>> = <<q, j>>
    BY <1>1, <2>1, <2>2 DEF IsForest
  <2> QED BY <2>3
<1>2. ASSUME Unique(k), NEW l \in Layers, NEW s \in Places(k, l), NEW t \in Places(k, l)
      PROVE  s = t
  <2>1. s[1] = t[1] /\ s[2] = t[2]
    BY <1>2, PlacesOf DEF Unique
  <2> QED BY <2>1, PlacesOf
<1> QED BY <1>1, <1>2 DEF IsForest

\* No layer of an acyclic hierarchy is below itself.
LEMMA NotBelowItself ==
  ASSUME NEW k, IsHierarchy(k), ~ Cyclic(k), NEW l \in Layers
  PROVE  l \notin LayersUnder(k, l)
<1>1. l \in LayersUnder(k, l) => l \in Groups
  BY Nested DEF IsHierarchy
<1> QED BY <1>1 DEF Cyclic

\* The list a layer is in is p's or a list below p, if the layer is below p.
LEMMA OneParent ==
  ASSUME NEW k, IsHierarchy(k), Unique(k), NEW p \in DOMAIN k,
         NEW y \in LayersUnder(k, p), NEW q \in DOMAIN k, y \in Range(k[q])
  PROVE  q = p \/ (q \in Groups /\ q \in LayersUnder(k, p))
<1>1. PICK r \in DOMAIN k : /\ r = p \/ (r \in Groups /\ r \in LayersUnder(k, p))
                            /\ y \in Range(k[r])
  BY HasParent
<1>2. r = q
  BY <1>1, GroupsHaveLists DEF Unique
<1> QED BY <1>1, <1>2

\* Two walks meet only if one of them comes through the start of the other.
LEMMA WalksMeet ==
  ASSUME NEW k, IsHierarchy(k), Unique(k), NEW a \in DOMAIN k, NEW b \in DOMAIN k,
         NEW y \in LayersUnder(k, a), y \in LayersUnder(k, b)
  PROVE  a = b \/ a \in LayersUnder(k, b) \/ b \in LayersUnder(k, a)
<1> SUFFICES ASSUME a # b, a \notin LayersUnder(k, b), b \notin LayersUnder(k, a)
             PROVE  FALSE
  OBVIOUS
<1> DEFINE S == LayersUnder(k, a) \ LayersUnder(k, b)
<1>1. Range(k[a]) \subseteq S
  BY WalkFindsAll, OneParent
<1>2. ASSUME NEW g \in Groups, g \in S PROVE Range(k[g]) \subseteq S
  <2>1. g \in DOMAIN k /\ Range(k[g]) \subseteq LayersUnder(k, a)
    BY <1>2, WalkFindsAll, GroupsHaveLists DEF Closed
  <2>2. ASSUME NEW x \in Range(k[g]), x \in LayersUnder(k, b) PROVE FALSE
    <3>1. g = b \/ g \in LayersUnder(k, b)
      BY <2>1, <2>2, OneParent
    <3> QED BY <1>2, <3>1
  <2> QED BY <2>1, <2>2
<1>3. LayersUnder(k, a) \subseteq S
  <2> HIDE DEF S
  <2> QED BY <1>1, <1>2, WalkFindsOnly DEF Closed
<1> QED BY <1>3

-----------------------------------------------------------------------------
(* Changes of a hierarchy.                                                 *)

\* Longer lists lead to more layers.
LEMMA LongerLists ==
  ASSUME NEW k, IsHierarchy(k), NEW k2, IsHierarchy(k2), DOMAIN k2 = DOMAIN k,
         \A q \in DOMAIN k : Range(k[q]) \subseteq Range(k2[q]), NEW p
  PROVE  LayersUnder(k, p) \subseteq LayersUnder(k2, p)
<1>1. CASE p \in DOMAIN k
  <2>1. Range(k[p]) \subseteq LayersUnder(k2, p)
    BY <1>1, WalkFindsAll
  <2>2. Closed(k, LayersUnder(k2, p))
    BY <1>1, WalkFindsAll, GroupsHaveLists DEF Closed
  <2> QED BY <1>1, <2>1, <2>2, WalkFindsOnly
<1>2. CASE p \notin DOMAIN k
  BY <1>2 DEF LayersUnder
<1> QED BY <1>1, <1>2

\* A change of lists the walk does not come to does not change the walk.
LEMMA SameLists ==
  ASSUME NEW k, IsHierarchy(k), NEW k2, IsHierarchy(k2),
         NEW p \in DOMAIN k, p \in DOMAIN k2, k2[p] = k[p],
         \A g \in Groups : g \in LayersUnder(k, p) => k2[g] = k[g]
  PROVE  LayersUnder(k2, p) = LayersUnder(k, p)
<1>1. LayersUnder(k2, p) \subseteq LayersUnder(k, p)
  <2>1. Range(k2[p]) \subseteq LayersUnder(k, p)
    BY WalkFindsAll
  <2>2. Closed(k2, LayersUnder(k, p))
    BY WalkFindsAll DEF Closed
  <2> QED BY <2>1, <2>2, WalkFindsOnly
<1>2. LayersUnder(k, p) \subseteq LayersUnder(k2, p)
  <2> DEFINE S == LayersUnder(k2, p) \cap LayersUnder(k, p)
  <2>1. Range(k[p]) \subseteq S
    BY WalkFindsAll
  <2>2. Closed(k, S)
    BY WalkFindsAll DEF Closed
  <2> HIDE DEF S
  <2>3. LayersUnder(k, p) \subseteq S
    BY <2>1, <2>2, WalkFindsOnly
  <2> QED BY <2>3 DEF S
<1> QED BY <1>1, <1>2

\* Erasing a place closes the gap in its list and touches no other list.
LEMMA ErasedLists ==
  ASSUME NEW k, IsHierarchy(k), NEW s, s[1] \in DOMAIN k, s[2] \in 1..Len(k[s[1]])
  PROVE  /\ IsHierarchy(Erased(k, s))
         /\ DOMAIN Erased(k, s) = DOMAIN k
         /\ \A q \in DOMAIN k : q # s[1] => Erased(k, s)[q] = k[q]
         /\ Len(Erased(k, s)[s[1]]) = Len(k[s[1]]) - 1
         /\ \A i \in 1..(Len(k[s[1]]) - 1) :
              Erased(k, s)[s[1]][i] = k[s[1]][IF i < s[2] THEN i ELSE i + 1]
         /\ \A q \in DOMAIN k :
              /\ Range(Erased(k, s)[q]) \subseteq Range(k[q])
              /\ Range(k[q]) \subseteq Range(Erased(k, s)[q]) \cup {At(k, s)}
<1> DEFINE p == s[1]
           n == s[2]
           list == k[p]
           rest == RemoveAt(list, n)
           k2 == Erased(k, s)
<1>1. list \in Seq(Layers) /\ n \in 1..Len(list) /\ Len(list) \in Nat
  BY GroupsHaveLists
<1>2. k2 = [k EXCEPT ![p] = rest]
  BY DEF Erased
<1> HIDE DEF list, n
<1>3. /\ SubSeq(list, 1, n - 1) \in Seq(Layers)
      /\ Len(SubSeq(list, 1, n - 1)) = n - 1
      /\ \A i \in 1..(n - 1) : SubSeq(list, 1, n - 1)[i] = list[i]
      /\ SubSeq(list, n + 1, Len(list)) \in Seq(Layers)
      /\ Len(SubSeq(list, n + 1, Len(list))) = Len(list) - n
      /\ \A i \in 1..(Len(list) - n) : SubSeq(list, n + 1, Len(list))[i] = list[n + i]
  BY <1>1
<1>4. /\ rest \in Seq(Layers)
      /\ Len(rest) = Len(list) - 1
      /\ \A i \in 1..(Len(list) - 1) : rest[i] = list[IF i < n THEN i ELSE i + 1]
  <2> DEFINE a == SubSeq(list, 1, n - 1)
             b == SubSeq(list, n + 1, Len(list))
  <2>1. rest = a \o b
    BY DEF RemoveAt
  <2> HIDE DEF a, b
  <2>2. /\ a \in Seq(Layers) /\ b \in Seq(Layers)
        /\ Len(a) = n - 1 /\ Len(b) = Len(list) - n
    BY <1>3 DEF a, b
  <2>3. rest \in Seq(Layers) /\ Len(rest) = Len(list) - 1
    BY <1>1, <2>1, <2>2
  <2>4. ASSUME NEW i \in 1..(Len(list) - 1)
        PROVE  rest[i] = list[IF i < n THEN i ELSE i + 1]
    <3>1. CASE i < n
      <4>1. i \in 1..(n - 1)
        BY <1>1, <3>1
      <4>2. rest[i] = a[i] /\ a[i] = list[i]
        BY <1>3, <2>1, <2>2, <4>1 DEF a
      <4> QED BY <3>1, <4>2
    <3>2. CASE ~ (i < n)
      <4> DEFINE j == i - (n - 1)
      <4>1. j \in 1..(Len(list) - n) /\ n + j = i + 1 /\ i = Len(a) + j
        BY <1>1, <2>2, <3>2
      <4>2. rest[i] = b[j]
        BY <2>1, <2>2, <4>1
      <4> HIDE DEF j
      <4>3. b[j] = list[n + j]
        BY <1>3, <4>1 DEF b
      <4> QED BY <3>2, <4>1, <4>2, <4>3
    <3> QED BY <3>1, <3>2
  <2> QED BY <2>3, <2>4
<1> HIDE DEF rest
<1>5. DOMAIN k2 = DOMAIN k /\ k2[p] = rest /\ \A q \in DOMAIN k : q # p => k2[q] = k[q]
  BY <1>2
<1>6. IsHierarchy(k2)
  BY <1>2, <1>4 DEF IsHierarchy
<1>7. Range(rest) = {rest[i] : i \in 1..(Len(list) - 1)}
      /\ Range(list) = {list[i] : i \in 1..Len(list)}
  <2>1. DOMAIN rest = 1..(Len(list) - 1) /\ DOMAIN list = 1..Len(list)
    BY <1>1, <1>4
  <2> QED BY <2>1 DEF Range
<1>8. Range(rest) \subseteq Range(list)
  <2>1. \A i \in 1..(Len(list) - 1) : (IF i < n THEN i ELSE i + 1) \in 1..Len(list)
    BY <1>1
  <2> QED BY <1>4, <1>7, <2>1
<1>9. Range(list) \subseteq Range(rest) \cup {list[n]}
  <2>1. ASSUME NEW i \in 1..Len(list), i # n PROVE list[i] \in Range(rest)
    <3>1. CASE i < n
      <4>1. i \in 1..(Len(list) - 1) /\ rest[i] = list[i]
        BY <1>1, <1>4, <3>1
      <4> QED BY <4>1, <1>7
    <3>2. CASE ~ (i < n)
      <4>1. i - 1 \in 1..(Len(list) - 1) /\ ~ (i - 1 < n) /\ (i - 1) + 1 = i
        BY <1>1, <2>1, <3>2
      <4>2. rest[i - 1] = list[i]
        BY <1>4, <4>1
      <4> QED BY <4>1, <4>2, <1>7
    <3> QED BY <3>1, <3>2
  <2> QED BY <1>7, <2>1
<1>10. At(k, s) = list[n]
  BY DEF At, list, n
<1> HIDE DEF k2
<1>11. \A q \in DOMAIN k : /\ Range(k2[q]) \subseteq Range(k[q])
                           /\ Range(k[q]) \subseteq Range(k2[q]) \cup {At(k, s)}
  BY <1>5, <1>8, <1>9, <1>10 DEF list
<1> QED BY <1>4, <1>5, <1>6, <1>11 DEF k2, list, n

\* Erasing the place of a layer takes what is below the layer from every walk
\* that came there, and nothing from any other.
LEMMA ErasedForest ==
  ASSUME NEW k, IsHierarchy(k), IsForest(k),
         NEW s, s[1] \in DOMAIN k, s[2] \in 1..Len(k[s[1]])
  PROVE  /\ IsForest(Erased(k, s))
         /\ Places(Erased(k, s), At(k, s)) = {}
         /\ \A q \in DOMAIN k :
              LayersUnder(Erased(k, s), q) =
                IF At(k, s) \in LayersUnder(k, q)
                THEN LayersUnder(k, q) \ Below(k, At(k, s))
                ELSE LayersUnder(k, q)
<1> DEFINE k2 == Erased(k, s)
           l == At(k, s)
           p == s[1]
<1>1. /\ IsHierarchy(k2)
      /\ DOMAIN k2 = DOMAIN k
      /\ \A q \in DOMAIN k : q # p => k2[q] = k[q]
      /\ Len(k2[p]) = Len(k[p]) - 1
      /\ \A i \in 1..(Len(k[p]) - 1) : k2[p][i] = k[p][IF i < s[2] THEN i ELSE i + 1]
      /\ \A q \in DOMAIN k : /\ Range(k2[q]) \subseteq Range(k[q])
                             /\ Range(k[q]) \subseteq Range(k2[q]) \cup {l}
  BY ErasedLists
<1>2. Unique(k) /\ ~ Cyclic(k)
  BY ForestMeans
<1>3. p \in DOMAIN k /\ s[2] \in 1..Len(k[p]) /\ l = k[p][s[2]] /\ Len(k[p]) \in Nat
  BY GroupsHaveLists DEF At
<1>4. l \in Range(k[p]) /\ l \in Layers
  BY <1>3, GroupsHaveLists
<1> HIDE DEF k2, l
<1>5. \A q : LayersUnder(k2, q) \subseteq LayersUnder(k, q)
  BY <1>1, LongerLists
<1>6. \A q \in DOMAIN k : l \notin Range(k2[q])
  <2> SUFFICES ASSUME NEW q \in DOMAIN k, l \in Range(k2[q]) PROVE FALSE
    OBVIOUS
  <2>1. q = p
    <3>1. l \in Range(k[q])
      BY <1>1
    <3>2. PICK i \in 1..Len(k[q]) : k[q][i] = l
      BY <3>1, GroupsHaveLists
    <3> QED BY <1>2, <1>3, <3>2 DEF Unique
  <2>2. PICK i \in 1..(Len(k[p]) - 1) : k2[p][i] = l
    BY <1>1, <2>1, GroupsHaveLists
  <2> DEFINE j == IF i < s[2] THEN i ELSE i + 1
  <2>3. j \in 1..Len(k[p]) /\ j # s[2] /\ k[p][j] = l
    BY <1>1, <1>3, <2>2
  <2> QED BY <1>2, <1>3, <2>3 DEF Unique
<1>7. Places(k2, l) = {}
  BY <1>1, <1>6, NoPlace
<1>8. Unique(k2)
  <2> SUFFICES ASSUME NEW a \in DOMAIN k, NEW b \in DOMAIN k,
                      NEW i \in 1..Len(k2[a]), NEW j \in 1..Len(k2[b]),
                      k2[a][i] = k2[b][j]
               PROVE  a = b /\ i = j
    BY <1>1 DEF Unique
  <2> DEFINE old(q, m) == IF q = p /\ ~ (m < s[2]) THEN m + 1 ELSE m
  <2>1. old(a, i) \in 1..Len(k[a]) /\ k[a][old(a, i)] = k2[a][i]
    BY <1>1, <1>3
  <2>2. old(b, j) \in 1..Len(k[b]) /\ k[b][old(b, j)] = k2[b][j]
    BY <1>1, <1>3
  <2>3. a = b /\ old(a, i) = old(b, j)
    <3> HIDE DEF old
    <3> QED BY <1>2, <2>1, <2>2 DEF Unique
  <2>4. i \in Nat /\ j \in Nat /\ s[2] \in Nat
    BY <1>3
  <2> QED BY <2>3, <2>4
<1>9. ~ Cyclic(k2)
  BY <1>2, <1>5 DEF Cyclic
<1>10. IsForest(k2)
  BY <1>1, <1>8, <1>9, ForestMeans
<1>11. ASSUME NEW q \in DOMAIN k, l \notin LayersUnder(k, q)
       PROVE  LayersUnder(k2, q) = LayersUnder(k, q)
  <2>1. q # p
    BY <1>4, <1>11, WalkFindsAll
  <2>2. ASSUME NEW g \in Groups, g \in LayersUnder(k, q) PROVE g # p
    BY <1>4, <1>11, <2>2, WalkFindsAll DEF Closed
  <2>3. Groups \subseteq DOMAIN k
    BY <1>3, GroupsHaveLists
  <2> QED BY <1>1, <2>1, <2>2, <2>3, SameLists
<1>12. ASSUME NEW q \in DOMAIN k, l \in LayersUnder(k, q)
       PROVE  LayersUnder(k2, q) = LayersUnder(k, q) \ Below(k, l)
  <2>1. q \notin Below(k, l)
    <3>1. q \in LayersUnder(k, l) => l \in LayersUnder(k, l)
      BY <1>12, Nested DEF Below
    <3>2. l \notin LayersUnder(k, l)
      BY <1>2, <1>4, NotBelowItself
    <3> QED BY <1>12, <3>1, <3>2 DEF Below
  <2> DEFINE S == LayersUnder(k, q) \ Below(k, l)
             T == LayersUnder(k2, q) \cup Below(k, l)
  <2>2. ASSUME NEW r \in DOMAIN k, r \notin Below(k, l), NEW x \in Range(k2[r])
        PROVE  x \notin Below(k, l)
    <3> SUFFICES ASSUME x \in Below(k, l) PROVE FALSE
      OBVIOUS
    <3>1. x # l /\ x \in Range(k[r])
      BY <1>1, <1>6
    <3>2. x \in LayersUnder(k, l) /\ l \in DOMAIN k
      BY <3>1, Nested DEF Below
    <3>3. r = l \/ r \in LayersUnder(k, l)
      BY <1>2, <3>1, <3>2, OneParent
    <3> QED BY <2>2, <3>3 DEF Below
  <2>3. LayersUnder(k2, q) \subseteq S
    <3>1. Range(k2[q]) \subseteq S
      BY <1>1, <2>1, <2>2, WalkFindsAll
    <3>2. ASSUME NEW g \in Groups, g \in S PROVE Range(k2[g]) \subseteq S
      <4>1. g \in DOMAIN k /\ Range(k[g]) \subseteq LayersUnder(k, q)
        BY <3>2, WalkFindsAll, GroupsHaveLists DEF Closed
      <4> QED BY <1>1, <2>2, <3>2, <4>1
    <3> HIDE DEF S
    <3> QED BY <1>1, <3>1, <3>2, WalkFindsOnly DEF Closed
  <2>4. LayersUnder(k, q) \subseteq T
    <3>1. Range(k[q]) \subseteq T
      <4>1. Range(k2[q]) \subseteq LayersUnder(k2, q)
        BY <1>1, WalkFindsAll
      <4> QED BY <1>1, <4>1 DEF Below
    <3>2. ASSUME NEW g \in Groups, g \in T PROVE Range(k[g]) \subseteq T
      <4>1. g \in DOMAIN k
        BY <1>3, GroupsHaveLists
      <4>2. CASE g \in LayersUnder(k2, q)
        <5>1. Range(k2[g]) \subseteq LayersUnder(k2, q)
          BY <1>1, <4>2, WalkFindsAll DEF Closed
        <5> QED BY <1>1, <4>1, <5>1 DEF Below
      <4>3. CASE g = l
        BY <4>1, <4>3, WalkFindsAll DEF Below
      <4>4. CASE g \in LayersUnder(k, l)
        <5>1. l \in DOMAIN k
          BY <4>4, Nested
        <5> QED BY <4>4, <5>1, WalkFindsAll DEF Below, Closed
      <4> QED BY <3>2, <4>2, <4>3, <4>4 DEF Below
    <3> HIDE DEF T
    <3> QED BY <3>1, <3>2, WalkFindsOnly DEF Closed
  <2> QED BY <2>3, <2>4
<1> QED BY <1>7, <1>10, <1>11, <1>12 DEF k2, l

Appended(k, p, l) == [k EXCEPT ![p] = Append(@, l)]

\* Appending a layer makes one list longer.
LEMMA AppendedLists ==
  ASSUME NEW k, IsHierarchy(k), NEW p \in DOMAIN k, NEW l \in Layers
  PROVE  LET k2 == Appended(k, p, l)
         IN  /\ IsHierarchy(k2)
             /\ DOMAIN k2 = DOMAIN k
             /\ \A q \in DOMAIN k : q # p => k2[q] = k[q]
             /\ Len(k2[p]) = Len(k[p]) + 1
             /\ \A i \in 1..Len(k[p]) : k2[p][i] = k[p][i]
             /\ k2[p][Len(k[p]) + 1] = l
             /\ \A q \in DOMAIN k : Range(k[q]) \subseteq Range(k2[q])
             /\ Range(k2[p]) = Range(k[p]) \cup {l}
<1> DEFINE k2 == Appended(k, p, l)
           list == k[p]
           more == Append(list, l)
<1>1. list \in Seq(Layers) /\ Len(list) \in Nat /\ Range(list) = {list[i] : i \in 1..Len(list)}
  BY GroupsHaveLists
<1> HIDE DEF list
<1>2. /\ more \in Seq(Layers)
      /\ Len(more) = Len(list) + 1
      /\ \A i \in 1..Len(list) : more[i] = list[i]
      /\ more[Len(list) + 1] = l
  BY <1>1
<1>3. DOMAIN more = 1..(Len(list) + 1)
  BY <1>1, <1>2
<1> HIDE DEF more
<1>4. Range(more) = {more[i] : i \in 1..(Len(list) + 1)}
  BY <1>3 DEF Range
<1>5. 1..(Len(list) + 1) = 1..Len(list) \cup {Len(list) + 1}
  BY <1>1
<1>6. Range(more) = Range(list) \cup {l}
  BY <1>1, <1>2, <1>4, <1>5
<1>7. DOMAIN k2 = DOMAIN k /\ k2[p] = more /\ \A q \in DOMAIN k : q # p => k2[q] = k[q]
  BY DEF list, more, Appended
<1>8. IsHierarchy(k2)
  <2>1. k2 = [k EXCEPT ![p] = more]
    BY DEF list, more, Appended
  <2> HIDE DEF k2
  <2> QED BY <1>2, <2>1 DEF IsHierarchy
<1> HIDE DEF k2
<1>9. \A q \in DOMAIN k : Range(k[q]) \subseteq Range(k2[q])
  BY <1>6, <1>7 DEF list
<1>10. /\ IsHierarchy(k2)
       /\ DOMAIN k2 = DOMAIN k
       /\ \A q \in DOMAIN k : q # p => k2[q] = k[q]
       /\ Len(k2[p]) = Len(k[p]) + 1
       /\ \A i \in 1..Len(k[p]) : k2[p][i] = k[p][i]
       /\ k2[p][Len(k[p]) + 1] = l
       /\ \A q \in DOMAIN k : Range(k[q]) \subseteq Range(k2[q])
       /\ Range(k2[p]) = Range(k[p]) \cup {l}
  BY <1>2, <1>6, <1>7, <1>8, <1>9 DEF list
<1> QED BY <1>10 DEF k2

\* What a walk from q finds when l was appended to p's list.
With(k, p, l, q) ==
  IF q = p \/ p \in LayersUnder(k, q)
  THEN LayersUnder(k, q) \cup Below(k, l)
  ELSE LayersUnder(k, q)

\* Appending a layer that has no place, and not below itself, adds what is
\* below the layer to every walk that comes to the list.
LEMMA AppendedForest ==
  ASSUME NEW k, IsHierarchy(k), IsForest(k), NEW p \in DOMAIN k, NEW l \in Layers,
         Places(k, l) = {}, p \notin Below(k, l)
  PROVE  LET k2 == Appended(k, p, l)
         IN  /\ IsForest(k2)
             /\ \A q \in DOMAIN k : LayersUnder(k2, q) = With(k, p, l, q)
<1> DEFINE k2 == Appended(k, p, l)
<1>1. /\ IsHierarchy(k2)
      /\ DOMAIN k2 = DOMAIN k
      /\ \A q \in DOMAIN k : q # p => k2[q] = k[q]
      /\ Len(k2[p]) = Len(k[p]) + 1
      /\ \A i \in 1..Len(k[p]) : k2[p][i] = k[p][i]
      /\ k2[p][Len(k[p]) + 1] = l
      /\ \A q \in DOMAIN k : Range(k[q]) \subseteq Range(k2[q])
      /\ Range(k2[p]) = Range(k[p]) \cup {l}
  BY AppendedLists
<1> HIDE DEF k2
<1>2. Unique(k) /\ ~ Cyclic(k)
  BY ForestMeans
<1>3. \A q \in DOMAIN k : l \notin Range(k[q])
  BY NoPlace
<1>4. \A q : LayersUnder(k, q) \subseteq LayersUnder(k2, q)
  BY <1>1, LongerLists
<1>5. Groups \subseteq DOMAIN k /\ \A q \in DOMAIN k : Len(k[q]) \in Nat
  BY GroupsHaveLists
<1>6. ASSUME NEW q \in DOMAIN k
      PROVE  LayersUnder(k2, q) \subseteq
               (IF q = p \/ p \in LayersUnder(k, q)
                THEN LayersUnder(k, q) \cup Below(k, l) ELSE LayersUnder(k, q))
  <2> DEFINE S == IF q = p \/ p \in LayersUnder(k, q)
                  THEN LayersUnder(k, q) \cup Below(k, l) ELSE LayersUnder(k, q)
  <2>1. Range(k[q]) \subseteq LayersUnder(k, q) /\ Closed(k, LayersUnder(k, q))
    BY WalkFindsAll
  <2>2. Range(k2[q]) \subseteq S
    BY <1>1, <2>1 DEF Below
  <2>3. ASSUME NEW g \in Groups, g \in S PROVE Range(k2[g]) \subseteq S
    <3>1. CASE g \in LayersUnder(k, q)
      BY <1>1, <1>5, <2>1, <3>1 DEF Below, Closed
    <3>2. CASE g \notin LayersUnder(k, q)
      <4>1. g \in Below(k, l) /\ g # p /\ S = LayersUnder(k, q) \cup Below(k, l)
        BY <2>3, <3>2
      <4>2. l \in DOMAIN k
        BY <1>5, <4>1, Nested DEF Below
      <4>3. Range(k[g]) \subseteq Below(k, l)
        BY <4>1, <4>2, WalkFindsAll DEF Below, Closed
      <4> QED BY <1>1, <1>5, <4>1, <4>3
    <3> QED BY <3>1, <3>2
  <2> HIDE DEF S
  <2>4. LayersUnder(k2, q) \subseteq S
    BY <1>1, <2>2, <2>3, WalkFindsOnly DEF Closed
  <2> QED BY <2>4 DEF S
<1>7. ASSUME NEW q \in DOMAIN k, q = p \/ p \in LayersUnder(k, q)
      PROVE  Below(k, l) \subseteq LayersUnder(k2, q)
  <2>1. Range(k2[p]) \subseteq LayersUnder(k2, p)
    BY <1>1, WalkFindsAll
  <2>2. LayersUnder(k2, p) \subseteq LayersUnder(k2, q)
    BY <1>1, <1>4, <1>7, Nested DEF Below
  <2>3. l \in LayersUnder(k2, q)
    BY <1>1, <2>1, <2>2
  <2>4. Below(k2, l) \subseteq LayersUnder(k2, q)
    BY <1>1, <2>3, Nested
  <2> QED BY <1>4, <2>4 DEF Below
<1>8. ~ Cyclic(k2)
  <2> SUFFICES ASSUME NEW g \in Groups, g \in LayersUnder(k2, g) PROVE FALSE
    BY DEF Cyclic
  <2>1. g \notin LayersUnder(k, g) /\ g \in DOMAIN k
    BY <1>2, <1>5 DEF Cyclic
  <2>2. (g = p \/ p \in LayersUnder(k, g)) /\ g \in Below(k, l)
    BY <1>6, <2>1
  <2>3. Below(k, g) \subseteq Below(k, l)
    BY <2>2, Nested DEF Below
  <2> QED BY <2>2, <2>3 DEF Below
<1>9. Unique(k2)
  <2> SUFFICES ASSUME NEW a \in DOMAIN k, NEW b \in DOMAIN k,
                      NEW i \in 1..Len(k2[a]), NEW j \in 1..Len(k2[b]),
                      k2[a][i] = k2[b][j]
               PROVE  a = b /\ i = j
    BY <1>1 DEF Unique
  <2> DEFINE new(q, m) == q = p /\ m = Len(k[p]) + 1
  <2>1. ASSUME NEW q \in DOMAIN k, NEW m \in 1..Len(k2[q])
        PROVE  /\ new(q, m) => k2[q][m] = l
               /\ ~ new(q, m) => m \in 1..Len(k[q]) /\ k2[q][m] = k[q][m] /\ k2[q][m] # l
    <3>1. new(q, m) => k2[q][m] = l
      BY <1>1
    <3>2. ASSUME ~ new(q, m)
          PROVE  m \in 1..Len(k[q]) /\ k2[q][m] = k[q][m]
      BY <1>1, <1>5, <3>2
    <3>3. m \in 1..Len(k[q]) => k[q][m] # l
      BY <1>3, GroupsHaveLists
    <3> QED BY <3>1, <3>2, <3>3
  <2>2. CASE new(a, i)
    BY <2>1, <2>2
  <2>3. CASE ~ new(a, i)
    <3>1. ~ new(b, j)
      BY <2>1, <2>3
    <3> HIDE DEF new
    <3> QED BY <1>2, <2>1, <2>3, <3>1 DEF Unique
  <2> QED BY <2>2, <2>3
<1>10. IsForest(k2)
  BY <1>1, <1>8, <1>9, ForestMeans
<1>11. \A q \in DOMAIN k :
         LayersUnder(k2, q) = With(k, p, l, q)
  BY <1>4, <1>6, <1>7 DEF With
<1> QED BY <1>10, <1>11 DEF k2

-----------------------------------------------------------------------------
(* The calls.                                                              *)

\* Removing a layer erases a place of it, if the walk of the document comes
\* to one.
LEMMA RemovedMeans ==
  ASSUME NEW k, IsHierarchy(k), NEW root \in DOMAIN k, NEW l
  PROVE  /\ ~ InFile(k, root, l) => Removed(k, root, l) = k
         /\ InFile(k, root, l)
              => \E s : /\ s[1] \in DOMAIN k
                        /\ s[2] \in 1..Len(k[s[1]])
                        /\ At(k, s) = l
                        /\ Removed(k, root, l) = Erased(k, s)
<1> DEFINE slots == Slots(k, root)
           I == {i \in 1..Len(slots) : At(k, slots[i]) = l}
           i == SelectInSeq(slots, LAMBDA s : At(k, s) = l)
<1>1. slots \in Seq(SlotsOf(k)) /\ Range(slots) = {slots[j] : j \in 1..Len(slots)}
  BY SlotsAreValid DEF Range
<1>2. InFile(k, root, l) <=> I # {}
  BY <1>1 DEF InFile, LayersUnder
<1>3. i = IF I # {} THEN Min(I) ELSE 0
  BY DEF SelectInSeq
<1>4. I # {} => i \in I
  <2> SUFFICES ASSUME I # {} PROVE i \in I
    OBVIOUS
  <2>1. I \in SUBSET Nat
    BY <1>1
  <2> HIDE DEF I
  <2>2. \E x \in I : \A y \in I : x <= y
    BY <2>1, LeastMember
  <2> QED BY <1>3, <2>2 DEF Min
<1>5. Removed(k, root, l) = IF i = 0 THEN k ELSE Erased(k, slots[i])
  BY DEF Removed
<1>6. ASSUME i \in I
      PROVE  \E s : /\ s[1] \in DOMAIN k
                    /\ s[2] \in 1..Len(k[s[1]])
                    /\ At(k, s) = l
                    /\ Removed(k, root, l) = Erased(k, s)
  <2>1. i # 0 /\ slots[i] \in Range(slots) /\ At(k, slots[i]) = l
    <3> HIDE DEF i
    <3>1. i \in 1..Len(slots) /\ At(k, slots[i]) = l
      BY <1>6
    <3> HIDE DEF slots
    <3> QED BY <1>1, <3>1
  <2>2. slots[i][1] \in DOMAIN k /\ slots[i][2] \in 1..Len(k[slots[i][1]])
    BY <2>1, SlotsAreValid
  <2> HIDE DEF i, slots
  <2> QED BY <1>5, <2>1, <2>2
<1> HIDE DEF I, i
<1> QED BY <1>2, <1>3, <1>4, <1>5, <1>6

\* What a walk from q finds when what is below l was taken from root's walk.
Without(k, root, l, q) ==
  IF l \in LayersUnder(k, root) /\ l \in LayersUnder(k, q)
  THEN LayersUnder(k, q) \ Below(k, l)
  ELSE LayersUnder(k, q)

LEMMA RemovedForest ==
  ASSUME NEW k, IsHierarchy(k), IsForest(k), NEW root \in DOMAIN k, NEW l
  PROVE  /\ IsHierarchy(Removed(k, root, l))
         /\ DOMAIN Removed(k, root, l) = DOMAIN k
         /\ IsForest(Removed(k, root, l))
         /\ InFile(k, root, l) => Places(Removed(k, root, l), l) = {}
         /\ \A q \in DOMAIN k :
              LayersUnder(Removed(k, root, l), q) = Without(k, root, l, q)
<1>1. CASE InFile(k, root, l)
  <2>1. PICK s : /\ s[1] \in DOMAIN k
                 /\ s[2] \in 1..Len(k[s[1]])
                 /\ At(k, s) = l
                 /\ Removed(k, root, l) = Erased(k, s)
    BY <1>1, RemovedMeans
  <2>2. IsHierarchy(Erased(k, s)) /\ DOMAIN Erased(k, s) = DOMAIN k
    BY <2>1, ErasedLists
  <2>3. /\ IsForest(Erased(k, s))
        /\ Places(Erased(k, s), At(k, s)) = {}
        /\ \A q \in DOMAIN k :
             LayersUnder(Erased(k, s), q) =
               IF At(k, s) \in LayersUnder(k, q)
               THEN LayersUnder(k, q) \ Below(k, At(k, s))
               ELSE LayersUnder(k, q)
    BY <2>1, ErasedForest
  <2> QED BY <1>1, <2>1, <2>2, <2>3 DEF InFile, Without
<1>2. CASE ~ InFile(k, root, l)
  <2>1. Removed(k, root, l) = k
    BY <1>2, RemovedMeans
  <2> QED BY <1>2, <2>1 DEF InFile, Without
<1> QED BY <1>1, <1>2

\* Inserting a layer that has no place, or that is in the document already.
LEMMA InsertedForest ==
  ASSUME NEW k, IsHierarchy(k), IsForest(k), NEW root \in DOMAIN k, NEW p \in DOMAIN k,
         NEW l \in Layers, InFile(k, root, l) \/ Places(k, l) = {}, p \notin Below(k, l)
  PROVE  /\ IsHierarchy(Inserted(k, root, p, l))
         /\ DOMAIN Inserted(k, root, p, l) = DOMAIN k
         /\ IsForest(Inserted(k, root, p, l))
         /\ InFile(k, root, l) => Inserted(k, root, p, l) = k
         /\ ~ InFile(k, root, l) =>
              \A q \in DOMAIN k :
                LayersUnder(Inserted(k, root, p, l), q) = With(k, p, l, q)
<1>1. CASE InFile(k, root, l)
  <2>1. Inserted(k, root, p, l) = k
    BY <1>1 DEF Inserted
  <2> QED BY <1>1, <2>1
<1>2. CASE ~ InFile(k, root, l)
  <2> DEFINE k2 == Appended(k, p, l)
  <2>1. Inserted(k, root, p, l) = k2
    BY <1>2 DEF Inserted, Appended
  <2>2. IsHierarchy(k2) /\ DOMAIN k2 = DOMAIN k
    BY AppendedLists
  <2>3. Places(k, l) = {}
    BY <1>2
  <2>4. /\ IsForest(k2)
        /\ \A q \in DOMAIN k : LayersUnder(k2, q) = With(k, p, l, q)
    BY <2>3, AppendedForest
  <2> HIDE DEF k2
  <2> QED BY <1>2, <2>1, <2>2, <2>4
<1> QED BY <1>1, <1>2

\* Removing a layer and inserting it again: what is below the layer leaves
\* the walks that came there and joins those that come to the new list.
LEMMA MovedForest ==
  ASSUME NEW k, IsHierarchy(k), IsForest(k), NEW root \in DOMAIN k, NEW p \in DOMAIN k,
         NEW l \in Layers, InFile(k, root, l) \/ Places(k, l) = {}, p \notin Below(k, l)
  PROVE  LET k2 == Inserted(Removed(k, root, l), root, p, l)
         IN  /\ IsHierarchy(k2)
             /\ DOMAIN k2 = DOMAIN k
             /\ IsForest(k2)
             /\ \A q \in DOMAIN k :
                  LayersUnder(k2, q) =
                    Without(k, root, l, q) \cup
                    (IF q = p \/ p \in LayersUnder(k, q) THEN Below(k, l) ELSE {})
<1>1. PICK k1 : k1 = Removed(k, root, l)
  OBVIOUS
<1>2. /\ IsHierarchy(k1) /\ DOMAIN k1 = DOMAIN k /\ IsForest(k1)
      /\ InFile(k, root, l) => Places(k1, l) = {}
      /\ \A q \in DOMAIN k : LayersUnder(k1, q) = Without(k, root, l, q)
  BY <1>1, RemovedForest
<1>3. Places(k1, l) = {}
  BY <1>1, <1>2, RemovedMeans
<1>4. ~ InFile(k1, root, l)
  <2>1. \A q \in DOMAIN k1 : l \notin Range(k1[q])
    BY <1>2, <1>3, NoPlace
  <2> QED BY <1>2, <2>1, HasParent DEF InFile
<1>5. Below(k1, l) = Below(k, l)
  <2>1. l \notin LayersUnder(k, l)
    BY ForestMeans, NotBelowItself
  <2>2. CASE l \in DOMAIN k
    BY <1>2, <2>1, <2>2 DEF Without, Below
  <2>3. CASE l \notin DOMAIN k
    BY <1>2, <2>3 DEF LayersUnder, Below
  <2> QED BY <2>2, <2>3
<1>6. PICK k2 : k2 = Inserted(k1, root, p, l)
  OBVIOUS
<1>7. /\ IsHierarchy(k2) /\ DOMAIN k2 = DOMAIN k1 /\ IsForest(k2)
      /\ \A q \in DOMAIN k1 : LayersUnder(k2, q) = With(k1, p, l, q)
  BY <1>2, <1>3, <1>4, <1>5, <1>6, InsertedForest
<1>8. ASSUME NEW q \in DOMAIN k
      PROVE  LayersUnder(k2, q) =
               Without(k, root, l, q) \cup
               (IF q = p \/ p \in LayersUnder(k, q) THEN Below(k, l) ELSE {})
  <2>1. p \in LayersUnder(k1, q) <=> p \in LayersUnder(k, q)
    BY <1>2 DEF Without
  <2>2. LayersUnder(k2, q) = With(k1, p, l, q) /\ LayersUnder(k1, q) = Without(k, root, l, q)
    BY <1>2, <1>7
  <2> QED BY <1>5, <2>1, <2>2 DEF With
<1> QED BY <1>1, <1>2, <1>6, <1>7, <1>8

\* Whatever parent the layer is moved to.
LEMMA RelocatedForest ==
  ASSUME NEW k, IsHierarchy(k), IsForest(k), NEW root \in DOMAIN k, root \notin Layers,
         NEW l \in Layers, InFile(k, root, l) \/ Places(k, l) = {},
         NEW p, p \notin LayersUnder(k, l)
  PROVE  /\ IsHierarchy(Relocated(k, root, l, p))
         /\ DOMAIN Relocated(k, root, l, p) = DOMAIN k
         /\ IsForest(Relocated(k, root, l, p))
<1>1. root \notin Below(k, l)
  BY Nested DEF Below
<1>2. CASE p = NoLayer
  <2>1. Relocated(k, root, l, p) = Inserted(Removed(k, root, l), root, root, l)
    BY <1>2 DEF Relocated
  <2> QED BY <1>1, <2>1, MovedForest
<1>3. CASE p # NoLayer /\ IsMovingToInvalidHierarchy(k, l, p)
  BY <1>3 DEF Relocated
<1>4. CASE p # NoLayer /\ ~ IsMovingToInvalidHierarchy(k, l, p) /\ p \in Groups
  <2>1. p \in DOMAIN k /\ p \notin Below(k, l)
    BY <1>4, GroupsHaveLists DEF Below, IsMovingToInvalidHierarchy
  <2>2. Relocated(k, root, l, p) = Inserted(Removed(k, root, l), root, p, l)
    BY <1>4 DEF Relocated
  <2> QED BY <2>1, <2>2, MovedForest
<1>5. CASE p # NoLayer /\ ~ IsMovingToInvalidHierarchy(k, l, p) /\ p \notin Groups
  <2>1. Relocated(k, root, l, p) = Removed(k, root, l)
    BY <1>5 DEF Relocated
  <2> QED BY <2>1, RemovedForest
<1> QED BY <1>2, <1>3, <1>4, <1>5

\* The first layer of a name is a layer of the list.
LEMMA NamedIsInTheList ==
  ASSUME NEW k, IsHierarchy(k), NEW p, NEW name, Named(k, p, name) # NoLayer
  PROVE  p \in DOMAIN k /\ Named(k, p, name) \in Range(k[p])
<1> DEFINE I == {i \in 1..Len(k[p]) : NameOf[k[p][i]] = name}
           i == IF p \in DOMAIN k
                THEN SelectInSeq(k[p], LAMBDA l : NameOf[l] = name) ELSE 0
<1>1. Named(k, p, name) = IF i = 0 THEN NoLayer ELSE k[p][i]
  BY DEF Named
<1>2. p \in DOMAIN k /\ i # 0
  BY <1>1
<1>3. i = IF I # {} THEN Min(I) ELSE 0
  BY <1>2 DEF SelectInSeq
<1>4. I \in SUBSET Nat
  BY <1>2, GroupsHaveLists
<1>5. I # {}
  BY <1>2, <1>3
<1> HIDE DEF I, i
<1>6. \E x \in I : \A y \in I : x <= y
  BY <1>4, <1>5, LeastMember
<1>7. i \in I
  BY <1>3, <1>5, <1>6 DEF Min
<1>8. i \in 1..Len(k[p])
  BY <1>7 DEF I
<1> QED BY <1>1, <1>2, <1>8, GroupsHaveLists

\* A path that is found leads to a layer of the document.
LEMMA FoundIsInFile ==
  ASSUME NEW k, IsHierarchy(k), NEW root \in DOMAIN k, NoLayer \notin DOMAIN k,
         NEW T, NEW path \in Seq(T), path # <<>>, Found(k, root, path) # NoLayer
  PROVE  InFile(k, root, Found(k, root, path))
<1> DEFINE N == Len(path)
           V == LayersUnder(k, root) \cup {root, NoLayer}
           Body(w) == [n \in 0..N |-> IF n = 0 THEN root ELSE Named(k, w[n - 1], path[n])]
           step == CHOOSE w : w = Body(w)
<1>1. Found(k, root, path) = step[N] /\ N \in Nat /\ N # 0
  BY DEF Found
<1>2. ASSUME NEW p \in V, NEW name PROVE Named(k, p, name) \in LayersUnder(k, root) \cup {NoLayer}
  <2> SUFFICES ASSUME Named(k, p, name) # NoLayer
               PROVE  Named(k, p, name) \in LayersUnder(k, root)
    OBVIOUS
  <2>1. p \in DOMAIN k /\ Named(k, p, name) \in Range(k[p])
    BY NamedIsInTheList
  <2>2. CASE p = root
    BY <2>1, <2>2, WalkFindsAll
  <2>3. CASE p \in LayersUnder(k, root)
    <3>1. p \in Groups
      BY <2>1, <2>3, Nested DEF IsHierarchy
    <3> QED BY <2>1, <2>3, <3>1, WalkFindsAll DEF Closed
  <2> QED BY <2>1, <2>2, <2>3
<1>3. \E w : w = Body(w)
  <2> DEFINE F == [n \in Nat |-> [p \in V |-> Named(k, p, path[n])]]
  <2>1. F \in [Nat -> [V -> V]] /\ root \in V
    BY <1>2
  <2>2. \A n \in Nat : \A p \in V : F[n][p] = Named(k, p, path[n])
    OBVIOUS
  <2> HIDE DEF F, V, N
  <2>3. PICK f : Solves(f, V, root, F, N)
    BY <1>1, <2>1, Recursion
  <2>4. f \in [0..N -> V] /\ f[0] = root /\ \A n \in 1..N : f[n] = F[n][f[n - 1]]
    BY <2>3 DEF Solves
  <2>5. ASSUME NEW n \in 0..N, n # 0 PROVE f[n] = Named(k, f[n - 1], path[n])
    <3>1. n \in 1..N /\ n \in Nat /\ n - 1 \in 0..N
      BY <1>1, <2>5
    <3> QED BY <2>2, <2>4, <3>1
  <2>6. f = Body(f)
    BY <2>4, <2>5
  <2> HIDE DEF Body
  <2> QED BY <2>6
<1> HIDE DEF step
<1>4. step = Body(step)
  <2> HIDE DEF Body
  <2> QED BY <1>3 DEF step
<1>5. step[0] = root /\ \A n \in 1..N : step[n] = Named(k, step[n - 1], path[n])
  BY <1>1, <1>4
<1> HIDE DEF Body
<1> DEFINE S == {n \in Nat : n + 1 \in 1..N => step[n + 1] \in LayersUnder(k, root) \cup {NoLayer}}
<1>6. 0 \in S
  <2> SUFFICES ASSUME 1 \in 1..N PROVE step[1] \in LayersUnder(k, root) \cup {NoLayer}
    OBVIOUS
  <2>1. step[1] = Named(k, step[0], path[1])
    BY <1>5, 1 - 1 = 0
  <2> QED BY <1>2, <1>5, <2>1
<1>7. ASSUME NEW n \in Nat, n \in S PROVE n + 1 \in S
  <2> SUFFICES ASSUME (n + 1) + 1 \in 1..N
               PROVE  step[(n + 1) + 1] \in LayersUnder(k, root) \cup {NoLayer}
    OBVIOUS
  <2>1. n + 1 \in 1..N /\ ((n + 1) + 1) - 1 = n + 1
    BY <1>1
  <2>2. step[(n + 1) + 1] = Named(k, step[n + 1], path[(n + 1) + 1])
    BY <1>5, <2>1
  <2>3. step[n + 1] \in V
    BY <1>7, <2>1
  <2> QED BY <1>2, <2>2, <2>3
<1> HIDE DEF S
<1>8. Nat \subseteq S
  BY <1>6, <1>7, SetInduction
<1>9. N - 1 \in S /\ (N - 1) + 1 = N /\ N \in 1..N
  BY <1>1, <1>8
<1>10. step[N] \in LayersUnder(k, root) \cup {NoLayer}
  BY <1>9 DEF S
<1> QED BY <1>1, <1>10 DEF InFile

-----------------------------------------------------------------------------
(* What holds of the calls in every hierarchy, forest or not.              *)

\* Two layers of a list that are not l are in the same order afterwards.
KeepsOrder(k, k2, l) ==
  \A p \in DOMAIN k : \A i, j \in 1..Len(k[p]) :
    (i < j /\ k[p][i] # l /\ k[p][j] # l)
      => \E m, n \in 1..Len(k2[p]) : m < n /\ k2[p][m] = k[p][i] /\ k2[p][n] = k[p][j]

LEMMA ErasedKeepsOrder ==
  ASSUME NEW k, IsHierarchy(k), NEW s, s[1] \in DOMAIN k, s[2] \in 1..Len(k[s[1]])
  PROVE  KeepsOrder(k, Erased(k, s), At(k, s))
<1> DEFINE k2 == Erased(k, s)
<1> SUFFICES ASSUME NEW p \in DOMAIN k, NEW i \in 1..Len(k[p]), NEW j \in 1..Len(k[p]),
                    i < j, k[p][i] # At(k, s), k[p][j] # At(k, s)
             PROVE  \E m, n \in 1..Len(k2[p]) :
                      m < n /\ k2[p][m] = k[p][i] /\ k2[p][n] = k[p][j]
  BY DEF KeepsOrder
<1>1. /\ p # s[1] => k2[p] = k[p]
      /\ Len(k2[s[1]]) = Len(k[s[1]]) - 1
      /\ \A x \in 1..(Len(k[s[1]]) - 1) :
           k2[s[1]][x] = k[s[1]][IF x < s[2] THEN x ELSE x + 1]
  BY ErasedLists
<1> HIDE DEF k2
<1>2. CASE p # s[1]
  BY <1>1, <1>2
<1>3. CASE p = s[1]
  <2> DEFINE new(x) == IF x < s[2] THEN x ELSE x - 1
  <2>1. Len(k[p]) \in Nat /\ s[2] \in 1..Len(k[p]) /\ i # s[2] /\ j # s[2]
    BY <1>3, GroupsHaveLists DEF At
  <2>2. ASSUME NEW x \in 1..Len(k[p]), x # s[2]
        PROVE  new(x) \in 1..(Len(k[p]) - 1) /\ k2[p][new(x)] = k[p][x]
    <3>1. CASE x < s[2]
      <4>1. x \in 1..(Len(k[p]) - 1)
        BY <2>1, <3>1
      <4> QED BY <1>1, <1>3, <3>1, <4>1
    <3>2. CASE ~ (x < s[2])
      <4>1. x - 1 \in 1..(Len(k[p]) - 1) /\ ~ (x - 1 < s[2]) /\ (x - 1) + 1 = x
        BY <2>1, <2>2, <3>2
      <4> QED BY <1>1, <1>3, <3>2, <4>1
    <3> QED BY <3>1, <3>2
  <2>3. new(i) < new(j)
    BY <2>1
  <2> HIDE DEF new
  <2>4. /\ new(i) \in 1..Len(k2[p]) /\ k2[p][new(i)] = k[p][i]
        /\ new(j) \in 1..Len(k2[p]) /\ k2[p][new(j)] = k[p][j]
    BY <1>1, <1>3, <2>1, <2>2
  <2> QED BY <2>3, <2>4
<1> QED BY <1>2, <1>3

LEMMA RemovedLists ==
  ASSUME NEW k, IsHierarchy(k), NEW root \in DOMAIN k, NEW l
  PROVE  /\ IsHierarchy(Removed(k, root, l))
         /\ DOMAIN Removed(k, root, l) = DOMAIN k
         /\ KeepsOrder(k, Removed(k, root, l), l)
<1>1. CASE InFile(k, root, l)
  <2>1. PICK s : /\ s[1] \in DOMAIN k
                 /\ s[2] \in 1..Len(k[s[1]])
                 /\ At(k, s) = l
                 /\ Removed(k, root, l) = Erased(k, s)
    BY <1>1, RemovedMeans
  <2>2. IsHierarchy(Erased(k, s)) /\ DOMAIN Erased(k, s) = DOMAIN k
    BY <2>1, ErasedLists
  <2>3. KeepsOrder(k, Erased(k, s), At(k, s))
    BY <2>1, ErasedKeepsOrder
  <2> QED BY <2>1, <2>2, <2>3
<1>2. CASE ~ InFile(k, root, l)
  <2>1. Removed(k, root, l) = k
    BY <1>2, RemovedMeans
  <2> QED BY <2>1 DEF KeepsOrder
<1> QED BY <1>1, <1>2

LEMMA InsertedLists ==
  ASSUME NEW k, IsHierarchy(k), NEW root, NEW p \in DOMAIN k, NEW l \in Layers
  PROVE  /\ IsHierarchy(Inserted(k, root, p, l))
         /\ DOMAIN Inserted(k, root, p, l) = DOMAIN k
         /\ \A q \in DOMAIN k : \A i \in 1..Len(k[q]) :
              /\ i \in 1..Len(Inserted(k, root, p, l)[q])
              /\ Inserted(k, root, p, l)[q][i] = k[q][i]
<1>1. CASE InFile(k, root, l)
  <2>1. Inserted(k, root, p, l) = k
    BY <1>1 DEF Inserted
  <2> QED BY <2>1
<1>2. CASE ~ InFile(k, root, l)
  <2>1. Inserted(k, root, p, l) = Appended(k, p, l)
    BY <1>2 DEF Inserted, Appended
  <2>2. PICK k2 : k2 = Appended(k, p, l)
    OBVIOUS
  <2>3. /\ IsHierarchy(k2)
        /\ DOMAIN k2 = DOMAIN k
        /\ \A q \in DOMAIN k : q # p => k2[q] = k[q]
        /\ Len(k2[p]) = Len(k[p]) + 1
        /\ \A i \in 1..Len(k[p]) : k2[p][i] = k[p][i]
    BY <2>2, AppendedLists
  <2>4. Len(k[p]) \in Nat
    BY GroupsHaveLists
  <2>5. ASSUME NEW q \in DOMAIN k, NEW i \in 1..Len(k[q])
        PROVE  i \in 1..Len(k2[q]) /\ k2[q][i] = k[q][i]
    BY <2>3, <2>4
  <2> QED BY <2>1, <2>2, <2>3, <2>5
<1> QED BY <1>1, <1>2

LEMMA ReinsertedLists ==
  ASSUME NEW k, IsHierarchy(k), NEW root \in DOMAIN k, NEW p \in DOMAIN k, NEW l \in Layers
  PROVE  LET k2 == Inserted(Removed(k, root, l), root, p, l)
         IN  /\ IsHierarchy(k2)
             /\ DOMAIN k2 = DOMAIN k
             /\ KeepsOrder(k, k2, l)
<1>1. PICK k1 : k1 = Removed(k, root, l)
  OBVIOUS
<1>2. PICK k2 : k2 = Inserted(k1, root, p, l)
  OBVIOUS
<1>3. IsHierarchy(k1) /\ DOMAIN k1 = DOMAIN k /\ KeepsOrder(k, k1, l)
  BY <1>1, RemovedLists
<1>4. /\ IsHierarchy(k2) /\ DOMAIN k2 = DOMAIN k1
      /\ \A q \in DOMAIN k1 : \A i \in 1..Len(k1[q]) :
           i \in 1..Len(k2[q]) /\ k2[q][i] = k1[q][i]
  BY <1>2, <1>3, InsertedLists
<1>5. KeepsOrder(k, k2, l)
  <2> SUFFICES ASSUME NEW q \in DOMAIN k, NEW i \in 1..Len(k[q]), NEW j \in 1..Len(k[q]),
                      i < j, k[q][i] # l, k[q][j] # l
               PROVE  \E m, n \in 1..Len(k2[q]) :
                        m < n /\ k2[q][m] = k[q][i] /\ k2[q][n] = k[q][j]
    BY DEF KeepsOrder
  <2>1. PICK m \in 1..Len(k1[q]), n \in 1..Len(k1[q]) :
          m < n /\ k1[q][m] = k[q][i] /\ k1[q][n] = k[q][j]
    BY <1>3 DEF KeepsOrder
  <2>2. /\ m \in 1..Len(k2[q]) /\ k2[q][m] = k1[q][m]
        /\ n \in 1..Len(k2[q]) /\ k2[q][n] = k1[q][n]
    BY <1>3, <1>4
  <2> QED BY <2>1, <2>2
<1> QED BY <1>1, <1>2, <1>3, <1>4, <1>5

LEMMA RelocatedLists ==
  ASSUME NEW k, IsHierarchy(k), NEW root \in DOMAIN k, NEW l \in Layers, NEW p
  PROVE  /\ IsHierarchy(Relocated(k, root, l, p))
         /\ DOMAIN Relocated(k, root, l, p) = DOMAIN k
         /\ KeepsOrder(k, Relocated(k, root, l, p), l)
<1>1. CASE p = NoLayer
  <2>1. Relocated(k, root, l, p) = Inserted(Removed(k, root, l), root, root, l)
    BY <1>1 DEF Relocated
  <2> QED BY <2>1, ReinsertedLists
<1>2. CASE p # NoLayer /\ IsMovingToInvalidHierarchy(k, l, p)
  <2>1. Relocated(k, root, l, p) = k
    BY <1>2 DEF Relocated
  <2> QED BY <2>1 DEF KeepsOrder
<1>3. CASE p # NoLayer /\ ~ IsMovingToInvalidHierarchy(k, l, p) /\ p \in Groups
  <2>1. p \in DOMAIN k
    BY <1>3, GroupsHaveLists
  <2>2. Relocated(k, root, l, p) = Inserted(Removed(k, root, l), root, p, l)
    BY <1>3 DEF Relocated
  <2> QED BY <2>1, <2>2, ReinsertedLists
<1>4. CASE p # NoLayer /\ ~ IsMovingToInvalidHierarchy(k, l, p) /\ p \notin Groups
  <2>1. Relocated(k, root, l, p) = Removed(k, root, l)
    BY <1>4 DEF Relocated
  <2> QED BY <2>1, RemovedLists
<1> QED BY <1>1, <1>2, <1>3, <1>4

=============================================================================

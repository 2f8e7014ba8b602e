----------------------------- MODULE QueueLemmas -----------------------------
(***************************************************************************)
(* Lemmas on queues that the proofs share: what taking from a queue and    *)
(* adding to it does to its elements, and how many of them are in a set.   *)
(***************************************************************************)
EXTENDS Integers, Sequences, FiniteSets, FiniteSetTheorems, SequenceTheorems,
        NaturalsInduction, WellFoundedInduction, TLAPS

(* How many elements of a queue are in a set. *)
Many(q, S) == Cardinality({i \in DOMAIN q : q[i] \in S})

LEMMA ManyIsFinite ==
    ASSUME NEW T, NEW q \in Seq(T), NEW S
    PROVE  /\ IsFiniteSet({i \in DOMAIN q : q[i] \in S})
           /\ Many(q, S) \in Nat
  <1>1. DOMAIN q = 1..Len(q) /\ Len(q) \in Nat
    OBVIOUS
  <1>2. IsFiniteSet(1..Len(q))
    BY <1>1, FS_Interval
  <1>3. {i \in DOMAIN q : q[i] \in S} \in SUBSET (1..Len(q))
    BY <1>1
  <1> QED BY <1>2, <1>3, FS_Subset, FS_CardinalityType DEF Many

LEMMA ManyInEmpty ==
    ASSUME NEW S
    PROVE  Many(<<>>, S) = 0
  <1>1. {i \in DOMAIN <<>> : <<>>[i] \in S} = {}
    OBVIOUS
  <1> QED BY <1>1, FS_EmptySet DEF Many

LEMMA ManyInAppend ==
    ASSUME NEW T, NEW q \in Seq(T), NEW x \in T, NEW S
    PROVE  Many(Append(q, x), S) = Many(q, S) + (IF x \in S THEN 1 ELSE 0)
  <1> DEFINE a == Append(q, x)
             A == {i \in DOMAIN q : q[i] \in S}
             B == {i \in DOMAIN a : a[i] \in S}
  <1>1. /\ DOMAIN a = 1..(Len(q) + 1) /\ DOMAIN q = 1..Len(q) /\ Len(q) \in Nat
        /\ \A i \in 1..Len(q) : a[i] = q[i]
        /\ a[Len(q) + 1] = x
    OBVIOUS
  <1> HIDE DEF a
  <1>2. IsFiniteSet(A) /\ Cardinality(A) \in Nat
    BY ManyIsFinite DEF Many
  <1>3. Len(q) + 1 \notin A /\ \A i \in 1..(Len(q) + 1) : i \in 1..Len(q) \/ i = Len(q) + 1
    BY <1>1
  <1>4. CASE x \in S
    <2>1. B = A \cup {Len(q) + 1}
      BY <1>1, <1>3, <1>4
    <2>2. Cardinality(A \cup {Len(q) + 1}) = Cardinality(A) + 1
      BY <1>2, <1>3, FS_AddElement
    <2> QED BY <1>4, <2>1, <2>2 DEF Many, a
  <1>5. CASE x \notin S
    <2>1. B = A
      BY <1>1, <1>3, <1>5
    <2>2. Many(Append(q, x), S) = Cardinality(B) /\ Many(q, S) = Cardinality(A)
      BY DEF Many, a
    <2> HIDE DEF A, B
    <2> QED BY <1>2, <1>5, <2>1, <2>2
  <1> QED BY <1>4, <1>5

LEMMA ManyInTail ==
    ASSUME NEW T, NEW q \in Seq(T), q # <<>>, NEW S
    PROVE  Many(q, S) = Many(Tail(q), S) + (IF Head(q) \in S THEN 1 ELSE 0)
  <1> DEFINE t == Tail(q)
             A == {i \in DOMAIN t : t[i] \in S}
             B == {i \in DOMAIN q : q[i] \in S}
             C == {i \in B : i # 1}
             f == [i \in A |-> i + 1]
  <1>1. /\ t \in Seq(T) /\ DOMAIN t = 1..(Len(q) - 1) /\ DOMAIN q = 1..Len(q) /\ Len(q) \in Nat \ {0}
        /\ \A i \in 1..(Len(q) - 1) : t[i] = q[i + 1]
        /\ Head(q) = q[1]
    OBVIOUS
  <1> HIDE DEF t
  <1>2. f \in Bijection(A, C)
    <2>1. \A i \in A : i + 1 \in C
      BY <1>1
    <2>2. \A j \in C : j - 1 \in A /\ f[j - 1] = j
      <3>1. ASSUME NEW j \in C
            PROVE  j - 1 \in 1..(Len(q) - 1) /\ (j - 1) + 1 = j
        BY <1>1
      <3>2. ASSUME NEW j \in C
            PROVE  t[j - 1] = q[j]
        BY <1>1, <3>1
      <3> QED BY <1>1, <3>1, <3>2
    <2>3. \A i, j \in A : f[i] = f[j] => i = j
      BY <1>1
    <2>4. f \in [A -> C]
      BY <2>1
    <2>5. \A j \in C : \E i \in A : f[i] = j
      BY <2>2
    <2> HIDE DEF f, A, C
    <2> QED BY <2>3, <2>4, <2>5 DEF Bijection, Injection, Surjection, IsInjective
  <1>3. IsFiniteSet(A) /\ Cardinality(A) \in Nat
    BY <1>1, ManyIsFinite DEF Many
  <1>4. IsFiniteSet(C) /\ Cardinality(C) = Cardinality(A)
    BY <1>2, <1>3, FS_Bijection DEF ExistsBijection
  <1>5. Many(Tail(q), S) = Cardinality(A) /\ Many(q, S) = Cardinality(B)
    BY DEF Many, t
  <1>6. CASE Head(q) \in S
    <2>1. B = C \cup {1} /\ 1 \notin C
      BY <1>1, <1>6
    <2>2. Cardinality(C \cup {1}) = Cardinality(C) + 1
      BY <1>4, <2>1, FS_AddElement
    <2> HIDE DEF A, B, C
    <2> QED BY <1>4, <1>5, <1>6, <2>1, <2>2
  <1>7. CASE Head(q) \notin S
    <2>1. B = C
      BY <1>1, <1>7
    <2> HIDE DEF A, B, C
    <2> QED BY <1>3, <1>4, <1>5, <1>7, <2>1
  <1> QED BY <1>6, <1>7

LEMMA NoneOfNone ==
    ASSUME NEW T, NEW q \in Seq(T), NEW S
    PROVE  Many(q, S) = 0 <=> \A i \in DOMAIN q : q[i] \notin S
  <1>1. IsFiniteSet({i \in DOMAIN q : q[i] \in S})
    BY ManyIsFinite
  <1>2. Many(q, S) = 0 <=> {i \in DOMAIN q : q[i] \in S} = {}
    BY <1>1, FS_EmptySet DEF Many
  <1> QED BY <1>2

LEMMA NoneOfFewer ==
    ASSUME NEW T, NEW q \in Seq(T), NEW S, NEW R \in SUBSET S, Many(q, S) = 0
    PROVE  Many(q, R) = 0
  BY NoneOfNone

(* Elements that do not count. *)
LEMMA ManyInSame ==
    ASSUME NEW S, NEW q, NEW r, DOMAIN q = DOMAIN r, \A i \in DOMAIN q : q[i] \in S <=> r[i] \in S
    PROVE  Many(q, S) = Many(r, S)
  <1>1. {i \in DOMAIN q : q[i] \in S} = {i \in DOMAIN r : r[i] \in S}
    OBVIOUS
  <1> QED BY <1>1 DEF Many

LEMMA TailFacts ==
    ASSUME NEW T, NEW q \in Seq(T), q # <<>>
    PROVE  /\ Tail(q) \in Seq(T) /\ Head(q) = q[1] /\ q[1] \in T /\ 1 \in DOMAIN q
           /\ Len(q) \in Nat \ {0} /\ DOMAIN q = 1..Len(q)
           /\ Len(Tail(q)) = Len(q) - 1 /\ DOMAIN Tail(q) = 1..(Len(q) - 1)
           /\ \A i \in DOMAIN Tail(q) : i + 1 \in DOMAIN q /\ Tail(q)[i] = q[i + 1]
           /\ \A i \in DOMAIN q : i # 1 => i - 1 \in DOMAIN Tail(q) /\ Tail(q)[i - 1] = q[i]
  <1> DEFINE t == Tail(q)
  <1>1. /\ t \in Seq(T) /\ DOMAIN t = 1..(Len(q) - 1) /\ DOMAIN q = 1..Len(q) /\ Len(q) \in Nat \ {0}
        /\ \A i \in 1..(Len(q) - 1) : t[i] = q[i + 1]
        /\ Head(q) = q[1] /\ q[1] \in T /\ Len(t) = Len(q) - 1
    OBVIOUS
  <1> HIDE DEF t
  <1>2. ASSUME NEW i \in DOMAIN q, i # 1
        PROVE  i - 1 \in DOMAIN t /\ t[i - 1] = q[i]
    BY <1>1, <1>2
  <1>3. ASSUME NEW i \in DOMAIN t
        PROVE  i + 1 \in DOMAIN q /\ t[i] = q[i + 1]
    BY <1>1, <1>3
  <1> QED BY <1>1, <1>2, <1>3 DEF t

LEMMA ConcatFacts ==
    ASSUME NEW T, NEW q \in Seq(T), NEW r \in Seq(T)
    PROVE  /\ q \o r \in Seq(T) /\ Len(q) \in Nat /\ Len(r) \in Nat
           /\ Len(q \o r) = Len(q) + Len(r)
           /\ DOMAIN q = 1..Len(q) /\ DOMAIN r = 1..Len(r) /\ DOMAIN (q \o r) = 1..(Len(q) + Len(r))
           /\ \A i \in DOMAIN q : i \in DOMAIN (q \o r) /\ (q \o r)[i] = q[i]
           /\ \A i \in DOMAIN r : Len(q) + i \in DOMAIN (q \o r) /\ (q \o r)[Len(q) + i] = r[i]
           /\ \A i \in DOMAIN (q \o r) :
                  i \in DOMAIN q \/ (i - Len(q) \in DOMAIN r /\ (q \o r)[i] = r[i - Len(q)])
  <1> DEFINE c == q \o r
  <1>1. /\ c \in Seq(T) /\ Len(q) \in Nat /\ Len(r) \in Nat /\ Len(c) = Len(q) + Len(r)
        /\ DOMAIN q = 1..Len(q) /\ DOMAIN r = 1..Len(r) /\ DOMAIN c = 1..(Len(q) + Len(r))
        /\ \A i \in 1..(Len(q) + Len(r)) : c[i] = IF i <= Len(q) THEN q[i] ELSE r[i - Len(q)]
    OBVIOUS
  <1> HIDE DEF c
  <1>2. ASSUME NEW i \in DOMAIN q
        PROVE  i \in DOMAIN c /\ c[i] = q[i]
    BY <1>1, <1>2
  <1>3. ASSUME NEW i \in DOMAIN r
        PROVE  Len(q) + i \in DOMAIN c /\ c[Len(q) + i] = r[i]
    <2>1. Len(q) + i \in 1..(Len(q) + Len(r)) /\ ~(Len(q) + i <= Len(q)) /\ (Len(q) + i) - Len(q) = i
      BY <1>1, <1>3
    <2> QED BY <1>1, <2>1
  <1>4. ASSUME NEW i \in DOMAIN c
        PROVE  i \in DOMAIN q \/ (i - Len(q) \in DOMAIN r /\ c[i] = r[i - Len(q)])
    BY <1>1, <1>4
  <1> QED BY <1>1, <1>2, <1>3, <1>4 DEF c

LEMMA AppendFacts ==
    ASSUME NEW T, NEW q \in Seq(T), NEW x \in T
    PROVE  /\ Append(q, x) \in Seq(T) /\ Len(q) \in Nat /\ Len(Append(q, x)) = Len(q) + 1
           /\ DOMAIN q = 1..Len(q) /\ DOMAIN Append(q, x) = 1..(Len(q) + 1)
           /\ \A i \in DOMAIN q : i \in DOMAIN Append(q, x) /\ Append(q, x)[i] = q[i]
           /\ Len(q) + 1 \in DOMAIN Append(q, x) /\ Append(q, x)[Len(q) + 1] = x
           /\ \A i \in DOMAIN Append(q, x) : i \in DOMAIN q \/ i = Len(q) + 1
  <1> DEFINE c == Append(q, x)
  <1>1. /\ c \in Seq(T) /\ Len(q) \in Nat /\ Len(c) = Len(q) + 1
        /\ DOMAIN q = 1..Len(q) /\ DOMAIN c = 1..(Len(q) + 1)
        /\ \A i \in 1..Len(q) : c[i] = q[i]
        /\ c[Len(q) + 1] = x
    OBVIOUS
  <1> HIDE DEF c
  <1>2. \A i \in 1..Len(q) : i \in 1..(Len(q) + 1)
    BY <1>1
  <1>3. \A i \in 1..(Len(q) + 1) : i \in 1..Len(q) \/ i = Len(q) + 1
    BY <1>1
  <1>4. Len(q) + 1 \in 1..(Len(q) + 1)
    BY <1>1
  <1> QED BY <1>1, <1>2, <1>3, <1>4 DEF c

LEMMA ManyInConcat ==
    ASSUME NEW T, NEW q \in Seq(T), NEW r \in Seq(T), NEW S, \A i \in DOMAIN r : r[i] \notin S
    PROVE  Many(q \o r, S) = Many(q, S)
  <1> DEFINE c == q \o r
  <1>1. /\ \A i \in DOMAIN q : i \in DOMAIN c /\ c[i] = q[i]
        /\ \A i \in DOMAIN c : i \in DOMAIN q \/ (i - Len(q) \in DOMAIN r /\ c[i] = r[i - Len(q)])
    BY ConcatFacts
  <1> HIDE DEF c
  <1>2. {i \in DOMAIN c : c[i] \in S} = {i \in DOMAIN q : q[i] \in S}
    BY <1>1
  <1> QED BY <1>2 DEF Many, c

(* A queue that keeps some elements of another in their order has no more. *)
Embeds(g, r, q) ==
    /\ g \in [DOMAIN r -> DOMAIN q]
    /\ \A j \in DOMAIN r : r[j] = q[g[j]]
    /\ \A i, j \in DOMAIN r : i < j => g[i] < g[j]

LEMMA ManyInEmbedded ==
    ASSUME NEW T, NEW q \in Seq(T), NEW r \in Seq(T), NEW S, NEW g, Embeds(g, r, q)
    PROVE  Many(r, S) <= Many(q, S)
  <1> DEFINE A == {i \in DOMAIN r : r[i] \in S}
             B == {i \in DOMAIN q : q[i] \in S}
             f == [i \in A |-> g[i]]
  <1>1. IsFiniteSet(B)
    BY ManyIsFinite
  <1>2. DOMAIN r = 1..Len(r) /\ Len(r) \in Nat /\ DOMAIN q = 1..Len(q) /\ Len(q) \in Nat
    OBVIOUS
  <1>3. f \in [A -> B]
    BY DEF Embeds
  <1>4. ASSUME NEW i \in A, NEW j \in A, i # j
        PROVE  f[i] # f[j]
    <2>1. i \in Nat /\ j \in Nat /\ g[i] \in Nat /\ g[j] \in Nat
      BY <1>2 DEF Embeds
    <2>2. i < j \/ j < i
      BY <1>4, <2>1
    <2>3. g[i] < g[j] \/ g[j] < g[i]
      BY <2>2 DEF Embeds
    <2> QED BY <2>1, <2>3
  <1> HIDE DEF f, A, B
  <1>5. f \in Injection(A, B)
    BY <1>3, <1>4 DEF Injection, IsInjective
  <1>6. Cardinality(A) <= Cardinality(B)
    BY <1>1, <1>5, FS_Injection
  <1> QED BY <1>6 DEF Many, A, B

-----------------------------------------------------------------------------
(* Without a rule of induction that takes a predicate, a property of all   *)
(* naturals is proved from the least one that might not have it.           *)
LEMMA LeastElement ==
    ASSUME NEW T \in SUBSET Nat, T # {}
    PROVE  \E n \in T : \A k \in Nat : k < n => k \notin T
  <1> DEFINE R == OpToRel(<, Nat)
  <1>1. IsWellFoundedOn(R, Nat)
    BY NatLessThanWellFounded
  <1>2. \A a, b \in Nat : a < b => <<a, b>> \in R
    BY DEF OpToRel
  <1> HIDE DEF R
  <1>3. PICK n \in T : \A k \in T : <<k, n>> \notin R
    BY <1>1, WFMin
  <1>4. ASSUME NEW k \in Nat, k < n
        PROVE  k \notin T
    BY <1>2, <1>3, <1>4
  <1> QED BY <1>4
=============================================================================

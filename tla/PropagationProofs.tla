-------------------------- MODULE PropagationProofs --------------------------
(***************************************************************************)
(* Reactive propagation for any features, dependencies, rows, round length *)
(* and number of crashes: an update behind the committed offset has been   *)
(* recomputed, and when everything is handled every dependent is up to     *)
(* date, but for what could not be read when it was computed and inputs    *)
(* that are too old.                                                       *)
(***************************************************************************)
EXTENDS Propagation, FiniteSetTheorems, WellFoundedInduction, TLAPS

-----------------------------------------------------------------------------
(* Numbers and sequences.                                                  *)

(* A nonempty set of numbers has a least one.                              *)
LEMMA LeastNat ==
    ASSUME NEW S \in SUBSET Nat, S # {}
    PROVE  \E x \in S : \A y \in S : x <= y
  <1> DEFINE R == {ss \in Nat \X Nat : ss[1] < ss[2]}
  <1>1. IsWellFoundedOn(R, Nat)
    BY NatLessThanWellFounded, Zenon DEF OpToRel
  <1>2. PICK x \in S : \A y \in S : ~(<<y, x>> \in R)
    BY <1>1, WFMin
  <1>3. ASSUME NEW y \in S PROVE x <= y
    <2>1. y \in Nat /\ x \in Nat /\ ~(<<y, x>> \in R)
      BY <1>2
    <2>2. <<y, x>> \in Nat \X Nat /\ <<y, x>>[1] = y /\ <<y, x>>[2] = x
      BY <2>1
    <2>3. ~(y < x)
      BY <2>1, <2>2, Zenon
    <2> QED
      BY <2>1, <2>3
  <1> QED
    BY <1>3

(* A sequence is one over its own elements.                                *)
LEMMA SeqOver ==
    ASSUME NEW s, IsSeq(s)
    PROVE  /\ s \in Seq(ToSet(s)) /\ DOMAIN s = 1..Len(s) /\ Len(s) \in Nat
           /\ \A i \in 1..Len(s) : s[i] \in ToSet(s)
           /\ \A x \in ToSet(s) : \E i \in 1..Len(s) : x = s[i]
  <1>1. Len(s) \in Nat /\ s = [i \in 1..Len(s) |-> s[i]]
    BY DEF IsSeq
  <1>2. DOMAIN s = 1..Len(s)
    BY <1>1
  <1>3. (\A i \in 1..Len(s) : s[i] \in ToSet(s)) /\ \A x \in ToSet(s) : \E i \in 1..Len(s) : x = s[i]
    BY <1>2 DEF ToSet
  <1>4. s \in [1..Len(s) -> ToSet(s)]
    BY <1>1, <1>3
  <1> QED
    BY <1>1, <1>2, <1>3, <1>4

(* A sequence over a set is one.                                           *)
LEMMA SeqIsSeq ==
    ASSUME NEW T, NEW s \in Seq(T)
    PROVE  IsSeq(s) /\ ToSet(s) \subseteq T
  <1>1. Len(s) \in Nat /\ s \in [1..Len(s) -> T]
    OBVIOUS
  <1> QED
    BY <1>1 DEF IsSeq, ToSet

(* Appending.                                                              *)
LEMMA AppendSeq ==
    ASSUME NEW s, IsSeq(s), NEW x
    PROVE  /\ IsSeq(Append(s, x)) /\ Len(Append(s, x)) = Len(s) + 1
           /\ \A i \in 1..Len(s) : Append(s, x)[i] = s[i]
           /\ Append(s, x)[Len(s) + 1] = x
           /\ ToSet(Append(s, x)) = ToSet(s) \cup {x} /\ Append(s, x) # <<>>
  <1> DEFINE T == ToSet(s) \cup {x}
             t == Append(s, x)
  <1>1. Len(s) \in Nat /\ DOMAIN s = 1..Len(s) /\ s \in Seq(T)
    <2>1. s \in Seq(ToSet(s)) /\ Len(s) \in Nat /\ DOMAIN s = 1..Len(s)
      BY SeqOver
    <2>2. ToSet(s) \subseteq T
      OBVIOUS
    <2> HIDE DEF T
    <2> QED
      BY <2>1, <2>2
  <1> HIDE DEF T
  <1>2. x \in T
    BY DEF T
  <1>3. /\ t \in Seq(T) /\ Len(t) = Len(s) + 1 /\ t[Len(s) + 1] = x
        /\ \A i \in 1..Len(s) : t[i] = s[i]
    BY <1>1, <1>2
  <1> HIDE DEF t
  <1>4. IsSeq(t) /\ DOMAIN t = 1..Len(s) + 1
    <2>1. IsSeq(t)
      BY <1>3, SeqIsSeq
    <2> QED
      BY <1>3, <2>1, SeqOver
  <1>5. ToSet(t) = ToSet(s) \cup {x}
    <2>1. ASSUME NEW y \in ToSet(t) PROVE y \in ToSet(s) \cup {x}
      <3>1. PICK i \in 1..Len(s) + 1 : y = t[i]
        BY <1>4 DEF ToSet
      <3>2. CASE i = Len(s) + 1
        BY <1>3, <3>1, <3>2
      <3>3. CASE i # Len(s) + 1
        <4>1. i \in 1..Len(s)
          BY <1>1, <3>3
        <4> QED
          BY <1>1, <1>3, <3>1, <4>1 DEF ToSet
      <3> QED
        BY <3>2, <3>3
    <2>2. ASSUME NEW y \in ToSet(s) \cup {x} PROVE y \in ToSet(t)
      <3>1. CASE y = x
        BY <1>1, <1>3, <1>4, <3>1 DEF ToSet
      <3>2. CASE y \in ToSet(s)
        <4>1. PICK i \in 1..Len(s) : y = s[i]
          BY <1>1, <3>2 DEF ToSet
        <4>2. i \in 1..Len(s) + 1 /\ y = t[i]
          BY <1>1, <1>3, <4>1
        <4> QED
          BY <1>4, <4>2 DEF ToSet
      <3> QED
        BY <3>1, <3>2
    <2> QED
      BY <2>1, <2>2
  <1>6. t # <<>>
    BY <1>1, <1>3
  <1> QED
    BY <1>3, <1>4, <1>5, <1>6 DEF t

(* The rest of a sequence without repetition.                              *)
LEMMA TailSeq ==
    ASSUME NEW T, NEW s \in Seq(T), IsInjective(s), s # <<>>
    PROVE  /\ Tail(s) \in Seq(T) /\ IsInjective(Tail(s)) /\ Head(s) \in ToSet(s) /\ Head(s) \in T
           /\ ToSet(Tail(s)) = ToSet(s) \ {Head(s)}
  <1> DEFINE t == Tail(s)
  <1>1. /\ Len(s) \in Nat \ {0} /\ DOMAIN s = 1..Len(s) /\ Head(s) = s[1] /\ Head(s) \in T
        /\ t \in Seq(T) /\ Len(t) = Len(s) - 1 /\ DOMAIN t = 1..Len(s) - 1
        /\ \A i \in 1..Len(s) - 1 : t[i] = s[i + 1]
    OBVIOUS
  <1> HIDE DEF t
  <1>2. \A i, j \in 1..Len(s) : s[i] = s[j] => i = j
    BY <1>1 DEF IsInjective
  <1>3. IsInjective(t)
    BY <1>1, <1>2 DEF IsInjective
  <1>4. ASSUME NEW y \in ToSet(t) PROVE y \in ToSet(s) /\ y # Head(s)
    <2>1. PICK i \in 1..Len(s) - 1 : y = t[i]
      BY <1>1, <1>4 DEF ToSet
    <2>2. i + 1 \in 1..Len(s) /\ y = s[i + 1] /\ i + 1 # 1 /\ 1 \in 1..Len(s)
      BY <1>1, <2>1
    <2>3. y # s[1]
      BY <1>2, <2>2
    <2> QED
      BY <1>1, <2>2, <2>3 DEF ToSet
  <1>5. ASSUME NEW y \in ToSet(s), y # Head(s) PROVE y \in ToSet(t)
    <2>1. PICK i \in 1..Len(s) : y = s[i]
      BY <1>1, <1>5 DEF ToSet
    <2>2. i # 1
      BY <1>1, <1>5, <2>1
    <2>3. i - 1 \in 1..Len(s) - 1 /\ y = t[i - 1]
      BY <1>1, <2>1, <2>2
    <2> QED
      BY <1>1, <2>3 DEF ToSet
  <1>6. Head(s) \in ToSet(s)
    BY <1>1 DEF ToSet
  <1> QED
    BY <1>1, <1>3, <1>4, <1>5, <1>6 DEF t

(* Putting two sequences without repetition, and without an element in     *)
(* common, one after the other.                                            *)
LEMMA ConcatSeq ==
    ASSUME NEW T, NEW s \in Seq(T), NEW t \in Seq(T), IsInjective(s), IsInjective(t),
           ToSet(s) \cap ToSet(t) = {}
    PROVE  /\ s \o t \in Seq(T) /\ IsInjective(s \o t)
           /\ ToSet(s \o t) = ToSet(s) \cup ToSet(t)
  <1> DEFINE u == s \o t
  <1>1. /\ Len(s) \in Nat /\ Len(t) \in Nat /\ DOMAIN s = 1..Len(s) /\ DOMAIN t = 1..Len(t)
        /\ u \in Seq(T) /\ Len(u) = Len(s) + Len(t) /\ DOMAIN u = 1..Len(s) + Len(t)
        /\ \A i \in 1..Len(s) : u[i] = s[i]
        /\ \A i \in 1..Len(t) : u[Len(s) + i] = t[i]
    <2>1. Len(s) \in Nat /\ Len(t) \in Nat /\ DOMAIN s = 1..Len(s) /\ DOMAIN t = 1..Len(t)
      OBVIOUS
    <2>2. u \in Seq(T) /\ Len(u) = Len(s) + Len(t)
      OBVIOUS
    <2>3. \A i \in 1..Len(s) + Len(t) : u[i] = IF i <= Len(s) THEN s[i] ELSE t[i - Len(s)]
      OBVIOUS
    <2> HIDE DEF u
    <2>4. DOMAIN u = 1..Len(s) + Len(t)
      BY <2>2
    <2>5. \A i \in 1..Len(s) : u[i] = s[i]
      BY <2>1, <2>3
    <2>6. ASSUME NEW i \in 1..Len(t) PROVE u[Len(s) + i] = t[i]
      <3>1. Len(s) + i \in 1..Len(s) + Len(t) /\ ~(Len(s) + i <= Len(s)) /\ Len(s) + i - Len(s) = i
        BY <2>1
      <3> QED
        BY <2>3, <3>1
    <2> QED
      BY <2>1, <2>2, <2>4, <2>5, <2>6
  <1> HIDE DEF u
  <1>2. ASSUME NEW i \in DOMAIN u
        PROVE  \/ i \in 1..Len(s) /\ u[i] = s[i]
               \/ i - Len(s) \in 1..Len(t) /\ u[i] = t[i - Len(s)]
    <2>1. CASE i <= Len(s)
      BY <1>1, <2>1
    <2>2. CASE ~(i <= Len(s))
      <3>1. i - Len(s) \in 1..Len(t) /\ Len(s) + (i - Len(s)) = i
        BY <1>1, <2>2
      <3> QED
        BY <1>1, <3>1
    <2> QED
      BY <2>1, <2>2
  <1>3. /\ \A i \in 1..Len(s) : s[i] \in ToSet(s)
        /\ \A i \in 1..Len(t) : t[i] \in ToSet(t)
    BY <1>1 DEF ToSet
  <1>4. ASSUME NEW i \in DOMAIN u, NEW j \in DOMAIN u, u[i] = u[j] PROVE i = j
    <2>1. CASE i \in 1..Len(s) /\ u[i] = s[i] /\ j \in 1..Len(s) /\ u[j] = s[j]
      BY <1>1, <1>4, <2>1 DEF IsInjective
    <2>2. CASE /\ i - Len(s) \in 1..Len(t) /\ u[i] = t[i - Len(s)]
               /\ j - Len(s) \in 1..Len(t) /\ u[j] = t[j - Len(s)]
      <3>1. i - Len(s) = j - Len(s)
        BY <1>1, <1>4, <2>2 DEF IsInjective
      <3> QED
        BY <1>1, <3>1
    <2> QED
      BY <1>2, <1>3, <1>4, <2>1, <2>2
  <1>5. ToSet(u) \subseteq ToSet(s) \cup ToSet(t)
    BY <1>2, <1>3 DEF ToSet
  <1>6. ToSet(s) \subseteq ToSet(u)
    <2>1. \A i \in 1..Len(s) : i \in DOMAIN u /\ u[i] = s[i]
      BY <1>1
    <2> QED
      BY <1>1, <2>1 DEF ToSet
  <1>7. ToSet(t) \subseteq ToSet(u)
    <2>1. \A i \in 1..Len(t) : Len(s) + i \in DOMAIN u /\ u[Len(s) + i] = t[i]
      BY <1>1
    <2> QED
      BY <1>1, <2>1 DEF ToSet
  <1> QED
    BY <1>1, <1>4, <1>5, <1>6, <1>7 DEF IsInjective, u

-----------------------------------------------------------------------------
(* The order of a plan.                                                    *)

(* The names, each once.                                                   *)
LEMMA DerivedSeq ==
    /\ Len(Derived) \in Nat /\ DOMAIN Derived = 1..Len(Derived)
    /\ \A k \in 1..Len(Derived) : Derived[k] \in Dependents
    /\ \A d \in Dependents : \E k \in 1..Len(Derived) : d = Derived[k]
    /\ \A k, l \in 1..Len(Derived) : Derived[k] = Derived[l] => k = l
  <1>1. Derived \in Seq(Dependents) /\ IsInjective(Derived)
    BY PropagationAssumption
  <1>2. IsSeq(Derived)
    BY <1>1, SeqIsSeq
  <1> QED
    BY <1>1, <1>2, SeqOver DEF IsInjective, Dependents

(* How many members of S there are up to a place of the list.              *)
LEMMA PlacesCount ==
    ASSUME NEW S, NEW n \in Nat
    PROVE  /\ IsFiniteSet(Places(S, n)) /\ Cardinality(Places(S, n)) \in Nat
           /\ Places(S, 0) = {} /\ Cardinality(Places(S, 0)) = 0
           /\ \A m \in 0..n : Cardinality(Places(S, m)) <= Cardinality(Places(S, n))
           /\ n # 0 => Cardinality(Places(S, n)) =
                  IF Derived[n] \in S THEN Cardinality(Places(S, n - 1)) + 1
                  ELSE Cardinality(Places(S, n - 1))
  <1>1. \A m \in Nat : Places(S, m) \in SUBSET (1..m) /\ IsFiniteSet(1..m)
    BY FS_Interval DEF Places
  <1>2. \A m \in Nat : IsFiniteSet(Places(S, m)) /\ Cardinality(Places(S, m)) \in Nat
    BY <1>1, FS_Subset, FS_CardinalityType
  <1>3. Places(S, 0) = {} /\ Cardinality(Places(S, 0)) = 0
    BY FS_EmptySet DEF Places
  <1>4. ASSUME NEW m \in 0..n PROVE Cardinality(Places(S, m)) <= Cardinality(Places(S, n))
    <2>1. Places(S, m) \in SUBSET Places(S, n)
      BY DEF Places
    <2> QED
      BY <1>2, <2>1, FS_Subset
  <1>5. ASSUME n # 0
        PROVE  Cardinality(Places(S, n)) = IF Derived[n] \in S THEN Cardinality(Places(S, n - 1)) + 1
                                           ELSE Cardinality(Places(S, n - 1))
    <2>1. n - 1 \in Nat /\ n \notin Places(S, n - 1)
      BY <1>5 DEF Places
    <2>2. CASE Derived[n] \in S
      <3>1. Places(S, n) = Places(S, n - 1) \cup {n}
        BY <1>5, <2>2 DEF Places
      <3> QED
        BY <1>2, <2>1, <2>2, <3>1, FS_AddElement
    <2>3. CASE Derived[n] \notin S
      <3>1. Places(S, n) = Places(S, n - 1)
        BY <1>5, <2>3 DEF Places
      <3> QED
        BY <2>3, <3>1
    <2> QED
      BY <2>2, <2>3
  <1> QED
    BY <1>2, <1>3, <1>4, <1>5

(* Every count up to the last is reached, at one member of S.              *)
LEMMA PlaceReached ==
    ASSUME NEW S, NEW i \in 1..Cardinality(Places(S, Len(Derived)))
    PROVE  \E k \in Places(S, Len(Derived)) : Cardinality(Places(S, k)) = i
  <1> DEFINE n == Len(Derived)
             C(m) == Cardinality(Places(S, m))
             A == {m \in Nat : m <= n /\ C(m) >= i}
  <1>0. n \in Nat /\ i \in Nat \ {0} /\ C(n) \in Nat /\ i <= C(n)
    <2>1. n \in Nat
      BY DerivedSeq
    <2>2. C(n) \in Nat
      BY <2>1, PlacesCount
    <2> QED
      BY <2>1, <2>2
  <1>1. n \in A
    BY <1>0
  <1>2. PICK k \in A : \A m \in A : k <= m
    BY <1>1, LeastNat
  <1>3. k \in Nat /\ k <= n /\ C(k) >= i /\ C(k) \in Nat
    BY <1>2, PlacesCount
  <1>4. k # 0
    <2>1. C(0) = 0
      BY PlacesCount
    <2> QED
      BY <1>0, <1>3, <2>1
  <1>5. k - 1 \in Nat /\ C(k - 1) \in Nat
    BY <1>3, <1>4, PlacesCount
  <1>6. C(k - 1) < i
    <2>1. k - 1 \notin A
      BY <1>2, <1>3, <1>4
    <2> QED
      BY <1>0, <1>3, <1>5, <2>1
  <1>7. C(k) = IF Derived[k] \in S THEN C(k - 1) + 1 ELSE C(k - 1)
    BY <1>3, <1>4, PlacesCount
  <1> HIDE DEF C, A
  <1>8. Derived[k] \in S /\ C(k) = i
    BY <1>0, <1>3, <1>5, <1>6, <1>7
  <1>9. k \in Places(S, n)
    BY <1>0, <1>3, <1>4, <1>8 DEF Places
  <1> QED
    BY <1>8, <1>9 DEF C

(* Two members of S have different counts.                                 *)
LEMMA PlaceUnique ==
    ASSUME NEW S, NEW k \in Places(S, Len(Derived)), NEW l \in Places(S, Len(Derived)),
           Cardinality(Places(S, k)) = Cardinality(Places(S, l))
    PROVE  k = l
  <1>0. /\ k \in Nat /\ k # 0 /\ Derived[k] \in S /\ k <= Len(Derived)
        /\ l \in Nat /\ l # 0 /\ Derived[l] \in S /\ l <= Len(Derived)
    BY DerivedSeq DEF Places
  <1>1. ASSUME NEW a \in Nat, NEW b \in Nat, b # 0, Derived[b] \in S, a < b
        PROVE  Cardinality(Places(S, a)) # Cardinality(Places(S, b))
    <2>1. b - 1 \in Nat /\ a \in 0..b - 1
      BY <1>1
    <2>2. Cardinality(Places(S, a)) <= Cardinality(Places(S, b - 1))
      BY <2>1, PlacesCount
    <2>3. Cardinality(Places(S, b)) = Cardinality(Places(S, b - 1)) + 1
      BY <1>1, PlacesCount
    <2>4. Cardinality(Places(S, a)) \in Nat /\ Cardinality(Places(S, b - 1)) \in Nat
      BY <2>1, PlacesCount
    <2> QED
      BY <2>2, <2>3, <2>4
  <1> QED
    BY <1>0, <1>1

(* InOrder lists the members of S, each once.                              *)
LEMMA InOrderLists ==
    ASSUME NEW S \in SUBSET Dependents
    PROVE  InOrder(S) \in Seq(Dependents) /\ IsInjective(InOrder(S)) /\ ToSet(InOrder(S)) = S
  <1> DEFINE n == Len(Derived)
             C(m) == Cardinality(Places(S, m))
             at == [i \in 1..C(n) |-> CHOOSE k \in Places(S, n) : C(k) = i]
             q == InOrder(S)
  <1>0. n \in Nat /\ C(n) \in Nat
    BY DerivedSeq, PlacesCount
  <1>1. \A i \in 1..C(n) : at[i] \in Places(S, n) /\ C(at[i]) = i
    BY PlaceReached
  <1>2. q = [i \in 1..C(n) |-> Derived[at[i]]]
    BY DEF InOrder
  <1> HIDE DEF q, at
  <1>3. \A k \in Places(S, n) : k \in 1..n /\ Derived[k] \in S
    BY DEF Places
  <1>4. q \in [1..C(n) -> Dependents] /\ DOMAIN q = 1..C(n)
    BY <1>1, <1>2, <1>3
  <1>5. q \in Seq(Dependents)
    BY <1>0, <1>4
  <1>6. ASSUME NEW i \in 1..C(n), NEW j \in 1..C(n), q[i] = q[j] PROVE i = j
    <2>1. Derived[at[i]] = Derived[at[j]] /\ at[i] \in 1..n /\ at[j] \in 1..n
      BY <1>1, <1>2, <1>3, <1>6
    <2>2. at[i] = at[j]
      BY <2>1, DerivedSeq
    <2> QED
      BY <1>1, <2>2
  <1>7. ToSet(q) \subseteq S
    BY <1>1, <1>2, <1>3, <1>4 DEF ToSet
  <1>8. ASSUME NEW d \in S PROVE d \in ToSet(q)
    <2>1. PICK k \in 1..n : d = Derived[k]
      BY DerivedSeq
    <2>2. k \in Places(S, n) /\ k \in Nat /\ k # 0 /\ k \in 0..n
      BY <1>0, <2>1 DEF Places
    <2>3. C(k) \in 1..C(n)
      <3>1. C(k) = C(k - 1) + 1 /\ C(k - 1) \in Nat /\ C(k) <= C(n)
        <4>1. Derived[k] \in S /\ k - 1 \in Nat
          BY <2>1, <2>2
        <4> QED
          BY <1>0, <2>2, <4>1, PlacesCount
      <3> QED
        BY <1>0, <3>1
    <2>4. at[C(k)] = k
      BY <1>1, <2>2, <2>3, PlaceUnique
    <2>5. q[C(k)] = d
      BY <1>2, <2>1, <2>3, <2>4
    <2> QED
      BY <1>4, <2>3, <2>5 DEF ToSet
  <1> QED
    BY <1>4, <1>5, <1>6, <1>7, <1>8 DEF IsInjective, q

(* Observing adds the candidates that are not pending yet.                 *)
LEMMA ObserveAdds ==
    ASSUME NEW pend \in Seq(Dependents), IsInjective(pend), NEW S \in SUBSET Dependents
    PROVE  /\ observe(pend, S) \in Seq(Dependents) /\ IsInjective(observe(pend, S))
           /\ ToSet(observe(pend, S)) = ToSet(pend) \cup S
  <1> DEFINE T == S \ ToSet(pend)
  <1>1. InOrder(T) \in Seq(Dependents) /\ IsInjective(InOrder(T)) /\ ToSet(InOrder(T)) = T
    BY InOrderLists
  <1>2. ToSet(pend) \cap ToSet(InOrder(T)) = {} /\ ToSet(pend) \cup ToSet(InOrder(T)) = ToSet(pend) \cup S
    BY <1>1
  <1>3. observe(pend, S) = pend \o InOrder(T)
    BY DEF observe
  <1> HIDE DEF T
  <1> QED
    BY <1>1, <1>2, <1>3, ConcatSeq

-----------------------------------------------------------------------------
(* Rows and reads.                                                         *)

(* What the constants are.                                                 *)
LEMMA Edges ==
    ASSUME NEW d \in Dependents
    PROVE  /\ d \in Features /\ d \notin Base /\ d # Poison
           /\ Deps[d] \in Seq(Edge) /\ Len(Deps[d]) \in Nat \ {0} /\ DOMAIN Deps[d] = 1..Len(Deps[d])
           /\ \A j \in DOMAIN Deps[d] :
                  /\ Deps[d][j].feature \in Features /\ Deps[d][j].feature # d
                  /\ Deps[d][j].version \in {NoPin, Version[Deps[d][j].feature]}
                  /\ Deps[d][j].max_age = NoLimit \/ Deps[d][j].max_age \in Nat
                  /\ Deps[d][j].reactive => Deps[d][j].feature \in Triggers
  <1>1. Deps[d] \in Seq(Edge) /\ Deps[d] # <<>> /\ Base \cap Dependents = {} /\ Poison \notin Features
    BY PropagationAssumption
  <1>2. Len(Deps[d]) \in Nat \ {0} /\ DOMAIN Deps[d] = 1..Len(Deps[d])
    BY <1>1
  <1>3. \A j \in DOMAIN Deps[d] : Deps[d][j] \in Edge
    BY <1>1
  <1>4. \A j \in DOMAIN Deps[d] : /\ Deps[d][j].feature \in Features
                                  /\ Deps[d][j].max_age = NoLimit \/ Deps[d][j].max_age \in Nat
    BY <1>3 DEF Edge
  <1>5. \A j \in DOMAIN Deps[d] : /\ Deps[d][j].feature # d
                                  /\ Deps[d][j].version \in {NoPin, Version[Deps[d][j].feature]}
    BY PropagationAssumption
  <1>6. d \in Features /\ d \notin Base
    BY <1>1 DEF Features
  <1>7. \A j \in DOMAIN Deps[d] : Deps[d][j].reactive => Deps[d][j].feature \in Triggers
    BY <1>4 DEF Triggers
  <1> QED
    BY <1>1, <1>2, <1>4, <1>5, <1>6, <1>7

(* An announcement of the registry's version plans every reactive          *)
(* dependent, and only dependents.                                         *)
LEMMA Planned ==
    ASSUME NEW d \in Dependents, NEW j \in DOMAIN Deps[d], Deps[d][j].reactive, NEW e,
           e.feature = Deps[d][j].feature, e.version = Version[e.feature]
    PROVE  d \in plan_recompute_wave(e)
  <1>1. Deps[d][j].version \in {NoPin, Version[Deps[d][j].feature]}
    BY Edges
  <1> QED
    BY <1>1 DEF plan_recompute_wave

(* A poison message plans nothing.                                         *)
LEMMA PlansOnly ==
    ASSUME NEW e
    PROVE  /\ plan_recompute_wave(e) \in SUBSET Dependents
           /\ e.feature = Poison => plan_recompute_wave(e) = {}
           /\ \A d \in plan_recompute_wave(e) : \E j \in DOMAIN Deps[d] :
                  Deps[d][j].feature = e.feature /\ Deps[d][j].reactive
  <1>1. plan_recompute_wave(e) \in SUBSET Dependents
    BY DEF plan_recompute_wave
  <1>2. \A d \in plan_recompute_wave(e) : \E j \in DOMAIN Deps[d] :
            Deps[d][j].feature = e.feature /\ Deps[d][j].reactive
    BY DEF plan_recompute_wave
  <1>3. Poison \notin Features
    BY PropagationAssumption
  <1> QED
    BY <1>1, <1>2, <1>3, Edges

(* Rows are ordered by date and then by the time they were computed.       *)
LEMMA NotLaterOrder ==
    ASSUME NEW r, NEW s, NEW t, IsRow(r), IsRow(s), IsRow(t)
    PROVE  /\ NotLater(r, r) /\ (NotLater(r, s) \/ NotLater(s, r))
           /\ NotLater(r, s) /\ NotLater(s, t) => NotLater(r, t)
           /\ NotLater(r, s) => r.data_ts <= s.data_ts
  BY DEF IsRow, NotLater

(* A row that may be read may be read from then on.                        *)
LEMMA VisibleLater ==
    ASSUME NEW r, IsRow(r), NEW t \in Nat, NEW u \in Nat, t <= u, Visible(r, t)
    PROVE  Visible(r, u)
  BY DEF IsRow, Visible, Effective

(* A row dated or available only after it was computed was not present.    *)
LEMMA PresentVisible ==
    ASSUME NEW r, IsRow(r), Present(r), NEW t \in Nat, r.calc_ts <= t
    PROVE  Visible(r, t)
  BY VisibleLater DEF Present, IsRow

(* An edge that takes a row takes a later one, and took both before.       *)
LEMMA FreshLater ==
    ASSUME NEW x, x.max_age = NoLimit \/ x.max_age \in Nat, wave_ts \in Nat,
           NEW t \in Nat, NEW u \in Nat, t <= u, Fresh(x, t)
    PROVE  Fresh(x, u)
  BY DEF Fresh

(* A nonempty set of numbers that none exceeds has a greatest one.         *)
LEMMA GreatestNat ==
    ASSUME NEW S \in SUBSET Nat, S # {}, NEW n \in Nat, \A x \in S : x <= n
    PROVE  \E x \in S : \A y \in S : y <= x
  <1> DEFINE T == {m \in Nat : \E x \in S : m = n - x}
  <1>1. PICK z \in S : TRUE
    OBVIOUS
  <1>2. n - z \in T
    BY <1>1
  <1>3. PICK m \in T : \A k \in T : m <= k
    BY <1>2, LeastNat
  <1>4. PICK x \in S : m = n - x
    BY <1>3
  <1>5. ASSUME NEW y \in S PROVE y <= x
    <2>1. n - y \in T
      OBVIOUS
    <2> QED
      BY <1>3, <1>4, <2>1
  <1> QED
    BY <1>5

(* Any nonempty set of places of a history has a newest row.               *)
LEMMA NewestExists ==
    ASSUME NEW f, IsSeq(history[f]), \A r \in ToSet(history[f]) : IsRow(r),
           NEW S \in SUBSET (1..Len(history[f])), S # {}
    PROVE  \E i \in S : i \in Newest(f, S)
  <1> DEFINE H == history[f]
             Best(i, T) == \A j \in T : NotLater(H[j], H[i]) /\ (NotLater(H[i], H[j]) => j <= i)
             P(n) == \A T \in SUBSET (1..n) : T # {} => \E i \in T : Best(i, T)
             Bad == {n \in Nat : n <= Len(H) /\ ~P(n)}
  <1>1. Len(H) \in Nat /\ \A i \in 1..Len(H) : IsRow(H[i])
    BY SeqOver
  <1>2. Bad = {}
    <2> SUFFICES ASSUME Bad # {} PROVE FALSE
      OBVIOUS
    <2>1. Bad \in SUBSET Nat
      OBVIOUS
    <2>2. PICK n \in Bad : \A m \in Bad : n <= m
      BY <2>1, LeastNat
    <2>3. n \in Nat /\ n <= Len(H) /\ ~P(n)
      BY <2>2
    <2>4. n # 0
      <3>1. 1..0 = {}
        OBVIOUS
      <3> QED
        BY <2>3, <3>1
    <2>5. P(n - 1)
      <3>1. n - 1 \in Nat /\ n - 1 <= Len(H) /\ ~(n <= n - 1)
        BY <1>1, <2>3, <2>4
      <3>2. n - 1 \notin Bad
        <4> HIDE DEF Bad
        <4> QED
          BY <2>2, <3>1
      <3> QED
        BY <3>1, <3>2
    <2> HIDE DEF H
    <2>6. PICK T \in SUBSET (1..n) : T # {} /\ \A i \in T : ~Best(i, T)
      BY <2>3
    <2>7. n \in 1..Len(H) /\ NotLater(H[n], H[n]) /\ n <= n
      <3>1. n \in 1..Len(H) /\ n <= n
        BY <1>1, <2>3, <2>4
      <3> QED
        BY <1>1, <3>1, NotLaterOrder
    <2>8. \A j \in T : j \in 1..Len(H) /\ IsRow(H[j]) /\ j <= n /\ j \in Nat
      BY <1>1, <2>3, <2>6
    <2>9. T \ {n} \in SUBSET (1..(n - 1))
      BY <2>3, <2>6, <2>8
    <2>10. CASE T \ {n} = {}
      <3>1. T = {n}
        <4>1. T # {}
          BY <2>6
        <4> HIDE DEF Bad
        <4> QED
          BY <2>10, <4>1, Zenon
      <3>2. Best(n, T)
        BY <2>7, <3>1
      <3> QED
        BY <2>6, <3>1, <3>2
    <2>11. CASE T \ {n} # {}
      <3>1. PICK i \in T \ {n} : Best(i, T \ {n})
        BY <2>5, <2>9, <2>11
      <3>2. CASE n \notin T
        <4>1. T \ {n} = T
          BY <3>2
        <4> QED
          BY <2>6, <3>1, <4>1
      <3>3. CASE n \in T /\ NotLater(H[i], H[n])
        <4>1. ASSUME NEW j \in T PROVE NotLater(H[j], H[n]) /\ j <= n
          <5>1. CASE j = n
            BY <2>7, <5>1
          <5>2. CASE j # n
            <6>1. NotLater(H[j], H[i]) /\ IsRow(H[j]) /\ IsRow(H[i]) /\ IsRow(H[n])
              BY <1>1, <2>7, <2>8, <3>1, <5>2
            <6> QED
              BY <2>8, <3>3, <6>1, NotLaterOrder
          <5> QED
            BY <5>1, <5>2
        <4>2. Best(n, T)
          BY <4>1
        <4> QED
          BY <2>6, <3>3, <4>2
      <3>4. CASE n \in T /\ ~NotLater(H[i], H[n])
        <4>1. NotLater(H[n], H[i])
          BY <1>1, <2>7, <2>8, <3>1, <3>4, NotLaterOrder
        <4>2. Best(i, T)
          BY <3>1, <3>4, <4>1
        <4> QED
          BY <2>6, <3>1, <4>2
      <3> QED
        BY <3>2, <3>3, <3>4
    <2> QED
      BY <2>10, <2>11
  <1>3. P(Len(H))
    <2>1. Len(H) \in Nat /\ Len(H) <= Len(H)
      BY <1>1
    <2> HIDE DEF P
    <2> QED
      BY <1>2, <2>1
  <1>4. PICK i \in S : Best(i, S)
    BY <1>3
  <1> QED
    BY <1>4 DEF Newest

(* get_pit reads a row of the registry's version that the wave sees, and   *)
(* no such row is later.                                                   *)
LEMMA GetPit ==
    ASSUME TypeOK, NEW f \in Features, Eligible(f) # {}
    PROVE  /\ get_pit(f) \in Current(f) /\ Visible(get_pit(f), wave_ts)
           /\ \A r \in Current(f) : Visible(r, wave_ts) => NotLater(r, get_pit(f))
  <1> DEFINE H == history[f]
             i == CHOOSE i \in Newest(f, Eligible(f)) : TRUE
  <1>1. IsSeq(H) /\ \A r \in ToSet(H) : IsRow(r)
    BY DEF TypeOK
  <1>2. /\ Len(H) \in Nat /\ DOMAIN H = 1..Len(H)
        /\ \A j \in 1..Len(H) : H[j] \in ToSet(H)
        /\ \A r \in ToSet(H) : \E j \in 1..Len(H) : r = H[j]
    BY <1>1, SeqOver
  <1>3. Eligible(f) \in SUBSET (1..Len(H))
    BY <1>2 DEF Eligible
  <1>4. i \in Newest(f, Eligible(f))
    BY <1>1, <1>3, NewestExists
  <1>5. get_pit(f) = H[i]
    BY DEF get_pit
  <1> HIDE DEF i
  <1>6. i \in Eligible(f) /\ \A j \in Eligible(f) : NotLater(H[j], H[i])
    BY <1>4 DEF Newest
  <1>7. H[i] \in Current(f) /\ Visible(H[i], wave_ts)
    BY <1>2, <1>3, <1>6 DEF Eligible, Current
  <1>8. ASSUME NEW r \in Current(f), Visible(r, wave_ts) PROVE NotLater(r, H[i])
    <2>1. PICK j \in 1..Len(H) : r = H[j]
      BY <1>2 DEF Current
    <2>2. j \in Eligible(f)
      BY <1>2, <1>8, <2>1 DEF Eligible, Current
    <2> QED
      BY <1>6, <2>1, <2>2
  <1> QED
    BY <1>5, <1>7, <1>8

(* What a dependent is computed to from the rows read for its edges.       *)
LEMMA ComputedRow ==
    ASSUME NEW d \in Dependents, NEW u, IsSeq(u), Len(u) = Len(Deps[d]), wave_ts \in Nat,
           \A i \in 1..Len(u) : IsRow(u[i]) /\ Visible(u[i], wave_ts)
    PROVE  LET r == Computed(d, u) IN
           /\ r.data_ts \in Nat /\ r.available_at \in Nat
           /\ r.calc_ts = wave_ts /\ r.version = Version[d] /\ Present(r)
           /\ \A i \in 1..Len(u) : /\ r.data_ts <= u[i].data_ts
                                   /\ r.from[i] = u[i].data_ts /\ r.value[i] = u[i].value
           /\ \E i \in 1..Len(u) : r.data_ts = u[i].data_ts
  <1> DEFINE ts == {u[i].data_ts : i \in DOMAIN u}
             av == {u[i].available_at : i \in DOMAIN u}
             t == CHOOSE t \in ts : \A x \in ts : t <= x
             a == CHOOSE a \in av : \A x \in av : x <= a
             b == IF Unknown \in av THEN Unknown ELSE a
             r == Computed(d, u)
  <1>1. DOMAIN u = 1..Len(u) /\ Len(u) \in Nat /\ 1 \in 1..Len(u)
    BY SeqOver, Edges
  <1>2. \A i \in 1..Len(u) : /\ u[i].data_ts \in Nat /\ u[i].data_ts <= wave_ts
                             /\ u[i].available_at \in Nat
                             /\ u[i].available_at # Unknown => u[i].available_at <= wave_ts
    BY DEF IsRow, Visible, Effective
  <1>3. ts \in SUBSET Nat /\ u[1].data_ts \in ts /\ av \in SUBSET Nat /\ u[1].available_at \in av
    BY <1>1, <1>2
  <1>4. t \in ts /\ \A x \in ts : t <= x
    BY <1>3, LeastNat
  <1>5. b \in Nat /\ (b # Unknown => b <= wave_ts)
    <2>1. CASE Unknown \in av
      BY <2>1 DEF Unknown
    <2>2. CASE Unknown \notin av
      <3>1. \A x \in av : x <= wave_ts
        BY <1>1, <1>2, <2>2
      <3>2. a \in av
        BY <1>3, <3>1, GreatestNat
      <3> QED
        BY <1>3, <2>2, <3>1, <3>2
    <2> QED
      BY <2>1, <2>2
  <1>6. r = [data_ts |-> t, value |-> [i \in DOMAIN u |-> u[i].value],
             from |-> [i \in DOMAIN u |-> u[i].data_ts], available_at |-> b,
             trusted |-> Unknown \notin av /\ \A i \in DOMAIN u : u[i].trusted,
             calc_ts |-> wave_ts, version |-> Version[d]]
    BY DEF Computed
  <1> HIDE DEF t, a, b, r
  <1>7. /\ r.data_ts = t /\ r.calc_ts = wave_ts /\ r.version = Version[d] /\ r.available_at = b
        /\ r.value = [i \in DOMAIN u |-> u[i].value] /\ r.from = [i \in DOMAIN u |-> u[i].data_ts]
    BY <1>6
  <1>8. \A i \in 1..Len(u) : t <= u[i].data_ts
    BY <1>1, <1>4
  <1>9. t \in Nat /\ \E i \in 1..Len(u) : t = u[i].data_ts
    BY <1>1, <1>3, <1>4
  <1>10. t <= wave_ts
    BY <1>2, <1>9
  <1>11. Present(r)
    BY <1>5, <1>7, <1>10 DEF Present, Visible, Effective
  <1> QED
    BY <1>1, <1>5, <1>7, <1>8, <1>9, <1>11 DEF r

-----------------------------------------------------------------------------
(* The inductive invariant.                                                *)

(* An announced row is in history, and was computed before the wave that   *)
(* handles its announcement.                                               *)
EventsDurable ==
    \A o \in 1..Len(topic) : ~IsPoison(o) =>
        /\ topic[o].feature \in Features
        /\ \E k \in ToSet(history[topic[o].feature]) :
               RowOf(o, k) /\ (o <= position /\ pc # "poll" => k.calc_ts <= wave_ts)

(* A dependent's row was computed from rows that history still has, and    *)
(* could be read from that moment on.                                      *)
RowsComputed ==
    \A d \in Dependents : \A h \in ToSet(history[d]) :
        /\ Computable(d) /\ h.version = Version[d] /\ h.calc_ts <= wave_ts /\ Present(h)
        /\ \A j \in DOMAIN Deps[d] :
               /\ h.data_ts <= h.from[j]
               /\ \E k \in Current(Deps[d][j].feature) :
                      k.data_ts = h.from[j] /\ Visible(k, h.calc_ts)

(* A row computed after the wave began is announced after it.              *)
UnseenAnnounced ==
    pc # "poll" => \A f \in Triggers : \A r \in Current(f) :
        r.calc_ts > wave_ts => \E p \in position + 1..Len(topic) : Announces(p, f)

(* The round in progress.                                                  *)
RoundInProgress ==
    /\ pc # "poll" => pending # <<>>
    /\ pc = "poll" => unit = <<>> /\ (pending = <<>> => debounce = <<>>)
    /\ pc = "emit" \/ unit # <<>> => debounce # <<>> /\ Computable(Head(debounce))
HeldOffsets ==
    faults = 0 /\ dlq = {} =>
        /\ position = committed + Len(pending)
        /\ \A i \in DOMAIN pending : pending[i] = committed + i
        /\ \A o \in 1..position : ~IsPoison(o)
        /\ \A d \in ToSet(debounce) :
               \E o \in committed + 1..position : d \in plan_recompute_wave(topic[o])

(* The inputs read so far for the dependent in hand.                       *)
InputRead(d, i) ==
    LET f == Deps[d][i].feature IN
    /\ unit[i] \in Current(f) /\ Visible(unit[i], wave_ts)
    /\ \A o \in 1..position : Announces(o, f) /\ OnTime(o) =>
           \E k \in Current(f) : RowOf(o, k) /\ NotLater(k, unit[i])
    /\ \A h \in ToSet(history[d]) : h.from[i] <= unit[i].data_ts
    /\ \/ \A r \in Current(f) : Present(r) => NotLater(r, unit[i])
       \/ ~Deps[d][i].reactive
       \/ \E p \in position + 1..Len(topic) : Announces(p, f)
UnitRead ==
    debounce # <<>> => LET d == Head(debounce) IN
        /\ Len(unit) <= Len(Deps[d])
        /\ \A i \in 1..Len(unit) : InputRead(d, i)
        /\ pc = "emit" =>
               /\ Len(unit) = Len(Deps[d])
               /\ \E h \in ToSet(history[d]) : Agree(h, Computed(d, unit))

(* What was observed has been recomputed or waits in the debounce store.   *)
Quiet == faults = 0 /\ (dlq = {} \/ crashes = 0)
ObservedHandled ==
    Quiet => \A o \in 1..position : ~IsPoison(o) /\ topic[o].version = Version[topic[o].feature] =>
        \A d \in plan_recompute_wave(topic[o]) : d \in ToSet(debounce) \/ RecomputedFor(d, o)

(* A dependent is up to date, or it is to be recomputed, or an input of it *)
(* is whose row has still to be announced: the one in hand, or one that    *)
(* will be computed again whenever its updates are delivered again.        *)
Due(d) ==
    \/ d \in ToSet(debounce)
    \/ \E p \in position + 1..Len(topic) : d \in plan_recompute_wave(topic[p])
InputDue(d) ==
    \E j \in DOMAIN Deps[d] : LET g == Deps[d][j].feature IN
        /\ Deps[d][j].reactive /\ g \in Dependents /\ history[g] # <<>> /\ Due(g)
        /\ Unlimited(g) \/ (pc = "emit" /\ g = Head(debounce))
StaleIsDue ==
    Quiet => \A d \in Dependents :
        Computable(d) /\ Ready(d) /\ AnnouncedAgain(d) => UpToDate(d) \/ Due(d) \/ InputDue(d)

Invariant ==
    /\ EventsDurable /\ RowsComputed /\ UnseenAnnounced /\ RoundInProgress /\ HeldOffsets
    /\ UnitRead /\ ObservedHandled /\ HeldUntilRecomputed /\ StaleIsDue

-----------------------------------------------------------------------------
(* What a step leaves alone.                                               *)

TopicKept == Len(topic) <= Len(topic') /\ \A o \in 1..Len(topic) : topic'[o] = topic[o]
HistoryKept == \A f \in Features : ToSet(history[f]) \subseteq ToSet(history'[f])
ClockKept == wave_ts' \in Nat /\ wave_ts <= wave_ts'

(* What the types say, in the form the steps use.                          *)
LEMMA Types ==
    ASSUME TypeOK
    PROVE  /\ Len(topic) \in Nat /\ position \in Nat /\ committed \in Nat
           /\ position <= Len(topic) /\ committed <= position /\ wave_ts \in Nat
           /\ faults \in Nat /\ crashes \in Nat
           /\ \A f \in Features : \A r \in ToSet(history[f]) : IsRow(r) /\ r.calc_ts <= wave_ts + 1
           /\ \A f \in Features : \A r \in Current(f) : r \in ToSet(history[f]) /\ IsRow(r)
  <1>1. Len(topic) \in Nat /\ position \in 0..Len(topic) /\ committed \in 0..position
    BY DEF TypeOK, IsSeq
  <1> QED
    BY <1>1 DEF TypeOK, Current

(* A history is empty exactly when it has no row.                          *)
LEMMA NoRows ==
    ASSUME TypeOK, NEW f \in Features
    PROVE  history[f] # <<>> <=> ToSet(history[f]) # {}
  <1>1. IsSeq(history[f])
    BY DEF TypeOK
  <1>2. Len(history[f]) \in Nat /\ DOMAIN history[f] = 1..Len(history[f])
    BY <1>1, SeqOver
  <1>3. ASSUME history[f] # <<>> PROVE ToSet(history[f]) # {}
    <2>1. Len(history[f]) # 0
      <3>1. history[f] \in Seq(ToSet(history[f]))
        BY <1>1, SeqOver
      <3> QED
        BY <1>3, <3>1
    <2>2. 1 \in 1..Len(history[f])
      BY <1>2, <2>1
    <2> QED
      BY <1>2, <2>2 DEF ToSet
  <1>4. ASSUME history[f] = <<>> PROVE ToSet(history[f]) = {}
    BY <1>4 DEF ToSet
  <1> QED
    BY <1>3, <1>4

(* A row is appended to one history.                                       *)
LEMMA RowAppended ==
    ASSUME TypeOK, NEW f \in Features, NEW r, history' = [history EXCEPT ![f] = Append(@, r)]
    PROVE  /\ IsSeq(history'[f]) /\ ToSet(history'[f]) = ToSet(history[f]) \cup {r}
           /\ history'[f] # <<>> /\ DOMAIN history' = Features /\ HistoryKept
           /\ \A g \in Features \ {f} : history'[g] = history[g]
  <1>1. DOMAIN history = Features /\ IsSeq(history[f])
    BY DEF TypeOK
  <1>2. history'[f] = Append(history[f], r) /\ DOMAIN history' = Features
        /\ \A g \in Features \ {f} : history'[g] = history[g]
    BY <1>1
  <1>3. /\ IsSeq(history'[f]) /\ ToSet(history'[f]) = ToSet(history[f]) \cup {r}
        /\ history'[f] # <<>>
    BY <1>1, <1>2, AppendSeq
  <1> QED
    BY <1>2, <1>3 DEF HistoryKept

(* An event is appended to the topic.                                      *)
LEMMA EventAppended ==
    ASSUME TypeOK, NEW e, topic' = Append(topic, e)
    PROVE  /\ IsSeq(topic') /\ Len(topic') = Len(topic) + 1 /\ topic'[Len(topic) + 1] = e
           /\ TopicKept
  <1>1. IsSeq(topic) /\ Len(topic) \in Nat
    BY DEF TypeOK, IsSeq
  <1>2. /\ IsSeq(Append(topic, e)) /\ Len(Append(topic, e)) = Len(topic) + 1
        /\ \A i \in 1..Len(topic) : Append(topic, e)[i] = topic[i]
        /\ Append(topic, e)[Len(topic) + 1] = e
    BY <1>1, AppendSeq
  <1> QED
    BY <1>1, <1>2 DEF TopicKept

(* The topic is as it was.                                                 *)
LEMMA TopicSame ==
    ASSUME TypeOK, topic' = topic
    PROVE  TopicKept /\ Len(topic') = Len(topic)
  BY Types DEF TopicKept

(* The histories are as they were.                                         *)
LEMMA HistorySame ==
    ASSUME history' = history
    PROVE  HistoryKept
  BY DEF HistoryKept

(* Whatever was current, announced or recomputed stays so.                 *)
LEMMA CurrentKept ==
    ASSUME HistoryKept, NEW f \in Features, NEW r \in Current(f)
    PROVE  r \in Current(f)'
  BY DEF Current, HistoryKept

(* An announcement is one for good.                                        *)
LEMMA AnnouncesKept ==
    ASSUME TopicKept, NEW o \in 1..Len(topic), NEW f
    PROVE  Announces(o, f)' <=> Announces(o, f)
  BY DEF Announces, TopicKept

(* What covers an update covers it for good.                               *)
LEMMA CoveredKept ==
    ASSUME HistoryKept, NEW d \in Dependents, NEW f \in Features, NEW r, CoveredBy(d, f, r)
    PROVE  CoveredBy(d, f, r)'
  <1>1. PICK h \in ToSet(history[d]), j \in DOMAIN Deps[d], k \in ToSet(history[f]), s \in ToSet(history[f]) :
            /\ Deps[d][j].feature = f
            /\ k.data_ts = r.data_ts /\ k.value = r.value /\ k.version = Version[f]
            /\ NotLater(k, s) /\ s.version = Version[f]
            /\ h.from[j] = s.data_ts /\ h.value[j] = s.value
    BY DEF CoveredBy
  <1>2. h \in ToSet(history'[d]) /\ k \in ToSet(history'[f]) /\ s \in ToSet(history'[f])
    BY Edges DEF HistoryKept
  <1> QED
    BY <1>1, <1>2 DEF CoveredBy

(* What an announcement announced was on time before if it is now.         *)
LEMMA OnTimeBefore ==
    ASSUME TopicKept, HistoryKept, NEW o \in 1..Len(topic), topic[o].feature \in Features, OnTime(o)'
    PROVE  OnTime(o)
  <1>1. PICK e : e = topic[o] /\ e = topic'[o]
    BY DEF TopicKept
  <1>2. \A k \in ToSet(history'[e.feature]) : RowOf(o, k)' => Present(k)
    BY <1>1 DEF OnTime
  <1>3. \A k : RowOf(o, k)' <=> RowOf(o, k)
    BY <1>1 DEF RowOf
  <1>4. ToSet(history[e.feature]) \subseteq ToSet(history'[e.feature])
    BY <1>1 DEF HistoryKept
  <1> QED
    BY <1>1, <1>2, <1>3, <1>4 DEF OnTime

(* What is fresh now was fresh before.                                     *)
LEMMA FreshBefore ==
    ASSUME ClockKept, wave_ts \in Nat, NEW x, x.max_age = NoLimit \/ x.max_age \in Nat, NEW t \in Nat,
           Fresh(x, t)'
    PROVE  Fresh(x, t)
  BY DEF Fresh, ClockKept

(* What an announcement announced is in history.                           *)
LEMMA AnnouncedRow ==
    ASSUME TypeOK, EventsDurable, NEW f \in Features, NEW o \in 1..Len(topic), Announces(o, f)
    PROVE  /\ topic[o].feature = f /\ topic[o].row.data_ts \in Nat
           /\ \E k \in Current(f) : RowOf(o, k) /\ (o <= position /\ pc # "poll" => k.calc_ts <= wave_ts)
  <1>1. topic[o].feature = f /\ topic[o].version = Version[f] /\ ~IsPoison(o)
    BY PropagationAssumption DEF Announces, IsPoison
  <1>2. PICK k \in ToSet(history[f]) :
            RowOf(o, k) /\ (o <= position /\ pc # "poll" => k.calc_ts <= wave_ts)
    BY <1>1 DEF EventsDurable
  <1>3. k \in Current(f)
    BY <1>1, <1>2 DEF Current, RowOf
  <1>4. topic[o].row.data_ts \in Nat
    BY <1>2, Types DEF RowOf, IsRow
  <1> QED
    BY <1>1, <1>2, <1>3, <1>4

(* A dependent recomputed for an update stays so.                          *)
LEMMA RecomputedKept ==
    ASSUME TypeOK, EventsDurable, TopicKept, HistoryKept, ClockKept,
           NEW o \in 1..Len(topic), NEW d \in Dependents,
           topic[o].feature \in Features, RecomputedFor(d, o)
    PROVE  RecomputedFor(d, o)'
  <1>1. topic'[o] = topic[o] /\ o \in Nat /\ o <= Len(topic) /\ Len(topic) \in Nat
    BY Types DEF TopicKept
  <1>2. \A p \in 1..o : p \in 1..Len(topic) /\ topic'[p] = topic[p]
    BY <1>1 DEF TopicKept
  <1>3. PICK e : e = topic[o]
    OBVIOUS
  <1>4. SUFFICES ASSUME Computable(d), OnTime(o)',
                        \A j \in DOMAIN Deps[d] : \E p \in 1..o :
                            /\ Announces(p, Deps[d][j].feature)' /\ OnTime(p)'
                            /\ Fresh(Deps[d][j], topic[p].row.data_ts)'
                 PROVE  CoveredBy(d, e.feature, e.row)'
    BY <1>1, <1>3 DEF RecomputedFor, Computable
  <1>5. ASSUME NEW j \in DOMAIN Deps[d]
        PROVE  \E p \in 1..o : /\ Announces(p, Deps[d][j].feature) /\ OnTime(p)
                               /\ Fresh(Deps[d][j], topic[p].row.data_ts)
    <2>1. PICK p \in 1..o : /\ Announces(p, Deps[d][j].feature)' /\ OnTime(p)'
                            /\ Fresh(Deps[d][j], topic[p].row.data_ts)'
      BY <1>4
    <2>2. PICK x, f : /\ x = Deps[d][j] /\ f = x.feature /\ f \in Features
                      /\ x.max_age = NoLimit \/ x.max_age \in Nat
      BY Edges
    <2>3. p \in 1..Len(topic) /\ topic'[p] = topic[p]
      BY <1>2
    <2>4. Announces(p, f)
      BY <2>1, <2>2, <2>3, AnnouncesKept
    <2>5. topic[p].feature = f /\ topic[p].row.data_ts \in Nat
      BY <2>2, <2>3, <2>4, AnnouncedRow
    <2>6. OnTime(p)
      BY <2>1, <2>2, <2>3, <2>5, OnTimeBefore
    <2>7. PICK t \in Nat : t = topic[p].row.data_ts
      BY <2>5
    <2>8. Fresh(x, t)'
      BY <2>1, <2>2, <2>3, <2>7 DEF Fresh
    <2>9. Fresh(x, t)
      BY <2>2, <2>8, FreshBefore, Types
    <2> QED
      BY <2>2, <2>4, <2>6, <2>7, <2>9
  <1>6. OnTime(o)
    BY <1>4, OnTimeBefore
  <1>7. CoveredBy(d, e.feature, e.row)
    BY <1>3, <1>4, <1>5, <1>6 DEF RecomputedFor
  <1> QED
    BY <1>3, <1>7, CoveredKept

-----------------------------------------------------------------------------
(* The steps that write.                                                   *)

Same == UNCHANGED <<position, committed, pc, debounce, pending, unit, dlq, wave_ts, crashes, faults>>

(* An emitter's step: a row of a base feature, then its announcement.      *)
LEMMA AnnounceShape ==
    ASSUME TypeOK, NEW w \in Rows, NEW c \in CalcTimes, Announce(w, c)
    PROVE  \E f, r :
               /\ f \in Features /\ f \notin Dependents /\ f # Poison
               /\ IsRow(r) /\ r.calc_ts <= wave_ts + 1
               /\ topic' = IF f \in Triggers THEN Append(topic, event(f, r.version, r)) ELSE topic
               /\ \/ history' = history /\ \E k \in ToSet(history[f]) : Agree(k, r)
                  \/ history' = [history EXCEPT ![f] = Append(@, r)]
               /\ Same
  <1> DEFINE f == w.feature
             r == [data_ts |-> w.data_ts, value |-> w.value, from |-> <<>>,
                   available_at |-> w.available_at, trusted |-> w.trusted,
                   calc_ts |-> c, version |-> w.version]
  <1>1. w \in Row /\ Base \cap Dependents = {} /\ Poison \notin Features
    BY PropagationAssumption
  <1>2. f \in Base /\ w.version \in Nat /\ w.data_ts \in Nat /\ w.available_at \in Nat
    BY <1>1 DEF Row
  <1>3. f \in Features /\ f \notin Dependents /\ f # Poison
    BY <1>1, <1>2 DEF Features
  <1>4. /\ r.data_ts = w.data_ts /\ r.version = w.version /\ r.calc_ts = c
        /\ r.available_at = w.available_at
    OBVIOUS
  <1>5. c \in Nat /\ c <= wave_ts + 1
    BY Types DEF CalcTimes
  <1>6. IsRow(r) /\ r.calc_ts <= wave_ts + 1
    BY <1>2, <1>4, <1>5 DEF IsRow
  <1>7. /\ history' = IF Known(f, r) THEN history ELSE [history EXCEPT ![f] = Append(@, r)]
        /\ topic' = IF f \in Triggers THEN Append(topic, event(f, w.version, r)) ELSE topic
        /\ Same
    BY DEF Announce, Same, local
  <1> HIDE DEF f, r
  <1>8. Known(f, r) => \E k \in ToSet(history[f]) : Agree(k, r)
    BY DEF Known, ToSet
  <1> QED
    BY <1>2, <1>3, <1>4, <1>6, <1>7, <1>8

(* The dependent in hand while a wave reads, appends or announces.         *)
LEMMA InHand ==
    ASSUME TypeOK, debounce # <<>>
    PROVE  /\ Head(debounce) \in Dependents /\ Head(debounce) \in ToSet(debounce)
           /\ Head(debounce) \in Features /\ Head(debounce) # Poison
           /\ Tail(debounce) \in Seq(Dependents) /\ IsInjective(Tail(debounce))
           /\ ToSet(Tail(debounce)) = ToSet(debounce) \ {Head(debounce)}
  <1>1. debounce \in Seq(Dependents) /\ IsInjective(debounce)
    BY DEF TypeOK
  <1>2. /\ Head(debounce) \in Dependents /\ Head(debounce) \in ToSet(debounce)
        /\ Tail(debounce) \in Seq(Dependents) /\ IsInjective(Tail(debounce))
        /\ ToSet(Tail(debounce)) = ToSet(debounce) \ {Head(debounce)}
    BY <1>1, TailSeq
  <1> QED
    BY <1>2, Edges

(* The row computed from what was read.                                    *)
LEMMA UnitComputed ==
    ASSUME TypeOK, Invariant, debounce # <<>>, ComputedUnit
    PROVE  LET d == Head(debounce)
               r == Computed(d, unit) IN
           /\ DOMAIN Deps[d] = 1..Len(unit) /\ Len(unit) \in Nat
           /\ IsRow(r) /\ r.calc_ts = wave_ts /\ r.version = Version[d] /\ Present(r)
           /\ \A i \in 1..Len(unit) :
                  /\ InputRead(d, i) /\ unit[i].data_ts \in Nat
                  /\ r.data_ts <= unit[i].data_ts
                  /\ r.from[i] = unit[i].data_ts /\ r.value[i] = unit[i].value
           /\ \E i \in 1..Len(unit) : r.data_ts = unit[i].data_ts
  <1> DEFINE d == Head(debounce)
             r == Computed(d, unit)
  <1>1. d \in Dependents /\ d \in Features
    BY InHand
  <1>2. IsSeq(unit) /\ Len(unit) = Len(Deps[d])
    BY DEF TypeOK, ComputedUnit
  <1>3. \A i \in 1..Len(unit) : InputRead(d, i)
    BY DEF Invariant, UnitRead
  <1>4. Len(Deps[d]) \in Nat \ {0} /\ DOMAIN Deps[d] = 1..Len(Deps[d])
        /\ \A j \in DOMAIN Deps[d] : Deps[d][j].feature \in Features
    BY <1>1, Edges
  <1> HIDE DEF d
  <1>5. \A i \in 1..Len(unit) : /\ IsRow(unit[i]) /\ Visible(unit[i], wave_ts)
                                /\ unit[i].data_ts \in Nat
    BY <1>2, <1>3, <1>4, Types DEF InputRead, IsRow
  <1>6. /\ r.data_ts \in Nat /\ r.available_at \in Nat
        /\ r.calc_ts = wave_ts /\ r.version = Version[d] /\ Present(r)
        /\ \A i \in 1..Len(unit) : /\ r.data_ts <= unit[i].data_ts
                                   /\ r.from[i] = unit[i].data_ts /\ r.value[i] = unit[i].value
        /\ \E i \in 1..Len(unit) : r.data_ts = unit[i].data_ts
    BY <1>1, <1>2, <1>5, ComputedRow, Types
  <1>7. Version[d] \in Nat /\ wave_ts \in Nat
    BY <1>1, PropagationAssumption, Types
  <1> HIDE DEF r
  <1>8. IsRow(r)
    BY <1>6, <1>7 DEF IsRow
  <1> QED
    BY <1>2, <1>3, <1>4, <1>5, <1>6, <1>8 DEF r, d

(* append_many's step: the row is there, or the wave has failed.           *)
LEMMA AppendShape ==
    ASSUME TypeOK, AppendRow
    PROVE  LET d == Head(debounce)
               r == Computed(d, unit) IN
           /\ debounce # <<>> /\ Computable(d) /\ ComputedUnit /\ AllFresh /\ pc = "wave"
           /\ UNCHANGED <<topic, position, committed, dlq, wave_ts, crashes>>
           /\ \/ /\ pc' = "emit" /\ UNCHANGED <<debounce, pending, unit, faults>>
                 /\ \/ history' = history /\ \E k \in ToSet(history[d]) : Agree(k, r)
                    \/ history' = [history EXCEPT ![d] = Append(@, r)]
              \/ WaveFails /\ history' = history
  <1> DEFINE d == Head(debounce)
             r == Computed(d, unit)
  <1>1. Known(d, r) => \E k \in ToSet(history[d]) : Agree(k, r)
    BY DEF Known, ToSet
  <1> QED
    BY <1>1, Zenon DEF AppendRow, Computable, broker

(* The announcement of the recomputed dependent.                           *)
LEMMA ChainShape ==
    ASSUME TypeOK, Chain
    PROVE  LET d == Head(debounce)
               e == event(d, Version[d], Computed(d, unit)) IN
           /\ pc = "emit" /\ UNCHANGED <<position, committed, history, dlq, wave_ts, crashes>>
           /\ topic' = topic \/ topic' = Append(topic, e)
           /\ \/ /\ NextUnit /\ UNCHANGED <<pending, faults>>
                 /\ topic' = IF d \in Triggers THEN Append(topic, e) ELSE topic
              \/ WaveFails
  BY DEF Chain

(* A wave begins at least one tick later.                                  *)
LEMMA WaveBegins ==
    ASSUME TypeOK, BeginWave
    PROVE  /\ pc = "poll" /\ pc' = "wave" /\ wave_ts + 1 <= wave_ts' /\ ClockKept
           /\ UNCHANGED <<topic, position, committed, debounce, pending, unit, history, dlq, bounds>>
  <1>1. PICK n \in Ticks : wave_ts' = wave_ts + n
    BY DEF BeginWave
  <1>2. n \in Nat \ {0} /\ wave_ts \in Nat
    BY PropagationAssumption, Types
  <1>3. wave_ts + 1 <= wave_ts' /\ ClockKept
    BY <1>1, <1>2 DEF ClockKept
  <1> QED
    BY <1>3 DEF BeginWave, broker

(* No step takes anything out of the topic or a history, or turns the      *)
(* clock back.                                                             *)
LEMMA StepKept ==
    ASSUME TypeOK, Invariant, [Next]_vars
    PROVE  TopicKept /\ HistoryKept /\ ClockKept
  <1>c. wave_ts' = wave_ts => ClockKept
    BY Types DEF ClockKept
  <1>1. ASSUME NEW w \in Rows, NEW c \in CalcTimes, Announce(w, c)
        PROVE  TopicKept /\ HistoryKept /\ ClockKept
    <2>1. PICK f, r :
              /\ f \in Features
              /\ topic' = IF f \in Triggers THEN Append(topic, event(f, r.version, r)) ELSE topic
              /\ history' = history \/ history' = [history EXCEPT ![f] = Append(@, r)]
              /\ Same
      BY <1>1, AnnounceShape
    <2>2. TopicKept
      BY <2>1, EventAppended, TopicSame
    <2>3. HistoryKept
      BY <2>1, RowAppended, HistorySame
    <2> QED
      BY <1>c, <2>1, <2>2, <2>3 DEF Same
  <1>2. CASE PublishPoison
    BY <1>2, <1>c, EventAppended, HistorySame DEF PublishPoison
  <1>3. CASE AppendRow
    <2>1. Head(debounce) \in Features
      BY <1>3, AppendShape, InHand
    <2> QED
      BY <1>3, <1>c, <2>1, AppendShape, TopicSame, HistorySame, RowAppended
  <1>4. CASE Chain
    BY <1>4, <1>c, ChainShape, TopicSame, HistorySame, EventAppended
  <1>5. CASE Crash \/ Observe \/ DeadLetter \/ SkipUnit \/ ReadInput \/ SkipStale \/ CommitHeld
             \/ UNCHANGED vars
    <2>1. topic' = topic /\ history' = history /\ wave_ts' = wave_ts
      BY <1>5 DEF Crash, Observe, DeadLetter, SkipUnit, ReadInput, SkipStale, CommitHeld, vars, broker
    <2> QED
      BY <1>c, <2>1, TopicSame, HistorySame
  <1>6. CASE BeginWave
    <2>1. topic' = topic /\ history' = history /\ wave_ts + 1 <= wave_ts' /\ ClockKept
      BY <1>6, WaveBegins
    <2> QED
      BY <2>1, TopicSame, HistorySame
  <1> QED
    BY <1>1, <1>2, <1>3, <1>4, <1>5, <1>6 DEF Next, Step

-----------------------------------------------------------------------------
(* Type correctness.                                                       *)

(* The part of TypeOK about the rows.                                      *)
RowsTyped ==
    /\ DOMAIN history = Features
    /\ \A f \in Features :
           /\ IsSeq(history[f])
           /\ \A r \in ToSet(history[f]) : IsRow(r) /\ r.calc_ts <= wave_ts + 1

(* Rows stay typed when none is written.                                   *)
LEMMA RowsTypedSame ==
    ASSUME TypeOK, history' = history, wave_ts' = wave_ts \/ ClockKept
    PROVE  RowsTyped'
  <1>1. \A f \in Features : \A r \in ToSet(history[f]) : r.calc_ts <= wave_ts' + 1
    BY Types DEF IsRow, ClockKept
  <1> QED
    BY <1>1 DEF TypeOK, RowsTyped

(* Rows stay typed when a row of this wave or the next is written.         *)
LEMMA RowsTypedAppend ==
    ASSUME TypeOK, NEW f \in Features, NEW r, IsRow(r), r.calc_ts <= wave_ts + 1,
           history' = [history EXCEPT ![f] = Append(@, r)], wave_ts' = wave_ts
    PROVE  RowsTyped'
  <1>1. /\ IsSeq(history'[f]) /\ ToSet(history'[f]) = ToSet(history[f]) \cup {r}
        /\ DOMAIN history' = Features /\ \A g \in Features \ {f} : history'[g] = history[g]
    BY RowAppended
  <1>2. ASSUME NEW g \in Features
        PROVE  IsSeq(history'[g]) /\ \A s \in ToSet(history'[g]) : IsRow(s) /\ s.calc_ts <= wave_ts + 1
    BY <1>1 DEF TypeOK
  <1> QED
    BY <1>1, <1>2 DEF RowsTyped

(* TypeOK without its rows.                                                *)
LocalTyped ==
    /\ IsSeq(topic) /\ IsSeq(unit) /\ pending \in Seq(1..position)
    /\ debounce \in Seq(Dependents) /\ IsInjective(debounce)
    /\ position \in 0..Len(topic) /\ committed \in 0..position
    /\ pc \in {"poll", "wave", "emit"}
    /\ dlq \subseteq 1..Len(topic)
    /\ wave_ts \in Nat /\ {crashes, faults} \subseteq Nat

(* The empty sequence.                                                     *)
LEMMA NoElements ==
    ASSUME NEW T, NEW s, s = <<>>
    PROVE  s \in Seq(T) /\ IsSeq(s) /\ IsInjective(s) /\ ToSet(s) = {}
  <1>1. s \in Seq(T) /\ DOMAIN s = {}
    OBVIOUS
  <1>2. IsSeq(s)
    BY <1>1, SeqIsSeq
  <1>3. IsInjective(s) /\ ToSet(s) = {}
    BY <1>1 DEF IsInjective, ToSet
  <1> QED
    BY <1>1, <1>2, <1>3

(* Every step keeps the types.                                             *)
LEMMA TypeStep ==
    ASSUME TypeOK, Invariant, [Next]_vars
    PROVE  TypeOK'
  <1> DEFINE Goal == LocalTyped' /\ RowsTyped'
  <1>0. SUFFICES Goal
    BY DEF TypeOK, LocalTyped, RowsTyped
  <1>a. LocalTyped /\ Len(topic) \in Nat
    BY Types DEF TypeOK, LocalTyped
  <1>e. /\ pending' = <<>> => pending' \in Seq(1..position')
        /\ debounce' = <<>> => debounce' \in Seq(Dependents) /\ IsInjective(debounce')
        /\ unit' = <<>> => IsSeq(unit')
    BY NoElements
  <1>h. ASSUME UNCHANGED <<topic, position, committed, dlq, wave_ts, crashes>>, WaveFails
        PROVE  LocalTyped'
    <2>1. faults' \in Nat
      BY <1>h, Types DEF WaveFails
    <2> QED
      BY <1>a, <1>e, <1>h, <2>1 DEF LocalTyped, WaveFails
  <1>n. ASSUME debounce # <<>>, NextUnit, UNCHANGED <<topic, position, committed, pending, dlq, wave_ts, crashes, faults>>
        PROVE  LocalTyped'
    <2>1. Tail(debounce) \in Seq(Dependents) /\ IsInjective(Tail(debounce))
      BY <1>n, InHand
    <2> QED
      BY <1>a, <1>e, <1>n, <2>1 DEF LocalTyped, NextUnit
  <1>1. ASSUME NEW w \in Rows,
               NEW c \in CalcTimes, Announce(w, c)
        PROVE  Goal
    <2>1. PICK f, r :
              /\ f \in Features /\ IsRow(r) /\ r.calc_ts <= wave_ts + 1
              /\ topic' = IF f \in Triggers THEN Append(topic, event(f, r.version, r)) ELSE topic
              /\ history' = history \/ history' = [history EXCEPT ![f] = Append(@, r)]
              /\ Same
      BY <1>1, AnnounceShape
    <2>2. IsSeq(topic') /\ Len(topic') \in {Len(topic), Len(topic) + 1}
      BY <1>a, <2>1, EventAppended DEF LocalTyped
    <2>3. RowsTyped'
      BY <2>1, RowsTypedSame, RowsTypedAppend DEF Same
    <2>4. LocalTyped'
      <3>1. Same
        BY <2>1
      <3>2. dlq' \subseteq 1..Len(topic') /\ position' \in 0..Len(topic')
        BY <1>a, <2>2, <3>1 DEF LocalTyped, Same
      <3> QED
        BY <1>a, <2>2, <3>1, <3>2 DEF LocalTyped, Same
    <2> QED
      BY <2>3, <2>4
  <1>2. CASE PublishPoison
    <2>1. IsSeq(topic') /\ Len(topic') = Len(topic) + 1
      BY <1>2, EventAppended DEF PublishPoison
    <2>2. RowsTyped'
      BY <1>2, RowsTypedSame DEF PublishPoison
    <2>3. UNCHANGED <<position, committed, local, dlq, wave_ts, bounds>>
      BY <1>2 DEF PublishPoison
    <2>4. dlq' \subseteq 1..Len(topic') /\ position' \in 0..Len(topic')
      BY <1>a, <2>1, <2>3 DEF LocalTyped
    <2> QED
      BY <1>a, <2>1, <2>2, <2>3, <2>4 DEF LocalTyped, local, bounds
  <1>3. CASE Crash
    <2>1. RowsTyped'
      BY <1>3, RowsTypedSame DEF Crash
    <2>2. position' \in 0..Len(topic') /\ committed' \in 0..position' /\ crashes' \in Nat
      BY <1>3, Types DEF Crash
    <2> QED
      BY <1>3, <1>a, <1>e, <2>1, <2>2 DEF LocalTyped, Crash
  <1>4. CASE Observe
    <2>1. RowsTyped'
      BY <1>4, RowsTypedSame DEF Observe
    <2>2. debounce' \in Seq(Dependents) /\ IsInjective(debounce')
      <3>1. debounce' = observe(debounce, plan_recompute_wave(topic[position + 1]))
        BY <1>4 DEF Observe
      <3> QED
        BY <1>a, <3>1, ObserveAdds, PlansOnly DEF LocalTyped
    <2>3. position' = position + 1 /\ position' \in 0..Len(topic) /\ committed \in 0..position'
      BY <1>4, Types DEF Observe
    <2>4. pending' \in Seq(1..position')
      <3>1. pending' = Append(pending, position + 1)
        BY <1>4 DEF Observe
      <3>2. pending \in Seq(1..position + 1) /\ position + 1 \in 1..position + 1
        <4>1. pending \in Seq(1..position) /\ 1..position \subseteq 1..position + 1
          BY <1>a, Types DEF LocalTyped
        <4> QED
          BY <4>1, Types
      <3> QED
        BY <2>3, <3>1, <3>2
    <2>5. UNCHANGED <<topic, committed, pc, unit, dlq, wave_ts, bounds>>
      BY <1>4 DEF Observe
    <2> QED
      BY <1>a, <2>1, <2>2, <2>3, <2>4, <2>5 DEF LocalTyped, bounds
  <1>5. CASE DeadLetter
    <2>1. RowsTyped'
      BY <1>5, RowsTypedSame DEF DeadLetter
    <2>2. /\ position' = position + 1 /\ position' \in 0..Len(topic) /\ committed' \in 0..position'
          /\ dlq' \subseteq 1..Len(topic) /\ faults' \in Nat
      <3>1. position' = position + 1 /\ position < Len(topic)
        BY <1>5 DEF DeadLetter
      <3>2. dlq' \in {dlq, dlq \cup {position + 1}} /\ committed' \in {committed, position + 1}
            /\ faults' \in {faults, faults + 1}
        BY <1>5 DEF DeadLetter
      <3>3. dlq \subseteq 1..Len(topic)
        BY <1>a DEF LocalTyped
      <3> QED
        BY <3>1, <3>2, <3>3, Types
    <2>3. pending \in Seq(1..position')
      <3> DEFINE S == 1..position
                 T == 1..position + 1
      <3>1. pending \in Seq(S) /\ S \subseteq T
        BY <1>a, Types DEF LocalTyped
      <3> HIDE DEF S, T
      <3>2. pending \in Seq(T)
        BY <3>1
      <3> QED
        BY <2>2, <3>2 DEF T
    <2>4. UNCHANGED <<topic, local, wave_ts, crashes>>
      BY <1>5 DEF DeadLetter
    <2> QED
      BY <1>a, <2>1, <2>2, <2>3, <2>4 DEF LocalTyped, local
  <1>6. CASE SkipUnit
    <2>1. RowsTyped'
      BY <1>6, RowsTypedSame DEF SkipUnit
    <2> QED
      BY <1>6, <1>n, <2>1 DEF SkipUnit, broker, bounds
  <1>s. CASE SkipStale
    <2>1. RowsTyped'
      BY <1>s, RowsTypedSame DEF SkipStale
    <2> QED
      BY <1>s, <1>n, <2>1 DEF SkipStale, broker, bounds
  <1>7. CASE ReadInput
    <2>1. RowsTyped'
      BY <1>7, RowsTypedSame DEF ReadInput
    <2>2. CASE NextUnit
      BY <1>7, <1>n, <2>1, <2>2 DEF ReadInput, broker, bounds
    <2>3. CASE ~NextUnit
      <3>1. PICK x : unit' = Append(unit, x) /\ UNCHANGED <<pc, debounce>>
        BY <1>7, <2>3 DEF ReadInput
      <3>2. IsSeq(unit')
        BY <1>a, <3>1, AppendSeq DEF LocalTyped
      <3>3. UNCHANGED <<broker, pending, dlq, wave_ts, bounds>>
        BY <1>7 DEF ReadInput
      <3> QED
        BY <1>a, <2>1, <3>1, <3>2, <3>3 DEF LocalTyped, broker, bounds
    <2> QED
      BY <2>2, <2>3
  <1>8. CASE AppendRow
    <2> DEFINE d == Head(debounce)
               r == Computed(d, unit)
    <2>1. d \in Features /\ IsRow(r) /\ r.calc_ts <= wave_ts + 1
      <3>1. debounce # <<>> /\ ComputedUnit
        BY <1>8, AppendShape
      <3>2. IsRow(r) /\ r.calc_ts = wave_ts
        BY <3>1, UnitComputed
      <3> QED
        BY <3>1, <3>2, InHand, Types
    <2>2. history' = history \/ history' = [history EXCEPT ![d] = Append(@, r)]
      BY <1>8, AppendShape
    <2>3. UNCHANGED <<topic, position, committed, dlq, wave_ts, crashes>>
      BY <1>8, AppendShape
    <2> HIDE DEF r
    <2>4. RowsTyped'
      BY <2>1, <2>2, <2>3, RowsTypedSame, RowsTypedAppend
    <2>5. WaveFails \/ (pc' = "emit" /\ UNCHANGED <<debounce, pending, unit, faults>>)
      BY <1>8, AppendShape
    <2> QED
      BY <1>a, <1>h, <2>3, <2>4, <2>5 DEF LocalTyped
  <1>9. CASE Chain
    <2> DEFINE d == Head(debounce)
               e == event(d, Version[d], Computed(d, unit))
    <2>1. /\ pc = "emit" /\ UNCHANGED <<position, committed, history, dlq, wave_ts, crashes>>
          /\ topic' = topic \/ topic' = Append(topic, e)
          /\ (NextUnit /\ UNCHANGED <<pending, faults>>) \/ WaveFails
      BY <1>9, ChainShape
    <2> HIDE DEF e
    <2>2. IsSeq(topic') /\ Len(topic') \in {Len(topic), Len(topic) + 1}
      BY <1>a, <2>1, EventAppended DEF LocalTyped
    <2>3. position' \in 0..Len(topic') /\ dlq' \subseteq 1..Len(topic')
      BY <1>a, <2>1, <2>2, Types DEF LocalTyped
    <2>4. debounce # <<>>
      BY <2>1 DEF Invariant, RoundInProgress
    <2>5. Tail(debounce) \in Seq(Dependents) /\ IsInjective(Tail(debounce))
      BY <2>4, InHand
    <2>6. RowsTyped'
      BY <2>1, RowsTypedSame
    <2>7. CASE NextUnit /\ UNCHANGED <<pending, faults>>
      BY <1>a, <1>e, <2>1, <2>2, <2>3, <2>5, <2>6, <2>7 DEF LocalTyped, NextUnit
    <2>8. CASE WaveFails
      <3>1. faults' \in Nat
        BY <2>8, Types DEF WaveFails
      <3> QED
        BY <1>a, <1>e, <2>1, <2>2, <2>3, <2>6, <2>8, <3>1 DEF LocalTyped, WaveFails
    <2> QED
      BY <2>1, <2>7, <2>8
  <1>10. CASE CommitHeld
    <2>1. RowsTyped'
      BY <1>10, RowsTypedSame DEF CommitHeld
    <2>2. pending # <<>> /\ pending \in Seq(1..position)
      BY <1>10, <1>a DEF Invariant, RoundInProgress, CommitHeld, LocalTyped
    <2>3. Head(pending) \in 1..position /\ Tail(pending) \in Seq(1..position)
      <3> DEFINE T == 1..position
      <3>1. pending \in Seq(T)
        BY <2>2
      <3> HIDE DEF T
      <3>2. Head(pending) \in T /\ Tail(pending) \in Seq(T)
        BY <2>2, <3>1
      <3> QED
        BY <3>2 DEF T
    <2>4. committed' \in 0..position /\ pending' \in Seq(1..position) /\ pc' \in {"poll", "wave"}
      BY <1>10, <2>3, Types DEF CommitHeld
    <2>5. UNCHANGED <<topic, position, debounce, unit, dlq, wave_ts, bounds>>
      BY <1>10 DEF CommitHeld
    <2> QED
      BY <1>a, <2>1, <2>4, <2>5 DEF LocalTyped, bounds
  <1>11. CASE BeginWave
    <2>1. ClockKept /\ pc' = "wave"
          /\ UNCHANGED <<topic, position, committed, debounce, pending, unit, history, dlq, bounds>>
      BY <1>11, WaveBegins
    <2>2. RowsTyped' /\ wave_ts' \in Nat
      BY <2>1, RowsTypedSame DEF ClockKept
    <2> QED
      BY <1>a, <2>1, <2>2 DEF LocalTyped, bounds
  <1>12. CASE UNCHANGED vars
    <2>1. RowsTyped'
      BY <1>12, RowsTypedSame DEF vars
    <2> QED
      BY <1>12, <1>a, <2>1 DEF LocalTyped, vars, broker, local, bounds
  <1> QED
    BY <1>1, <1>2, <1>3, <1>4, <1>5, <1>6, <1>s, <1>7, <1>8, <1>9, <1>10, <1>11, <1>12 DEF Next, Step

-----------------------------------------------------------------------------
(* The rows: EventsDurable, RowsComputed, UnseenAnnounced.                 *)

(* Events stay durable when every new one is, and no wave begins.          *)
LEMMA EventsKept ==
    ASSUME TypeOK, EventsDurable, TopicKept, HistoryKept,
           pc' # "poll" => pc # "poll" /\ position' = position /\ wave_ts' = wave_ts,
           \A o \in Len(topic) + 1..Len(topic') : topic'[o].feature # Poison =>
               /\ topic'[o].feature \in Features
               /\ \E k \in ToSet(history'[topic'[o].feature]) : RowOf(o, k)'
    PROVE  EventsDurable'
  <1> SUFFICES ASSUME NEW o \in 1..Len(topic'), topic'[o].feature # Poison
               PROVE  /\ topic'[o].feature \in Features
                      /\ \E k \in ToSet(history'[topic'[o].feature]) :
                             RowOf(o, k)' /\ (o <= position' /\ pc' # "poll" => k.calc_ts <= wave_ts')
    BY DEF EventsDurable, IsPoison
  <1>1. CASE o \in 1..Len(topic)
    <2>1. topic'[o] = topic[o]
      BY <1>1 DEF TopicKept
    <2>2. PICK f \in Features : f = topic[o].feature
      BY <1>1, <2>1 DEF EventsDurable, IsPoison
    <2>3. PICK k \in ToSet(history[f]) : RowOf(o, k) /\ (o <= position /\ pc # "poll" => k.calc_ts <= wave_ts)
      BY <1>1, <2>1, <2>2 DEF EventsDurable, IsPoison
    <2>4. k \in ToSet(history'[f])
      BY DEF HistoryKept
    <2>5. RowOf(o, k)'
      BY <2>1, <2>3 DEF RowOf
    <2> QED
      BY <2>1, <2>2, <2>3, <2>4, <2>5
  <1>2. CASE o \in Len(topic) + 1..Len(topic')
    <2>1. ~(o <= position) /\ (pc' # "poll" => ~(o <= position'))
      BY <1>2, Types
    <2> QED
      BY <1>2, <2>1
  <1> QED
    BY <1>1, <1>2, Types DEF TopicKept

(* An appended event is durable when the row it announces is.              *)
LEMMA EventAppendedDurable ==
    ASSUME TypeOK, NEW f \in Features, NEW v, NEW r, topic' = Append(topic, event(f, v, r)),
           NEW k \in ToSet(history'[f]), k.data_ts = r.data_ts, k.value = r.value, k.version = v
    PROVE  \A o \in Len(topic) + 1..Len(topic') :
               /\ topic'[o].feature \in Features
               /\ \E h \in ToSet(history'[topic'[o].feature]) : RowOf(o, h)'
  <1>1. Len(topic') = Len(topic) + 1 /\ topic'[Len(topic) + 1] = event(f, v, r)
    BY EventAppended
  <1>2. event(f, v, r).feature = f /\ event(f, v, r).version = v /\ event(f, v, r).row = r
    BY DEF event
  <1>3. \A o \in Len(topic) + 1..Len(topic') : o = Len(topic) + 1
    BY <1>1, Types
  <1> QED
    BY <1>1, <1>2, <1>3 DEF RowOf

(* Every step keeps announced rows in history.                             *)
LEMMA EventsDurableStep ==
    ASSUME TypeOK, Invariant, [Next]_vars
    PROVE  EventsDurable'
  <1>0. TopicKept /\ HistoryKept /\ EventsDurable
    BY StepKept DEF Invariant
  <1>s. ASSUME topic' = topic PROVE Len(topic) + 1..Len(topic') = {}
    BY <1>s, Types
  <1>1. ASSUME NEW w \in Rows,
               NEW c \in CalcTimes, Announce(w, c)
        PROVE  EventsDurable'
    <2>1. PICK f, r :
              /\ f \in Features /\ topic' = IF f \in Triggers THEN Append(topic, event(f, r.version, r)) ELSE topic
              /\ \/ history' = history /\ \E k \in ToSet(history[f]) : Agree(k, r)
                 \/ history' = [history EXCEPT ![f] = Append(@, r)]
              /\ Same
      BY <1>1, AnnounceShape
    <2>2. PICK k \in ToSet(history'[f]) : k.data_ts = r.data_ts /\ k.value = r.value /\ k.version = r.version
      <3>1. CASE history' = history /\ \E k \in ToSet(history[f]) : Agree(k, r)
        BY <3>1 DEF Agree
      <3>2. CASE history' = [history EXCEPT ![f] = Append(@, r)]
        <4>1. f \in Features
          BY <2>1
        <4>2. ToSet(history'[f]) = ToSet(history[f]) \cup {r}
          BY <3>2, <4>1, RowAppended
        <4> QED
          BY <4>2
      <3> QED
        BY <2>1, <3>1, <3>2
    <2>3. \A o \in Len(topic) + 1..Len(topic') :
              topic'[o].feature \in Features
              /\ \E h \in ToSet(history'[topic'[o].feature]) : RowOf(o, h)'
      <3>1. CASE topic' = topic
        BY <1>s, <3>1
      <3>2. CASE topic' = Append(topic, event(f, r.version, r))
        BY <2>1, <2>2, <3>2, EventAppendedDurable
      <3> QED
        BY <2>1, <3>1, <3>2
    <2>4. pc' = pc /\ position' = position /\ wave_ts' = wave_ts
      BY <2>1 DEF Same
    <2> QED
      BY <1>0, <2>3, <2>4, EventsKept
  <1>2. CASE PublishPoison
    <2>1. Len(topic') = Len(topic) + 1 /\ topic'[Len(topic) + 1] = poisonEvent
      BY <1>2, EventAppended DEF PublishPoison
    <2>2. \A o \in Len(topic) + 1..Len(topic') : topic'[o].feature = Poison
      BY <2>1, Types DEF poisonEvent
    <2>3. pc' = pc /\ position' = position /\ wave_ts' = wave_ts
      BY <1>2 DEF PublishPoison, local
    <2> QED
      BY <1>0, <2>2, <2>3, EventsKept
  <1>3. CASE Crash \/ Observe \/ DeadLetter
    <2>1. topic' = topic /\ pc' = "poll"
      BY <1>3 DEF Crash, Observe, DeadLetter, local
    <2> QED
      BY <1>0, <1>s, <2>1, EventsKept
  <1>4. CASE SkipUnit \/ ReadInput \/ SkipStale \/ CommitHeld \/ UNCHANGED vars
    <2>1. topic' = topic /\ position' = position /\ wave_ts' = wave_ts /\ (pc' = "poll" \/ pc = "wave" \/ pc' = pc)
      BY <1>4 DEF SkipUnit, ReadInput, SkipStale, CommitHeld, vars, local, broker
    <2> QED
      BY <1>0, <1>s, <2>1, EventsKept
  <1>5. CASE AppendRow
    <2>1. topic' = topic /\ position' = position /\ wave_ts' = wave_ts /\ pc = "wave"
      BY <1>5, AppendShape
    <2> QED
      BY <1>0, <1>s, <2>1, EventsKept
  <1>6. CASE Chain
    <2> DEFINE d == Head(debounce)
               r == Computed(d, unit)
    <2>1. /\ pc = "emit" /\ UNCHANGED <<position, committed, history, dlq, wave_ts, crashes>>
          /\ topic' = topic \/ topic' = Append(topic, event(d, Version[d], r))
      BY <1>6, ChainShape
    <2>2. debounce # <<>> /\ Len(unit) = Len(Deps[d]) /\ \E h \in ToSet(history[d]) : Agree(h, r)
      BY <2>1 DEF Invariant, RoundInProgress, UnitRead
    <2>3. d \in Features
      BY <2>2, InHand
    <2>4. r.version = Version[d]
      BY <2>2, UnitComputed DEF ComputedUnit
    <2> HIDE DEF r, d
    <2>5. PICK k \in ToSet(history'[d]) : k.data_ts = r.data_ts /\ k.value = r.value /\ k.version = Version[d]
      BY <2>1, <2>2, <2>4 DEF Agree
    <2>6. PICK f, v, x : f \in Features /\ f = d /\ v = Version[d] /\ x = r
      BY <2>3
    <2>7. CASE topic' = topic
      BY <1>0, <1>s, <2>1, <2>7, EventsKept
    <2>8. CASE topic' = Append(topic, event(d, Version[d], r))
      <3>1. topic' = Append(topic, event(f, v, x)) /\ k \in ToSet(history'[f])
            /\ k.data_ts = x.data_ts /\ k.value = x.value /\ k.version = v
        BY <2>5, <2>6, <2>8
      <3>2. \A o \in Len(topic) + 1..Len(topic') :
                topic'[o].feature \in Features
                /\ \E h \in ToSet(history'[topic'[o].feature]) : RowOf(o, h)'
        BY <2>6, <3>1, EventAppendedDurable
      <3> QED
        BY <1>0, <2>1, <3>2, EventsKept
    <2> QED
      BY <2>1, <2>7, <2>8
  <1>7. CASE BeginWave
    <2>1. topic' = topic /\ history' = history /\ position' = position
          /\ wave_ts + 1 <= wave_ts' /\ ClockKept
      BY <1>7, WaveBegins
    <2>2. \A f \in Features : \A k \in ToSet(history[f]) : k.calc_ts <= wave_ts'
      BY <2>1, Types DEF IsRow, ClockKept
    <2>3. \A o \in 1..Len(topic) : \A k : RowOf(o, k)' <=> RowOf(o, k)
      BY <2>1 DEF RowOf
    <2> QED
      BY <1>0, <2>1, <2>2, <2>3 DEF EventsDurable, IsPoison
  <1> QED
    BY <1>1, <1>2, <1>3, <1>4, <1>5, <1>6, <1>7 DEF Next, Step

(* A wave step writes rows of dependents only.                             *)
LEMMA RowsComputedStep ==
    ASSUME TypeOK, Invariant, [Next]_vars
    PROVE  RowsComputed'
  <1>0. HistoryKept /\ ClockKept /\ RowsComputed
    BY StepKept DEF Invariant
  <1>k. ASSUME NEW d \in Dependents, NEW h \in ToSet(history[d])
        PROVE  /\ Computable(d) /\ h.version = Version[d] /\ h.calc_ts <= wave_ts' /\ Present(h)
               /\ \A j \in DOMAIN Deps[d] :
                      /\ h.data_ts <= h.from[j]
                      /\ \E k \in Current(Deps[d][j].feature)' :
                             k.data_ts = h.from[j] /\ Visible(k, h.calc_ts)
    <2>1. /\ Computable(d) /\ h.version = Version[d] /\ h.calc_ts <= wave_ts /\ Present(h)
          /\ \A j \in DOMAIN Deps[d] :
                 /\ h.data_ts <= h.from[j]
                 /\ \E k \in Current(Deps[d][j].feature) :
                        k.data_ts = h.from[j] /\ Visible(k, h.calc_ts)
      BY <1>0 DEF RowsComputed
    <2>2. h.calc_ts <= wave_ts'
      <3>1. IsRow(h)
        BY Types, Edges
      <3> QED
        BY <1>0, <1>k, <2>1, <3>1, Types DEF IsRow, ClockKept
    <2>3. ASSUME NEW j \in DOMAIN Deps[d]
          PROVE  \E k \in Current(Deps[d][j].feature)' : k.data_ts = h.from[j] /\ Visible(k, h.calc_ts)
      BY <1>0, <2>1, CurrentKept, Edges
    <2> QED
      BY <2>1, <2>2, <2>3
  <1>s. ASSUME \A d \in Dependents : history'[d] = history[d]
        PROVE  RowsComputed'
    BY <1>k, <1>s DEF RowsComputed, Computable
  <1>1. ASSUME NEW w \in Rows, NEW c \in CalcTimes, Announce(w, c)
        PROVE  RowsComputed'
    <2>1. PICK f, r :
              /\ f \in Features /\ f \notin Dependents
              /\ history' = history \/ history' = [history EXCEPT ![f] = Append(@, r)]
      BY <1>1, AnnounceShape
    <2>2. \A d \in Dependents : history'[d] = history[d]
      BY <2>1, RowAppended, Edges
    <2> QED
      BY <1>s, <2>2
  <1>2. CASE AppendRow
    <2>0. PICK d, r : d = Head(debounce) /\ r = Computed(Head(debounce), unit)
      OBVIOUS
    <2>1. /\ debounce # <<>> /\ Computable(d) /\ ComputedUnit /\ wave_ts' = wave_ts
          /\ history' = history \/ history' = [history EXCEPT ![d] = Append(@, r)]
      BY <1>2, <2>0, AppendShape
    <2>2. d \in Dependents /\ d \in Features
      BY <2>0, <2>1, InHand
    <2>3. /\ DOMAIN Deps[d] = 1..Len(unit) /\ r.calc_ts = wave_ts /\ r.version = Version[d] /\ Present(r)
          /\ \A i \in 1..Len(unit) : /\ InputRead(d, i) /\ r.data_ts <= unit[i].data_ts
                                     /\ r.from[i] = unit[i].data_ts
      BY <2>0, <2>1, UnitComputed
    <2>4. ASSUME NEW j \in DOMAIN Deps[d]
          PROVE  /\ r.data_ts <= r.from[j]
                 /\ \E k \in Current(Deps[d][j].feature)' : k.data_ts = r.from[j] /\ Visible(k, r.calc_ts)
      <3>1. /\ unit[j] \in Current(Deps[d][j].feature) /\ Visible(unit[j], wave_ts)
            /\ r.data_ts <= unit[j].data_ts /\ r.from[j] = unit[j].data_ts
        BY <2>3 DEF InputRead
      <3>2. PICK k : k = unit[j]
        OBVIOUS
      <3>3. Deps[d][j].feature \in Features
        BY <2>2, Edges
      <3>4. k \in Current(Deps[d][j].feature)'
        BY <1>0, <3>1, <3>2, <3>3, CurrentKept
      <3> QED
        BY <2>3, <3>1, <3>2, <3>4
    <2>5. CASE history' = history
      BY <1>s, <2>1, <2>5
    <2>6. CASE history' = [history EXCEPT ![d] = Append(@, r)]
      <3>1. ToSet(history'[d]) = ToSet(history[d]) \cup {r} /\ \A b \in Features \ {d} : history'[b] = history[b]
        BY <2>2, <2>6, RowAppended
      <3>2. ASSUME NEW b \in Dependents, NEW h \in ToSet(history'[b])
            PROVE  \/ h \in ToSet(history[b]) \/ (b = d /\ h = r)
        <4>1. b \in Features
          BY Edges
        <4> QED
          BY <3>1, <4>1
      <3>3. r.calc_ts <= wave_ts'
        BY <2>1, <2>3, Types
      <3> SUFFICES ASSUME NEW b \in Dependents, NEW h \in ToSet(history'[b])
                   PROVE  /\ Computable(b) /\ h.version = Version[b] /\ h.calc_ts <= wave_ts' /\ Present(h)
                          /\ \A j \in DOMAIN Deps[b] :
                                 /\ h.data_ts <= h.from[j]
                                 /\ \E k \in Current(Deps[b][j].feature)' :
                                        k.data_ts = h.from[j] /\ Visible(k, h.calc_ts)
        BY DEF RowsComputed, Computable
      <3>4. CASE h \in ToSet(history[b])
        BY <1>k, <3>4
      <3>5. CASE b = d /\ h = r
        BY <2>1, <2>3, <2>4, <3>3, <3>5
      <3> QED
        BY <3>2, <3>4, <3>5
    <2> QED
      BY <2>1, <2>5, <2>6
  <1>3. CASE PublishPoison \/ Crash \/ Observe \/ DeadLetter \/ SkipUnit \/ ReadInput \/ SkipStale
             \/ Chain \/ CommitHeld \/ BeginWave \/ UNCHANGED vars
    <2>1. history' = history
      BY <1>3 DEF PublishPoison, Crash, Observe, DeadLetter, SkipUnit, ReadInput, SkipStale, Chain,
                  CommitHeld, BeginWave, vars
    <2> QED
      BY <1>s, <2>1
  <1> QED
    BY <1>1, <1>2, <1>3 DEF Next, Step

(* A row computed after the wave began is announced after it.              *)
LEMMA UnseenStep ==
    ASSUME TypeOK, Invariant, [Next]_vars
    PROVE  UnseenAnnounced'
  <1>0. TopicKept /\ HistoryKept /\ UnseenAnnounced
    BY StepKept DEF Invariant
  <1>k. ASSUME pc # "poll", position' = position, wave_ts' = wave_ts,
               \A f \in Triggers : \A r \in Current(f)' :
                   \/ r \in Current(f) \/ r.calc_ts <= wave_ts
                   \/ \E p \in position + 1..Len(topic') : Announces(p, f)'
        PROVE  UnseenAnnounced'
    <2> SUFFICES ASSUME NEW f \in Triggers, NEW r \in Current(f)', r.calc_ts > wave_ts
                 PROVE  \E p \in position + 1..Len(topic') : Announces(p, f)'
      BY <1>k DEF UnseenAnnounced
    <2>1. CASE r \in Current(f)
      <3>1. PICK p \in position + 1..Len(topic) : Announces(p, f)
        BY <1>0, <1>k, <2>1 DEF UnseenAnnounced
      <3>2. p \in 1..Len(topic) /\ p \in position + 1..Len(topic')
        BY <1>0, <3>1, Types DEF TopicKept
      <3> QED
        BY <1>0, <3>1, <3>2, AnnouncesKept
    <2>2. CASE r.calc_ts <= wave_ts
      <3>1. r \in ToSet(history'[f]) /\ f \in Features /\ TypeOK'
        BY TypeStep DEF Current, Triggers
      <3>2. IsRow(r)
        BY <3>1 DEF TypeOK
      <3> QED
        BY <2>2, <3>2, Types DEF IsRow
    <2> QED
      BY <1>k, <2>1, <2>2
  <1>s. ASSUME pc # "poll" \/ pc' = pc, position' = position, wave_ts' = wave_ts, history' = history
        PROVE  UnseenAnnounced'
    <2>1. CASE pc' = "poll"
      BY <2>1 DEF UnseenAnnounced
    <2>2. CASE pc' # "poll"
      <3>1. \A f \in Triggers : \A r \in Current(f)' : r \in Current(f)
        BY <1>s DEF Current
      <3> QED
        BY <1>k, <1>s, <2>2, <3>1
    <2> QED
      BY <2>1, <2>2
  <1>1. ASSUME NEW w \in Rows,
               NEW c \in CalcTimes, Announce(w, c)
        PROVE  UnseenAnnounced'
    <2>1. PICK f, r :
              /\ f \in Features /\ topic' = IF f \in Triggers THEN Append(topic, event(f, r.version, r)) ELSE topic
              /\ history' = history \/ history' = [history EXCEPT ![f] = Append(@, r)]
              /\ Same
      BY <1>1, AnnounceShape
    <2>2. CASE pc = "poll"
      BY <2>1, <2>2 DEF Same, UnseenAnnounced
    <2>3. CASE history' = history
      BY <1>s, <2>1, <2>3 DEF Same
    <2>4. CASE pc # "poll" /\ history' = [history EXCEPT ![f] = Append(@, r)]
      <3>1. ToSet(history'[f]) = ToSet(history[f]) \cup {r} /\ \A g \in Features \ {f} : history'[g] = history[g]
        BY <2>1, <2>4, RowAppended
      <3>2. ASSUME f \in Triggers
            PROVE  /\ Len(topic') = Len(topic) + 1 /\ topic'[Len(topic) + 1] = event(f, r.version, r)
                   /\ Len(topic) + 1 \in position + 1..Len(topic')
        <4>1. Len(topic') = Len(topic) + 1 /\ topic'[Len(topic) + 1] = event(f, r.version, r)
          BY <2>1, <3>2, EventAppended
        <4> QED
          BY <4>1, Types
      <3>3. \A g \in Triggers : g \in Features
        BY DEF Triggers
      <3>4. ASSUME NEW g \in Triggers, NEW x \in Current(g)'
            PROVE  x \in Current(g) \/ \E p \in position + 1..Len(topic') : Announces(p, g)'
        <4>1. CASE x \in ToSet(history[g])
          BY <4>1 DEF Current
        <4>2. CASE g = f /\ x = r
          <5>1. r.version = Version[f]
            BY <4>2 DEF Current
          <5>2. PICK n : n = Len(topic) + 1
            OBVIOUS
          <5>3. Announces(n, f)'
            BY <3>2, <4>2, <5>1, <5>2 DEF Announces, event
          <5> QED
            BY <3>2, <4>2, <5>2, <5>3
        <4> QED
          BY <3>1, <3>3, <4>1, <4>2 DEF Current
      <3> QED
        BY <1>k, <2>1, <2>4, <3>4 DEF Same
    <2> QED
      BY <2>1, <2>2, <2>3, <2>4
  <1>2. CASE AppendRow
    <2> DEFINE d == Head(debounce)
               r == Computed(d, unit)
    <2>1. /\ debounce # <<>> /\ ComputedUnit /\ wave_ts' = wave_ts /\ position' = position /\ pc = "wave"
          /\ history' = history \/ history' = [history EXCEPT ![d] = Append(@, r)]
      BY <1>2, AppendShape
    <2>2. d \in Features
      BY <2>1, InHand
    <2>3. r.calc_ts <= wave_ts
      <3>1. r.calc_ts = wave_ts
        BY <2>1, UnitComputed
      <3> QED
        BY <3>1, Types
    <2> HIDE DEF r, d
    <2>4. CASE history' = history
      BY <1>s, <2>1, <2>4
    <2>5. CASE history' = [history EXCEPT ![d] = Append(@, r)]
      <3>1. PICK f, x : f \in Features /\ f = d /\ x = r
        BY <2>2
      <3>2. ToSet(history'[f]) = ToSet(history[f]) \cup {x} /\ \A b \in Features \ {f} : history'[b] = history[b]
        BY <2>5, <3>1, RowAppended
      <3>3. \A g \in Triggers : \A y \in Current(g)' : y \in Current(g) \/ y.calc_ts <= wave_ts
        BY <2>3, <3>1, <3>2 DEF Current, Triggers
      <3> QED
        BY <1>k, <2>1, <3>3
    <2> QED
      BY <2>1, <2>4, <2>5
  <1>3. CASE Crash \/ Observe \/ DeadLetter
    <2>1. pc' = "poll"
      BY <1>3 DEF Crash, Observe, DeadLetter, local
    <2> QED
      BY <2>1 DEF UnseenAnnounced
  <1>4. CASE PublishPoison \/ SkipUnit \/ ReadInput \/ SkipStale \/ Chain \/ CommitHeld \/ UNCHANGED vars
    <2>1. history' = history /\ wave_ts' = wave_ts /\ position' = position /\ (pc # "poll" \/ pc' = pc)
      BY <1>4 DEF PublishPoison, SkipUnit, ReadInput, SkipStale, Chain, CommitHeld, vars, broker, local
    <2> QED
      BY <1>s, <2>1
  <1>5. CASE BeginWave
    <2>1. history' = history /\ wave_ts + 1 <= wave_ts' /\ ClockKept
      BY <1>5, WaveBegins
    <2>2. \A f \in Triggers : \A r \in Current(f)' : ~(r.calc_ts > wave_ts')
      BY <2>1, Types DEF Current, IsRow, ClockKept, Triggers
    <2> QED
      BY <2>2 DEF UnseenAnnounced
  <1> QED
    BY <1>1, <1>2, <1>3, <1>4, <1>5 DEF Next, Step

-----------------------------------------------------------------------------
(* The round: RoundInProgress, HeldOffsets, UnitRead.                      *)

(* Every step keeps the shape of the round.                                *)
LEMMA RoundStep ==
    ASSUME TypeOK, Invariant, [Next]_vars
    PROVE  RoundInProgress'
  <1>0. RoundInProgress
    BY DEF Invariant
  <1>s. ASSUME UNCHANGED <<pc, pending, debounce, unit>> PROVE RoundInProgress'
    BY <1>0, <1>s DEF RoundInProgress, Computable
  <1>f. ASSUME pc' = "poll", debounce' = <<>>, pending' = <<>>, unit' = <<>> PROVE RoundInProgress'
    BY <1>f DEF RoundInProgress
  <1>n. ASSUME NextUnit, pending' = pending, pc # "poll" PROVE RoundInProgress'
    BY <1>0, <1>n DEF RoundInProgress, NextUnit
  <1>1. ASSUME NEW w \in Rows,
               NEW c \in CalcTimes, Announce(w, c)
        PROVE  RoundInProgress'
    BY <1>1, <1>s DEF Announce, local
  <1>2. CASE PublishPoison \/ DeadLetter \/ UNCHANGED vars
    BY <1>2, <1>s DEF PublishPoison, DeadLetter, vars, local
  <1>3. CASE Crash
    BY <1>3, <1>f DEF Crash
  <1>4. CASE Observe
    <2>1. pending' = Append(pending, position + 1) /\ pc = "poll" /\ pc' = pc /\ unit' = unit
      BY <1>4 DEF Observe
    <2>2. IsSeq(pending)
      BY SeqIsSeq DEF TypeOK
    <2>3. pending' # <<>>
      BY <2>1, <2>2, AppendSeq
    <2> QED
      BY <1>0, <2>1, <2>3 DEF RoundInProgress
  <1>5. CASE SkipUnit \/ SkipStale
    BY <1>5, <1>n DEF SkipUnit, SkipStale
  <1>6. CASE ReadInput
    <2>1. CASE NextUnit
      BY <1>6, <1>n, <2>1 DEF ReadInput
    <2>2. CASE UNCHANGED <<pc, debounce>>
      BY <1>0, <1>6, <2>2 DEF ReadInput, RoundInProgress, Computable
    <2> QED
      BY <1>6, <2>1, <2>2 DEF ReadInput
  <1>7. CASE AppendRow
    <2>1. debounce # <<>> /\ Computable(Head(debounce)) /\ pc = "wave"
      BY <1>7, AppendShape
    <2>2. CASE WaveFails
      BY <1>f, <2>2 DEF WaveFails
    <2>3. CASE pc' = "emit" /\ UNCHANGED <<debounce, pending, unit, faults>>
      BY <1>0, <2>1, <2>3 DEF RoundInProgress, Computable
    <2> QED
      BY <1>7, <2>2, <2>3, AppendShape
  <1>8. CASE Chain
    <2>1. CASE WaveFails
      BY <1>f, <2>1 DEF WaveFails
    <2>2. CASE NextUnit /\ UNCHANGED <<pending, faults>>
      <3>1. pc = "emit"
        BY <1>8, ChainShape
      <3> QED
        BY <1>n, <2>2, <3>1
    <2> QED
      BY <1>8, <2>1, <2>2, ChainShape
  <1>9. CASE CommitHeld
    <2>1. pc = "wave" /\ debounce = <<>> /\ debounce' = debounce /\ unit' = unit /\ pending' = Tail(pending)
          /\ pc' = IF Len(pending) = 1 THEN "poll" ELSE "wave"
      BY <1>9 DEF CommitHeld
    <2>2. pending \in Seq(1..position) /\ pending # <<>>
      BY <1>0, <2>1 DEF TypeOK, RoundInProgress
    <2>3. Len(pending) # 1 => Tail(pending) # <<>>
      <3> DEFINE T == 1..position
      <3>1. pending \in Seq(T)
        BY <2>2
      <3> HIDE DEF T
      <3>2. Len(pending) \in Nat /\ Len(pending) # 0 /\ Len(Tail(pending)) = Len(pending) - 1
        BY <2>2, <3>1
      <3> QED
        BY <3>2
    <2>4. unit = <<>>
      BY <1>0, <2>1 DEF RoundInProgress
    <2> QED
      BY <2>1, <2>3, <2>4 DEF RoundInProgress
  <1>10. CASE BeginWave
    BY <1>0, <1>10 DEF RoundInProgress, BeginWave
  <1> QED
    BY <1>1, <1>2, <1>3, <1>4, <1>5, <1>6, <1>7, <1>8, <1>9, <1>10 DEF Next, Step

(* Held offsets stay when neither they nor what is pending change.         *)
LEMMA HeldSame ==
    ASSUME TypeOK, Invariant, TopicKept, UNCHANGED <<position, committed, pending>>,
           ToSet(debounce') \subseteq ToSet(debounce), faults' = 0 /\ dlq' = {} => faults = 0 /\ dlq = {}
    PROVE  HeldOffsets'
  <1> SUFFICES ASSUME faults' = 0, dlq' = {}
               PROVE  /\ position' = committed' + Len(pending')
                      /\ \A i \in DOMAIN pending' : pending'[i] = committed' + i
                      /\ \A o \in 1..position' : topic'[o].feature # Poison
                      /\ \A d \in ToSet(debounce') :
                             \E o \in committed' + 1..position' : d \in plan_recompute_wave(topic'[o])
    BY DEF HeldOffsets, IsPoison
  <1>1. HeldOffsets /\ faults = 0 /\ dlq = {}
    BY DEF Invariant
  <1>2. \A o \in 1..position : topic'[o] = topic[o]
    BY Types DEF TopicKept
  <1>3. \A o \in committed + 1..position : o \in 1..position
    BY Types
  <1> QED
    BY <1>1, <1>2, <1>3 DEF HeldOffsets, IsPoison

(* Every step keeps the held offsets next to the committed one.            *)
LEMMA HeldStep ==
    ASSUME TypeOK, Invariant, [Next]_vars
    PROVE  HeldOffsets'
  <1>0. TopicKept /\ HeldOffsets
    BY StepKept DEF Invariant
  <1>v. ASSUME faults' = faults + 1 PROVE HeldOffsets'
    BY <1>v, Types DEF HeldOffsets
  <1>1. ASSUME NEW w \in Rows,
               NEW c \in CalcTimes, Announce(w, c)
        PROVE  HeldOffsets'
    BY <1>0, <1>1, HeldSame DEF Announce, local
  <1>2. CASE PublishPoison \/ ReadInput \/ SkipUnit \/ SkipStale \/ BeginWave \/ UNCHANGED vars
    <2>1. UNCHANGED <<position, committed, pending, dlq, faults>>
      BY <1>2 DEF PublishPoison, ReadInput, SkipUnit, SkipStale, BeginWave, vars, broker, local, bounds
    <2>2. ToSet(debounce') \subseteq ToSet(debounce)
      <3>1. debounce' = debounce \/ (debounce # <<>> /\ debounce' = Tail(debounce))
        BY <1>2 DEF PublishPoison, ReadInput, SkipUnit, SkipStale, BeginWave, vars, local, NextUnit
      <3> QED
        BY <3>1, InHand
    <2> QED
      BY <1>0, <2>1, <2>2, HeldSame
  <1>3. CASE Crash
    <2>1. /\ position' = committed /\ committed' = committed /\ topic' = topic /\ pending' = <<>>
          /\ debounce' = <<>> /\ faults' = faults /\ dlq' = dlq
      BY <1>3 DEF Crash
    <2>2. Len(pending') = 0 /\ DOMAIN pending' = {}
      BY <2>1
    <2>3. ToSet(debounce') = {}
      BY <2>1, NoElements
    <2>4. \A o \in 1..committed : o \in 1..position
      BY Types
    <2> QED
      BY <1>0, <2>1, <2>2, <2>3, <2>4, Types DEF HeldOffsets, IsPoison
  <1>4. CASE Observe
    <2>1. /\ topic' = topic /\ position' = position + 1 /\ pending' = Append(pending, position + 1)
          /\ debounce' = observe(debounce, plan_recompute_wave(topic[position + 1]))
          /\ UNCHANGED <<committed, faults, dlq>> /\ topic[position + 1].feature # Poison
      BY <1>4 DEF Observe, bounds, IsPoison
    <2>2. ToSet(debounce') = ToSet(debounce) \cup plan_recompute_wave(topic[position + 1])
      BY <2>1, ObserveAdds, PlansOnly DEF TypeOK
    <2> SUFFICES ASSUME faults = 0, dlq = {}
                 PROVE  /\ position' = committed' + Len(pending')
                        /\ \A i \in DOMAIN pending' : pending'[i] = committed' + i
                        /\ \A o \in 1..position' : topic'[o].feature # Poison
                        /\ \A d \in ToSet(debounce') :
                               \E o \in committed' + 1..position' : d \in plan_recompute_wave(topic'[o])
      BY <2>1 DEF HeldOffsets, IsPoison
    <2>3. /\ position = committed + Len(pending)
          /\ \A i \in DOMAIN pending : pending[i] = committed + i
          /\ \A o \in 1..position : topic[o].feature # Poison
          /\ \A d \in ToSet(debounce) :
                 \E o \in committed + 1..position : d \in plan_recompute_wave(topic[o])
      BY <1>0 DEF HeldOffsets, IsPoison
    <2>4. IsSeq(pending)
      BY SeqIsSeq DEF TypeOK
    <2>5. /\ IsSeq(pending') /\ Len(pending') = Len(pending) + 1
          /\ \A i \in 1..Len(pending) : pending'[i] = pending[i]
          /\ pending'[Len(pending) + 1] = position + 1
      BY <2>1, <2>4, AppendSeq
    <2>6. Len(pending) \in Nat /\ DOMAIN pending = 1..Len(pending) /\ DOMAIN pending' = 1..Len(pending')
      BY <2>4, <2>5, SeqOver
    <2>7. position' = committed' + Len(pending')
      BY <2>1, <2>3, <2>5, <2>6, Types
    <2>8. ASSUME NEW i \in DOMAIN pending' PROVE pending'[i] = committed' + i
      <3>1. CASE i \in 1..Len(pending)
        BY <2>1, <2>3, <2>5, <2>6, <3>1
      <3>2. CASE i = Len(pending) + 1
        BY <2>1, <2>3, <2>5, <2>6, <3>2, Types
      <3> QED
        BY <2>5, <2>6, <3>1, <3>2
    <2>9. \A o \in 1..position' : o \in 1..position \/ o = position + 1
      BY <2>1, Types
    <2>10. ASSUME NEW d \in ToSet(debounce')
           PROVE  \E o \in committed' + 1..position' : d \in plan_recompute_wave(topic'[o])
      <3>1. \A o \in committed + 1..position : o \in committed' + 1..position'
        BY <2>1, Types
      <3>2. position + 1 \in committed' + 1..position'
        BY <2>1, Types
      <3>3. CASE d \in ToSet(debounce)
        BY <2>1, <2>3, <3>1, <3>3
      <3>4. CASE d \in plan_recompute_wave(topic[position + 1])
        BY <2>1, <3>2, <3>4
      <3> QED
        BY <2>2, <3>3, <3>4
    <2> QED
      BY <2>1, <2>3, <2>7, <2>8, <2>9, <2>10
  <1>5. CASE DeadLetter
    <2>1. (dlq' = dlq \cup {position + 1}) \/ faults' = faults + 1
      BY <1>5 DEF DeadLetter
    <2>2. CASE dlq' = dlq \cup {position + 1}
      <3>1. dlq' # {}
        BY <2>2
      <3> QED
        BY <3>1 DEF HeldOffsets
    <2> QED
      BY <1>v, <2>1, <2>2
  <1>6. CASE AppendRow
    <2>1. CASE WaveFails
      BY <1>v, <2>1 DEF WaveFails
    <2>2. CASE UNCHANGED <<debounce, pending, unit, faults>>
      <3>1. UNCHANGED <<topic, position, committed, dlq, wave_ts, crashes>>
        BY <1>6, AppendShape
      <3> QED
        BY <1>0, <2>2, <3>1, HeldSame
    <2> QED
      BY <1>6, <2>1, <2>2, AppendShape
  <1>7. CASE Chain
    <2>1. CASE WaveFails
      BY <1>v, <2>1 DEF WaveFails
    <2>2. CASE NextUnit /\ UNCHANGED <<pending, faults>>
      <3>1. pc = "emit" /\ UNCHANGED <<position, committed, history, dlq, wave_ts, crashes>>
        BY <1>7, ChainShape
      <3>2. debounce # <<>>
        BY <3>1 DEF Invariant, RoundInProgress
      <3>3. ToSet(debounce') \subseteq ToSet(debounce)
        BY <2>2, <3>2, InHand DEF NextUnit
      <3> QED
        BY <1>0, <2>2, <3>1, <3>3, HeldSame
    <2> QED
      BY <1>7, <2>1, <2>2, ChainShape
  <1>8. CASE CommitHeld
    <2>1. /\ pc = "wave" /\ debounce = <<>> /\ committed' = Head(pending) /\ pending' = Tail(pending)
          /\ UNCHANGED <<topic, position, debounce, faults, dlq>>
      BY <1>8 DEF CommitHeld, bounds
    <2>2. pending # <<>> /\ pending \in Seq(1..position)
      BY <2>1 DEF Invariant, RoundInProgress, TypeOK
    <2>3. /\ Len(pending) \in Nat \ {0} /\ DOMAIN pending = 1..Len(pending) /\ Head(pending) = pending[1]
          /\ Len(Tail(pending)) = Len(pending) - 1 /\ DOMAIN Tail(pending) = 1..Len(pending) - 1
          /\ \A i \in 1..Len(pending) - 1 : Tail(pending)[i] = pending[i + 1]
      <3> DEFINE T == 1..position
      <3>1. pending \in Seq(T)
        BY <2>2
      <3> HIDE DEF T
      <3> QED
        BY <2>2, <3>1
    <2>4. ToSet(debounce') = {}
      BY <2>1, NoElements
    <2> SUFFICES ASSUME faults = 0, dlq = {}
                 PROVE  /\ position' = committed' + Len(pending')
                        /\ \A i \in DOMAIN pending' : pending'[i] = committed' + i
                        /\ \A o \in 1..position' : topic'[o].feature # Poison
      BY <2>1, <2>4 DEF HeldOffsets, IsPoison
    <2>5. /\ position = committed + Len(pending)
          /\ \A i \in DOMAIN pending : pending[i] = committed + i
          /\ \A o \in 1..position : topic[o].feature # Poison
      BY <1>0 DEF HeldOffsets, IsPoison
    <2>6. committed' = committed + 1
      BY <2>1, <2>3, <2>5
    <2>7. ASSUME NEW i \in 1..Len(pending) - 1 PROVE Tail(pending)[i] = committed' + i
      <3>1. i + 1 \in 1..Len(pending) /\ pending[i + 1] = committed + (i + 1)
        BY <2>3, <2>5
      <3> QED
        BY <2>3, <2>6, <3>1, Types
    <2>8. position' = committed' + Len(pending')
      <3>1. position = committed + 1 + (Len(pending) - 1)
        BY <2>3, <2>5, Types
      <3> QED
        BY <2>1, <2>3, <2>6, <3>1
    <2>9. \A i \in DOMAIN pending' : pending'[i] = committed' + i
      BY <2>1, <2>3, <2>7
    <2> QED
      BY <2>1, <2>5, <2>8, <2>9
  <1> QED
    BY <1>1, <1>2, <1>3, <1>4, <1>5, <1>6, <1>7, <1>8 DEF Next, Step

(* An input that was read stays read: it is the one the wave sees, and a   *)
(* later row is announced after it.                                        *)
LEMMA InputReadKept ==
    ASSUME TypeOK, EventsDurable, TopicKept, HistoryKept, NEW d \in Dependents, NEW i \in DOMAIN Deps[d],
           InputRead(d, i), position' = position, wave_ts' = wave_ts, unit'[i] = unit[i],
           \A h \in ToSet(history'[d]) : h \in ToSet(history[d]) \/ h.from[i] <= unit[i].data_ts,
           Deps[d][i].feature \in Triggers => \A r \in Current(Deps[d][i].feature)' :
               \/ r \in Current(Deps[d][i].feature)
               \/ \E p \in position + 1..Len(topic') : Announces(p, Deps[d][i].feature)'
    PROVE  InputRead(d, i)'
  <1>1. PICK f, u : f \in Features /\ f = Deps[d][i].feature /\ u = unit[i]
    BY Edges
  <1>2. /\ u \in Current(f) /\ Visible(u, wave_ts)
        /\ \A o \in 1..position : Announces(o, f) /\ OnTime(o) =>
               \E k \in Current(f) : RowOf(o, k) /\ NotLater(k, u)
        /\ \A h \in ToSet(history[d]) : h.from[i] <= u.data_ts
        /\ \/ \A r \in Current(f) : Present(r) => NotLater(r, u)
           \/ ~Deps[d][i].reactive
           \/ \E p \in position + 1..Len(topic) : Announces(p, f)
    BY <1>1 DEF InputRead
  <1>3. u \in Current(f)'
    BY <1>1, <1>2, CurrentKept
  <1>4. ASSUME NEW o \in 1..position, Announces(o, f)', OnTime(o)'
        PROVE  \E k \in Current(f)' : RowOf(o, k)' /\ NotLater(k, u)
    <2>1. o \in 1..Len(topic)
      BY Types
    <2>2. Announces(o, f)
      BY <1>4, <2>1, AnnouncesKept
    <2>3. topic[o].feature \in Features
      BY <1>1, <2>1, <2>2, AnnouncedRow
    <2>4. OnTime(o)
      BY <1>4, <2>1, <2>3, OnTimeBefore
    <2>5. PICK k \in Current(f) : RowOf(o, k) /\ NotLater(k, u)
      BY <1>2, <2>2, <2>4
    <2>6. k \in Current(f)'
      BY <1>1, CurrentKept
    <2>7. RowOf(o, k)'
      BY <2>1, <2>5 DEF RowOf, TopicKept
    <2> QED
      BY <2>5, <2>6, <2>7
  <1>5. \A h \in ToSet(history'[d]) : h.from[i] <= u.data_ts
    BY <1>1, <1>2
  <1>6. \/ \A r \in Current(f)' : Present(r) => NotLater(r, u)
        \/ ~Deps[d][i].reactive
        \/ \E p \in position + 1..Len(topic') : Announces(p, f)'
    <2>1. CASE Deps[d][i].reactive /\ \A r \in Current(f) : Present(r) => NotLater(r, u)
      <3>1. f \in Triggers
        BY <1>1, <2>1, Edges
      <3> QED
        BY <1>1, <2>1, <3>1
    <2>2. CASE \E p \in position + 1..Len(topic) : Announces(p, f)
      <3>1. PICK p \in position + 1..Len(topic) : Announces(p, f)
        BY <2>2
      <3>2. p \in 1..Len(topic) /\ p \in position + 1..Len(topic')
        BY Types DEF TopicKept
      <3> QED
        BY <3>1, <3>2, AnnouncesKept
    <2> QED
      BY <1>2, <2>1, <2>2
  <1> QED
    BY <1>1, <1>2, <1>3, <1>4, <1>5, <1>6 DEF InputRead

(* What was read stays read while the dependent in hand is the same.       *)
LEMMA UnitKept ==
    ASSUME TypeOK, Invariant, TopicKept, HistoryKept,
           UNCHANGED <<position, wave_ts, debounce, unit>>, pc' = "emit" => pc = "emit",
           \A d \in Dependents : history'[d] = history[d],
           \A f \in Triggers : \A r \in Current(f)' :
               r \in Current(f) \/ \E p \in position + 1..Len(topic') : Announces(p, f)'
    PROVE  UnitRead'
  <1> SUFFICES ASSUME debounce # <<>> PROVE UnitRead'
    BY DEF UnitRead
  <1>1. PICK d \in Dependents : d = Head(debounce)
    BY InHand
  <1>2. /\ Len(unit) <= Len(Deps[d]) /\ Len(unit) \in Nat
        /\ \A i \in 1..Len(unit) : InputRead(d, i)
        /\ pc = "emit" =>
               /\ Len(unit) = Len(Deps[d])
               /\ \E h \in ToSet(history[d]) : Agree(h, Computed(d, unit))
    BY <1>1 DEF Invariant, UnitRead, TypeOK, IsSeq
  <1>3. \A i \in 1..Len(unit) : i \in DOMAIN Deps[d]
    BY <1>2, Edges
  <1>4. ASSUME NEW i \in 1..Len(unit) PROVE InputRead(d, i)'
    <2>1. i \in DOMAIN Deps[d] /\ InputRead(d, i) /\ EventsDurable
      BY <1>2, <1>3 DEF Invariant
    <2> QED
      BY <2>1, InputReadKept
  <1>5. Computed(d, unit)' = Computed(d, unit)
    BY DEF Computed
  <1> QED
    BY <1>1, <1>2, <1>4, <1>5 DEF UnitRead

(* With nothing read and nothing to announce there is nothing to show.     *)
LEMMA UnitEmpty ==
    ASSUME TypeOK', unit' = <<>>, pc' # "emit"
    PROVE  UnitRead'
  <1>1. Len(unit') = 0
    OBVIOUS
  <1>2. ASSUME debounce' # <<>> PROVE Len(Deps[Head(debounce')]) \in Nat
    <2>1. debounce' \in Seq(Dependents)
      BY DEF TypeOK
    <2>2. Head(debounce') \in Dependents
      BY <1>2, <2>1
    <2> QED
      BY <2>2, Edges
  <1> QED
    BY <1>1, <1>2 DEF UnitRead

(* A wave reads the next input.                                            *)
LEMMA UnitReads ==
    ASSUME TypeOK, Invariant, ReadInput, ~NextUnit
    PROVE  UnitRead'
  <1>1. /\ pc = "wave" /\ debounce # <<>> /\ Head(debounce) \notin Skipping
        /\ Len(unit) < Len(Deps[Head(debounce)])
        /\ UNCHANGED <<topic, position, history, wave_ts, pc, debounce>>
        /\ LET f == Deps[Head(debounce)][Len(unit) + 1].feature
           IN  Eligible(f) # {} /\ unit' = Append(unit, get_pit(f))
    BY DEF ReadInput, broker
  <1>2. PICK d \in Dependents, n \in Nat : d = Head(debounce) /\ n = Len(unit)
    BY <1>1, InHand DEF TypeOK, IsSeq
  <1>3. n + 1 \in DOMAIN Deps[d] /\ n + 1 <= Len(Deps[d])
    BY <1>1, <1>2, Edges
  <1>4. PICK f \in Features : f = Deps[d][n + 1].feature
    BY <1>3, Edges
  <1>5. PICK u : u = get_pit(f)
    OBVIOUS
  <1>6. Eligible(f) # {} /\ unit' = Append(unit, u)
    BY <1>1, <1>2, <1>4, <1>5
  <1>7. /\ u \in Current(f) /\ Visible(u, wave_ts)
        /\ \A r \in Current(f) : Visible(r, wave_ts) => NotLater(r, u)
    BY <1>5, <1>6, GetPit
  <1>8. /\ Len(unit') = n + 1 /\ \A i \in 1..n : unit'[i] = unit[i]
        /\ unit'[n + 1] = u
    BY <1>2, <1>6, AppendSeq DEF TypeOK
  <1>9. ASSUME NEW o \in 1..position, Announces(o, f), OnTime(o)
        PROVE  \E k \in Current(f) : RowOf(o, k) /\ NotLater(k, u)
    <2>1. o \in 1..Len(topic) /\ o <= position
      BY Types
    <2>2. PICK k \in Current(f) : RowOf(o, k) /\ k.calc_ts <= wave_ts
      BY <1>1, <1>9, <2>1, AnnouncedRow DEF Invariant
    <2>3. k \in ToSet(history[f]) /\ IsRow(k) /\ wave_ts \in Nat
      BY Types
    <2>4. Present(k)
      BY <1>9, <2>2, <2>3 DEF OnTime, Announces
    <2>5. Visible(k, wave_ts)
      BY <2>2, <2>3, <2>4, PresentVisible
    <2> QED
      BY <1>7, <2>2, <2>5
  <1>10. ASSUME NEW h \in ToSet(history[d]) PROVE h.from[n + 1] <= u.data_ts
    <2>1. PICK k \in Current(f) : k.data_ts = h.from[n + 1] /\ Visible(k, h.calc_ts) /\ h.calc_ts <= wave_ts
      BY <1>3, <1>4 DEF Invariant, RowsComputed
    <2>2. IsRow(k) /\ IsRow(u) /\ IsRow(h) /\ h.calc_ts \in Nat /\ wave_ts \in Nat
      <3>1. IsRow(k) /\ IsRow(u) /\ IsRow(h) /\ wave_ts \in Nat
        BY <1>7, <2>1, Types, Edges
      <3> QED
        BY <3>1 DEF IsRow
    <2>3. Visible(k, wave_ts)
      BY <2>1, <2>2, VisibleLater
    <2>4. NotLater(k, u)
      BY <1>7, <2>3
    <2> QED
      BY <2>1, <2>2, <2>4, NotLaterOrder
  <1>11. \/ \A r \in Current(f) : Present(r) => NotLater(r, u)
         \/ ~Deps[d][n + 1].reactive
         \/ \E p \in position + 1..Len(topic) : Announces(p, f)
    <2>1. CASE \A r \in Current(f) : Present(r) => r.calc_ts <= wave_ts
      <3>1. ASSUME NEW r \in Current(f), Present(r) PROVE NotLater(r, u)
        <4>1. IsRow(r) /\ wave_ts \in Nat
          BY Types
        <4>2. Visible(r, wave_ts)
          BY <2>1, <3>1, <4>1, PresentVisible
        <4> QED
          BY <1>7, <4>2
      <3> QED
        BY <3>1
    <2>2. CASE Deps[d][n + 1].reactive /\ \E r \in Current(f) : ~(r.calc_ts <= wave_ts)
      <3>1. PICK r \in Current(f) : ~(r.calc_ts <= wave_ts)
        BY <2>2
      <3>2. r.calc_ts > wave_ts
        BY <3>1, Types DEF IsRow
      <3>3. f \in Triggers
        BY <1>3, <1>4, <2>2, Edges
      <3> QED
        BY <1>1, <3>2, <3>3 DEF Invariant, UnseenAnnounced
    <2> QED
      BY <2>1, <2>2
  <1>12. /\ \A o \in 1..position : Announces(o, f)' <=> Announces(o, f)
         /\ \A p \in position + 1..Len(topic) : Announces(p, f)' <=> Announces(p, f)
         /\ \A o \in 1..position : OnTime(o)' <=> OnTime(o)
         /\ \A o \in 1..position : \A k : RowOf(o, k)' <=> RowOf(o, k)
         /\ Current(f)' = Current(f)
    BY <1>1 DEF Announces, RowOf, Current, OnTime
  <1>13. InputRead(d, n + 1)'
    BY <1>1, <1>4, <1>7, <1>8, <1>9, <1>10, <1>11, <1>12 DEF InputRead
  <1>14. ASSUME NEW i \in 1..n PROVE InputRead(d, i)'
    <2>1. InputRead(d, i) /\ i \in DOMAIN Deps[d]
      <3>1. InputRead(d, i)
        BY <1>1, <1>2 DEF Invariant, UnitRead
      <3>2. i \in DOMAIN Deps[d]
        BY <1>3, Edges
      <3> QED
        BY <3>1, <3>2
    <2>2. TopicKept /\ HistoryKept /\ EventsDurable
      BY <1>1, TopicSame, HistorySame DEF Invariant
    <2>3. \A r \in Current(Deps[d][i].feature)' : r \in Current(Deps[d][i].feature)
      BY <1>1 DEF Current
    <2> QED
      BY <1>1, <1>8, <2>1, <2>2, <2>3, InputReadKept
  <1>15. \A i \in 1..Len(unit') : i \in 1..n \/ i = n + 1
    BY <1>8
  <1> QED
    BY <1>1, <1>2, <1>3, <1>8, <1>13, <1>14, <1>15 DEF UnitRead

(* The computed row is appended, or is in history already.                 *)
LEMMA UnitAppends ==
    ASSUME TypeOK, Invariant, AppendRow, ~WaveFails, HistoryKept
    PROVE  UnitRead'
  <1>1. PICK d, x : d = Head(debounce) /\ x = Computed(Head(debounce), unit)
    OBVIOUS
  <1>2. /\ debounce # <<>> /\ ComputedUnit /\ pc' = "emit"
        /\ UNCHANGED <<topic, position, wave_ts, debounce, unit>>
        /\ \/ history' = history /\ \E k \in ToSet(history[d]) : Agree(k, x)
           \/ history' = [history EXCEPT ![d] = Append(@, x)]
    BY <1>1, AppendShape
  <1>3. d \in Dependents /\ d \in Features
    BY <1>1, <1>2, InHand
  <1>4. /\ DOMAIN Deps[d] = 1..Len(unit)
        /\ \A i \in 1..Len(unit) : InputRead(d, i) /\ unit[i].data_ts \in Nat /\ x.from[i] = unit[i].data_ts
    BY <1>1, <1>2, UnitComputed
  <1>5. \/ history' = history /\ \E k \in ToSet(history[d]) : Agree(k, x)
        \/ /\ ToSet(history'[d]) = ToSet(history[d]) \cup {x}
           /\ \A g \in Features \ {d} : history'[g] = history[g]
    BY <1>2, <1>3, RowAppended
  <1>6. ASSUME NEW i \in 1..Len(unit) PROVE InputRead(d, i)'
    <2>1. i \in DOMAIN Deps[d] /\ InputRead(d, i)
      BY <1>4
    <2>2. \A h \in ToSet(history'[d]) : h \in ToSet(history[d]) \/ h.from[i] <= unit[i].data_ts
      BY <1>4, <1>5
    <2>3. Deps[d][i].feature \in Features \ {d}
      BY <1>3, <2>1, Edges
    <2>4. \A r \in Current(Deps[d][i].feature)' : r \in Current(Deps[d][i].feature)
      BY <1>5, <2>3 DEF Current
    <2>5. TopicKept /\ EventsDurable
      BY <1>2, TopicSame DEF Invariant
    <2> QED
      BY <1>2, <1>3, <2>1, <2>2, <2>4, <2>5, InputReadKept
  <1>7. \E h \in ToSet(history'[d]) : Agree(h, x)
    BY <1>5 DEF Agree
  <1>8. x = Computed(d, unit)'
    BY <1>1, <1>2 DEF Computed
  <1>9. Len(unit) = Len(Deps[d]) /\ Len(Deps[d]) \in Nat
    BY <1>1, <1>2, <1>3, Edges DEF ComputedUnit
  <1> QED
    BY <1>1, <1>2, <1>6, <1>7, <1>8, <1>9 DEF UnitRead

(* Every step keeps what was read for the dependent in hand.               *)
LEMMA UnitStep ==
    ASSUME TypeOK, Invariant, [Next]_vars
    PROVE  UnitRead'
  <1>0. TopicKept /\ HistoryKept /\ TypeOK' /\ RoundInProgress
    BY StepKept, TypeStep DEF Invariant
  <1>w. ASSUME WaveFails PROVE UnitRead'
    BY <1>0, <1>w, UnitEmpty DEF WaveFails
  <1>n. ASSUME NextUnit PROVE UnitRead'
    BY <1>0, <1>n, UnitEmpty DEF NextUnit
  <1>p. ASSUME pc = "poll", unit' = unit, pc' # "emit" PROVE UnitRead'
    BY <1>0, <1>p, UnitEmpty DEF RoundInProgress
  <1>1. ASSUME NEW w \in Rows,
               NEW c \in CalcTimes, Announce(w, c)
        PROVE  UnitRead'
    <2>1. PICK f, r :
              /\ f \in Features /\ f \notin Dependents
              /\ topic' = IF f \in Triggers THEN Append(topic, event(f, r.version, r)) ELSE topic
              /\ history' = history \/ history' = [history EXCEPT ![f] = Append(@, r)]
              /\ Same
      BY <1>1, AnnounceShape
    <2>2. \A d \in Dependents : history'[d] = history[d]
      BY <2>1, RowAppended, Edges
    <2>3. PICK n : n = Len(topic) + 1
      OBVIOUS
    <2>4. ASSUME f \in Triggers PROVE Len(topic') = n /\ topic'[n] = event(f, r.version, r)
      BY <2>1, <2>3, <2>4, EventAppended
    <2>5. ASSUME f \in Triggers PROVE n \in position + 1..Len(topic')
      BY <2>3, <2>4, <2>5, Types
    <2>6. \/ history' = history
          \/ /\ ToSet(history'[f]) = ToSet(history[f]) \cup {r}
             /\ \A g \in Features \ {f} : history'[g] = history[g]
      BY <2>1, RowAppended
    <2>7. ASSUME NEW g \in Triggers, NEW x \in Current(g)'
          PROVE  x \in Current(g) \/ \E p \in position + 1..Len(topic') : Announces(p, g)'
      <3>1. CASE x \in ToSet(history[g])
        BY <3>1 DEF Current
      <3>2. CASE g = f /\ x = r
        <4>1. r.version = Version[f]
          BY <3>2 DEF Current
        <4>2. Announces(n, f)'
          BY <2>4, <3>2, <4>1 DEF Announces, event
        <4> QED
          BY <2>5, <3>2, <4>2
      <3>3. g \in Features
        BY DEF Triggers
      <3> QED
        BY <2>6, <3>1, <3>2, <3>3 DEF Current
    <2> QED
      BY <1>0, <2>1, <2>2, <2>7, UnitKept DEF Same
  <1>2. CASE PublishPoison \/ UNCHANGED vars
    <2>1. UNCHANGED <<position, wave_ts, debounce, unit, pc, history>>
      BY <1>2 DEF PublishPoison, vars, broker, local
    <2>2. \A f \in Triggers : \A r \in Current(f)' : r \in Current(f)
      BY <2>1 DEF Current
    <2> QED
      BY <1>0, <2>1, <2>2, UnitKept
  <1>3. CASE Crash
    BY <1>0, <1>3, UnitEmpty DEF Crash
  <1>4. CASE Observe \/ DeadLetter \/ BeginWave
    BY <1>4, <1>p DEF Observe, DeadLetter, BeginWave, local
  <1>5. CASE SkipUnit \/ SkipStale
    BY <1>5, <1>n DEF SkipUnit, SkipStale
  <1>6. CASE ReadInput
    BY <1>6, <1>n, UnitReads
  <1>7. CASE AppendRow
    BY <1>0, <1>7, <1>w, UnitAppends
  <1>8. CASE Chain
    BY <1>8, <1>w, <1>n, ChainShape
  <1>9. CASE CommitHeld
    BY <1>9 DEF CommitHeld, UnitRead
  <1> QED
    BY <1>1, <1>2, <1>3, <1>4, <1>5, <1>6, <1>7, <1>8, <1>9 DEF Next, Step

-----------------------------------------------------------------------------
(* The updates: ObservedHandled, HeldUntilRecomputed.                      *)

(* An observed update and a dependent planned for it.                      *)
Wanted(d, o) ==
    /\ o \in 1..position /\ ~IsPoison(o) /\ topic[o].version = Version[topic[o].feature]
    /\ d \in plan_recompute_wave(topic[o])

(* The steps by which a dependent leaves the store without being           *)
(* recomputed.                                                             *)
Skips == SkipUnit \/ (ReadInput /\ NextUnit) \/ SkipStale

(* Nothing observed is forgotten when a dependent leaves the store only    *)
(* once it has been recomputed.                                            *)
LEMMA HandledKept ==
    ASSUME TypeOK, Invariant, TopicKept, HistoryKept, ClockKept, position' = position, Quiet' => Quiet,
           \A d \in ToSet(debounce) \ ToSet(debounce') : \A o : Wanted(d, o) => RecomputedFor(d, o)
    PROVE  ObservedHandled'
  <1> SUFFICES ASSUME Quiet', NEW o \in 1..position', topic'[o].feature # Poison,
                      topic'[o].version = Version[topic'[o].feature],
                      NEW d \in plan_recompute_wave(topic'[o]), d \notin ToSet(debounce')
               PROVE  RecomputedFor(d, o)'
    BY DEF ObservedHandled, IsPoison
  <1>1. o \in 1..position /\ o \in 1..Len(topic) /\ topic'[o] = topic[o]
    BY Types DEF TopicKept
  <1>2. Wanted(d, o)
    BY <1>1 DEF Wanted, IsPoison
  <1>3. RecomputedFor(d, o)
    BY <1>1, <1>2 DEF Invariant, ObservedHandled, Wanted
  <1>4. topic[o].feature \in Features /\ EventsDurable
    BY <1>1, <1>2 DEF Invariant, EventsDurable, Wanted
  <1>5. d \in Dependents
    BY PlansOnly
  <1> QED
    BY <1>1, <1>3, <1>4, <1>5, RecomputedKept

(* The unit that cannot read an input is not wanted by any update.         *)
LEMMA NothingEligible ==
    ASSUME TypeOK, Invariant, pc = "wave", NEW d \in Dependents, NEW j \in DOMAIN Deps[d],
           Eligible(Deps[d][j].feature) = {}
    PROVE  /\ history[d] = <<>> /\ \A o \in 1..position : RecomputedFor(d, o)
           /\ Deps[d][j].reactive /\ (\E r \in Current(Deps[d][j].feature) : Present(r)) =>
                  \E p \in position + 1..Len(topic) : Announces(p, Deps[d][j].feature)
  <1>1. PICK f \in Features : f = Deps[d][j].feature
    BY Edges
  <1>2. \A r \in Current(f) : ~Visible(r, wave_ts)
    <2> SUFFICES ASSUME NEW r \in Current(f), Visible(r, wave_ts) PROVE FALSE
      OBVIOUS
    <2>1. r \in ToSet(history[f]) /\ r.version = Version[f]
      BY DEF Current
    <2>2. PICK i \in DOMAIN history[f] : r = history[f][i]
      BY <2>1 DEF ToSet
    <2>3. i \in Eligible(f)
      BY <2>1, <2>2 DEF Eligible
    <2> QED
      BY <1>1, <2>3
  <1>3. history[d] = <<>>
    <2> SUFFICES ASSUME history[d] # <<>> PROVE FALSE
      OBVIOUS
    <2>1. PICK h \in ToSet(history[d]) : TRUE
      BY NoRows, Edges
    <2>2. PICK k \in Current(f) : Visible(k, h.calc_ts) /\ h.calc_ts <= wave_ts
      BY <1>1 DEF Invariant, RowsComputed
    <2>3. IsRow(k) /\ IsRow(h) /\ wave_ts \in Nat
      BY Types, Edges
    <2>4. h.calc_ts \in Nat
      BY <2>3 DEF IsRow
    <2>5. Visible(k, wave_ts)
      BY <2>2, <2>3, <2>4, VisibleLater
    <2> QED
      BY <1>2, <2>5
  <1>4. ASSUME NEW o \in 1..position PROVE RecomputedFor(d, o)
    <2> SUFFICES ASSUME NEW p \in 1..o, Announces(p, f), OnTime(p) PROVE FALSE
      BY <1>1 DEF RecomputedFor
    <2>1. p \in 1..Len(topic) /\ p <= position
      BY Types
    <2>2. PICK k \in Current(f) : RowOf(p, k) /\ k.calc_ts <= wave_ts
      BY <2>1, AnnouncedRow DEF Invariant
    <2>3. k \in ToSet(history[f]) /\ IsRow(k) /\ wave_ts \in Nat
      BY Types
    <2>4. Present(k)
      BY <2>2, <2>3 DEF OnTime, Announces
    <2>5. Visible(k, wave_ts)
      BY <2>2, <2>3, <2>4, PresentVisible
    <2> QED
      BY <1>2, <2>5
  <1>5. ASSUME Deps[d][j].reactive, NEW r \in Current(f), Present(r)
        PROVE  \E p \in position + 1..Len(topic) : Announces(p, f)
    <2>1. IsRow(r) /\ wave_ts \in Nat /\ f \in Triggers
      BY <1>1, <1>5, Types, Edges
    <2>2. ~(r.calc_ts <= wave_ts)
      BY <1>2, <1>5, <2>1, PresentVisible
    <2>3. r.calc_ts > wave_ts
      BY <2>1, <2>2 DEF IsRow
    <2> QED
      BY <2>1, <2>3 DEF Invariant, UnseenAnnounced
  <1> QED
    BY <1>1, <1>3, <1>4, <1>5

(* The unit with an input that is too old is not wanted by any update, and *)
(* an input that is not too old is announced after it.                     *)
LEMMA TooOld ==
    ASSUME TypeOK, Invariant, SkipStale, NEW d \in Dependents, d = Head(debounce)
    PROVE  /\ ~Unlimited(d) /\ \A o \in 1..position : RecomputedFor(d, o)
           /\ Ready(d) => \E j \in DOMAIN Deps[d] :
                  /\ Deps[d][j].reactive
                  /\ \E p \in position + 1..Len(topic) : Announces(p, Deps[d][j].feature)
  <1>1. debounce # <<>> /\ ComputedUnit /\ ~AllFresh
    BY DEF SkipStale
  <1>2. DOMAIN Deps[d] = 1..Len(unit) /\ \A i \in 1..Len(unit) : InputRead(d, i) /\ unit[i].data_ts \in Nat
    BY <1>1, UnitComputed
  <1>3. DOMAIN unit = 1..Len(unit)
    BY SeqOver DEF TypeOK
  <1>4. PICK j \in DOMAIN Deps[d] : ~Fresh(Deps[d][j], unit[j].data_ts)
    BY <1>1, <1>2, <1>3 DEF AllFresh
  <1>5. PICK x, f, u : /\ x = Deps[d][j] /\ f = x.feature /\ f \in Features /\ u = unit[j]
                       /\ x.max_age = NoLimit \/ x.max_age \in Nat
    BY Edges
  <1>6. InputRead(d, j) /\ u.data_ts \in Nat /\ wave_ts \in Nat /\ ~Fresh(x, u.data_ts)
    BY <1>2, <1>4, <1>5, Types
  <1>7. ~Unlimited(d)
    BY <1>5, <1>6 DEF Unlimited, Fresh
  <1>8. ASSUME NEW r \in Current(f), NotLater(r, u) PROVE ~Fresh(x, r.data_ts)
    <2>1. r.data_ts \in Nat /\ r.data_ts <= u.data_ts
      <3>1. r.data_ts \in Nat
        BY <1>5, Types DEF IsRow
      <3> QED
        BY <1>6, <1>8, <3>1 DEF NotLater
    <2> QED
      BY <1>5, <1>6, <2>1, FreshLater
  <1>9. ASSUME NEW o \in 1..position PROVE RecomputedFor(d, o)
    <2> SUFFICES ASSUME NEW p \in 1..o, Announces(p, f), OnTime(p), Fresh(x, topic[p].row.data_ts)
                 PROVE  FALSE
      BY <1>5 DEF RecomputedFor
    <2>1. p \in 1..position
      BY Types
    <2>2. PICK k \in Current(f) : RowOf(p, k) /\ NotLater(k, u)
      BY <1>5, <1>6, <2>1 DEF InputRead
    <2> QED
      BY <1>8, <2>2 DEF RowOf
  <1>10. ASSUME Ready(d)
         PROVE  x.reactive /\ \E p \in position + 1..Len(topic) : Announces(p, f)
    <2>1. x.max_age # NoLimit
      BY <1>6 DEF Fresh
    <2>2. x.reactive /\ \E r \in Current(f) : Present(r) /\ Fresh(x, r.data_ts)
      BY <1>5, <1>10, <2>1 DEF Ready
    <2>3. PICK r \in Current(f) : Present(r) /\ Fresh(x, r.data_ts)
      BY <2>2
    <2>4. ~NotLater(r, u)
      BY <1>8, <2>3
    <2> QED
      BY <1>5, <1>6, <2>2, <2>3, <2>4 DEF InputRead
  <1> QED
    BY <1>5, <1>7, <1>9, <1>10

(* The dependent that leaves the store without being recomputed.           *)
LEMMA UnitSkipped ==
    ASSUME TypeOK, Invariant, Skips
    PROVE  \E d \in Dependents :
               /\ ToSet(debounce') = ToSet(debounce) \ {d} /\ (Unlimited(d) => history[d] = <<>>)
               /\ \A o \in 1..position : RecomputedFor(d, o)
               /\ Computable(d) /\ Ready(d) => \E j \in DOMAIN Deps[d] :
                      /\ Deps[d][j].reactive
                      /\ \E p \in position + 1..Len(topic) : Announces(p, Deps[d][j].feature)
  <1>1. debounce # <<>> /\ pc = "wave" /\ debounce' = Tail(debounce)
    BY DEF Skips, SkipUnit, ReadInput, SkipStale, NextUnit
  <1>2. PICK d \in Dependents : d = Head(debounce)
    BY <1>1, InHand
  <1>3. ToSet(debounce') = ToSet(debounce) \ {d}
    BY <1>1, <1>2, InHand
  <1>4. CASE SkipUnit
    <2>1. ~Computable(d)
      BY <1>2, <1>4 DEF SkipUnit, Computable
    <2>2. ToSet(history[d]) = {}
      BY <2>1 DEF Invariant, RowsComputed
    <2>3. history[d] = <<>>
      BY <2>2, NoRows, Edges
    <2>4. \A o \in 1..position : RecomputedFor(d, o)
      BY <2>1 DEF RecomputedFor
    <2> QED
      BY <1>3, <2>1, <2>3, <2>4
  <1>5. CASE ReadInput /\ NextUnit
    <2>1. Len(unit) < Len(Deps[d]) /\ Len(unit) \in Nat
      BY <1>2, <1>5 DEF ReadInput, TypeOK, IsSeq
    <2>2. PICK j \in DOMAIN Deps[d] : j = Len(unit) + 1
      BY <2>1, Edges
    <2>3. Eligible(Deps[d][j].feature) = {}
      <3> SUFFICES ASSUME Eligible(Deps[d][j].feature) # {} PROVE FALSE
        OBVIOUS
      <3>1. debounce' = debounce
        BY <1>2, <1>5, <2>2 DEF ReadInput
      <3> QED
        BY <1>1, <1>3, <1>2, <3>1, InHand
    <2>4. /\ history[d] = <<>> /\ \A o \in 1..position : RecomputedFor(d, o)
          /\ Deps[d][j].reactive /\ (\E r \in Current(Deps[d][j].feature) : Present(r)) =>
                 \E p \in position + 1..Len(topic) : Announces(p, Deps[d][j].feature)
      BY <1>1, <2>3, NothingEligible
    <2>5. Ready(d) => Deps[d][j].reactive /\ \E r \in Current(Deps[d][j].feature) : Present(r)
      BY <2>4 DEF Ready
    <2> QED
      BY <1>3, <2>4, <2>5
  <1>6. CASE SkipStale
    BY <1>2, <1>3, <1>6, TooOld
  <1> QED
    BY <1>4, <1>5, <1>6 DEF Skips

(* The dependent that leaves the store recomputed.                         *)
LEMMA UnitRecomputed ==
    ASSUME TypeOK, Invariant, Chain, ~WaveFails
    PROVE  \E d \in Dependents :
               /\ d = Head(debounce) /\ ToSet(debounce') = ToSet(debounce) \ {d}
               /\ \A o : Wanted(d, o) => RecomputedFor(d, o)
  <1>1. pc = "emit" /\ NextUnit
    BY ChainShape
  <1>2. debounce # <<>>
    BY <1>1 DEF Invariant, RoundInProgress
  <1>3. PICK d \in Dependents : d = Head(debounce)
    BY <1>2, InHand
  <1>4. ToSet(debounce') = ToSet(debounce) \ {d}
    BY <1>1, <1>2, <1>3, InHand DEF NextUnit
  <1>5. PICK x : x = Computed(d, unit)
    OBVIOUS
  <1>6. ComputedUnit /\ \E h \in ToSet(history[d]) : Agree(h, x)
    BY <1>1, <1>2, <1>3, <1>5 DEF Invariant, UnitRead, ComputedUnit
  <1>7. /\ DOMAIN Deps[d] = 1..Len(unit)
        /\ \A i \in 1..Len(unit) : /\ InputRead(d, i)
                                   /\ x.from[i] = unit[i].data_ts /\ x.value[i] = unit[i].value
    BY <1>2, <1>3, <1>5, <1>6, UnitComputed
  <1>8. PICK h \in ToSet(history[d]) : h.value = x.value /\ h.from = x.from
    BY <1>6 DEF Agree
  <1>9. ASSUME NEW o, Wanted(d, o) PROVE RecomputedFor(d, o)
    <2> SUFFICES ASSUME OnTime(o) PROVE RecomputedFor(d, o)
      BY DEF RecomputedFor
    <2>1. o \in 1..position /\ topic[o].version = Version[topic[o].feature]
      BY <1>9 DEF Wanted
    <2>2. PICK j \in DOMAIN Deps[d] : Deps[d][j].feature = topic[o].feature
      BY <1>9, PlansOnly DEF Wanted
    <2>3. PICK f : f = topic[o].feature
      OBVIOUS
    <2>4. Announces(o, f) /\ InputRead(d, j)
      BY <1>7, <2>1, <2>2, <2>3 DEF Announces
    <2>5. PICK k \in Current(f) : RowOf(o, k) /\ NotLater(k, unit[j])
      BY <2>1, <2>2, <2>3, <2>4 DEF InputRead
    <2>6. unit[j] \in Current(f) /\ h.from[j] = unit[j].data_ts /\ h.value[j] = unit[j].value
      BY <1>7, <1>8, <2>2, <2>3, <2>4 DEF InputRead
    <2>7. CoveredBy(d, topic[o].feature, topic[o].row)
      BY <2>2, <2>3, <2>5, <2>6 DEF CoveredBy, Current, RowOf
    <2> QED
      BY <2>7 DEF RecomputedFor
  <1> QED
    BY <1>3, <1>4, <1>9

(* Every step keeps what was observed recomputed or pending.               *)
LEMMA ObservedStep ==
    ASSUME TypeOK, Invariant, [Next]_vars
    PROVE  ObservedHandled'
  <1>0. TopicKept /\ HistoryKept /\ ClockKept /\ EventsDurable
    BY StepKept DEF Invariant
  <1>v. ASSUME faults' = faults + 1 PROVE ObservedHandled'
    BY <1>v, Types DEF ObservedHandled, Quiet
  <1>k. ASSUME position' = position, UNCHANGED <<faults, crashes, dlq>>, debounce' = debounce
        PROVE  ObservedHandled'
    BY <1>0, <1>k, HandledKept DEF Quiet
  <1>1. ASSUME NEW w \in Rows,
               NEW c \in CalcTimes, Announce(w, c)
        PROVE  ObservedHandled'
    BY <1>1, <1>k DEF Announce, local
  <1>2. CASE PublishPoison \/ CommitHeld \/ BeginWave \/ UNCHANGED vars
    BY <1>2, <1>k DEF PublishPoison, CommitHeld, BeginWave, vars, broker, local, bounds
  <1>3. CASE Crash
    <2>1. /\ position' = committed /\ topic' = topic /\ history' = history /\ crashes' = crashes + 1
          /\ faults' = faults /\ dlq' = dlq
      BY <1>3 DEF Crash
    <2> SUFFICES ASSUME Quiet', NEW o \in 1..committed, ~IsPoison(o),
                        topic[o].version = Version[topic[o].feature],
                        NEW d \in plan_recompute_wave(topic[o])
                 PROVE  RecomputedFor(d, o)'
      BY <2>1 DEF ObservedHandled, IsPoison
    <2>2. faults = 0 /\ dlq = {}
      BY <2>1, Types DEF Quiet
    <2>3. Recomputed(o)
      BY <2>2 DEF Invariant, HeldUntilRecomputed
    <2>4. RecomputedFor(d, o)
      BY <2>3 DEF Recomputed
    <2>5. o \in 1..Len(topic)
      BY Types
    <2>6. topic[o].feature \in Features /\ d \in Dependents
      BY <2>5, PlansOnly DEF Invariant, EventsDurable
    <2> QED
      BY <1>0, <2>4, <2>5, <2>6, RecomputedKept
  <1>4. CASE Observe
    <2>1. /\ position' = position + 1 /\ topic' = topic /\ UNCHANGED <<faults, crashes, dlq>>
          /\ debounce' = observe(debounce, plan_recompute_wave(topic[position + 1]))
      BY <1>4 DEF Observe, bounds
    <2>2. ToSet(debounce') = ToSet(debounce) \cup plan_recompute_wave(topic[position + 1])
      BY <2>1, ObserveAdds, PlansOnly DEF TypeOK
    <2> SUFFICES ASSUME Quiet, NEW o \in 1..position + 1, ~IsPoison(o),
                        topic[o].version = Version[topic[o].feature],
                        NEW d \in plan_recompute_wave(topic[o]), d \notin ToSet(debounce')
                 PROVE  RecomputedFor(d, o)'
      BY <2>1 DEF ObservedHandled, IsPoison, Quiet
    <2>3. o # position + 1
      BY <2>2
    <2>4. o \in 1..position /\ o \in 1..Len(topic)
      BY <2>3, Types
    <2>5. RecomputedFor(d, o)
      BY <2>2, <2>4 DEF Invariant, ObservedHandled
    <2>6. topic[o].feature \in Features /\ d \in Dependents
      BY <2>4, PlansOnly DEF Invariant, EventsDurable
    <2> QED
      BY <1>0, <2>4, <2>5, <2>6, RecomputedKept
  <1>5. CASE DeadLetter
    <2>1. /\ position' = position + 1 /\ topic' = topic /\ history' = history /\ debounce' = debounce
          /\ crashes' = crashes /\ topic[position + 1].feature = Poison
          /\ (dlq' = dlq \cup {position + 1} /\ faults' = faults) \/ faults' = faults + 1
      BY <1>5 DEF DeadLetter, local, IsPoison
    <2>2. CASE dlq' = dlq \cup {position + 1} /\ faults' = faults
      <3> SUFFICES ASSUME Quiet', NEW o \in 1..position + 1, topic[o].feature # Poison,
                          topic[o].version = Version[topic[o].feature],
                          NEW d \in plan_recompute_wave(topic[o]), d \notin ToSet(debounce)
                   PROVE  RecomputedFor(d, o)'
        BY <2>1 DEF ObservedHandled, IsPoison
      <3>1. Quiet
        BY <2>1, <2>2 DEF Quiet
      <3>2. o \in 1..position /\ o \in 1..Len(topic)
        <4>1. o # position + 1
          BY <2>1
        <4> QED
          BY <4>1, Types
      <3>3. RecomputedFor(d, o)
        BY <3>1, <3>2 DEF Invariant, ObservedHandled, IsPoison
      <3>4. topic[o].feature \in Features /\ d \in Dependents
        BY <3>2, PlansOnly DEF Invariant, EventsDurable, IsPoison
      <3> QED
        BY <1>0, <3>2, <3>3, <3>4, RecomputedKept
    <2> QED
      BY <1>v, <2>1, <2>2
  <1>6. CASE Skips
    <2>1. position' = position /\ UNCHANGED <<faults, crashes, dlq>>
      BY <1>6 DEF Skips, SkipUnit, ReadInput, SkipStale, broker, bounds
    <2>2. PICK d \in Dependents :
              /\ ToSet(debounce') = ToSet(debounce) \ {d} /\ \A o \in 1..position : RecomputedFor(d, o)
      BY <1>6, UnitSkipped
    <2> QED
      BY <1>0, <2>1, <2>2, HandledKept DEF Quiet, Wanted
  <1>7. CASE ReadInput /\ ~NextUnit
    BY <1>7, <1>k DEF ReadInput, broker, bounds
  <1>8. CASE AppendRow
    <2>1. CASE WaveFails
      BY <1>v, <2>1 DEF WaveFails
    <2>2. CASE ~WaveFails
      BY <1>8, <1>k, <2>2, AppendShape
    <2> QED
      BY <2>1, <2>2
  <1>9. CASE Chain
    <2>1. CASE WaveFails
      BY <1>v, <2>1 DEF WaveFails
    <2>2. CASE ~WaveFails
      <3>1. position' = position /\ UNCHANGED <<faults, crashes, dlq>>
        BY <1>9, <2>2, ChainShape
      <3>2. PICK d \in Dependents : /\ ToSet(debounce') = ToSet(debounce) \ {d}
                                    /\ \A o : Wanted(d, o) => RecomputedFor(d, o)
        BY <1>9, <2>2, UnitRecomputed
      <3> QED
        BY <1>0, <3>1, <3>2, HandledKept DEF Quiet
    <2> QED
      BY <2>1, <2>2
  <1> QED
    BY <1>1, <1>2, <1>3, <1>4, <1>5, <1>6, <1>7, <1>8, <1>9 DEF Next, Step, Skips

(* Every step commits only what has been recomputed.                       *)
LEMMA CommittedStep ==
    ASSUME TypeOK, Invariant, [Next]_vars
    PROVE  HeldUntilRecomputed'
  <1>0. TopicKept /\ HistoryKept /\ ClockKept /\ EventsDurable /\ HeldUntilRecomputed
    BY StepKept DEF Invariant
  <1>v. ASSUME faults' = faults + 1 PROVE HeldUntilRecomputed'
    BY <1>v, Types DEF HeldUntilRecomputed
  <1>k. ASSUME NEW o \in 1..position, Recomputed(o), dlq = {}
        PROVE  Recomputed(o)'
    <2>1. o \in 1..Len(topic) /\ topic'[o] = topic[o] /\ ~IsPoison(o)
      BY <1>0, <1>k, Types DEF TopicKept, Recomputed
    <2>2. topic[o].feature \in Features
      BY <2>1 DEF Invariant, EventsDurable
    <2> SUFFICES ASSUME topic[o].version = Version[topic[o].feature],
                        NEW d \in plan_recompute_wave(topic[o])
                 PROVE  RecomputedFor(d, o)'
      BY <2>1 DEF Recomputed, IsPoison
    <2>3. RecomputedFor(d, o) /\ d \in Dependents
      BY <1>k, <2>1, PlansOnly DEF Recomputed
    <2> QED
      BY <1>0, <2>1, <2>2, <2>3, RecomputedKept
  <1>s. ASSUME committed' = committed, faults' = faults, dlq' = dlq PROVE HeldUntilRecomputed'
    <2> SUFFICES ASSUME faults = 0, dlq = {}, NEW o \in 1..committed PROVE Recomputed(o)'
      BY <1>s DEF HeldUntilRecomputed
    <2>1. Recomputed(o) /\ o \in 1..position
      BY <1>0, Types DEF HeldUntilRecomputed
    <2> QED
      BY <1>k, <2>1
  <1>1. ASSUME NEW w \in Rows,
               NEW c \in CalcTimes, Announce(w, c)
        PROVE  HeldUntilRecomputed'
    BY <1>1, <1>s DEF Announce
  <1>2. CASE PublishPoison \/ Crash \/ Observe \/ SkipUnit \/ ReadInput \/ SkipStale \/ BeginWave
             \/ UNCHANGED vars
    BY <1>2, <1>s DEF PublishPoison, Crash, Observe, SkipUnit, ReadInput, SkipStale, BeginWave,
                      vars, broker, bounds
  <1>3. CASE DeadLetter
    <2>1. (dlq' = dlq \cup {position + 1}) \/ faults' = faults + 1
      BY <1>3 DEF DeadLetter
    <2>2. CASE dlq' = dlq \cup {position + 1}
      <3>1. dlq' # {}
        BY <2>2
      <3> QED
        BY <3>1 DEF HeldUntilRecomputed
    <2> QED
      BY <1>v, <2>1, <2>2
  <1>4. CASE AppendRow
    BY <1>4, <1>s, <1>v, AppendShape DEF WaveFails
  <1>5. CASE Chain
    BY <1>5, <1>s, <1>v, ChainShape DEF WaveFails
  <1>6. CASE CommitHeld
    <2>1. /\ pc = "wave" /\ debounce = <<>> /\ committed' = Head(pending)
          /\ UNCHANGED <<topic, history, dlq, faults>>
      BY <1>6 DEF CommitHeld, bounds
    <2> SUFFICES ASSUME faults = 0, dlq = {}, NEW o \in 1..committed' PROVE Recomputed(o)'
      BY <2>1 DEF HeldUntilRecomputed
    <2>2. pending # <<>> /\ pending \in Seq(1..position)
      BY <2>1 DEF Invariant, RoundInProgress, TypeOK
    <2>3. 1 \in DOMAIN pending /\ Head(pending) = pending[1] /\ pending[1] \in 1..position
      <3> DEFINE T == 1..position
      <3>1. pending \in Seq(T)
        BY <2>2
      <3> HIDE DEF T
      <3>2. 1 \in DOMAIN pending /\ Head(pending) = pending[1] /\ pending[1] \in T
        BY <2>2, <3>1
      <3> QED
        BY <3>2 DEF T
    <2>4. committed' = committed + 1 /\ committed + 1 <= position
      BY <2>1, <2>3, Types DEF Invariant, HeldOffsets
    <2>5. o \in 1..position
      BY <2>4, Types
    <2>6. CASE o \in 1..committed
      BY <1>0, <1>k, <2>5, <2>6 DEF HeldUntilRecomputed
    <2>7. CASE o = committed + 1
      <3>1. ToSet(debounce) = {}
        BY <2>1, NoElements
      <3>2. Quiet /\ ~IsPoison(o)
        BY <2>5 DEF Quiet, Invariant, HeldOffsets
      <3>3. Recomputed(o)
        BY <2>5, <3>1, <3>2 DEF Recomputed, Invariant, ObservedHandled
      <3> QED
        BY <1>k, <2>5, <3>3
    <2> QED
      BY <2>4, <2>6, <2>7, Types
  <1> QED
    BY <1>1, <1>2, <1>3, <1>4, <1>5, <1>6 DEF Next, Step

-----------------------------------------------------------------------------
(* The dependents: StaleIsDue.                                             *)

(* A dependent that is ready was so before when no row has been written.   *)
LEMMA ReadyBefore ==
    ASSUME TypeOK, ClockKept, NEW d \in Dependents, history'[d] = history[d],
           \A j \in DOMAIN Deps[d] : Deps[d][j].reactive =>
               Current(Deps[d][j].feature)' = Current(Deps[d][j].feature),
           Ready(d)'
    PROVE  Ready(d)
  <1> SUFFICES ASSUME NEW j \in DOMAIN Deps[d]
               PROVE  IF Deps[d][j].reactive
                      THEN \E r \in Current(Deps[d][j].feature) : Present(r) /\ Fresh(Deps[d][j], r.data_ts)
                      ELSE history[d] # <<>> /\ Deps[d][j].max_age = NoLimit
    BY DEF Ready
  <1>1. CASE Deps[d][j].reactive
    <2>1. PICK x, f : /\ x = Deps[d][j] /\ f = x.feature /\ f \in Features
                      /\ x.max_age = NoLimit \/ x.max_age \in Nat
      BY Edges
    <2>2. PICK r \in Current(f) : Present(r) /\ Fresh(x, r.data_ts)'
      <3>1. \E r \in Current(f)' : Present(r) /\ Fresh(x, r.data_ts)'
        BY <1>1, <2>1 DEF Ready
      <3> QED
        BY <1>1, <2>1, <3>1
    <2>3. r.data_ts \in Nat
      BY <2>1, Types DEF IsRow
    <2>4. Fresh(x, r.data_ts)
      BY <2>1, <2>2, <2>3, FreshBefore, Types
    <2> QED
      BY <1>1, <2>1, <2>2, <2>4
  <1>2. CASE ~Deps[d][j].reactive
    BY <1>2 DEF Ready
  <1> QED
    BY <1>1, <1>2

(* A dependent whose inputs will be announced again was so before.         *)
LEMMA AgainBefore ==
    ASSUME crashes \in Nat, crashes' \in {crashes, crashes + 1}, NEW d \in Dependents, AnnouncedAgain(d)'
    PROVE  AnnouncedAgain(d)
  <1>1. crashes' = 0 => crashes = 0
    OBVIOUS
  <1> QED
    BY <1>1 DEF AnnouncedAgain

(* Nothing becomes stale when no row is written, what is due stays due,    *)
(* and a row in hand stays in hand unless the worker dies.                 *)
LEMMA StaleKept ==
    ASSUME TypeOK, Invariant, ClockKept, history' = history, Quiet' => Quiet,
           crashes' \in {crashes, crashes + 1},
           pc = "emit" => crashes' = crashes + 1 \/ UNCHANGED <<pc, debounce>>,
           \A d \in Dependents : Due(d) => Due(d)'
    PROVE  StaleIsDue'
  <1> SUFFICES ASSUME Quiet', NEW d \in Dependents, Computable(d), Ready(d)', AnnouncedAgain(d)'
               PROVE  UpToDate(d)' \/ Due(d)' \/ InputDue(d)'
    BY DEF StaleIsDue, Computable
  <1>1. Ready(d)
    BY ReadyBefore DEF Current
  <1>2. AnnouncedAgain(d)
    BY AgainBefore, Types
  <1>3. UpToDate(d) \/ Due(d) \/ InputDue(d)
    BY <1>1, <1>2 DEF Invariant, StaleIsDue
  <1>4. UpToDate(d) => UpToDate(d)'
    BY DEF UpToDate, LatestOf, Current
  <1>5. ASSUME InputDue(d) PROVE InputDue(d)'
    <2>1. PICK j \in DOMAIN Deps[d], g \in Dependents :
              /\ g = Deps[d][j].feature /\ Deps[d][j].reactive
              /\ history[g] # <<>> /\ Due(g) /\ (Unlimited(g) \/ (pc = "emit" /\ g = Head(debounce)))
      BY <1>5 DEF InputDue
    <2>2. crashes' = crashes + 1 => Unlimited(g)
      <3>1. ASSUME crashes' = crashes + 1 PROVE crashes' # 0
        BY <3>1, Types
      <3> QED
        BY <2>1, <3>1 DEF AnnouncedAgain, Unlimited
    <2>3. Unlimited(g) \/ (pc' = "emit" /\ g = Head(debounce'))
      BY <2>1, <2>2
    <2> QED
      BY <2>1, <2>3 DEF InputDue, Unlimited
  <1> QED
    BY <1>3, <1>4, <1>5

(* What is due stays due while the topic only grows and nothing is taken   *)
(* out of the store.                                                       *)
LEMMA DueKept ==
    ASSUME TypeOK, TopicKept, position' = position, NEW d \in Dependents, Due(d),
           d \in ToSet(debounce) => d \in ToSet(debounce')
    PROVE  Due(d)'
  <1>1. CASE d \in ToSet(debounce)
    BY <1>1 DEF Due
  <1>2. CASE \E p \in position + 1..Len(topic) : d \in plan_recompute_wave(topic[p])
    <2>1. PICK p \in position + 1..Len(topic) : d \in plan_recompute_wave(topic[p])
      BY <1>2
    <2>2. p \in position' + 1..Len(topic') /\ topic'[p] = topic[p]
      BY Types DEF TopicKept
    <2> QED
      BY <2>1, <2>2 DEF Due
  <1> QED
    BY <1>1, <1>2 DEF Due

(* An announcement to come makes its reactive dependents due.              *)
LEMMA AnnouncedDue ==
    ASSUME NEW d \in Dependents, NEW j \in DOMAIN Deps[d], Deps[d][j].reactive,
           NEW p \in position + 1..Len(topic), Announces(p, Deps[d][j].feature)
    PROVE  Due(d)
  <1>1. topic[p].feature = Deps[d][j].feature /\ topic[p].version = Version[topic[p].feature]
    BY DEF Announces
  <1>2. d \in plan_recompute_wave(topic[p])
    BY <1>1, Planned
  <1> QED
    BY <1>2 DEF Due

(* A new row of a feature that d does not react to leaves d as it was.     *)
LEMMA OtherRow ==
    ASSUME TypeOK, NEW f \in Features, NEW d \in Dependents, d # f, wave_ts' = wave_ts,
           \A g \in Features \ {f} : history'[g] = history[g],
           \A j \in DOMAIN Deps[d] : Deps[d][j].reactive => Deps[d][j].feature # f, Ready(d)'
    PROVE  Ready(d) /\ (UpToDate(d) => UpToDate(d)')
  <1>1. d \in Features /\ history'[d] = history[d]
    BY Edges
  <1>2. \A j \in DOMAIN Deps[d] : Deps[d][j].feature \in Features
    BY Edges
  <1>3. \A g \in Features \ {f} : Current(g)' = Current(g) /\ LatestOf(g)' = LatestOf(g)
    BY DEF Current, LatestOf
  <1>4. Ready(d)
    <2>1. ClockKept
      BY Types DEF ClockKept
    <2>2. \A j \in DOMAIN Deps[d] : Deps[d][j].reactive =>
              Current(Deps[d][j].feature)' = Current(Deps[d][j].feature)
      BY <1>2, <1>3
    <2> QED
      BY <1>1, <2>1, <2>2, ReadyBefore
  <1>5. ASSUME UpToDate(d) PROVE UpToDate(d)'
    <2>1. PICK r \in ToSet(history[d]) :
              /\ \A h \in ToSet(history[d]) : h.data_ts <= r.data_ts
              /\ \A j \in DOMAIN Deps[d] : Deps[d][j].reactive =>
                     \E s \in LatestOf(Deps[d][j].feature) :
                         r.from[j] = s.data_ts /\ r.value[j] = s.value
      BY <1>5 DEF UpToDate
    <2>2. ASSUME NEW j \in DOMAIN Deps[d], Deps[d][j].reactive
          PROVE  \E s \in LatestOf(Deps[d][j].feature)' : r.from[j] = s.data_ts /\ r.value[j] = s.value
      <3>1. Deps[d][j].feature \in Features \ {f}
        BY <1>2, <2>2
      <3>2. LatestOf(Deps[d][j].feature)' = LatestOf(Deps[d][j].feature)
        BY <1>3, <3>1
      <3> QED
        BY <2>1, <2>2, <3>2
    <2> QED
      BY <1>1, <2>1, <2>2 DEF UpToDate
  <1> QED
    BY <1>4, <1>5

(* A row and its announcement by an emitter.                               *)
LEMMA StaleAnnounce ==
    ASSUME TypeOK, Invariant, NEW w \in Rows, NEW c \in CalcTimes, Announce(w, c)
    PROVE  StaleIsDue'
  <1>1. PICK f, r :
            /\ f \in Features /\ f \notin Dependents
            /\ topic' = IF f \in Triggers THEN Append(topic, event(f, r.version, r)) ELSE topic
            /\ history' = history \/ history' = [history EXCEPT ![f] = Append(@, r)]
            /\ Same
    BY AnnounceShape
  <1>2. TopicKept
    BY <1>1, EventAppended, TopicSame
  <1>3. UNCHANGED <<position, pc, debounce, faults, crashes, dlq, wave_ts>> /\ ClockKept
    BY <1>1, Types DEF Same, ClockKept
  <1>4. \A d \in Dependents : Due(d) => Due(d)'
    BY <1>2, <1>3, DueKept
  <1>5. CASE history' = history
    BY <1>3, <1>4, <1>5, StaleKept DEF Quiet
  <1>6. CASE history' = [history EXCEPT ![f] = Append(@, r)]
    <2>1. /\ ToSet(history'[f]) = ToSet(history[f]) \cup {r}
          /\ \A g \in Features \ {f} : history'[g] = history[g]
      BY <1>1, <1>6, RowAppended
    <2> SUFFICES ASSUME Quiet', NEW d \in Dependents, Computable(d), Ready(d)', AnnouncedAgain(d)'
                 PROVE  UpToDate(d)' \/ Due(d)' \/ InputDue(d)'
      BY DEF StaleIsDue, Computable
    <2>2. Quiet /\ d # f /\ AnnouncedAgain(d)
      BY <1>1, <1>3 DEF Quiet, AnnouncedAgain
    <2>3. ASSUME InputDue(d) PROVE InputDue(d)'
      <3>1. PICK j \in DOMAIN Deps[d], g \in Dependents :
                /\ g = Deps[d][j].feature /\ Deps[d][j].reactive
                /\ history[g] # <<>> /\ Due(g) /\ (Unlimited(g) \/ (pc = "emit" /\ g = Head(debounce)))
        BY <2>3 DEF InputDue
      <3>2. history'[g] = history[g]
        BY <1>1, <2>1, <3>1, Edges
      <3>3. Unlimited(g) \/ (pc' = "emit" /\ g = Head(debounce'))
        BY <1>3, <3>1
      <3> QED
        BY <1>4, <3>1, <3>2, <3>3 DEF InputDue, Unlimited
    <2>4. CASE \A j \in DOMAIN Deps[d] : Deps[d][j].reactive => Deps[d][j].feature # f
      <3>1. Ready(d) /\ (UpToDate(d) => UpToDate(d)')
        BY <1>1, <1>3, <2>1, <2>2, <2>4, OtherRow
      <3>2. UpToDate(d) \/ Due(d) \/ InputDue(d)
        BY <2>2, <3>1 DEF Invariant, StaleIsDue
      <3> QED
        BY <1>4, <2>3, <3>1, <3>2
    <2>5. CASE \E j \in DOMAIN Deps[d] : Deps[d][j].reactive /\ Deps[d][j].feature = f
      <3>1. PICK j \in DOMAIN Deps[d] : Deps[d][j].reactive /\ Deps[d][j].feature = f
        BY <2>5
      <3>2. CASE r.version = Version[f]
        <4>1. PICK e : e = event(f, r.version, r)
          OBVIOUS
        <4>2. e.feature = Deps[d][j].feature /\ e.version = Version[e.feature]
          BY <3>1, <3>2, <4>1 DEF event
        <4>3. d \in plan_recompute_wave(e)
          BY <3>1, <4>2, Planned
        <4>4. f \in Triggers
          BY <3>1, Edges
        <4>5. Len(topic') = Len(topic) + 1 /\ topic'[Len(topic) + 1] = e
          BY <1>1, <4>1, <4>4, EventAppended
        <4>6. Len(topic) + 1 \in position' + 1..Len(topic')
          BY <1>3, <4>5, Types
        <4> QED
          BY <4>3, <4>5, <4>6 DEF Due
      <3>3. CASE r.version # Version[f]
        <4>1. \A g \in Features : Current(g)' = Current(g)
          BY <2>1, <3>3 DEF Current
        <4>2. \A g \in Features : LatestOf(g)' = LatestOf(g)
          BY <4>1 DEF LatestOf
        <4>3. history'[d] = history[d]
          BY <2>1, <2>2, Edges
        <4>4. \A i \in DOMAIN Deps[d] : Deps[d][i].feature \in Features
          BY Edges
        <4>5. Ready(d)
          BY <1>3, <4>1, <4>3, <4>4, ReadyBefore
        <4>6. ASSUME UpToDate(d) PROVE UpToDate(d)'
          <5>1. PICK x \in ToSet(history[d]) :
                    /\ \A h \in ToSet(history[d]) : h.data_ts <= x.data_ts
                    /\ \A i \in DOMAIN Deps[d] : Deps[d][i].reactive =>
                           \E s \in LatestOf(Deps[d][i].feature) :
                               x.from[i] = s.data_ts /\ x.value[i] = s.value
            BY <4>6 DEF UpToDate
          <5>2. \A i \in DOMAIN Deps[d] : LatestOf(Deps[d][i].feature)' = LatestOf(Deps[d][i].feature)
            BY <4>2, <4>4
          <5> QED
            BY <4>3, <5>1, <5>2 DEF UpToDate
        <4> QED
          BY <1>4, <2>2, <2>3, <4>5, <4>6 DEF Invariant, StaleIsDue
      <3> QED
        BY <3>2, <3>3
    <2> QED
      BY <2>4, <2>5
  <1> QED
    BY <1>1, <1>5, <1>6

(* A recomputed row: whoever reacts to it has an input that is due.        *)
LEMMA StaleAppend ==
    ASSUME TypeOK, Invariant, AppendRow
    PROVE  StaleIsDue'
  <1>1. PICK f, r : f = Head(debounce) /\ r = Computed(Head(debounce), unit)
    OBVIOUS
  <1>2. /\ debounce # <<>> /\ pc = "wave"
        /\ UNCHANGED <<topic, position, committed, dlq, wave_ts, crashes>>
    BY AppendShape
  <1>3. f \in Dependents /\ f \in Features /\ f \in ToSet(debounce)
    BY <1>1, <1>2, InHand
  <1>4. CASE WaveFails
    <2>1. faults' # 0
      BY <1>4, Types DEF WaveFails
    <2> QED
      BY <2>1 DEF StaleIsDue, Quiet
  <1>5. CASE ~WaveFails
    <2>1. /\ UNCHANGED <<debounce, faults>> /\ pc' = "emit"
          /\ history' = history \/ history' = [history EXCEPT ![f] = Append(@, r)]
      BY <1>1, <1>5, AppendShape
    <2>2. TopicKept /\ ClockKept
      BY <1>2, TopicSame, Types DEF ClockKept
    <2>3. \A d \in Dependents : Due(d) => Due(d)'
      BY <1>2, <2>1, <2>2, DueKept
    <2>4. CASE history' = history
      BY <1>2, <2>1, <2>2, <2>3, <2>4, StaleKept DEF Quiet
    <2>5. CASE history' = [history EXCEPT ![f] = Append(@, r)]
      <3>1. history'[f] # <<>> /\ \A g \in Features \ {f} : history'[g] = history[g]
        BY <1>3, <2>5, RowAppended
      <3> SUFFICES ASSUME Quiet', NEW d \in Dependents, Computable(d), Ready(d)', AnnouncedAgain(d)'
                   PROVE  UpToDate(d)' \/ Due(d)' \/ InputDue(d)'
        BY DEF StaleIsDue, Computable
      <3>2. Quiet /\ AnnouncedAgain(d)
        BY <1>2, <2>1 DEF Quiet, AnnouncedAgain
      <3>3. Due(f)'
        BY <1>3, <2>1 DEF Due
      <3>4. ASSUME InputDue(d) PROVE InputDue(d)'
        <4>1. PICK j \in DOMAIN Deps[d], g \in Dependents :
                  /\ g = Deps[d][j].feature /\ Deps[d][j].reactive
                  /\ history[g] # <<>> /\ Due(g) /\ Unlimited(g)
          BY <1>2, <3>4 DEF InputDue
        <4>2. history'[g] # <<>>
          BY <3>1, <4>1, Edges
        <4> QED
          BY <2>3, <4>1, <4>2 DEF InputDue, Unlimited
      <3>5. CASE d = f
        BY <3>3, <3>5
      <3>6. CASE \E j \in DOMAIN Deps[d] : Deps[d][j].reactive /\ Deps[d][j].feature = f
        <4>1. f = Head(debounce')
          BY <1>1, <2>1
        <4> QED
          BY <1>3, <2>1, <3>1, <3>3, <3>6, <4>1 DEF InputDue
      <3>7. CASE d # f /\ \A j \in DOMAIN Deps[d] : Deps[d][j].reactive => Deps[d][j].feature # f
        <4>1. Ready(d) /\ (UpToDate(d) => UpToDate(d)')
          BY <1>2, <1>3, <3>1, <3>7, OtherRow
        <4>2. UpToDate(d) \/ Due(d) \/ InputDue(d)
          BY <3>2, <4>1 DEF Invariant, StaleIsDue
        <4> QED
          BY <2>3, <3>4, <4>1, <4>2
      <3> QED
        BY <3>5, <3>6, <3>7
    <2> QED
      BY <2>1, <2>4, <2>5
  <1> QED
    BY <1>4, <1>5

(* The dependent in hand has been recomputed from what was read: it is up  *)
(* to date, or an announcement to come makes it due again.                 *)
LEMMA FreshOrDue ==
    ASSUME TypeOK, Invariant, pc = "emit", NEW d \in Dependents, d = Head(debounce)
    PROVE  \/ UpToDate(d)
           \/ \E j \in DOMAIN Deps[d] : /\ Deps[d][j].reactive
                                        /\ \E p \in position + 1..Len(topic) :
                                               Announces(p, Deps[d][j].feature)
  <1> SUFFICES ASSUME \A j \in DOMAIN Deps[d] : Deps[d][j].reactive =>
                          \A p \in position + 1..Len(topic) : ~Announces(p, Deps[d][j].feature)
               PROVE  UpToDate(d)
    OBVIOUS
  <1>1. debounce # <<>>
    BY DEF Invariant, RoundInProgress
  <1>2. PICK x : x = Computed(d, unit)
    OBVIOUS
  <1>3. ComputedUnit /\ \E h \in ToSet(history[d]) : Agree(h, x)
    BY <1>1, <1>2 DEF Invariant, UnitRead, ComputedUnit
  <1>4. /\ DOMAIN Deps[d] = 1..Len(unit)
        /\ \A i \in 1..Len(unit) : /\ InputRead(d, i)
                                   /\ x.from[i] = unit[i].data_ts /\ x.value[i] = unit[i].value
        /\ \E i \in 1..Len(unit) : x.data_ts = unit[i].data_ts
    BY <1>1, <1>2, <1>3, UnitComputed
  <1>5. PICK r \in ToSet(history[d]) : r.data_ts = x.data_ts /\ r.value = x.value /\ r.from = x.from
    BY <1>3 DEF Agree
  <1>6. ASSUME NEW h \in ToSet(history[d]) PROVE h.data_ts <= r.data_ts
    <2>1. PICK i \in DOMAIN Deps[d] : x.data_ts = unit[i].data_ts
      BY <1>4
    <2>2. h.data_ts <= h.from[i] /\ \E k \in Current(Deps[d][i].feature) : k.data_ts = h.from[i]
      BY DEF Invariant, RowsComputed
    <2>3. h.from[i] <= unit[i].data_ts /\ unit[i] \in Current(Deps[d][i].feature)
      BY <1>4 DEF InputRead
    <2>4. Deps[d][i].feature \in Features /\ d \in Features
      BY Edges
    <2>5. h.data_ts \in Nat /\ h.from[i] \in Nat /\ unit[i].data_ts \in Nat
      BY <2>2, <2>3, <2>4, Types DEF IsRow
    <2> QED
      BY <1>5, <2>1, <2>2, <2>3, <2>5
  <1>7. ASSUME NEW j \in DOMAIN Deps[d], Deps[d][j].reactive
        PROVE  \E s \in LatestOf(Deps[d][j].feature) : r.from[j] = s.data_ts /\ r.value[j] = s.value
    <2>1. /\ unit[j] \in Current(Deps[d][j].feature)
          /\ \A s \in Current(Deps[d][j].feature) : Present(s) => NotLater(s, unit[j])
      BY <1>4, <1>7 DEF InputRead
    <2>2. unit[j] \in LatestOf(Deps[d][j].feature)
      BY <2>1 DEF LatestOf
    <2> QED
      BY <1>4, <1>5, <2>2
  <1> QED
    BY <1>6, <1>7 DEF UpToDate

(* The announcement of a recomputed row makes whoever reacts to it due.    *)
LEMMA StaleChain ==
    ASSUME TypeOK, Invariant, Chain
    PROVE  StaleIsDue'
  <1>1. CASE WaveFails
    <2>1. faults' # 0
      BY <1>1, Types DEF WaveFails
    <2> QED
      BY <2>1 DEF StaleIsDue, Quiet
  <1>2. CASE ~WaveFails
    <2>1. PICK f \in Dependents : f = Head(debounce) /\ ToSet(debounce') = ToSet(debounce) \ {f}
      BY <1>2, UnitRecomputed
    <2>2. PICK e : e = event(Head(debounce), Version[Head(debounce)], Computed(Head(debounce), unit))
      OBVIOUS
    <2>3. /\ pc = "emit" /\ UNCHANGED <<position, history, dlq, wave_ts, crashes, faults>>
          /\ topic' = IF f \in Triggers THEN Append(topic, e) ELSE topic
      BY <1>2, <2>1, <2>2, ChainShape
    <2>4. TopicKept
      BY <2>3, TopicSame, EventAppended
    <2>5. \A d \in Dependents \ {f} : Due(d) => Due(d)'
      BY <2>1, <2>3, <2>4, DueKept
    <2> SUFFICES ASSUME Quiet', NEW d \in Dependents, Computable(d), Ready(d)', AnnouncedAgain(d)'
                 PROVE  UpToDate(d)' \/ Due(d)' \/ InputDue(d)'
      BY DEF StaleIsDue, Computable
    <2>6. Quiet /\ Ready(d) /\ AnnouncedAgain(d) /\ (UpToDate(d) => UpToDate(d)')
      <3>1. Quiet /\ AnnouncedAgain(d) /\ (UpToDate(d) => UpToDate(d)')
        BY <2>3 DEF Quiet, AnnouncedAgain, Current, UpToDate, LatestOf
      <3>2. ClockKept
        BY <2>3, Types DEF ClockKept
      <3>3. Ready(d)
        BY <2>3, <3>2, ReadyBefore DEF Current
      <3> QED
        BY <3>1, <3>3
    <2>7. CASE d = f
      <3>1. CASE UpToDate(d)
        BY <2>6, <3>1
      <3>2. CASE \E j \in DOMAIN Deps[d] : /\ Deps[d][j].reactive
                                           /\ \E p \in position + 1..Len(topic) :
                                                  Announces(p, Deps[d][j].feature)
        <4>1. PICK j \in DOMAIN Deps[d], p \in position + 1..Len(topic) :
                  Deps[d][j].reactive /\ Announces(p, Deps[d][j].feature)
          BY <3>2
        <4>2. p \in position' + 1..Len(topic') /\ topic'[p] = topic[p]
          BY <2>3, <2>4, Types DEF TopicKept
        <4>3. topic[p].feature = Deps[d][j].feature /\ topic[p].version = Version[topic[p].feature]
          BY <4>1 DEF Announces
        <4>4. d \in plan_recompute_wave(topic[p])
          BY <4>1, <4>3, Planned
        <4> QED
          BY <4>2, <4>4 DEF Due
      <3> QED
        BY <2>1, <2>3, <2>7, <3>1, <3>2, FreshOrDue
    <2>8. CASE d # f
      <3>1. CASE UpToDate(d) \/ Due(d)
        BY <2>5, <2>6, <2>8, <3>1
      <3>2. CASE InputDue(d)
        <4>1. PICK j \in DOMAIN Deps[d], g \in Dependents :
                  /\ g = Deps[d][j].feature /\ Deps[d][j].reactive
                  /\ history[g] # <<>> /\ Due(g) /\ (Unlimited(g) \/ g = f)
          BY <2>1, <3>2 DEF InputDue
        <4>2. CASE Deps[d][j].feature # f
          BY <2>3, <2>5, <4>1, <4>2 DEF InputDue, Unlimited
        <4>3. CASE Deps[d][j].feature = f
          <5>1. f \in Triggers
            BY <4>1, <4>3, Edges DEF Triggers
          <5>2. Len(topic') = Len(topic) + 1 /\ topic'[Len(topic) + 1] = e
            BY <2>3, <5>1, EventAppended
          <5>3. e.feature = Deps[d][j].feature /\ e.version = Version[e.feature]
            BY <2>1, <2>2, <4>3 DEF event
          <5>4. d \in plan_recompute_wave(e)
            BY <4>1, <5>3, Planned
          <5>5. Len(topic) + 1 \in position' + 1..Len(topic')
            BY <2>3, <5>2, Types
          <5> QED
            BY <5>2, <5>4, <5>5 DEF Due
        <4> QED
          BY <4>2, <4>3
      <3> QED
        BY <2>6, <3>1, <3>2 DEF Invariant, StaleIsDue
    <2> QED
      BY <2>7, <2>8
  <1> QED
    BY <1>1, <1>2

(* A dependent that is skipped is not ready, or an announcement to come    *)
(* makes it due; whoever waits for it has another input that is due.       *)
LEMMA StaleSkip ==
    ASSUME TypeOK, Invariant, Skips
    PROVE  StaleIsDue'
  <1>1. pc = "wave" /\ UNCHANGED <<topic, position, history, dlq, wave_ts, crashes, faults>>
    BY DEF Skips, SkipUnit, ReadInput, SkipStale, broker, bounds
  <1>2. PICK f \in Dependents :
            /\ ToSet(debounce') = ToSet(debounce) \ {f} /\ (Unlimited(f) => history[f] = <<>>)
            /\ Computable(f) /\ Ready(f) => \E j \in DOMAIN Deps[f] :
                   /\ Deps[f][j].reactive
                   /\ \E p \in position + 1..Len(topic) : Announces(p, Deps[f][j].feature)
    BY UnitSkipped
  <1>3. TopicKept /\ ClockKept
    BY <1>1, TopicSame, Types DEF ClockKept
  <1>4. \A d \in Dependents \ {f} : Due(d) => Due(d)'
    BY <1>1, <1>2, <1>3, DueKept
  <1> SUFFICES ASSUME Quiet', NEW d \in Dependents, Computable(d), Ready(d)', AnnouncedAgain(d)'
               PROVE  UpToDate(d)' \/ Due(d)' \/ InputDue(d)'
    BY DEF StaleIsDue, Computable
  <1>5. Quiet /\ AnnouncedAgain(d) /\ (UpToDate(d) => UpToDate(d)')
    BY <1>1 DEF Quiet, AnnouncedAgain, Current, UpToDate, LatestOf
  <1>6. Ready(d)
    BY <1>1, <1>3, ReadyBefore DEF Current
  <1>7. CASE d = f
    <2>1. PICK j \in DOMAIN Deps[d], p \in position + 1..Len(topic) :
              Deps[d][j].reactive /\ Announces(p, Deps[d][j].feature)
      BY <1>2, <1>6, <1>7
    <2>2. topic[p].feature = Deps[d][j].feature /\ topic[p].version = Version[topic[p].feature]
      BY <2>1 DEF Announces
    <2>3. d \in plan_recompute_wave(topic[p])
      BY <2>1, <2>2, Planned
    <2> QED
      BY <1>1, <2>3 DEF Due
  <1>8. CASE d # f
    <2>1. ASSUME InputDue(d) PROVE InputDue(d)'
      <3>1. PICK j \in DOMAIN Deps[d], g \in Dependents :
                /\ g = Deps[d][j].feature /\ Deps[d][j].reactive
                /\ history[g] # <<>> /\ Due(g) /\ Unlimited(g)
        BY <1>1, <2>1 DEF InputDue
      <3>2. g # f
        BY <1>2, <3>1
      <3> QED
        BY <1>1, <1>4, <3>1, <3>2 DEF InputDue, Unlimited
    <2> QED
      BY <1>4, <1>5, <1>6, <1>8, <2>1 DEF Invariant, StaleIsDue
  <1> QED
    BY <1>7, <1>8

(* Every step keeps the stale dependents due.                              *)
LEMMA StaleStep ==
    ASSUME TypeOK, Invariant, [Next]_vars
    PROVE  StaleIsDue'
  <1>0. TopicKept /\ ClockKept
    BY StepKept
  <1>k. ASSUME UNCHANGED <<position, history, faults, crashes, dlq, debounce>>, pc = "emit" => pc' = pc
        PROVE  StaleIsDue'
    <2>1. \A d \in Dependents : Due(d) => Due(d)'
      BY <1>0, <1>k, DueKept
    <2> QED
      BY <1>0, <1>k, <2>1, StaleKept DEF Quiet
  <1>1. CASE PublishPoison \/ CommitHeld \/ BeginWave \/ UNCHANGED vars \/ (ReadInput /\ ~NextUnit)
    BY <1>1, <1>k DEF PublishPoison, CommitHeld, BeginWave, ReadInput, vars, broker, local, bounds
  <1>2. CASE Crash
    <2>1. /\ position' = committed /\ topic' = topic /\ history' = history /\ crashes' = crashes + 1
          /\ faults' = faults /\ dlq' = dlq
      BY <1>2 DEF Crash
    <2>2. CASE ~Quiet'
      BY <2>2 DEF StaleIsDue
    <2>3. CASE Quiet'
      <3>1. faults = 0 /\ dlq = {}
        BY <2>1, <2>3, Types DEF Quiet
      <3>2. \A d \in ToSet(debounce) : \E o \in committed + 1..position : d \in plan_recompute_wave(topic[o])
        BY <3>1 DEF Invariant, HeldOffsets
      <3>3. \A o \in committed + 1..position : o \in position' + 1..Len(topic')
        BY <2>1, Types
      <3>4. \A o \in position + 1..Len(topic) : o \in position' + 1..Len(topic')
        BY <2>1, Types
      <3>5. \A d \in Dependents : Due(d) => Due(d)'
        BY <2>1, <3>2, <3>3, <3>4 DEF Due
      <3> QED
        BY <1>0, <2>1, <3>1, <3>5, StaleKept DEF Quiet
    <2> QED
      BY <2>2, <2>3
  <1>3. CASE Observe
    <2>1. /\ position' = position + 1 /\ topic' = topic /\ UNCHANGED <<history, faults, crashes, dlq>>
          /\ pc = "poll" /\ debounce' = observe(debounce, plan_recompute_wave(topic[position + 1]))
      BY <1>3 DEF Observe, bounds
    <2>2. ToSet(debounce') = ToSet(debounce) \cup plan_recompute_wave(topic[position + 1])
      BY <2>1, ObserveAdds, PlansOnly DEF TypeOK
    <2>3. \A p \in position + 1..Len(topic) : p = position + 1 \/ p \in position' + 1..Len(topic')
      BY <2>1, Types
    <2>4. \A d \in Dependents : Due(d) => Due(d)'
      BY <2>1, <2>2, <2>3 DEF Due
    <2> QED
      BY <1>0, <2>1, <2>4, StaleKept DEF Quiet
  <1>4. CASE DeadLetter
    <2>1. /\ position' = position + 1 /\ topic' = topic /\ history' = history /\ debounce' = debounce
          /\ pc = "poll" /\ crashes' = crashes /\ topic[position + 1].feature = Poison
          /\ (dlq' = dlq \cup {position + 1} /\ faults' = faults) \/ faults' = faults + 1
      BY <1>4 DEF DeadLetter, local, IsPoison
    <2>2. plan_recompute_wave(topic[position + 1]) = {}
      BY <2>1, PlansOnly
    <2>3. \A p \in position + 1..Len(topic) : p = position + 1 \/ p \in position' + 1..Len(topic')
      BY <2>1, Types
    <2>4. \A d \in Dependents : Due(d) => Due(d)'
      BY <2>1, <2>2, <2>3 DEF Due
    <2>5. Quiet' => Quiet
      <3>1. faults' = faults + 1 => faults' # 0
        BY Types
      <3> QED
        BY <2>1, <3>1 DEF Quiet
    <2> QED
      BY <1>0, <2>1, <2>4, <2>5, StaleKept
  <1> QED
    BY <1>1, <1>2, <1>3, <1>4, StaleAnnounce, StaleAppend, StaleChain, StaleSkip DEF Next, Step, Skips

-----------------------------------------------------------------------------
(* The results.                                                            *)

(* The invariant holds initially.                                          *)
LEMMA InvariantInit ==
    ASSUME Init
    PROVE  TypeOK /\ Invariant
  <1>1. /\ IsSeq(topic) /\ Len(topic) = 0 /\ IsSeq(unit) /\ pending \in Seq(1..position) /\ debounce \in Seq(Dependents)
        /\ IsInjective(debounce) /\ ToSet(debounce) = {}
    BY NoElements DEF Init
  <1>2. \A f \in Features : history[f] = <<>> /\ IsSeq(history[f]) /\ ToSet(history[f]) = {}
    BY NoElements DEF Init
  <1>3. TypeOK
    BY <1>1, <1>2, PropagationAssumption DEF Init, TypeOK
  <1>4. EventsDurable /\ RowsComputed /\ UnseenAnnounced /\ RoundInProgress /\ UnitRead
    BY <1>1, <1>2, Edges DEF Init, EventsDurable, RowsComputed, UnseenAnnounced, RoundInProgress, UnitRead, Current
  <1>5. HeldOffsets
    <2>1. Len(pending) = 0 /\ DOMAIN pending = {}
      BY DEF Init
    <2> QED
      BY <1>1, <2>1 DEF Init, HeldOffsets
  <1>6. ObservedHandled /\ HeldUntilRecomputed
    BY DEF Init, ObservedHandled, HeldUntilRecomputed
  <1>7. StaleIsDue
    <2> SUFFICES ASSUME NEW d \in Dependents, Ready(d) PROVE FALSE
      BY DEF StaleIsDue
    <2>1. 1 \in DOMAIN Deps[d] /\ Deps[d][1].feature \in Features /\ d \in Features
      BY Edges
    <2>2. history[d] = <<>> /\ Current(Deps[d][1].feature) = {}
      BY <1>2, <2>1 DEF Current
    <2> QED
      BY <2>1, <2>2 DEF Ready
  <1> QED
    BY <1>3, <1>4, <1>5, <1>6, <1>7 DEF Invariant

(* The worker's state is well typed, and the inductive invariant holds:    *)
(* announced rows are durable, dependents come from rows that history      *)
(* still has, what was observed is recomputed or pending, and whatever is  *)
(* stale is due (propagation_worker_runner.flush, process_next).           *)
THEOREM PropagationInvariant == Spec => [](TypeOK /\ Invariant)
  <1>1. Init => TypeOK /\ Invariant
    BY InvariantInit
  <1>2. TypeOK /\ Invariant /\ [Next]_vars => (TypeOK /\ Invariant)'
    BY TypeStep, EventsDurableStep, RowsComputedStep, UnseenStep, RoundStep, HeldStep, UnitStep,
       ObservedStep, CommittedStep, StaleStep DEF Invariant
  <1> QED
    BY <1>1, <1>2, PTL DEF Spec

(* An update behind the committed offset, on time and not too old by now,  *)
(* has been recomputed, whatever the crashes, unless a wave has failed or  *)
(* a message was dead-lettered.                                            *)
THEOREM UpdatesHeldUntilRecomputed == Spec => []HeldUntilRecomputed
  <1>1. Invariant => HeldUntilRecomputed
    BY DEF Invariant
  <1> QED
    BY <1>1, PropagationInvariant, PTL

(* When everything announced has been handled, every dependent that can be *)
(* recomputed is up to date with the rows that could be read when they     *)
(* were computed, for any graph of dependencies.                           *)
THEOREM DependentsCatchUp == Spec => []CaughtUp
  <1>1. ASSUME TypeOK, Invariant PROVE CaughtUp
    <2> SUFFICES ASSUME AtRest, faults = 0, dlq = {} \/ crashes = 0,
                        NEW d \in Dependents, Computable(d), Ready(d), AnnouncedAgain(d)
                 PROVE  UpToDate(d)
      BY DEF CaughtUp
    <2>1. ToSet(debounce) = {}
      BY <1>1, NoElements DEF AtRest, Invariant, RoundInProgress
    <2>2. position + 1..Len(topic) = {}
      BY <1>1, Types DEF AtRest
    <2>3. \A g \in Dependents : ~Due(g)
      BY <2>1, <2>2 DEF Due
    <2>4. ~InputDue(d)
      BY <2>3 DEF InputDue
    <2> QED
      BY <1>1, <2>3, <2>4 DEF Invariant, StaleIsDue, Quiet
  <1>2. TypeOK /\ Invariant => CaughtUp
    BY <1>1
  <1> QED
    BY <1>2, PropagationInvariant, PTL
=============================================================================

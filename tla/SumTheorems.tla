---------------------------- MODULE SumTheorems ----------------------------
(***************************************************************************)
(* Sums of functions over finite sets, as SumFunction and MapThenSumSet of *)
(* the community modules add them up.  A set is folded in an order that    *)
(* CHOOSE fixes; these lemmas say that the order does not matter, what one *)
(* value more or another value changes, and how sums combine.              *)
(*                                                                         *)
(* What is shown by induction is shown of a set of numbers, or of a set of *)
(* subsets, that a least counterexample refutes.                           *)
(***************************************************************************)
EXTENDS Integers, FiniteSets, Functions, FiniteSetTheorems, WellFoundedInduction, TLAPS

\* The least of a set of numbers.
LEMMA Least ==
    ASSUME NEW T \in SUBSET Nat, T # {}
    PROVE  \E m \in T : \A k \in T : m <= k
<1>1. PICK m \in T : \A k \in T : ~(<<k, m>> \in OpToRel(<, Nat))
  BY NatLessThanWellFounded, WFMin
<1>2. \A k \in T : ~(k < m)
  BY <1>1 DEF OpToRel
<1> QED
  BY <1>2

LEMMA UpToN ==
    ASSUME NEW S, 0 \in S, \A n \in Nat : n \in S => n + 1 \in S
    PROVE  \A n \in Nat : n \in S
<1> SUFFICES ASSUME Nat \ S # {} PROVE FALSE
  OBVIOUS
<1>1. PICK m \in Nat \ S : \A k \in Nat \ S : m <= k
  BY Least
<1>2. m # 0 /\ m - 1 \in Nat /\ m - 1 \in S
  BY <1>1
<1> QED
  BY <1>1, <1>2

\* What holds of no members and of one member more holds of all the members of A.
LEMMA MemberByMember ==
    ASSUME NEW A, IsFiniteSet(A), NEW P \in SUBSET SUBSET A, {} \in P,
           \A S \in P : \A x \in A \ S : S \cup {x} \in P
    PROVE  A \in P
<1> SUFFICES ASSUME A \notin P PROVE FALSE
  OBVIOUS
<1>1. PICK Q : Q = {A \ S : S \in P}
  OBVIOUS
<1>2. Q \subseteq FiniteSubsetsOf(A)
  BY <1>1, FS_Subset DEF FiniteSubsetsOf
<1>3. PICK B \in Q : \A C \in Q : ~(<<C, B>> \in StrictSubsetOrdering(A))
  <2>1. A \ {} \in Q
    BY <1>1
  <2>2. IsWellFoundedOn(StrictSubsetOrdering(A), FiniteSubsetsOf(A))
    BY FS_StrictSubsetOrderingWellFounded
  <2>3. \E B \in Q : \A C \in Q : ~(<<C, B>> \in StrictSubsetOrdering(A))
    <3>1. PICK R, S : R = StrictSubsetOrdering(A) /\ S = FiniteSubsetsOf(A)
      OBVIOUS
    <3>2. IsWellFoundedOn(R, S) /\ Q \subseteq S
      BY <1>2, <2>2, <3>1
    <3>3. \E B \in Q : \A C \in Q : ~(<<C, B>> \in R)
      BY ONLY <2>1, <3>2, WFMin
    <3> QED
      BY <3>1, <3>3
  <2> QED
    BY <2>3
<1>4. PICK S \in P : B = A \ S
  BY <1>1
<1>5. PICK x \in A \ S : TRUE
  BY <1>4
<1>6. S \cup {x} \in P /\ A \ (S \cup {x}) \in Q
  BY <1>1
<1>7. PICK C : C = A \ (S \cup {x})
  OBVIOUS
<1>8. C \in Q /\ C \subseteq B /\ C # B /\ C \subseteq A /\ B \subseteq A
  BY <1>4, <1>5, <1>6, <1>7
<1> QED
  BY <1>3, <1>8 DEF StrictSubsetOrdering

\* The recursion that MapThenSumSet stands for, over the subsets of A.
SomeOf(s) == CHOOSE x \in s : TRUE

Adder(g, f, A) ==
    /\ g = [s \in SUBSET A |-> g[s]]
    /\ g[{}] = 0
    /\ \A s \in SUBSET A : s # {} => g[s] = f[SomeOf(s)] + g[s \ {SomeOf(s)}]

\* Whichever member is taken first, the sum is the same.
TakesAny(g, f, A) ==
    /\ \A s \in SUBSET A : g[s] \in Int
    /\ \A s \in SUBSET A : \A x \in s : g[s] = f[x] + g[s \ {x}]

LEMMA OneLess ==
    ASSUME NEW A, IsFiniteSet(A)
    PROVE  /\ Cardinality(A) \in Nat
           /\ \A x \in A : IsFiniteSet(A \ {x}) /\ Cardinality(A \ {x}) = Cardinality(A) - 1
BY FS_CardinalityType, FS_RemoveElement

LEMMA SubsetSizes ==
    ASSUME NEW A, IsFiniteSet(A)
    PROVE  /\ \A s \in SUBSET A : IsFiniteSet(s) /\ Cardinality(s) \in Nat
           /\ \A s \in SUBSET A : s # {} => SomeOf(s) \in s
           /\ \A s \in SUBSET A : \A x \in s : Cardinality(s \ {x}) = Cardinality(s) - 1
           /\ \A s \in SUBSET A : Cardinality(s) <= Cardinality(A)
           /\ Cardinality({}) = 0 /\ \A s \in SUBSET A : Cardinality(s) <= 0 => s = {}
<1>1. \A s \in SUBSET A : IsFiniteSet(s) /\ Cardinality(s) <= Cardinality(A)
  BY FS_Subset
<1>2. \A s \in SUBSET A : Cardinality(s) \in Nat
  BY <1>1, OneLess
<1>3. \A s \in SUBSET A : \A x \in s : Cardinality(s \ {x}) = Cardinality(s) - 1
  BY <1>1, OneLess
<1>4. \A s \in SUBSET A : s # {} => SomeOf(s) \in s
  BY DEF SomeOf
<1> QED
  BY <1>1, <1>2, <1>3, <1>4, FS_EmptySet

LEMMA AdderExists ==
    ASSUME NEW A, IsFiniteSet(A), NEW f
    PROVE  \E g : Adder(g, f, A)
<1> DEFINE Small(n) == {s \in SUBSET A : Cardinality(s) <= n}
           Good(g, n) == /\ g = [s \in Small(n) |-> g[s]]
                         /\ g[{}] = 0
                         /\ \A s \in Small(n) : s # {} => g[s] = f[SomeOf(s)] + g[s \ {SomeOf(s)}]
           N == {n \in Nat : \E g : Good(g, n)}
<1>1. /\ \A s \in SUBSET A : Cardinality(s) \in Nat
      /\ \A s \in SUBSET A : s # {} => SomeOf(s) \in s
      /\ \A s \in SUBSET A : \A x \in s : Cardinality(s \ {x}) = Cardinality(s) - 1
  BY SubsetSizes
<1>2. \A s \in SUBSET A : s # {} => /\ s \ {SomeOf(s)} \in SUBSET A
                                    /\ Cardinality(s \ {SomeOf(s)}) = Cardinality(s) - 1
  BY <1>1
<1>3. {} \in SUBSET A /\ Cardinality({}) = 0 /\ \A s \in SUBSET A : Cardinality(s) <= 0 => s = {}
  BY SubsetSizes
<1>4. 0 \in N
  <2>1. PICK g : g = [s \in Small(0) |-> 0]
    OBVIOUS
  <2>2. Good(g, 0)
    BY <1>3, <2>1
  <2> QED
    BY <2>2
<1>5. ASSUME NEW n \in Nat, n \in N PROVE n + 1 \in N
  <2>1. PICK g : Good(g, n)
    BY <1>5
  <2>2. PICK h : h = [s \in Small(n + 1) |->
                        IF s = {} THEN 0 ELSE f[SomeOf(s)] + g[s \ {SomeOf(s)}]]
    OBVIOUS
  <2>3. ASSUME NEW s \in Small(n) PROVE h[s] = g[s]
    <3>1. s \in Small(n + 1)
      BY <1>1
    <3>2. h[s] = IF s = {} THEN 0 ELSE f[SomeOf(s)] + g[s \ {SomeOf(s)}]
      BY <2>2, <3>1
    <3>3. s = {} => g[s] = 0
      BY <2>1
    <3>4. s # {} => g[s] = f[SomeOf(s)] + g[s \ {SomeOf(s)}]
      BY <2>1
    <3> QED
      BY <3>2, <3>3, <3>4
  <2>4. {} \in Small(n + 1) /\ h[{}] = 0
    BY <1>3, <2>2
  <2>5. ASSUME NEW s \in Small(n + 1), s # {} PROVE h[s] = f[SomeOf(s)] + h[s \ {SomeOf(s)}]
    <3>1. s \ {SomeOf(s)} \in Small(n)
      BY <1>1, <1>2, <2>5
    <3> QED
      BY <2>2, <2>3, <2>5, <3>1
  <2>6. h = [s \in Small(n + 1) |-> h[s]]
    BY <2>2
  <2>7. Good(h, n + 1)
    BY <2>4, <2>5, <2>6
  <2> HIDE DEF Good
  <2> QED
    BY <2>7
<1>6. Cardinality(A) \in Nat
  BY OneLess
<1>7. Cardinality(A) \in N
  <2> HIDE DEF N
  <2> QED
    BY <1>4, <1>5, <1>6, UpToN
<1>8. PICK g : Good(g, Cardinality(A))
  BY <1>7
<1>9. Small(Cardinality(A)) = SUBSET A
  BY SubsetSizes
<1> QED
  BY <1>8, <1>9 DEF Adder

LEMMA AdderTakesAny ==
    ASSUME NEW A, IsFiniteSet(A), NEW f, \A x \in A : f[x] \in Int, NEW g, Adder(g, f, A)
    PROVE  TakesAny(g, f, A)
<1> DEFINE OK(s) == g[s] \in Int /\ \A x \in s : g[s] = f[x] + g[s \ {x}]
           N == {n \in Nat : \A s \in SUBSET A : Cardinality(s) <= n => OK(s)}
<1>1. /\ \A s \in SUBSET A : Cardinality(s) \in Nat
      /\ \A s \in SUBSET A : s # {} => SomeOf(s) \in s
      /\ \A s \in SUBSET A : \A x \in s : Cardinality(s \ {x}) = Cardinality(s) - 1
      /\ \A s \in SUBSET A : Cardinality(s) <= Cardinality(A)
      /\ \A s \in SUBSET A : Cardinality(s) <= 0 => s = {}
  BY SubsetSizes
<1>2. 0 \in N
  <2>1. OK({})
    BY DEF Adder
  <2> HIDE DEF OK
  <2> QED
    BY <1>1, <2>1
<1>3. ASSUME NEW n \in Nat, n \in N PROVE n + 1 \in N
  <2> SUFFICES ASSUME NEW s \in SUBSET A, Cardinality(s) <= n + 1 PROVE OK(s)
    OBVIOUS
  <2>1. CASE s = {}
    BY <2>1 DEF Adder
  <2>2. CASE s # {}
    <3>1. PICK y : y = SomeOf(s)
      OBVIOUS
    <3>2. y \in s /\ f[y] \in Int /\ g[s] = f[y] + g[s \ {y}]
      BY <1>1, <2>2, <3>1 DEF Adder
    <3>3. \A x \in s : s \ {x} \in SUBSET A /\ Cardinality(s \ {x}) <= n
      BY <1>1
    <3>4. \A x \in s : OK(s \ {x})
      BY <1>3, <3>3
    <3>5. g[s] \in Int
      <4>1. g[s \ {y}] \in Int
        BY <3>2, <3>4
      <4> QED
        BY <3>2, <4>1
    <3>6. ASSUME NEW x \in s, x # y PROVE g[s] = f[x] + g[s \ {x}]
      <4>1. x \in s \ {y} /\ y \in s \ {x}
        BY <3>2, <3>6
      <4>2. g[s \ {y}] = f[x] + g[(s \ {y}) \ {x}] /\ g[s \ {x}] = f[y] + g[(s \ {x}) \ {y}]
        BY <3>2, <3>4, <4>1
      <4>3. (s \ {y}) \ {x} = (s \ {x}) \ {y}
        OBVIOUS
      <4>4. PICK z : z = g[(s \ {x}) \ {y}]
        OBVIOUS
      <4>5. z \in Int
        <5>1. (s \ {x}) \ {y} \in SUBSET A /\ Cardinality((s \ {x}) \ {y}) <= n
          <6>1. Cardinality((s \ {x}) \ {y}) = Cardinality(s \ {x}) - 1
            BY <1>1, <4>1
          <6> QED
            BY <1>1, <3>3, <6>1
        <5> QED
          BY <1>3, <4>4, <5>1
      <4>6. g[s \ {y}] = f[x] + z /\ g[s \ {x}] = f[y] + z /\ f[x] \in Int
        BY <4>2, <4>3, <4>4
      <4> HIDE DEF OK, N
      <4> QED
        BY <3>2, <4>5, <4>6
    <3> QED
      BY <3>2, <3>5, <3>6
  <2> QED
    BY <2>1, <2>2
<1>4. Cardinality(A) \in Nat
  BY OneLess
<1>5. Cardinality(A) \in N
  <2> HIDE DEF N
  <2> QED
    BY <1>2, <1>3, <1>4, UpToN
<1> QED
  BY <1>1, <1>5 DEF TakesAny

\* The sum of f over the finite set A.
Sum(f, A) == (CHOOSE g : Adder(g, f, A))[A]

LEMMA SumOfAdder ==
    ASSUME NEW A, IsFiniteSet(A), NEW f
    PROVE  \E g : Adder(g, f, A) /\ Sum(f, A) = g[A]
<1>1. \E g : Adder(g, f, A)
  BY AdderExists
<1>2. Adder(CHOOSE g : Adder(g, f, A), f, A)
  BY <1>1, Zenon
<1> QED
  BY <1>2 DEF Sum

\* Two recursions over the same values have the same sums.
LEMMA AddersAgree ==
    ASSUME NEW A, NEW B, IsFiniteSet(A), IsFiniteSet(B), NEW f, NEW e, NEW g, NEW h,
           Adder(g, f, A), Adder(h, e, B),
           \A x \in A : f[x] \in Int, \A x \in B : e[x] \in Int,
           NEW C \in SUBSET A, C \subseteq B, \A x \in C : f[x] = e[x]
    PROVE  g[C] = h[C]
<1>1. PICK P : P = {s \in SUBSET C : g[s] = h[s]}
  OBVIOUS
<1>2. IsFiniteSet(C)
  BY FS_Subset
<1>3. {} \in P
  BY <1>1 DEF Adder
<1>4. ASSUME NEW S \in P, NEW x \in C \ S PROVE S \cup {x} \in P
  <2>1. PICK T : T = S \cup {x}
    OBVIOUS
  <2>2. T \in SUBSET A /\ T \in SUBSET B /\ x \in T /\ T \ {x} = S /\ T \in SUBSET C
    BY <1>1, <1>4, <2>1
  <2>3. g[T] = f[x] + g[T \ {x}]
    <3>1. TakesAny(g, f, A)
      BY AdderTakesAny
    <3> QED
      BY <2>2, <3>1 DEF TakesAny
  <2>4. h[T] = e[x] + h[T \ {x}]
    <3>1. TakesAny(h, e, B)
      BY AdderTakesAny
    <3> QED
      BY <2>2, <3>1 DEF TakesAny
  <2> QED
    BY <1>1, <1>4, <2>1, <2>2, <2>3, <2>4
<1>5. P \in SUBSET SUBSET C
  BY <1>1
<1>6. C \in P
  BY <1>2, <1>3, <1>4, <1>5, MemberByMember
<1> QED
  BY <1>1, <1>6

LEMMA SumIs ==
    ASSUME NEW A, IsFiniteSet(A), NEW f, \A x \in A : f[x] \in Int, NEW g, Adder(g, f, A)
    PROVE  Sum(f, A) = g[A]
<1>1. PICK h : Adder(h, f, A) /\ Sum(f, A) = h[A]
  BY SumOfAdder
<1>2. g[A] = h[A]
  BY <1>1, AddersAgree
<1> QED
  BY <1>1, <1>2

\* Equal values have equal sums.
LEMMA SumSame ==
    ASSUME NEW A, IsFiniteSet(A), NEW f, NEW e, \A x \in A : f[x] \in Int /\ f[x] = e[x]
    PROVE  Sum(f, A) = Sum(e, A)
<1>1. PICK g : Adder(g, f, A) /\ Sum(f, A) = g[A]
  BY SumOfAdder
<1>2. PICK h : Adder(h, e, A) /\ Sum(e, A) = h[A]
  BY SumOfAdder
<1>3. \A x \in A : e[x] \in Int
  OBVIOUS
<1>4. g[A] = h[A]
  BY <1>1, <1>2, <1>3, AddersAgree
<1> QED
  BY <1>1, <1>2, <1>4

LEMMA SumEmpty ==
    ASSUME NEW f
    PROVE  Sum(f, {}) = 0
<1>1. IsFiniteSet({})
  BY FS_EmptySet
<1>2. PICK g : Adder(g, f, {}) /\ Sum(f, {}) = g[{}]
  BY <1>1, SumOfAdder
<1> QED
  BY <1>2 DEF Adder

LEMMA SumType ==
    ASSUME NEW A, IsFiniteSet(A), NEW f, \A x \in A : f[x] \in Int
    PROVE  Sum(f, A) \in Int
<1>1. PICK g : Adder(g, f, A) /\ Sum(f, A) = g[A]
  BY SumOfAdder
<1>2. \A s \in SUBSET A : g[s] \in Int
  BY <1>1, AdderTakesAny DEF TakesAny
<1> QED
  BY <1>1, <1>2

\* One value more.
LEMMA SumAdds ==
    ASSUME NEW A, IsFiniteSet(A), NEW x, x \notin A, NEW f, \A y \in A \cup {x} : f[y] \in Int
    PROVE  Sum(f, A \cup {x}) = f[x] + Sum(f, A)
<1>1. PICK B : B = A \cup {x}
  OBVIOUS
<1>2. IsFiniteSet(B) /\ A \in SUBSET B /\ A \subseteq A /\ x \in B /\ B \ {x} = A
      /\ \A y \in B : f[y] \in Int
  <2>1. IsFiniteSet(A \cup {x})
    BY FS_AddElement
  <2> QED
    BY <1>1, <2>1
<1>3. PICK g : Adder(g, f, B) /\ Sum(f, B) = g[B]
  BY <1>2, SumOfAdder
<1>4. PICK h : Adder(h, f, A) /\ Sum(f, A) = h[A]
  BY SumOfAdder
<1>5. TakesAny(g, f, B)
  BY <1>2, <1>3, AdderTakesAny
<1>6. g[B] = f[x] + g[A]
  BY <1>2, <1>5 DEF TakesAny
<1>7. g[A] = h[A]
  <2>1. \A y \in A : f[y] \in Int /\ f[y] = f[y]
    OBVIOUS
  <2> QED
    BY <1>2, <1>3, <1>4, <2>1, AddersAgree
<1> QED
  BY <1>1, <1>3, <1>4, <1>6, <1>7

\* One value changed.
LEMMA SumChanges ==
    ASSUME NEW A, IsFiniteSet(A), NEW x \in A, NEW f, NEW e, NEW d \in Int,
           \A y \in A : f[y] \in Int, e[x] = f[x] + d, \A y \in A \ {x} : e[y] = f[y]
    PROVE  Sum(e, A) = Sum(f, A) + d
<1>1. PICK B : B = A \ {x}
  OBVIOUS
<1>2. IsFiniteSet(B) /\ x \notin B /\ B \cup {x} = A
  BY <1>1, OneLess
<1>3. \A y \in B : f[y] \in Int /\ f[y] = e[y]
  BY <1>1
<1>4. \A y \in B \cup {x} : f[y] \in Int /\ e[y] \in Int
  BY <1>1, <1>2
<1>5. Sum(f, A) = f[x] + Sum(f, B)
  BY <1>2, <1>4, SumAdds
<1>6. Sum(e, A) = e[x] + Sum(e, B)
  BY <1>2, <1>4, SumAdds
<1>7. Sum(f, B) = Sum(e, B) /\ Sum(f, B) \in Int
  BY <1>2, <1>3, SumSame, SumType
<1> QED
  BY <1>5, <1>6, <1>7

LEMMA SumZero ==
    ASSUME NEW A, IsFiniteSet(A), NEW f, \A x \in A : f[x] = 0
    PROVE  Sum(f, A) = 0
<1>1. PICK P : P = {s \in SUBSET A : Sum(f, s) = 0}
  OBVIOUS
<1>2. {} \in P
  BY <1>1, SumEmpty
<1>3. ASSUME NEW S \in P, NEW x \in A \ S PROVE S \cup {x} \in P
  <2>1. IsFiniteSet(S) /\ Sum(f, S) = 0 /\ x \notin S /\ f[x] = 0
        /\ \A y \in S \cup {x} : f[y] \in Int
    BY <1>1, <1>3, FS_Subset
  <2>2. Sum(f, S \cup {x}) = f[x] + Sum(f, S)
    BY <2>1, SumAdds
  <2> QED
    BY <1>1, <1>3, <2>1, <2>2
<1>4. P \in SUBSET SUBSET A
  BY <1>1
<1>5. A \in P
  BY <1>2, <1>3, <1>4, MemberByMember
<1> QED
  BY <1>1, <1>5

\* Summed by kind k and then over the kinds, or all at once.
LEMMA SumByKind ==
    ASSUME NEW A, IsFiniteSet(A), NEW f, \A x \in A : f[x] \in Int,
           NEW K, IsFiniteSet(K), NEW k, \A x \in A : k[x] \in K
    PROVE  Sum([m \in K |-> Sum(f, {x \in A : k[x] = m})], K) = Sum(f, A)
<1> DEFINE By(s) == [m \in K |-> Sum(f, {x \in s : k[x] = m})]
<1>1. PICK P : P = {s \in SUBSET A : Sum(By(s), K) = Sum(f, s)}
  OBVIOUS
<1>2. \A s \in SUBSET A : IsFiniteSet(s) /\ \A y \in s : f[y] \in Int
  BY FS_Subset
<1>3. \A s \in SUBSET A, m \in K : By(s)[m] = Sum(f, {x \in s : k[x] = m}) /\ By(s)[m] \in Int
  <2> TAKE s \in SUBSET A, m \in K
  <2>1. PICK T : T = {x \in s : k[x] = m}
    OBVIOUS
  <2>2. T \in SUBSET A
    BY <2>1
  <2>3. Sum(f, T) \in Int
    BY <1>2, <2>2, SumType
  <2> QED
    BY <2>1, <2>3
<1>4. {} \in P
  <2>1. \A m \in K : By({})[m] = 0
    <3> TAKE m \in K
    <3>1. {x \in {} : k[x] = m} = {}
      OBVIOUS
    <3> QED
      BY <3>1, SumEmpty
  <2> HIDE DEF By
  <2>2. Sum(By({}), K) = 0
    BY <2>1, SumZero
  <2> QED
    BY <1>1, <2>2, SumEmpty
<1>5. ASSUME NEW S \in P, NEW x \in A \ S PROVE S \cup {x} \in P
  <2>1. PICK T : T = S \cup {x}
    OBVIOUS
  <2>2. S \in SUBSET A /\ T \in SUBSET A /\ IsFiniteSet(S) /\ x \notin S /\ f[x] \in Int
        /\ k[x] \in K /\ \A y \in S \cup {x} : f[y] \in Int
    BY <1>1, <1>2, <1>5, <2>1
  <2>3. Sum(f, T) = f[x] + Sum(f, S)
    BY <2>1, <2>2, SumAdds
  <2>4. By(T)[k[x]] = By(S)[k[x]] + f[x]
    <3>1. PICK U : U = {y \in S : k[y] = k[x]}
      OBVIOUS
    <3>2. {y \in T : k[y] = k[x]} = U \cup {x}
      BY <2>1, <3>1
    <3>3. IsFiniteSet(U) /\ x \notin U /\ \A y \in U \cup {x} : f[y] \in Int
      BY <1>2, <2>2, <3>1
    <3>4. Sum(f, U \cup {x}) = f[x] + Sum(f, U)
      BY <3>3, SumAdds
    <3>5. By(T)[k[x]] = Sum(f, U \cup {x}) /\ By(S)[k[x]] = Sum(f, U) /\ Sum(f, U) \in Int
      BY <1>3, <2>2, <3>1, <3>2
    <3> QED
      BY <2>2, <3>4, <3>5
  <2>5. \A m \in K \ {k[x]} : By(T)[m] = By(S)[m]
    <3> TAKE m \in K \ {k[x]}
    <3>1. {y \in T : k[y] = m} = {y \in S : k[y] = m}
      BY <2>1
    <3> QED
      BY <3>1
  <2>6. \A m \in K : By(S)[m] \in Int
    BY <1>3, <2>2
  <2> HIDE DEF By
  <2>7. Sum(By(T), K) = Sum(By(S), K) + f[x]
    BY <2>2, <2>4, <2>5, <2>6, SumChanges
  <2>8. Sum(f, S) \in Int /\ Sum(By(S), K) = Sum(f, S)
    BY <1>1, <1>2, <2>2, SumType
  <2> QED
    BY <1>1, <2>1, <2>2, <2>3, <2>7, <2>8
<1>6. P \in SUBSET SUBSET A
  BY <1>1
<1>7. A \in P
  BY <1>4, <1>5, <1>6, MemberByMember
<1> QED
  BY <1>1, <1>7

\* SumFunctionOnSet of the community modules is this sum.
LEMMA SumFunctionIs ==
    ASSUME NEW A, IsFiniteSet(A), NEW f, \A x \in A : f[x] \in Int
    PROVE  SumFunctionOnSet(f, A) = Sum(f, A)
<1> DEFINE D(g) == g = [s \in SUBSET A |->
              IF s = {} THEN 0
              ELSE f[CHOOSE x \in s : TRUE] + g[s \ {CHOOSE x \in s : TRUE}]]
<1>1. \A g : Adder(g, f, A) <=> D(g)
  <2> TAKE g
  <2>1. ASSUME Adder(g, f, A) PROVE D(g)
    <3>1. \A s \in SUBSET A : g[s] = IF s = {} THEN 0
              ELSE f[CHOOSE x \in s : TRUE] + g[s \ {CHOOSE x \in s : TRUE}]
      BY <2>1 DEF Adder, SomeOf
    <3> QED
      BY <2>1, <3>1 DEF Adder
  <2>2. ASSUME D(g) PROVE Adder(g, f, A)
    <3>1. \A s \in SUBSET A : g[s] = IF s = {} THEN 0
              ELSE f[CHOOSE x \in s : TRUE] + g[s \ {CHOOSE x \in s : TRUE}]
      BY <2>2
    <3>2. g = [s \in SUBSET A |-> g[s]]
      BY <2>2
    <3>3. g[{}] = 0
      BY <3>1
    <3>4. \A s \in SUBSET A : s # {} => g[s] = f[SomeOf(s)] + g[s \ {SomeOf(s)}]
      BY <3>1 DEF SomeOf
    <3> QED
      BY <3>2, <3>3, <3>4 DEF Adder
  <2> QED
    BY <2>1, <2>2
<1>2. SumFunctionOnSet(f, A) = (CHOOSE g : D(g))[A]
  BY DEF SumFunctionOnSet, FoldFunctionOnSet, MapThenFoldSet
<1> HIDE DEF D
<1>3. PICK h : h = CHOOSE g : D(g)
  OBVIOUS
<1>4. Adder(h, f, A)
  <2>1. \E g : Adder(g, f, A)
    BY AdderExists
  <2>2. D(h)
    BY <1>1, <1>3, <2>1, Zenon
  <2> QED
    BY <1>1, <2>2, Zenon
<1>5. Sum(f, A) = h[A]
  BY <1>4, SumIs
<1> QED
  BY <1>2, <1>3, <1>5

LEMMA SumFunctionOver ==
    ASSUME NEW f, IsFiniteSet(DOMAIN f), \A x \in DOMAIN f : f[x] \in Int
    PROVE  SumFunction(f) = Sum(f, DOMAIN f)
BY SumFunctionIs DEF SumFunction

\* The sum of two functions.
LEMMA SumOfSums ==
    ASSUME NEW A, IsFiniteSet(A), NEW f, NEW e, NEW h,
           \A x \in A : f[x] \in Int /\ e[x] \in Int /\ h[x] = f[x] + e[x]
    PROVE  Sum(h, A) = Sum(f, A) + Sum(e, A)
<1>1. PICK P : P = {s \in SUBSET A : Sum(h, s) = Sum(f, s) + Sum(e, s)}
  OBVIOUS
<1>2. {} \in P
  BY <1>1, SumEmpty
<1>3. ASSUME NEW S \in P, NEW x \in A \ S PROVE S \cup {x} \in P
  <2>1. IsFiniteSet(S) /\ x \notin S /\ Sum(h, S) = Sum(f, S) + Sum(e, S)
    BY <1>1, <1>3, FS_Subset
  <2>2. \A y \in S \cup {x} : f[y] \in Int /\ e[y] \in Int /\ h[y] \in Int
    BY <1>1, <1>3
  <2>3. /\ Sum(f, S \cup {x}) = f[x] + Sum(f, S) /\ Sum(f, S) \in Int
        /\ Sum(e, S \cup {x}) = e[x] + Sum(e, S) /\ Sum(e, S) \in Int
        /\ Sum(h, S \cup {x}) = h[x] + Sum(h, S) /\ Sum(h, S) \in Int
    BY <2>1, <2>2, SumAdds, SumType
  <2>4. h[x] = f[x] + e[x] /\ f[x] \in Int /\ e[x] \in Int
    BY <1>3
  <2>5. Sum(h, S \cup {x}) = Sum(f, S \cup {x}) + Sum(e, S \cup {x})
    BY <2>1, <2>3, <2>4
  <2> QED
    BY <1>1, <1>3, <2>5
<1>4. P \in SUBSET SUBSET A
  BY <1>1
<1>5. A \in P
  BY <1>2, <1>3, <1>4, MemberByMember
<1> QED
  BY <1>1, <1>5

\* Values outside B that are zero do not count.
LEMMA SumWithin ==
    ASSUME NEW A, IsFiniteSet(A), NEW B \in SUBSET A, NEW f,
           \A x \in A : f[x] \in Int, \A x \in A \ B : f[x] = 0
    PROVE  Sum(f, A) = Sum(f, B)
<1>1. PICK P : P = {s \in SUBSET A : Sum(f, s) = Sum(f, s \cap B)}
  OBVIOUS
<1>2. {} \in P
  BY <1>1
<1>3. ASSUME NEW S \in P, NEW x \in A \ S PROVE S \cup {x} \in P
  <2>1. IsFiniteSet(S) /\ IsFiniteSet(S \cap B) /\ x \notin S /\ x \notin S \cap B
        /\ Sum(f, S) = Sum(f, S \cap B) /\ \A y \in S \cup {x} : f[y] \in Int
    BY <1>1, <1>3, FS_Subset
  <2>2. Sum(f, S \cup {x}) = f[x] + Sum(f, S) /\ Sum(f, S) \in Int
    BY <2>1, SumAdds, SumType
  <2>3. CASE x \in B
    <3>1. (S \cup {x}) \cap B = (S \cap B) \cup {x}
      BY <2>3
    <3>2. \A y \in (S \cap B) \cup {x} : f[y] \in Int
      BY <2>1
    <3>3. Sum(f, (S \cap B) \cup {x}) = f[x] + Sum(f, S \cap B)
      BY <2>1, <3>2, SumAdds
    <3>4. Sum(f, S \cup {x}) = Sum(f, (S \cup {x}) \cap B)
      BY <2>1, <2>2, <3>1, <3>3
    <3> QED
      BY <1>1, <1>3, <3>4
  <2>4. CASE x \notin B
    <3>1. (S \cup {x}) \cap B = S \cap B /\ f[x] = 0
      BY <1>3, <2>4
    <3>2. Sum(f, S \cup {x}) = Sum(f, S)
      BY <2>2, <3>1
    <3>3. Sum(f, (S \cup {x}) \cap B) = Sum(f, S)
      BY <2>1, <3>1
    <3> QED
      BY <1>1, <1>3, <3>2, <3>3
  <2> QED
    BY <2>3, <2>4
<1>4. P \in SUBSET SUBSET A
  BY <1>1
<1>5. A \in P
  BY <1>2, <1>3, <1>4, MemberByMember
<1>6. A \cap B = B
  OBVIOUS
<1> QED
  BY <1>1, <1>5, <1>6

\* Naturals add up to a natural, and to zero only if they are all zero.
LEMMA SumOfNaturals ==
    ASSUME NEW A, IsFiniteSet(A), NEW f, \A x \in A : f[x] \in Nat
    PROVE  Sum(f, A) \in Nat /\ (Sum(f, A) = 0 => \A x \in A : f[x] = 0)
<1> DEFINE Good(s) == Sum(f, s) \in Nat /\ (Sum(f, s) = 0 => \A x \in s : f[x] = 0)
<1>1. PICK P : P = {s \in SUBSET A : Good(s)}
  OBVIOUS
<1>2. {} \in P
  <2>1. Good({})
    BY SumEmpty
  <2> QED
    BY <1>1, <2>1
<1>3. ASSUME NEW S \in P, NEW x \in A \ S PROVE S \cup {x} \in P
  <2>1. S \in SUBSET A /\ Good(S)
    BY <1>1
  <2>2. IsFiniteSet(S) /\ x \notin S /\ f[x] \in Nat /\ \A y \in S \cup {x} : f[y] \in Int
    BY <1>3, <2>1, FS_Subset
  <2>3. Sum(f, S \cup {x}) = f[x] + Sum(f, S)
    BY <2>2, SumAdds
  <2>4. /\ Sum(f, S \cup {x}) \in Nat
        /\ Sum(f, S \cup {x}) = 0 => f[x] = 0 /\ Sum(f, S) = 0
    BY <2>1, <2>2, <2>3
  <2>5. Good(S \cup {x})
    BY <2>1, <2>4
  <2> QED
    BY <1>1, <1>3, <2>1, <2>5
<1>4. P \in SUBSET SUBSET A
  BY <1>1
<1>5. A \in P
  <2> HIDE DEF Good
  <2> QED
    BY <1>2, <1>3, <1>4, MemberByMember
<1>6. Good(A)
  BY <1>1, <1>5
<1> QED
  BY <1>6

\* One value more at the end.
LEMMA SumExtends ==
    ASSUME NEW n \in Nat, NEW f, NEW e, \A i \in 1..(n + 1) : e[i] \in Int,
           \A i \in 1..n : f[i] = e[i]
    PROVE  Sum(e, 1..(n + 1)) = Sum(f, 1..n) + e[n + 1] /\ Sum(f, 1..n) \in Int
<1>1. IsFiniteSet(1..n) /\ n + 1 \notin 1..n /\ 1..(n + 1) = 1..n \cup {n + 1}
  BY FS_Interval
<1>2. \A i \in 1..n : f[i] \in Int /\ f[i] = e[i] /\ e[i] \in Int
  OBVIOUS
<1>3. \A i \in 1..n \cup {n + 1} : e[i] \in Int
  OBVIOUS
<1>4. Sum(e, 1..n \cup {n + 1}) = e[n + 1] + Sum(e, 1..n)
  BY ONLY <1>1, <1>3, SumAdds
<1>5. Sum(f, 1..n) = Sum(e, 1..n) /\ Sum(f, 1..n) \in Int
  BY <1>1, <1>2, SumSame, SumType
<1>6. e[n + 1] \in Int
  BY <1>3
<1>7. Sum(e, 1..(n + 1)) = Sum(e, 1..n \cup {n + 1})
  BY <1>1
<1> QED
  BY ONLY <1>4, <1>5, <1>6, <1>7

\* Summed along an order without repetitions, or over what it orders.
LEMMA SumAlong ==
    ASSUME NEW A, IsFiniteSet(A), NEW f, \A x \in A : f[x] \in Int,
           NEW n \in Nat, NEW order, \A i \in 1..n : order[i] \in A,
           \A i, j \in 1..n : order[i] = order[j] => i = j
    PROVE  Sum([i \in 1..n |-> f[order[i]]], 1..n) = Sum(f, {order[i] : i \in 1..n})
<1> DEFINE At(m) == [i \in 1..m |-> f[order[i]]]
           Of(m) == {order[i] : i \in 1..m}
           N == {m \in Nat : m <= n => Sum(At(m), 1..m) = Sum(f, Of(m))}
<1>1. 0 \in N
  <2>1. 1..0 = {} /\ Of(0) = {}
    OBVIOUS
  <2> HIDE DEF At, Of
  <2>2. Sum(At(0), 1..0) = 0 /\ Sum(f, Of(0)) = 0
    BY <2>1, SumEmpty
  <2> QED
    BY <2>2
<1>2. ASSUME NEW m \in Nat, m \in N PROVE m + 1 \in N
  <2> SUFFICES ASSUME m + 1 <= n PROVE Sum(At(m + 1), 1..(m + 1)) = Sum(f, Of(m + 1))
    OBVIOUS
  <2>1. Sum(At(m), 1..m) = Sum(f, Of(m))
    BY <1>2
  <2>2. /\ \A i \in 1..(m + 1) : At(m + 1)[i] = f[order[i]] /\ At(m + 1)[i] \in Int
        /\ \A i \in 1..m : At(m)[i] = At(m + 1)[i]
    OBVIOUS
  <2>3. /\ Of(m) \in SUBSET A /\ order[m + 1] \in A
        /\ order[m + 1] \notin Of(m) /\ Of(m + 1) = Of(m) \cup {order[m + 1]}
    OBVIOUS
  <2> HIDE DEF At, Of, N
  <2>4. Sum(At(m + 1), 1..(m + 1)) = Sum(At(m), 1..m) + At(m + 1)[m + 1]
    <3>1. PICK one, two : one = At(m) /\ two = At(m + 1)
      OBVIOUS
    <3>2. (\A i \in 1..(m + 1) : two[i] \in Int) /\ \A i \in 1..m : one[i] = two[i]
      BY <2>2, <3>1
    <3> QED
      BY <3>1, <3>2, SumExtends
  <2>5. IsFiniteSet(Of(m)) /\ \A y \in Of(m) \cup {order[m + 1]} : f[y] \in Int
    BY <2>3, FS_Subset
  <2>6. Sum(f, Of(m) \cup {order[m + 1]}) = f[order[m + 1]] + Sum(f, Of(m))
    BY <2>3, <2>5, SumAdds
  <2>7. Sum(f, Of(m)) \in Int /\ f[order[m + 1]] \in Int
    BY <2>3, <2>5, SumType
  <2>8. At(m + 1)[m + 1] = f[order[m + 1]]
    BY <2>2
  <2>9. Sum(f, Of(m + 1)) = Sum(f, Of(m) \cup {order[m + 1]})
    BY <2>3
  <2> QED
    BY ONLY <2>1, <2>4, <2>6, <2>7, <2>8, <2>9
<1>3. n \in N
  <2> HIDE DEF N
  <2> QED
    BY <1>1, <1>2, UpToN
<1> QED
  BY <1>3
=============================================================================

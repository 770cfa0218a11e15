--------------------------- MODULE EvidenceProofs ---------------------------
(***************************************************************************)
(* Proofs about Evidence, for any works, edits, worlds and limits: what a   *)
(* reader accepts follows from its own counts, a receipt that the guard     *)
(* calls valid still splits today's traffic as it says, a reproduction      *)
(* verifies what was issued and nothing else, and what is issued says what  *)
(* the report says.  Mixes are sums, folds of the community modules: which  *)
(* element is taken next makes no difference, and a sum is that of its      *)
(* parts.                                                                   *)
(***************************************************************************)
EXTENDS Evidence, FiniteSetTheorems, SequenceTheorems, WellFoundedInduction,
        NaturalsInduction, TLAPS

(* Sums over finite sets *)

\* A way through the subsets of S: what each leaves for the next.
Picks(S) == {pk \in [SUBSET S -> S \cup {S}] : \A s \in SUBSET S : s # {} => pk[s] \in s}

\* The fold of f over the subsets of S, by the order pk takes them in.
Folding(f, pk, S, it) ==
    it = [s \in SUBSET S |-> IF s = {} THEN 0 ELSE f[pk[s]] + it[s \ {pk[s]}]]

\* Of the sets in a family of finite ones, one has no smaller one in it.
LEMMA SmallestSet ==
    ASSUME NEW F, F # {}, \A s \in F : IsFiniteSet(s)
    PROVE  \E s \in F : \A x \in s : s \ {x} \notin F
<1> DEFINE Sizes == {Cardinality(s) : s \in F}
<1>1. Sizes \subseteq Nat /\ Sizes # {}
  BY FS_CardinalityType
<1>2. PICK n \in Sizes : \A m \in Sizes : <<m, n>> \notin OpToRel(<, Nat)
  <2>1. IsWellFoundedOn(OpToRel(<, Nat), Nat)
    BY NatLessThanWellFounded
  <2> QED BY <1>1, <2>1, WFMin
<1>3. \A m \in Sizes : ~(m < n)
  BY <1>1, <1>2 DEF OpToRel
<1>4. PICK s \in F : Cardinality(s) = n
  BY DEF Sizes
<1>5. ASSUME NEW x \in s, s \ {x} \in F
      PROVE  FALSE
  <2>1. Cardinality(s \ {x}) = Cardinality(s) - 1 /\ Cardinality(s) \in Nat
    BY <1>5, FS_RemoveElement, FS_CardinalityType
  <2> QED BY <1>3, <1>4, <1>5, <2>1
<1> QED BY <1>5

\* The recursion of a fold is well founded: there is a function it defines.
LEMMA FoldingExists ==
    ASSUME NEW S, IsFiniteSet(S), NEW f, NEW pk \in Picks(S)
    PROVE  \E it : Folding(f, pk, S, it)
<1> DEFINE U(n) == {s \in SUBSET S : Cardinality(s) <= n}
           Upto(n, it) == it = [s \in U(n) |-> IF s = {} THEN 0 ELSE f[pk[s]] + it[s \ {pk[s]}]]
           Bad == {n \in Nat : ~(\E it : Upto(n, it))}
<1>1. \A s \in SUBSET S : IsFiniteSet(s) /\ Cardinality(s) \in Nat
  BY FS_Subset, FS_CardinalityType
<1>2. ASSUME NEW s \in SUBSET S, s # {}
      PROVE  pk[s] \in s /\ Cardinality(s \ {pk[s]}) = Cardinality(s) - 1
  BY <1>1, <1>2, FS_RemoveElement DEF Picks
<1>3. \A s \in SUBSET S : Cardinality(s) = 0 <=> s = {}
  BY <1>1, FS_EmptySet
<1>4. ASSUME NEW n \in Bad, \A m \in Bad : ~(m < n)
      PROVE  FALSE
  <2>1. CASE n = 0
    <3> DEFINE it == [s \in U(0) |-> 0]
    <3>1. U(0) = {{}}
      BY <1>1, <1>3
    <3>2. Upto(0, it)
      BY <3>1
    <3> HIDE DEF it
    <3> QED BY <2>1, <3>2
  <2>2. CASE n # 0
    <3>1. n - 1 \in Nat
      BY <2>2
    <3>0. n - 1 \notin Bad
      <4>1. n \in Nat /\ n - 1 < n
        BY <3>1
      <4> HIDE DEF Bad
      <4> QED BY <1>4, <4>1
    <3>2. PICK g : Upto(n - 1, g)
      <4> HIDE DEF Upto
      <4> QED BY <3>0, <3>1
    <3> DEFINE it == [s \in U(n) |-> IF s = {} THEN 0 ELSE f[pk[s]] + g[s \ {pk[s]}]]
    <3>3. U(n - 1) \subseteq U(n)
      BY <1>1, <3>1
    <3>4. \A s \in U(n - 1) : it[s] = g[s]
      BY <3>2, <3>3
    <3>5. \A s \in U(n) : s # {} => s \ {pk[s]} \in U(n - 1)
      BY <1>1, <1>2, <3>1
    <3>6. \A s \in U(n) : s # {} => it[s \ {pk[s]}] = g[s \ {pk[s]}]
      BY <3>4, <3>5
    <3>7. Upto(n, it)
      BY <3>6
    <3> HIDE DEF it
    <3> QED BY <3>7
  <2> QED BY <2>1, <2>2
<1>5. Bad = {}
  <2> SUFFICES ASSUME Bad # {} PROVE FALSE
    OBVIOUS
  <2>1. IsWellFoundedOn(OpToRel(<, Nat), Nat)
    BY NatLessThanWellFounded
  <2>2. Bad \subseteq Nat
    OBVIOUS
  <2> HIDE DEF Bad
  <2>3. PICK n \in Bad : \A m \in Bad : <<m, n>> \notin OpToRel(<, Nat)
    BY <2>1, <2>2, WFMin
  <2>4. \A m \in Bad : ~(m < n)
    BY <2>2, <2>3 DEF OpToRel
  <2> QED BY <1>4, <2>4
<1>6. Cardinality(S) \in Nat /\ U(Cardinality(S)) = SUBSET S
  BY <1>1, FS_Subset
<1> HIDE DEF U
<1>7. PICK it : Upto(Cardinality(S), it)
  BY <1>5, <1>6
<1> QED BY <1>6, <1>7 DEF Folding

\* Every element of a set adds to its sum what it is.
Adds(f, S, it) ==
    \A s \in SUBSET S : /\ it[s] \in Int
                        /\ s = {} => it[s] = 0
                        /\ \A x \in s : it[s] = f[x] + it[s \ {x}]

\* It does not matter which element is taken next.
LEMMA FoldingAny ==
    ASSUME NEW S, IsFiniteSet(S), NEW f, NEW pk \in Picks(S), NEW it, Folding(f, pk, S, it),
           \A x \in S : f[x] \in Int
    PROVE  Adds(f, S, it)
<1>1. \A s \in SUBSET S : /\ s = {} => it[s] = 0
                          /\ s # {} => pk[s] \in s /\ it[s] = f[pk[s]] + it[s \ {pk[s]}]
  BY DEF Folding, Picks
<1>2. \A s \in SUBSET S : it[s] \in Int
  <2> DEFINE F == {s \in SUBSET S : it[s] \notin Int}
  <2>1. ASSUME NEW s \in SUBSET S, \A x \in s : it[s \ {x}] \in Int
        PROVE  it[s] \in Int
    <3> HIDE DEF F
    <3>1. CASE s = {}
      <4>1. it[s] = 0
        BY <1>1, <3>1
      <4> QED BY <4>1
    <3>2. CASE s # {}
      <4>1. PICK x \in s : it[s] = f[x] + it[s \ {x}]
        BY <1>1, <3>2
      <4>2. f[x] \in Int /\ it[s \ {x}] \in Int
        BY <2>1
      <4> QED BY <4>1, <4>2
    <3> QED BY <3>1, <3>2
  <2>2. F = {}
    <3> SUFFICES ASSUME F # {} PROVE FALSE
      OBVIOUS
    <3>1. \A s \in F : IsFiniteSet(s) /\ s \in SUBSET S
      BY FS_Subset
    <3> HIDE DEF F
    <3>2. PICK s \in F : \A x \in s : s \ {x} \notin F
      BY <3>1, SmallestSet
    <3>3. \A x \in s : it[s \ {x}] \in Int
      BY <3>1, <3>2 DEF F
    <3> QED BY <2>1, <3>1, <3>3 DEF F
  <2> QED BY <2>2
<1>3. \A s \in SUBSET S : \A x \in s : it[s] = f[x] + it[s \ {x}]
  <2> DEFINE Good(s) == \A x \in s : it[s] = f[x] + it[s \ {x}]
             F == {s \in SUBSET S : ~Good(s)}
  <2>1. ASSUME NEW s \in SUBSET S, \A x \in s : Good(s \ {x}), NEW x \in s
        PROVE  it[s] = f[x] + it[s \ {x}]
    <3>1. PICK y \in s : it[s] = f[y] + it[s \ {y}]
      BY <1>1
    <3>2. CASE x # y
      <4>1. x \in s \ {y} /\ y \in s \ {x}
        BY <3>2
      <4>2. it[s \ {y}] = f[x] + it[(s \ {y}) \ {x}]
        BY <2>1, <4>1
      <4>3. it[s \ {x}] = f[y] + it[(s \ {y}) \ {x}]
        <5>1. (s \ {x}) \ {y} = (s \ {y}) \ {x}
          OBVIOUS
        <5> QED BY <2>1, <4>1, <5>1
      <4>4. f[x] \in Int /\ f[y] \in Int /\ it[(s \ {y}) \ {x}] \in Int
        BY <1>2
      <4> QED BY <3>1, <4>2, <4>3, <4>4
    <3> QED BY <3>1, <3>2
  <2>2. F = {}
    <3> SUFFICES ASSUME F # {} PROVE FALSE
      OBVIOUS
    <3>1. \A s \in F : IsFiniteSet(s) /\ s \in SUBSET S
      BY FS_Subset
    <3> HIDE DEF F
    <3>2. PICK s \in F : \A x \in s : s \ {x} \notin F
      BY <3>1, SmallestSet
    <3>3. \A x \in s : Good(s \ {x})
      BY <3>1, <3>2 DEF F
    <3> QED BY <2>1, <3>1, <3>3 DEF F
  <2> QED BY <2>2
<1> QED BY <1>1, <1>2, <1>3 DEF Adds

\* Two foldings of what is the same where they meet are the same there.
LEMMA FoldingSame ==
    ASSUME NEW R, IsFiniteSet(R), NEW h, NEW pr \in Picks(R), NEW rt, Folding(h, pr, R, rt),
           NEW T, IsFiniteSet(T), NEW g, NEW pl \in Picks(T), NEW jt, Folding(g, pl, T, jt),
           \A x \in R : h[x] \in Int, \A x \in T : g[x] \in Int, \A x \in R \cap T : h[x] = g[x]
    PROVE  \A s \in SUBSET (R \cap T) : rt[s] = jt[s]
<1>0. Adds(h, R, rt) /\ Adds(g, T, jt)
  BY FoldingAny
<1>1. \A s \in SUBSET R : /\ rt[s] \in Int
                          /\ s = {} => rt[s] = 0
                          /\ \A x \in s : rt[s] = h[x] + rt[s \ {x}]
  BY <1>0 DEF Adds
<1>2. \A s \in SUBSET T : /\ jt[s] \in Int
                          /\ s = {} => jt[s] = 0
                          /\ \A x \in s : jt[s] = g[x] + jt[s \ {x}]
  BY <1>0 DEF Adds
<1> DEFINE F == {s \in SUBSET (R \cap T) : rt[s] # jt[s]}
<1>3. F = {}
  <2> SUFFICES ASSUME F # {} PROVE FALSE
    OBVIOUS
  <2>1. \A s \in F : IsFiniteSet(s) /\ s \in SUBSET R /\ s \in SUBSET T /\ rt[s] # jt[s]
    BY FS_Subset
  <2>2. \A s \in SUBSET (R \cap T) : s \notin F => rt[s] = jt[s]
    OBVIOUS
  <2> HIDE DEF F
  <2>3. PICK s \in F : \A x \in s : s \ {x} \notin F
    BY <2>1, SmallestSet
  <2>4. s # {}
    BY <1>1, <1>2, <2>1
  <2>5. PICK x \in s : TRUE
    BY <2>4
  <2>6. rt[s \ {x}] = jt[s \ {x}]
    BY <2>1, <2>2, <2>3
  <2>7. rt[s] = h[x] + rt[s \ {x}] /\ jt[s] = g[x] + jt[s \ {x}] /\ h[x] = g[x]
    BY <1>1, <1>2, <2>1
  <2> QED BY <2>1, <2>6, <2>7
<1> QED BY <1>3

-----------------------------------------------------------------------------
(* The sum of a function over a set                                        *)

\* The sum of the values of f at the elements of S.
Sum(f, S) == FoldFunctionOnSet(+, 0, f, S)

\* Every fold of a sum is that sum, whatever order it takes.
LEMMA SumFolds ==
    ASSUME NEW S, IsFiniteSet(S), NEW f, \A x \in S : f[x] \in Int,
           NEW pk \in Picks(S), NEW it, Folding(f, pk, S, it)
    PROVE  Sum(f, S) = it[S]
<1> DEFINE NextOf(s) == IF s = {} THEN S ELSE CHOOSE x \in s : TRUE
           pl == [s \in SUBSET S |-> NextOf(s)]
           Iter == CHOOSE jt : Folding(f, pl, S, jt)
<1>1. pl \in Picks(S)
  <2>1. \A s \in SUBSET S : s # {} => NextOf(s) \in s
    OBVIOUS
  <2>2. \A s \in SUBSET S : NextOf(s) \in S \cup {S}
    BY <2>1
  <2> HIDE DEF NextOf
  <2> QED BY <2>1, <2>2 DEF Picks
<1>2. Sum(f, S) = Iter[S]
  <2>1. \A jt : Folding(f, pl, S, jt) <=>
            jt = [s \in SUBSET S |-> IF s = {} THEN 0
                                     ELSE f[CHOOSE x \in s : TRUE] + jt[s \ {CHOOSE x \in s : TRUE}]]
    BY ZenonT(30) DEF Folding
  <2> QED BY ZenonT(30), <2>1 DEF Sum, FoldFunctionOnSet, MapThenFoldSet
<1>3. Folding(f, pl, S, Iter)
  <2> HIDE DEF pl
  <2> QED BY <1>1, FoldingExists
<1> HIDE DEF pl, Iter
<1>4. Iter[S] = it[S]
  BY <1>1, <1>3, FoldingSame
<1> QED BY <1>2, <1>4

\* A sum has a fold.
LEMMA SumIsFold ==
    ASSUME NEW S, IsFiniteSet(S), NEW f, \A x \in S : f[x] \in Int
    PROVE  \E pk, it : pk \in Picks(S) /\ Folding(f, pk, S, it) /\ Sum(f, S) = it[S]
<1> DEFINE pk == [s \in SUBSET S |-> IF s = {} THEN S ELSE CHOOSE x \in s : TRUE]
<1>1. pk \in Picks(S)
  <2>1. \A s \in SUBSET S : s # {} => (CHOOSE x \in s : TRUE) \in s
    OBVIOUS
  <2> QED BY <2>1 DEF Picks
<1> HIDE DEF pk
<1>2. PICK it : Folding(f, pk, S, it)
  BY <1>1, FoldingExists
<1> QED BY <1>1, <1>2, SumFolds

\* Nothing sums to nothing; an element adds what it is.
LEMMA SumElement ==
    ASSUME NEW S, IsFiniteSet(S), NEW f, \A x \in S : f[x] \in Int
    PROVE  /\ Sum(f, S) \in Int
           /\ S = {} => Sum(f, S) = 0
           /\ \A x \in S : Sum(f, S) = f[x] + Sum(f, S \ {x})
<1>1. PICK pk, it : pk \in Picks(S) /\ Folding(f, pk, S, it) /\ Sum(f, S) = it[S]
  BY SumIsFold
<1>2. it[S] \in Int /\ (S = {} => it[S] = 0) /\ \A x \in S : it[S] = f[x] + it[S \ {x}]
  BY <1>1, FoldingAny DEF Adds
<1>3. ASSUME NEW x \in S
      PROVE  Sum(f, S \ {x}) = it[S \ {x}]
  <2> DEFINE T == S \ {x}
  <2>1. IsFiniteSet(T) /\ T \in SUBSET (S \cap T) /\ \A y \in T : f[y] \in Int
    BY FS_Subset
  <2> HIDE DEF T
  <2>2. PICK pl, jt : pl \in Picks(T) /\ Folding(f, pl, T, jt) /\ Sum(f, T) = jt[T]
    BY <2>1, SumIsFold
  <2>3. it[T] = jt[T]
    BY <1>1, <2>1, <2>2, FoldingSame
  <2> QED BY <2>2, <2>3 DEF T
<1> QED BY <1>1, <1>2, <1>3

\* The sum of two sets apart is the sum of their sums.
LEMMA SumParts ==
    ASSUME NEW A, IsFiniteSet(A), NEW B, IsFiniteSet(B), A \cap B = {},
           NEW f, \A x \in A \cup B : f[x] \in Int
    PROVE  Sum(f, A \cup B) = Sum(f, A) + Sum(f, B)
<1> DEFINE F == {s \in SUBSET B : Sum(f, A \cup s) # Sum(f, A) + Sum(f, s)}
<1>1. \A s \in SUBSET B : /\ IsFiniteSet(s) /\ IsFiniteSet(A \cup s)
                          /\ \A x \in s : f[x] \in Int
                          /\ \A x \in A \cup s : f[x] \in Int
  BY FS_Subset, FS_Union
<1>2. \A s \in SUBSET B : Sum(f, s) \in Int
  BY <1>1, SumElement
<1>3. ASSUME NEW s \in SUBSET B, \A x \in s : s \ {x} \notin F
      PROVE  s \notin F
  <2>0. Sum(f, A) \in Int
    BY SumElement
  <2>1. CASE s = {}
    <3>1. Sum(f, {}) = 0 /\ A \cup {} = A
      BY <1>1, SumElement
    <3> QED BY <2>0, <2>1, <3>1
  <2>2. CASE s # {}
    <3>1. PICK x \in s : TRUE
      BY <2>2
    <3>2. Sum(f, A \cup s) = f[x] + Sum(f, (A \cup s) \ {x})
      BY <1>1, SumElement
    <3>3. Sum(f, s) = f[x] + Sum(f, s \ {x})
      BY <1>1, SumElement
    <3>4. (A \cup s) \ {x} = A \cup (s \ {x})
      OBVIOUS
    <3>5. Sum(f, A \cup (s \ {x})) = Sum(f, A) + Sum(f, s \ {x})
      BY <1>3
    <3>6. f[x] \in Int /\ Sum(f, s \ {x}) \in Int
      BY <1>1, <1>2
    <3>7. Sum(f, A \cup s) = Sum(f, A) + Sum(f, s)
      <4>1. Sum(f, A \cup s) = f[x] + Sum(f, A \cup (s \ {x}))
        BY <3>2, <3>4, Zenon
      <4> DEFINE a == Sum(f, A)  b == Sum(f, s \ {x})  v == f[x]
      <4>2. /\ Sum(f, A \cup s) = v + (a + b) /\ Sum(f, s) = v + b
            /\ a \in Int /\ b \in Int /\ v \in Int
        BY <2>0, <3>3, <3>5, <3>6, <4>1, Zenon
      <4> HIDE DEF a, b, v
      <4>3. v + (a + b) = a + (v + b)
        BY <4>2
      <4> QED BY <4>2, <4>3, Zenon DEF a
    <3> QED BY <3>7
  <2> QED BY <2>1, <2>2
<1>4. F = {}
  <2> SUFFICES ASSUME F # {} PROVE FALSE
    OBVIOUS
  <2>1. \A s \in F : IsFiniteSet(s) /\ s \in SUBSET B
    BY <1>1
  <2> HIDE DEF F
  <2> QED BY <1>3, <2>1, SmallestSet
<1> QED BY <1>4

\* What is the same everywhere sums to the same.
LEMMA SumSame ==
    ASSUME NEW S, IsFiniteSet(S), NEW f, NEW g, \A x \in S : f[x] \in Int /\ f[x] = g[x]
    PROVE  Sum(f, S) = Sum(g, S)
<1>1. \A x \in S : f[x] \in Int /\ g[x] \in Int
  OBVIOUS
<1>2. PICK pk, it : pk \in Picks(S) /\ Folding(f, pk, S, it) /\ Sum(f, S) = it[S]
  BY <1>1, SumIsFold
<1>3. PICK pl, jt : pl \in Picks(S) /\ Folding(g, pl, S, jt) /\ Sum(g, S) = jt[S]
  BY <1>1, SumIsFold
<1>4. S \in SUBSET (S \cap S)
  OBVIOUS
<1> QED BY <1>1, <1>2, <1>3, <1>4, FoldingSame

\* What is nowhere less sums to no less.
LEMMA SumGrows ==
    ASSUME NEW S, IsFiniteSet(S), NEW f, NEW g,
           \A x \in S : f[x] \in Int /\ g[x] \in Int /\ f[x] <= g[x]
    PROVE  Sum(f, S) <= Sum(g, S)
<1> DEFINE F == {s \in SUBSET S : ~(Sum(f, s) <= Sum(g, s))}
<1>1. \A s \in SUBSET S : IsFiniteSet(s) /\ Sum(f, s) \in Int /\ Sum(g, s) \in Int
  BY FS_Subset, SumElement
<1>2. ASSUME NEW s \in SUBSET S, \A x \in s : s \ {x} \notin F
      PROVE  s \notin F
  <2>1. CASE s = {}
    BY <1>1, <2>1, SumElement
  <2>2. CASE s # {}
    <3>1. PICK x \in s : TRUE
      BY <2>2
    <3>2. Sum(f, s) = f[x] + Sum(f, s \ {x}) /\ Sum(g, s) = g[x] + Sum(g, s \ {x})
      BY <1>1, SumElement
    <3>3. Sum(f, s \ {x}) <= Sum(g, s \ {x})
      BY <1>2
    <3> QED BY <1>1, <3>2, <3>3
  <2> QED BY <2>1, <2>2
<1>3. F = {}
  <2> SUFFICES ASSUME F # {} PROVE FALSE
    OBVIOUS
  <2>1. \A s \in F : IsFiniteSet(s) /\ s \in SUBSET S
    BY <1>1
  <2> HIDE DEF F
  <2> QED BY <1>2, <2>1, SmallestSet
<1> QED BY <1>3

\* What holds of the empty set, and of a set once it holds of the set without
\* one element, holds of a finite set.
LEMMA SubsetInduction ==
    ASSUME NEW S, IsFiniteSet(S), NEW G, {} \in G,
           \A s \in SUBSET S : \A x \in s : s \ {x} \in G => s \in G
    PROVE  S \in G
<1> DEFINE F == {s \in SUBSET S : s \notin G}
<1>1. \A s \in F : IsFiniteSet(s)
  BY FS_Subset
<1>2. ASSUME NEW s \in F, \A x \in s : s \ {x} \notin F
      PROVE  FALSE
  <2>1. PICK x \in s : TRUE
    BY <1>2
  <2>2. s \ {x} \in G
    BY <1>2, <2>1
  <2> QED BY <1>2, <2>1, <2>2
<1>3. F = {}
  <2> SUFFICES ASSUME F # {} PROVE FALSE
    OBVIOUS
  <2> HIDE DEF F
  <2> QED BY <1>1, <1>2, SmallestSet
<1> QED BY <1>3

\* A sum does not depend on what its terms are called.
LEMMA SumRenamed ==
    ASSUME NEW A, IsFiniteSet(A), NEW h, \A x \in A, y \in A : h[x] = h[y] => x = y,
           NEW f, NEW g, \A x \in A : f[x] \in Int /\ f[x] = g[h[x]]
    PROVE  Sum(f, A) = Sum(g, {h[x] : x \in A})
<1> DEFINE Im(s) == {h[x] : x \in s}
           G == {s \in SUBSET A : Sum(f, s) = Sum(g, Im(s))}
<1>1. \A s \in SUBSET A : IsFiniteSet(s) /\ IsFiniteSet(Im(s))
  <2>1. \A s \in SUBSET A : IsFiniteSet(s)
    BY FS_Subset
  <2>2. ASSUME NEW s \in SUBSET A PROVE IsFiniteSet(Im(s))
    <3>1. [x \in s |-> h[x]] \in Surjection(s, Im(s))
      BY DEF Surjection
    <3> QED BY <2>1, <3>1, FS_Surjection
  <2> QED BY <2>1, <2>2
<1>2. {} \in G
  <2>1. Im({}) = {} /\ {} \in SUBSET A
    OBVIOUS
  <2>2. Sum(f, {}) = 0 /\ Sum(g, {}) = 0
    BY FS_EmptySet, SumElement
  <2> QED BY <2>1, <2>2
<1>3. ASSUME NEW s \in SUBSET A, NEW x \in s, s \ {x} \in G
      PROVE  s \in G
  <2>1. Im(s) \ {h[x]} = Im(s \ {x}) /\ h[x] \in Im(s)
    OBVIOUS
  <2>2. Sum(f, s) = f[x] + Sum(f, s \ {x})
    BY <1>1, SumElement
  <2>3. \A y \in Im(s) : g[y] \in Int
    OBVIOUS
  <2>4. Sum(g, Im(s)) = g[h[x]] + Sum(g, Im(s) \ {h[x]})
    <3> DEFINE T == Im(s)  k == h[x]
    <3>1. k \in T /\ IsFiniteSet(T) /\ \A y \in T : g[y] \in Int
      BY <1>1, <2>1, <2>3
    <3> HIDE DEF T, k
    <3>2. Sum(g, T) = g[k] + Sum(g, T \ {k})
      BY <3>1, SumElement
    <3> QED BY <3>2 DEF T, k
  <2>5. Sum(f, s \ {x}) = Sum(g, Im(s \ {x}))
    BY <1>3
  <2>6. Sum(f, s) = Sum(g, Im(s))
    BY <2>1, <2>2, <2>4, <2>5, Zenon
  <2> QED BY <2>6
<1>4. A \in G
  <2> HIDE DEF G
  <2> QED BY <1>2, <1>3, SubsetInduction
<1> QED BY <1>4

\* Sums are linear.
LEMMA SumMix ==
    ASSUME NEW S, IsFiniteSet(S), NEW f, NEW g, NEW d, NEW p \in Int, NEW q \in Int,
           \A x \in S : f[x] \in Int /\ g[x] \in Int /\ d[x] = f[x] * p - g[x] * q
    PROVE  Sum(d, S) = Sum(f, S) * p - Sum(g, S) * q
<1> DEFINE G == {s \in SUBSET S : Sum(d, s) = Sum(f, s) * p - Sum(g, s) * q}
<1>1. \A s \in SUBSET S : IsFiniteSet(s)
  BY FS_Subset
<1>2. \A x \in S : d[x] \in Int /\ f[x] \in Int /\ g[x] \in Int
  OBVIOUS
<1>3. \A s \in SUBSET S : Sum(d, s) \in Int /\ Sum(f, s) \in Int /\ Sum(g, s) \in Int
  <2>1. \A s \in SUBSET S : Sum(d, s) \in Int
    BY <1>1, <1>2, SumElement
  <2>2. \A s \in SUBSET S : Sum(f, s) \in Int
    BY <1>1, <1>2, SumElement
  <2>3. \A s \in SUBSET S : Sum(g, s) \in Int
    BY <1>1, <1>2, SumElement
  <2> QED BY <2>1, <2>2, <2>3
<1>4. {} \in G
  <2>1. Sum(d, {}) = 0 /\ Sum(f, {}) = 0 /\ Sum(g, {}) = 0
    BY FS_EmptySet, SumElement
  <2>2. 0 * p - 0 * q = 0
    OBVIOUS
  <2> QED BY <2>1, <2>2
<1>5. ASSUME NEW s \in SUBSET S, NEW x \in s, s \ {x} \in G
      PROVE  s \in G
  <2> DEFINE r == s \ {x}
  <2>1. Sum(d, s) = d[x] + Sum(d, r)
    BY <1>1, <1>2, SumElement
  <2>2. Sum(f, s) = f[x] + Sum(f, r)
    BY <1>1, <1>2, SumElement
  <2>3. Sum(g, s) = g[x] + Sum(g, r)
    BY <1>1, <1>2, SumElement
  <2>4. Sum(d, r) = Sum(f, r) * p - Sum(g, r) * q /\ d[x] = f[x] * p - g[x] * q
    BY <1>5
  <2>5. Sum(f, r) \in Int /\ Sum(g, r) \in Int /\ f[x] \in Int /\ g[x] \in Int
    BY <1>2, <1>3
  <2>6. \A a \in Int, b \in Int, c \in Int, e \in Int :
           (a * p - b * q) + (c * p - e * q) = (a + c) * p - (b + e) * q
    OBVIOUS
  <2> HIDE DEF r
  <2>7. d[x] + Sum(d, r) = (f[x] + Sum(f, r)) * p - (g[x] + Sum(g, r)) * q
    BY <2>4, <2>5, <2>6
  <2>8. Sum(d, s) = Sum(f, s) * p - Sum(g, s) * q
    BY <2>1, <2>2, <2>3, <2>7
  <2> QED BY <2>8
<1>6. S \in G
  <2> HIDE DEF G
  <2> QED BY <1>4, <1>5, SubsetInduction
<1> QED BY <1>6

\* A sum of terms that are 0 outside T is the sum over T.
LEMMA SumWithin ==
    ASSUME NEW S, IsFiniteSet(S), NEW T \in SUBSET S, NEW f, NEW g,
           \A x \in S : f[x] \in Int, \A x \in S \ T : f[x] = 0, \A x \in T : f[x] = g[x]
    PROVE  Sum(f, S) = Sum(g, T)
<1> DEFINE R == S \ T
           z == [x \in R |-> 0]
<1>1. IsFiniteSet(T) /\ IsFiniteSet(R) /\ T \cap R = {} /\ T \cup R = S
  BY FS_Subset
<1>2. Sum(f, S) = Sum(f, T) + Sum(f, R)
  BY <1>1, SumParts
<1>3. Sum(f, T) = Sum(g, T) /\ Sum(f, T) \in Int
  <2>1. Sum(f, T) = Sum(g, T)
    BY <1>1, SumSame
  <2>2. Sum(f, T) \in Int
    BY <1>1, SumElement
  <2> QED BY <2>1, <2>2
<1>4. Sum(f, R) = 0
  <2>1. \A x \in R : f[x] \in Int /\ f[x] = f[x] * 0 - f[x] * 0
    OBVIOUS
  <2>2. Sum(f, R) = Sum(f, R) * 0 - Sum(f, R) * 0
    BY <1>1, <2>1, SumMix
  <2>3. Sum(f, R) \in Int
    BY <1>1, <2>1, SumElement
  <2> QED BY <2>2, <2>3
<1> QED BY <1>2, <1>3, <1>4

\* The size of a sum is at most the sum of the sizes.
LEMMA SumSize ==
    ASSUME NEW S, IsFiniteSet(S), NEW d, NEW e,
           \A x \in S : /\ d[x] \in Int /\ e[x] \in Int
                        /\ d[x] <= e[x] /\ -d[x] <= e[x]
    PROVE  /\ Sum(d, S) \in Int /\ Sum(e, S) \in Int
           /\ Sum(d, S) <= Sum(e, S) /\ -Sum(d, S) <= Sum(e, S)
<1> DEFINE n == [x \in S |-> d[x] * 0 - d[x] * 1]
<1>1. Sum(d, S) \in Int /\ Sum(e, S) \in Int
  <2>1. Sum(d, S) \in Int
    BY SumElement
  <2>2. Sum(e, S) \in Int
    BY SumElement
  <2> QED BY <2>1, <2>2
<1>2. Sum(d, S) <= Sum(e, S)
  BY SumGrows
<1>3. Sum(n, S) = Sum(d, S) * 0 - Sum(d, S) * 1
  <2>1. \A x \in S : d[x] \in Int /\ n[x] = d[x] * 0 - d[x] * 1
    OBVIOUS
  <2> HIDE DEF n
  <2> QED BY <2>1, SumMix
<1>4. Sum(n, S) <= Sum(e, S)
  <2>1. \A x \in S : n[x] \in Int /\ e[x] \in Int /\ n[x] <= e[x]
    OBVIOUS
  <2> HIDE DEF n
  <2> QED BY <2>1, SumGrows
<1> QED BY <1>1, <1>2, <1>3, <1>4

\* Terms that cancel out: those of a part add up to half the sizes at most.
LEMMA SumHalf ==
    ASSUME NEW S, IsFiniteSet(S), NEW T \in SUBSET S, NEW d, NEW e, Sum(d, S) = 0,
           \A x \in S : /\ d[x] \in Int /\ e[x] \in Int
                        /\ d[x] <= e[x] /\ -d[x] <= e[x]
    PROVE  /\ Sum(d, T) \in Int /\ Sum(e, S) \in Int
           /\ 2 * Sum(d, T) <= Sum(e, S) /\ -(2 * Sum(d, T)) <= Sum(e, S)
<1> DEFINE R == S \ T
<1>1. IsFiniteSet(T) /\ IsFiniteSet(R) /\ T \cap R = {} /\ T \cup R = S
  BY FS_Subset
<1>2. Sum(d, S) = Sum(d, T) + Sum(d, R)
  BY <1>1, SumParts
<1>3. Sum(e, S) = Sum(e, T) + Sum(e, R)
  BY <1>1, SumParts
<1>4. /\ Sum(d, T) \in Int /\ Sum(e, T) \in Int
      /\ Sum(d, T) <= Sum(e, T) /\ -Sum(d, T) <= Sum(e, T)
  BY <1>1, SumSize
<1>5. /\ Sum(d, R) \in Int /\ Sum(e, R) \in Int
      /\ Sum(d, R) <= Sum(e, R) /\ -Sum(d, R) <= Sum(e, R)
  <2>1. \A x \in R : /\ d[x] \in Int /\ e[x] \in Int
                     /\ d[x] <= e[x] /\ -d[x] <= e[x]
    OBVIOUS
  <2> HIDE DEF R
  <2> QED BY <1>1, <2>1, SumSize
<1> HIDE DEF R
<1> DEFINE dt == Sum(d, T)  dr == Sum(d, R)  et == Sum(e, T)  er == Sum(e, R)
<1>6. /\ dt + dr = 0 /\ Sum(e, S) = et + er
      /\ {dt, dr, et, er} \subseteq Int
      /\ dt <= et /\ -dt <= et /\ dr <= er /\ -dr <= er
  BY <1>2, <1>3, <1>4, <1>5
<1> HIDE DEF dt, dr, et, er
<1>7. 2 * dt <= et + er /\ -(2 * dt) <= et + er /\ et + er \in Int
  BY <1>6
<1> QED BY <1>4, <1>6, <1>7 DEF dt

\* Counts: a part adds up to no more than the whole.
LEMMA SumPartOf ==
    ASSUME NEW S, IsFiniteSet(S), NEW T \in SUBSET S, NEW f, \A x \in S : f[x] \in Nat
    PROVE  Sum(f, T) \in Nat /\ Sum(f, S) \in Nat /\ Sum(f, T) <= Sum(f, S)
<1>1. ASSUME NEW R \in SUBSET S PROVE Sum(f, R) \in Nat
  <2> DEFINE z == [x \in R |-> 0]
  <2>1. IsFiniteSet(R)
    BY FS_Subset
  <2>2. \A x \in R : z[x] \in Int /\ f[x] \in Int /\ z[x] <= f[x] /\ z[x] = z[x] * 0 - z[x] * 0
    OBVIOUS
  <2> HIDE DEF z
  <2>3. Sum(z, R) <= Sum(f, R)
    BY <2>1, <2>2, SumGrows
  <2>4. Sum(z, R) \in Int
    BY <2>1, <2>2, SumElement
  <2>5. Sum(f, R) \in Int
    BY <2>1, <2>2, SumElement
  <2>6. Sum(z, R) = Sum(z, R) * 0 - Sum(z, R) * 0
    BY <2>1, <2>2, SumMix
  <2> QED BY <2>3, <2>4, <2>5, <2>6
<1> DEFINE R == S \ T
<1>2. /\ IsFiniteSet(T) /\ IsFiniteSet(R) /\ T \cap R = {} /\ T \cup R = S
      /\ \A x \in T \cup R : f[x] \in Int
  BY FS_Subset
<1>3. Sum(f, S) = Sum(f, T) + Sum(f, R)
  BY <1>2, SumParts
<1>4. Sum(f, T) \in Nat /\ Sum(f, R) \in Nat /\ Sum(f, S) \in Nat
  BY <1>1
<1> QED BY <1>3, <1>4

-----------------------------------------------------------------------------
(* Lists of claims                                                         *)

\* The shares of a list, by place.
SharesOf(claims) == [i \in DOMAIN claims |-> claims[i].share]

\* What is folded along a list is the sum over its places.
LEMMA TotalShareIsSum ==
    ASSUME NEW C, NEW claims \in Seq(C), \A i \in DOMAIN claims : claims[i].share \in Int
    PROVE  IsFiniteSet(DOMAIN claims) /\ TotalShare(claims) = Sum(SharesOf(claims), DOMAIN claims)
<1> DEFINE S == DOMAIN claims
           f == SharesOf(claims)
           pk == [s \in SUBSET S |-> IF s = {} THEN S ELSE CHOOSE x \in s : TRUE]
           it == CHOOSE iter : iter = [s \in SUBSET S |->
                     IF s = {} THEN 0
                     ELSE claims[CHOOSE x \in s : TRUE].share + iter[s \ {CHOOSE x \in s : TRUE}]]
<1>1. IsFiniteSet(S)
  <2>1. S = 1..Len(claims) /\ Len(claims) \in Nat
    OBVIOUS
  <2> QED BY <2>1, FS_Interval
<1>2. \A x \in S : f[x] \in Int
  BY DEF SharesOf
<1>3. pk \in Picks(S)
  <2>1. \A s \in SUBSET S : s # {} => (CHOOSE x \in s : TRUE) \in s
    OBVIOUS
  <2> QED BY <2>1 DEF Picks
<1>4. PICK jt : Folding(f, pk, S, jt)
  <2> HIDE DEF pk, f, S
  <2> QED BY <1>1, <1>3, FoldingExists
<1>5. \A iter : Folding(f, pk, S, iter) <=>
          iter = [s \in SUBSET S |->
                     IF s = {} THEN 0
                     ELSE claims[CHOOSE x \in s : TRUE].share + iter[s \ {CHOOSE x \in s : TRUE}]]
  BY DEF Folding, SharesOf
<1>6. Folding(f, pk, S, it)
  <2>1. \E iter : iter = [s \in SUBSET S |->
                     IF s = {} THEN 0
                     ELSE claims[CHOOSE x \in s : TRUE].share + iter[s \ {CHOOSE x \in s : TRUE}]]
    <3>1. jt = [s \in SUBSET S |->
                     IF s = {} THEN 0
                     ELSE claims[CHOOSE x \in s : TRUE].share + jt[s \ {CHOOSE x \in s : TRUE}]]
      BY <1>4 DEF Folding, SharesOf
    <3> QED BY <3>1, Zenon
  <2>2. it = [s \in SUBSET S |->
                     IF s = {} THEN 0
                     ELSE claims[CHOOSE x \in s : TRUE].share + it[s \ {CHOOSE x \in s : TRUE}]]
    BY <2>1
  <2> HIDE DEF f, pk, it
  <2> QED BY <1>5, <2>2
<1>7. TotalShare(claims) = it[S]
  BY DEF TotalShare, FoldSeq, FoldFunction, FoldFunctionOnSet, MapThenFoldSet
<1> HIDE DEF f, pk, it, S
<1>8. Sum(f, S) = it[S]
  BY <1>1, <1>2, <1>3, <1>6, SumFolds
<1> QED BY <1>1, <1>7, <1>8 DEF S, f

\* Two lists, one after the other.
LEMMA Joined ==
    ASSUME NEW A, NEW s \in Seq(A), NEW t \in Seq(A)
    PROVE  /\ s \o t \in Seq(A)
           /\ \A i \in DOMAIN s : i \in DOMAIN (s \o t) /\ (s \o t)[i] = s[i]
           /\ ToSet(s \o t) = ToSet(s) \cup ToSet(t)
<1> DEFINE st == s \o t  a == Len(s)  b == Len(t)
<1>1. /\ a \in Nat /\ b \in Nat /\ DOMAIN s = 1..a /\ DOMAIN t = 1..b /\ DOMAIN st = 1..(a + b)
      /\ \A i \in 1..(a + b) : st[i] = IF i <= a THEN s[i] ELSE t[i - a]
  OBVIOUS
<1> HIDE DEF st, a, b
<1>2. \A i \in DOMAIN s : i \in DOMAIN st /\ st[i] = s[i]
  BY <1>1
<1>3. ASSUME NEW i \in DOMAIN t PROVE a + i \in DOMAIN st /\ st[a + i] = t[i]
  <2>1. i \in Int /\ 1 <= i /\ i <= b
    BY <1>1
  <2>2. a + i \in 1..(a + b) /\ ~(a + i <= a) /\ (a + i) - a = i
    BY <1>1, <2>1
  <2> QED BY <1>1, <2>2
<1>4. ASSUME NEW i \in DOMAIN st
      PROVE  (i \in DOMAIN s /\ st[i] = s[i]) \/ (i - a \in DOMAIN t /\ st[i] = t[i - a])
  BY <1>1
<1>5. ToSet(st) = ToSet(s) \cup ToSet(t)
  BY <1>2, <1>3, <1>4 DEF ToSet
<1>6. st \in Seq(A)
  BY DEF st
<1> QED BY <1>2, <1>5, <1>6 DEF st

-----------------------------------------------------------------------------
(* A receipt that stands                                                   *)

\* Its claims are the three groups', the proven ones first.
LEMMA ClaimsOf ==
    ASSUME NEW r, ReceiptStands(r)
    PROVE  /\ Claims(r) \in Seq(ClaimSet(r))
           /\ r.proven \in Seq(ToSet(r.proven))
           /\ \A i \in DOMAIN r.proven : i \in DOMAIN Claims(r) /\ Claims(r)[i] = r.proven[i]
           /\ ClaimSet(r) = ToSet(r.proven) \cup ToSet(r.regret) \cup ToSet(r.unproven)
<1> DEFINE p == r.proven  q == r.regret  u == r.unproven
           P == ToSet(p)  Q == ToSet(q)  U == ToSet(u)
           A == P \cup Q \cup U
           pq == p \o q
<1>1. p \in Seq(P) /\ q \in Seq(Q) /\ u \in Seq(U)
  <2>1. \A g \in {"proven", "regret", "unproven"} : r[g] \in Seq(ToSet(r[g]))
    BY DEF ReceiptStands
  <2> QED BY <2>1
<1>2. Claims(r) = pq \o u
  BY DEF Claims
<1> HIDE DEF p, q, u, pq
<1>3. p \in Seq(A) /\ q \in Seq(A) /\ u \in Seq(A)
  <2>1. P \subseteq A /\ Q \subseteq A /\ U \subseteq A
    OBVIOUS
  <2> HIDE DEF P, Q, U, A
  <2>2. ASSUME NEW s, NEW T, s \in Seq(T), T \subseteq A PROVE s \in Seq(A)
    BY <2>2
  <2> QED BY <1>1, <2>1, <2>2
<1> HIDE DEF A
<1>4. /\ pq \in Seq(A) /\ ToSet(pq) = P \cup Q
      /\ \A i \in DOMAIN p : i \in DOMAIN pq /\ pq[i] = p[i]
  BY <1>3, Joined DEF pq
<1>5. /\ pq \o u \in Seq(A) /\ ToSet(pq \o u) = (P \cup Q) \cup U
      /\ \A i \in DOMAIN pq : i \in DOMAIN (pq \o u) /\ (pq \o u)[i] = pq[i]
  <2>1. /\ pq \o u \in Seq(A) /\ ToSet(pq \o u) = ToSet(pq) \cup ToSet(u)
        /\ \A i \in DOMAIN pq : i \in DOMAIN (pq \o u) /\ (pq \o u)[i] = pq[i]
    BY <1>3, <1>4, Joined
  <2> QED BY <1>4, <2>1
<1>6. ClaimSet(r) = A
  BY <1>2, <1>5 DEF ClaimSet, A
<1>7. \A i \in DOMAIN p : i \in DOMAIN Claims(r) /\ Claims(r)[i] = p[i]
  <2> HIDE DEF P, Q, U
  <2> QED BY <1>2, <1>4, <1>5
<1>8. Claims(r) \in Seq(ClaimSet(r))
  BY <1>2, <1>5, <1>6
<1> QED BY <1>1, <1>6, <1>7, <1>8 DEF p, q, u, A

\* Every claim follows from its counts, and each cluster has one claim.
LEMMA ClaimsStand ==
    ASSUME NEW r, ReceiptStands(r)
    PROVE  /\ r.bar \in Int \X Int
           /\ \A c \in ClaimSet(r) : ClaimStands(c)
           /\ \A i, j \in DOMAIN Claims(r) :
                 Claims(r)[i].cluster = Claims(r)[j].cluster => i = j
           /\ TotalShare(Claims(r)) <= 10
BY DEF ReceiptStands, NamedOnce, IsInjective, CheckBar

\* Claims of the same cluster are the same claim.
LEMMA OneClaimEach ==
    ASSUME NEW r, ReceiptStands(r), NEW c \in ClaimSet(r), NEW d \in ClaimSet(r),
           c.cluster = d.cluster
    PROVE  c = d
BY ClaimsStand DEF ClaimSet, ToSet

\* As many places as claims.
LEMMA NoneTwice ==
    ASSUME NEW r, ReceiptStands(r)
    PROVE  Len(Claims(r)) = Cardinality(ClaimSet(r))
<1> DEFINE s == Claims(r)  n == Len(s)
<1>1. s \in Seq(ClaimSet(r)) /\ n \in Nat /\ DOMAIN s = 1..n
  BY ClaimsOf
<1>2. ClaimSet(r) = {s[i] : i \in 1..n}
  BY <1>1 DEF ClaimSet, ToSet
<1>3. \A i, j \in 1..n : s[i] = s[j] => i = j
  BY <1>1, ClaimsStand
<1> HIDE DEF s, n
<1>4. [i \in 1..n |-> s[i]] \in Bijection(1..n, ClaimSet(r))
  BY <1>2, <1>3 DEF Bijection, Injection, Surjection, IsInjective
<1>5. IsFiniteSet(1..n) /\ Cardinality(1..n) = n
  BY <1>1, FS_Interval
<1> QED BY <1>4, <1>5, FS_Bijection DEF ExistsBijection, s, n

-----------------------------------------------------------------------------
(* The mix of a receipt and the mix of today                               *)

\* The shares a receipt states, by cluster, as check() reads them.
MixOf(r) == [c \in {x.cluster : x \in ClaimSet(r)} |->
                (CHOOSE x \in ClaimSet(r) : x.cluster = c).share]

\* The clusters of a list of claims.
NamesOf(claims) == {claims[i].cluster : i \in DOMAIN claims}

\* The mix has the share that a claim states.
LEMMA MixIs ==
    ASSUME NEW r, ReceiptStands(r), NEW i \in DOMAIN Claims(r)
    PROVE  /\ Claims(r)[i].cluster \in DOMAIN MixOf(r)
           /\ Claims(r)[i].share \in 0..10
           /\ MixOf(r)[Claims(r)[i].cluster] = Claims(r)[i].share
<1> DEFINE x == Claims(r)[i]
           y == CHOOSE z \in ClaimSet(r) : z.cluster = x.cluster
<1>1. x \in ClaimSet(r)
  BY DEF ClaimSet, ToSet
<1>2. y \in ClaimSet(r) /\ y.cluster = x.cluster
  BY <1>1
<1>3. y = x
  BY <1>1, <1>2, OneClaimEach
<1>4. x.share \in 0..10
  BY <1>1, ClaimsStand DEF ClaimStands, CheckShare
<1>5. x.cluster \in {z.cluster : z \in ClaimSet(r)}
  BY <1>1
<1>6. MixOf(r)[x.cluster] = y.share /\ x.cluster \in DOMAIN MixOf(r)
  BY <1>5 DEF MixOf
<1> QED BY <1>3, <1>4, <1>6

\* The shares of a list of a receipt's claims add up to their part of the mix.
LEMMA PartOfMix ==
    ASSUME NEW r, ReceiptStands(r), NEW C, NEW claims \in Seq(C),
           \A i \in DOMAIN claims : i \in DOMAIN Claims(r) /\ Claims(r)[i] = claims[i]
    PROVE  /\ IsFiniteSet(NamesOf(claims)) /\ NamesOf(claims) \subseteq DOMAIN MixOf(r)
           /\ TotalShare(claims) = Sum(MixOf(r), NamesOf(claims))
<1> DEFINE S == DOMAIN claims
           h == [i \in S |-> claims[i].cluster]
           f == SharesOf(claims)
           g == MixOf(r)
<1>1. \A i \in S : claims[i].cluster \in DOMAIN g /\ claims[i].share \in Int
                   /\ g[claims[i].cluster] = claims[i].share
  <2> SUFFICES ASSUME NEW i \in S
               PROVE  claims[i].cluster \in DOMAIN g /\ claims[i].share \in Int
                      /\ g[claims[i].cluster] = claims[i].share
    OBVIOUS
  <2>1. i \in DOMAIN Claims(r) /\ Claims(r)[i] = claims[i]
    OBVIOUS
  <2> HIDE DEF g
  <2>2. Claims(r)[i].share \in Int
    BY <2>1, MixIs
  <2> QED BY <2>1, <2>2, MixIs DEF g
<1>2. IsFiniteSet(S) /\ TotalShare(claims) = Sum(f, S)
  BY <1>1, TotalShareIsSum
<1>3. \A i \in S, j \in S : h[i] = h[j] => i = j
  BY ClaimsStand
<1>4. \A i \in S : f[i] \in Int /\ f[i] = g[h[i]]
  BY <1>1 DEF SharesOf
<1>5. NamesOf(claims) = {h[i] : i \in S}
  BY DEF NamesOf
<1>6. IsFiniteSet(NamesOf(claims))
  <2>1. h \in Surjection(S, NamesOf(claims))
    BY <1>5 DEF Surjection
  <2> QED BY <1>2, <2>1, FS_Surjection
<1>7. NamesOf(claims) \subseteq DOMAIN g
  BY <1>1 DEF NamesOf
<1> HIDE DEF S, h, f, g
<1>8. Sum(f, S) = Sum(g, {h[i] : i \in S})
  BY <1>2, <1>3, <1>4, SumRenamed
<1> QED BY <1>2, <1>5, <1>6, <1>7, <1>8 DEF g

\* The distance of two mixes is a sum over their clusters.
LEMMA DistanceIsSum ==
    ASSUME NEW before, IsFiniteSet(DOMAIN before), \A k \in DOMAIN before : before[k] \in Int,
           NEW now, IsFiniteSet(DOMAIN now), \A k \in DOMAIN now : now[k] \in Int
    PROVE  LET keys == DOMAIN before \cup DOMAIN now
               a == Sum(before, DOMAIN before)  b == Sum(now, DOMAIN now)
               was(k) == IF k \in DOMAIN before THEN before[k] ELSE 0
               is(k) == IF k \in DOMAIN now THEN now[k] ELSE 0
               e == [k \in keys |-> Abs(was(k) * b - is(k) * a)]
           IN  MovedTooFar(before, now) <=> a > 0 /\ b > 0 /\ 5 * Sum(e, keys) > 2 * a * b
<1> DEFINE keys == DOMAIN before \cup DOMAIN now
           a == Sum(before, DOMAIN before)  b == Sum(now, DOMAIN now)
           was(k) == IF k \in DOMAIN before THEN before[k] ELSE 0
           is(k) == IF k \in DOMAIN now THEN now[k] ELSE 0
           Apart(k) == Abs(was(k) * b - is(k) * a)
           e == [k \in keys |-> Apart(k)]
           pk == [s \in SUBSET keys |-> IF s = {} THEN keys ELSE CHOOSE z \in s : TRUE]
           it == CHOOSE iter : iter = [s \in SUBSET keys |->
                     IF s = {} THEN 0
                     ELSE Apart(CHOOSE z \in s : TRUE) + iter[s \ {CHOOSE z \in s : TRUE}]]
<1>1. MovedTooFar(before, now) <=> a > 0 /\ b > 0 /\ 5 * it[keys] > 2 * a * b
  BY DEF MovedTooFar, SumOver, Sum, MapThenSumSet, MapThenFoldSet
<1>0. IsFiniteSet(keys) /\ a \in Int /\ b \in Int
  BY FS_Union, SumElement
<1>2. \A k \in keys : e[k] \in Int
  <2>1. \A k \in keys : was(k) \in Int /\ is(k) \in Int
    OBVIOUS
  <2> HIDE DEF keys, a, b, was, is
  <2> QED BY <1>0, <2>1 DEF Abs
<1>3. pk \in Picks(keys)
  <2>1. \A s \in SUBSET keys : s # {} => (CHOOSE z \in s : TRUE) \in s
    OBVIOUS
  <2> QED BY <2>1 DEF Picks
<1>4. PICK jt : Folding(e, pk, keys, jt)
  <2> HIDE DEF pk, e, keys
  <2> QED BY <1>0, <1>3, FoldingExists
<1>5. \A k \in keys : e[k] = Apart(k)
  OBVIOUS
<1> HIDE DEF Apart, e, keys
<1>6. \A iter : Folding(e, pk, keys, iter) <=>
          iter = [s \in SUBSET keys |->
                     IF s = {} THEN 0
                     ELSE Apart(CHOOSE z \in s : TRUE) + iter[s \ {CHOOSE z \in s : TRUE}]]
  <2> SUFFICES ASSUME NEW iter
               PROVE  Folding(e, pk, keys, iter) <=>
                        iter = [s \in SUBSET keys |->
                           IF s = {} THEN 0
                           ELSE Apart(CHOOSE z \in s : TRUE) + iter[s \ {CHOOSE z \in s : TRUE}]]
    OBVIOUS
  <2>1. \A s \in SUBSET keys : s # {} =>
            pk[s] = (CHOOSE z \in s : TRUE) /\ e[CHOOSE z \in s : TRUE] = Apart(CHOOSE z \in s : TRUE)
    BY <1>3, <1>5 DEF Picks
  <2> HIDE DEF pk
  <2> DEFINE L == [s \in SUBSET keys |-> IF s = {} THEN 0 ELSE e[pk[s]] + iter[s \ {pk[s]}]]
             R == [s \in SUBSET keys |->
                     IF s = {} THEN 0
                     ELSE Apart(CHOOSE z \in s : TRUE) + iter[s \ {CHOOSE z \in s : TRUE}]]
  <2>2. \A s \in SUBSET keys : L[s] = R[s]
    <3>1. ASSUME NEW s \in SUBSET keys, s # {} PROVE L[s] = R[s]
      <4>1. L[s] = e[pk[s]] + iter[s \ {pk[s]}]
        BY <3>1
      <4>2. R[s] = Apart(CHOOSE z \in s : TRUE) + iter[s \ {CHOOSE z \in s : TRUE}]
        BY <3>1
      <4> QED BY <2>1, <3>1, <4>1, <4>2, Zenon
    <3> QED BY <3>1
  <2>3. L = R
    BY <2>2
  <2> HIDE DEF R
  <2>4. Folding(e, pk, keys, iter) <=> iter = R
    BY <2>3 DEF Folding
  <2> QED BY <2>4 DEF R
<1>7. Folding(e, pk, keys, it)
  <2>1. jt = [s \in SUBSET keys |->
                     IF s = {} THEN 0
                     ELSE Apart(CHOOSE z \in s : TRUE) + jt[s \ {CHOOSE z \in s : TRUE}]]
    BY <1>4, <1>6
  <2>2. it = [s \in SUBSET keys |->
                     IF s = {} THEN 0
                     ELSE Apart(CHOOSE z \in s : TRUE) + it[s \ {CHOOSE z \in s : TRUE}]]
    BY <2>1, Zenon
  <2> HIDE DEF pk, it
  <2> QED BY <1>6, <2>2
<1> HIDE DEF pk, it
<1>8. Sum(e, keys) = it[keys]
  BY <1>0, <1>2, <1>3, <1>7, SumFolds
<1> QED BY <1>1, <1>8 DEF e, keys, Apart

-----------------------------------------------------------------------------
(* What a reader accepts                                                   *)

\* Counts are not clearly above the bar and clearly below it.
LEMMA NotBoth ==
    ASSUME NEW p \in Int, NEW t \in Int, NEW bar \in Int \X Int,
           ClearlyAbove(p, t, bar), ClearlyBelow(p, t, bar)
    PROVE  FALSE
<1>1. bar[2] * p - bar[1] * t > 0 /\ bar[2] * p - bar[1] * t < 0
  BY DEF ClearlyAbove, ClearlyBelow, At!ClearlyAbove, At!ClearlyBelow, At!Distance, Counts
<1>2. bar[2] * p - bar[1] * t \in Int
  OBVIOUS
<1> QED BY <1>1, <1>2

\* A claim is filed by its own counts.
LEMMA FiledByCounts ==
    ASSUME NEW r, ReceiptStands(r)
    PROVE  /\ \A c \in ToSet(r.proven) : ClearlyAbove(c.passed, c.total, r.bar)
           /\ \A c \in ClaimSet(r) :
                  ClearlyBelow(c.passed, c.total, r.bar) => c \in ToSet(r.regret)
<1>0. ClaimSet(r) = ToSet(r.proven) \cup ToSet(r.regret) \cup ToSet(r.unproven)
  BY ClaimsOf
<1>1. \A c \in ClaimSet(r) : /\ c.passed \in Int /\ c.total \in Int /\ c.total >= 0
                             /\ c.total > 0 => c.interval[1] = c.passed /\ c.interval[2] = c.total
  BY ClaimsStand DEF ClaimStands
<1>2. r.bar \in Int \X Int
  BY ClaimsStand
<1>3. /\ \A c \in ToSet(r.proven) : Belongs(c, r.bar) = "proven"
      /\ \A c \in ToSet(r.regret) : Belongs(c, r.bar) = "regret"
      /\ \A c \in ToSet(r.unproven) : Belongs(c, r.bar) = "unproven"
  <2>1. \A g \in {"proven", "regret", "unproven"} : \A c \in ToSet(r[g]) : Belongs(c, r.bar) = g
    BY DEF ReceiptStands, FiledWhereItBelongs
  <2> QED BY <2>1
<1>4. ASSUME NEW c \in ClaimSet(r)
      PROVE  /\ Belongs(c, r.bar) = "proven" => ClearlyAbove(c.passed, c.total, r.bar)
             /\ ClearlyBelow(c.passed, c.total, r.bar) => Belongs(c, r.bar) = "regret"
  <2>1. CASE c.total = 0
    <3>1. Belongs(c, r.bar) = "unproven"
      BY <2>1 DEF Belongs
    <3>2. ~ClearlyBelow(c.passed, c.total, r.bar)
      BY <2>1 DEF ClearlyBelow
    <3> QED BY <3>1, <3>2
  <2>2. CASE c.total # 0
    <3>1. c.interval[1] = c.passed /\ c.interval[2] = c.total
      BY <1>1, <2>2
    <3>2. ~(ClearlyAbove(c.passed, c.total, r.bar) /\ ClearlyBelow(c.passed, c.total, r.bar))
      BY <1>1, <1>2, NotBoth
    <3>3. /\ ClearlyAbove(c.interval[1], c.interval[2], r.bar) <=> ClearlyAbove(c.passed, c.total, r.bar)
          /\ ClearlyBelow(c.interval[1], c.interval[2], r.bar) <=> ClearlyBelow(c.passed, c.total, r.bar)
      BY <3>1
    <3> QED BY <2>2, <3>2, <3>3 DEF Belongs
  <2> QED BY <2>1, <2>2
<1> QED BY <1>0, <1>3, <1>4

\* The proven share is at most the whole, which is at most all the traffic.
LEMMA MovableWithinAll ==
    ASSUME NEW r, ReceiptStands(r)
    PROVE  /\ ReceiptMovable(r) = Sum(MixOf(r), NamesOf(r.proven))
           /\ IsFiniteSet(DOMAIN MixOf(r))
           /\ \A c \in DOMAIN MixOf(r) : MixOf(r)[c] \in Nat
           /\ NamesOf(r.proven) \subseteq DOMAIN MixOf(r)
           /\ TotalShare(Claims(r)) = Sum(MixOf(r), DOMAIN MixOf(r))
           /\ ReceiptMovable(r) \in Int /\ TotalShare(Claims(r)) \in Int
           /\ ReceiptMovable(r) <= 10
<1> DEFINE g == MixOf(r)  N == NamesOf(Claims(r))  P == NamesOf(r.proven)
<1>1. /\ IsFiniteSet(N) /\ N \subseteq DOMAIN g
      /\ TotalShare(Claims(r)) = Sum(g, N)
  <2>1. Claims(r) \in Seq(ClaimSet(r))
    BY ClaimsOf
  <2>2. \A i \in DOMAIN Claims(r) : i \in DOMAIN Claims(r) /\ Claims(r)[i] = Claims(r)[i]
    OBVIOUS
  <2> QED BY <2>1, <2>2, PartOfMix
<1>2. IsFiniteSet(P) /\ P \subseteq DOMAIN g /\ TotalShare(r.proven) = Sum(g, P)
  <2>1. r.proven \in Seq(ToSet(r.proven))
    BY ClaimsOf
  <2>2. \A i \in DOMAIN r.proven : i \in DOMAIN Claims(r) /\ Claims(r)[i] = r.proven[i]
    BY ClaimsOf
  <2> QED BY <2>1, <2>2, PartOfMix
<1>3. DOMAIN g = N
  BY DEF MixOf, NamesOf, ClaimSet, ToSet
<1>4. \A c \in DOMAIN g : g[c] \in Nat
  <2>1. ASSUME NEW i \in DOMAIN Claims(r) PROVE g[Claims(r)[i].cluster] \in Nat
    BY MixIs
  <2>2. N = {Claims(r)[i].cluster : i \in DOMAIN Claims(r)}
    BY DEF NamesOf
  <2> HIDE DEF g, N
  <2> QED BY <1>3, <2>1, <2>2
<1> HIDE DEF g, N, P
<1>5. Sum(g, P) \in Int /\ Sum(g, N) \in Int /\ Sum(g, P) <= Sum(g, N)
  BY <1>1, <1>2, <1>3, <1>4, SumPartOf
<1>6. TotalShare(Claims(r)) <= 10
  BY ClaimsStand
<1>7. ReceiptMovable(r) = Sum(g, P)
  BY <1>2 DEF ReceiptMovable
<1>8. ReceiptMovable(r) <= 10 /\ ReceiptMovable(r) \in Int /\ TotalShare(Claims(r)) \in Int
  BY <1>1, <1>5, <1>6, <1>7
<1>9. IsFiniteSet(DOMAIN g)
  BY <1>1, <1>3
<1> QED BY <1>1, <1>2, <1>3, <1>4, <1>7, <1>8, <1>9 DEF g, P

-----------------------------------------------------------------------------
\* Nothing is read before something was written, and what is accepted stands and
\* is what the digest in the file covers.
Taken ==
    /\ doc # None => work # None
    /\ read # None => doc # None
    /\ Accepted => ReceiptStands(read) /\ DigestOf(read) = doc.digest

\* What from_json lets through.
LEMMA LetThrough ==
    ASSUME NEW d, ~IsRefused(FromJson(d))
    PROVE  ReceiptStands(FromJson(d)) /\ DigestOf(FromJson(d)) = d.digest
<1>1. \A why : IsRefused(Refused(why))
  BY DEF IsRefused, Refused
<1>2. FromJson(d) = d.receipt /\ ReceiptStands(d.receipt) /\ d.digest = DigestOf(d.receipt)
  BY <1>1 DEF FromJson
<1> QED BY <1>2

\* No step accepts what does not stand, or changes the file once it was read.
LEMMA TakenStep == Taken /\ [Next]_vars => Taken'
<1> SUFFICES ASSUME Taken, [Next]_vars PROVE Taken'
  OBVIOUS
<1>1. ASSUME Prove PROVE Taken'
  <2>1. PICK w \in Works : work' = w
    BY <1>1 DEF Prove
  <2>2. work' # None
    BY <2>1, EvidenceAssumption
  <2>3. read' = None
    BY <1>1 DEF Prove, Taken
  <2> QED BY <2>2, <2>3 DEF Taken, Accepted
<1>2. ASSUME Edit PROVE Taken'
  <2>1. read' = None /\ work' # None
    BY <1>2 DEF Edit, Taken
  <2> QED BY <2>1 DEF Taken, Accepted
<1>3. ASSUME Read PROVE Taken'
  <2>1. read' = FromJson(doc) /\ doc' = doc /\ work' = work /\ doc # None
    BY <1>3 DEF Read
  <2>2. Accepted' => ~IsRefused(FromJson(doc))
    BY <2>1 DEF Accepted
  <2>3. Accepted' => ReceiptStands(read') /\ DigestOf(read') = doc.digest
    BY <2>1, <2>2, LetThrough
  <2> QED BY <2>1, <2>3 DEF Taken
<1>4. ASSUME UNCHANGED <<work, doc, read>> PROVE Taken'
  BY <1>4 DEF Taken, Accepted
<1>5. Reproduce \/ Guard \/ UNCHANGED vars => UNCHANGED <<work, doc, read>>
  BY DEF Reproduce, Guard, vars
<1> QED BY <1>1, <1>2, <1>3, <1>4, <1>5 DEF Next

\* So it holds in every state.
LEMMA TakenAlways == Spec => []Taken
<1>1. Init => Taken
  BY DEF Init, Taken, Accepted
<1> QED BY <1>1, TakenStep, PTL DEF Spec

\* Whatever was done to the file, a receipt that a reader accepts follows from
\* its own counts: one claim for each cluster, only clusters whose counts clear
\* the bar under "proven", and a digest that covers what was read
\* (Receipt.from_json and the two __post_init__s).
THEOREM AcceptedStands == Spec => []AcceptedFollowsFromCounts
<1>1. Taken => AcceptedFollowsFromCounts
  <2> SUFFICES ASSUME Taken, Accepted
               PROVE  AcceptedFollowsFromCounts
    BY DEF AcceptedFollowsFromCounts
  <2>1. ReceiptStands(read) /\ DigestOf(read) = doc.digest
    BY DEF Taken
  <2>2. \A c, d \in ClaimSet(read) : c.cluster = d.cluster => c = d
    BY <2>1, OneClaimEach
  <2>3. Len(Claims(read)) = Cardinality(ClaimSet(read))
    BY <2>1, NoneTwice
  <2>4. /\ \A c \in ToSet(read.proven) : ClearlyAbove(c.passed, c.total, read.bar)
        /\ \A c \in ClaimSet(read) :
               ClearlyBelow(c.passed, c.total, read.bar) => c \in ToSet(read.regret)
    BY <2>1, FiledByCounts
  <2>5. ReceiptMovable(read) <= 10
    BY <2>1, MovableWithinAll
  <2> QED BY <2>1, <2>2, <2>3, <2>4, <2>5 DEF AcceptedFollowsFromCounts
<1> QED BY <1>1, TakenAlways, PTL

-----------------------------------------------------------------------------
(* What the guard says                                                     *)

\* Mixes that are not further apart than the limit: the shares of any of the
\* clusters differ by a fifth at most.
LEMMA NearEnough ==
    ASSUME NEW before, IsFiniteSet(DOMAIN before), \A c \in DOMAIN before : before[c] \in Nat,
           NEW now, IsFiniteSet(DOMAIN now), \A c \in DOMAIN now : now[c] \in Nat,
           ~MovedTooFar(before, now),
           NEW part \in SUBSET (DOMAIN before), Sum(before, DOMAIN before) > 0
    PROVE  5 * Abs(Sum(now, DOMAIN now \cap part) * Sum(before, DOMAIN before)
                    - Sum(before, part) * Sum(now, DOMAIN now))
             <= Sum(before, DOMAIN before) * Sum(now, DOMAIN now)
<1> DEFINE keys == DOMAIN before \cup DOMAIN now
           a == Sum(before, DOMAIN before)  b == Sum(now, DOMAIN now)
           was == [k \in keys |-> IF k \in DOMAIN before THEN before[k] ELSE 0]
           is == [k \in keys |-> IF k \in DOMAIN now THEN now[k] ELSE 0]
           on == Sum(now, DOMAIN now \cap part)  mov == Sum(before, part)
           d == [k \in keys |-> was[k] * b - is[k] * a]
           e == [k \in keys |-> Abs(was[k] * b - is[k] * a)]
<1>1. IsFiniteSet(keys) /\ part \subseteq keys /\ IsFiniteSet(part)
      /\ IsFiniteSet(DOMAIN now \cap part)
  BY FS_Union, FS_Subset
<1>2. a \in Int /\ b \in Int
  <2>1. \A c \in DOMAIN before : before[c] \in Int
    OBVIOUS
  <2>2. \A c \in DOMAIN now : now[c] \in Int
    OBVIOUS
  <2> QED BY <2>1, <2>2, SumElement
<1>3. \A k \in keys : was[k] \in Int /\ is[k] \in Int
  OBVIOUS
<1>4. Sum(was, keys) = a
  <2>1. /\ \A k \in keys \ DOMAIN before : was[k] = 0
        /\ \A k \in DOMAIN before : was[k] = before[k]
        /\ DOMAIN before \in SUBSET keys
    OBVIOUS
  <2> HIDE DEF was, keys
  <2> QED BY <1>1, <1>3, <2>1, SumWithin
<1>5. Sum(is, keys) = b
  <2>1. /\ \A k \in keys \ DOMAIN now : is[k] = 0
        /\ \A k \in DOMAIN now : is[k] = now[k]
        /\ DOMAIN now \in SUBSET keys
    OBVIOUS
  <2> HIDE DEF is, keys
  <2> QED BY <1>1, <1>3, <2>1, SumWithin
<1>6. Sum(was, part) = mov
  <2>1. \A k \in part : was[k] \in Int /\ was[k] = before[k]
    OBVIOUS
  <2> HIDE DEF was, keys
  <2> QED BY <1>1, <2>1, SumSame
<1>7. Sum(is, part) = on
  <2>1. /\ \A k \in part : is[k] \in Int
        /\ \A k \in part \ (DOMAIN now \cap part) : is[k] = 0
        /\ \A k \in DOMAIN now \cap part : is[k] = now[k]
        /\ DOMAIN now \cap part \in SUBSET part
    OBVIOUS
  <2> HIDE DEF is, keys
  <2> QED BY <1>1, <2>1, SumWithin
<1>8. on \in Int /\ mov \in Int
  <2>1. \A k \in DOMAIN now \cap part : now[k] \in Int
    OBVIOUS
  <2>2. \A k \in part : before[k] \in Int
    OBVIOUS
  <2> QED BY <1>1, <2>1, <2>2, SumElement
<1>9. MovedTooFar(before, now) <=> a > 0 /\ b > 0 /\ 5 * Sum(e, keys) > 2 * a * b
  <2>1. \A k \in DOMAIN before : before[k] \in Int
    OBVIOUS
  <2>2. \A k \in DOMAIN now : now[k] \in Int
    OBVIOUS
  <2>3. \A k \in keys : was[k] = (IF k \in DOMAIN before THEN before[k] ELSE 0)
                        /\ is[k] = (IF k \in DOMAIN now THEN now[k] ELSE 0)
    OBVIOUS
  <2> DEFINE f == [k \in keys |-> Abs((IF k \in DOMAIN before THEN before[k] ELSE 0) * b
                                         - (IF k \in DOMAIN now THEN now[k] ELSE 0) * a)]
  <2>4. MovedTooFar(before, now) <=> a > 0 /\ b > 0 /\ 5 * Sum(f, keys) > 2 * a * b
    BY <2>1, <2>2, DistanceIsSum
  <2>5. e = f
    BY <2>3
  <2> QED BY <2>4, <2>5
<1>10. Sum(d, part) = mov * b - on * a
  <2>1. \A k \in part : was[k] \in Int /\ is[k] \in Int /\ d[k] = was[k] * b - is[k] * a
    BY <1>1, <1>3
  <2> HIDE DEF was, is, d, a, b, on, mov
  <2>2. Sum(d, part) = Sum(was, part) * b - Sum(is, part) * a
    BY <1>1, <1>2, <2>1, SumMix
  <2> QED BY <1>6, <1>7, <2>2
<1>11. Sum(d, keys) = 0
  <2>1. \A k \in keys : was[k] \in Int /\ is[k] \in Int /\ d[k] = was[k] * b - is[k] * a
    BY <1>3
  <2> HIDE DEF was, is, d, a, b, keys
  <2>2. Sum(d, keys) = Sum(was, keys) * b - Sum(is, keys) * a
    BY <1>1, <1>2, <2>1, SumMix
  <2> QED BY <1>2, <1>4, <1>5, <2>2
<1>12. \A k \in keys : /\ d[k] \in Int /\ e[k] \in Int
                       /\ d[k] <= e[k] /\ -d[k] <= e[k]
  <2>1. \A k \in keys : /\ d[k] \in Int
                        /\ e[k] = IF d[k] < 0 THEN -d[k] ELSE d[k]
    BY <1>2, <1>3 DEF Abs
  <2> HIDE DEF d, e
  <2> QED BY <2>1
<1>13. /\ Sum(d, part) \in Int /\ Sum(e, keys) \in Int
       /\ 2 * Sum(d, part) <= Sum(e, keys) /\ -(2 * Sum(d, part)) <= Sum(e, keys)
  <2> HIDE DEF d, e, keys
  <2> QED BY <1>1, <1>11, <1>12, SumHalf
<1>14. b \in Nat /\ on \in Nat /\ on <= b
  BY SumPartOf
<1>15. /\ a > 0 /\ ~(b > 0 /\ 5 * Sum(e, keys) > 2 * a * b)
  BY <1>9
<1> HIDE DEF a, b, on, mov, d, e, keys
<1> DEFINE q == on * a - mov * b
<1>16. q \in Int /\ q = -Sum(d, part)
  BY <1>2, <1>8, <1>10
<1>17. 5 * Abs(q) <= a * b
  <2>1. CASE b = 0
    <3>1. on = 0
      BY <1>14, <2>1
    <3>2. q = 0 /\ a * b = 0
      BY <1>2, <1>8, <2>1, <3>1
    <3> QED BY <3>2 DEF Abs
  <2>2. CASE b # 0
    <3>1. 5 * Sum(e, keys) <= 2 * (a * b) /\ a * b \in Int
      BY <1>2, <1>13, <1>14, <1>15, <2>2
    <3> DEFINE s == Sum(e, keys)  w == Sum(d, part)  ab == a * b
    <3>2. /\ s \in Int /\ w \in Int /\ ab \in Int /\ 5 * s <= 2 * ab
          /\ 2 * w <= s /\ -(2 * w) <= s /\ q = -w
      BY <1>13, <1>16, <3>1
    <3> HIDE DEF s, w, ab, q
    <3>3. 5 * Abs(q) <= ab
      BY <3>2 DEF Abs
    <3> QED BY <3>3 DEF ab
  <2> QED BY <2>1, <2>2
<1> QED BY <1>17 DEF a, b, on, mov, q

\* What check() says of the traffic it was shown.
LEMMA CheckSees ==
    ASSUME NEW r, NEW today, NEW fingerprints, NEW traffic, NEW available, traffic # <<>>
    PROVE  LET found == Check(r, today, fingerprints, traffic, available)
           IN  /\ MovedTooFar(MixOf(r), traffic) => "traffic_moved" \in found
               /\ UncoveredTooMuch(DOMAIN MixOf(r), traffic) => "traffic_uncovered" \in found
BY DEF Check, MixOf

\* A guard saw one of the worlds, with the receipt that was accepted.
GuardSaw ==
    guard # None =>
        /\ Accepted /\ guard.world \in Worlds
        /\ guard.found = Check(read, guard.world.today, guard.world.fingerprints,
                               guard.world.traffic, guard.world.available)

\* No step takes the receipt away from under the findings.
LEMMA GuardSawStep == GuardSaw /\ [Next]_vars => GuardSaw'
<1> SUFFICES ASSUME GuardSaw, [Next]_vars PROVE GuardSaw'
  OBVIOUS
<1>1. ASSUME Guard PROVE GuardSaw'
  <2>1. PICK w \in Worlds :
            guard' = [world |-> w, found |-> Check(read, w.today, w.fingerprints,
                                                   w.traffic, w.available)]
    BY <1>1 DEF Guard
  <2>2. guard'.world = w /\ guard'.found = Check(read, w.today, w.fingerprints,
                                                 w.traffic, w.available)
    BY <2>1
  <2>3. Accepted /\ read' = read
    BY <1>1 DEF Guard
  <2> QED BY <2>2, <2>3 DEF GuardSaw, Accepted
<1>2. ASSUME UNCHANGED <<read, guard>> PROVE GuardSaw'
  BY <1>2 DEF GuardSaw, Accepted
<1>3. ASSUME read = None, UNCHANGED guard PROVE GuardSaw'
  BY <1>3 DEF GuardSaw, Accepted
<1>4. \/ Guard
      \/ UNCHANGED <<read, guard>>
      \/ read = None /\ UNCHANGED guard
  BY DEF Next, vars, Prove, Edit, Read, Reproduce
<1> QED BY <1>1, <1>2, <1>3, <1>4

\* So it holds in every state.
LEMMA GuardSawAlways == Spec => []GuardSaw
<1>1. Init => GuardSaw
  BY DEF Init, GuardSaw
<1> QED BY <1>1, GuardSawStep, PTL DEF Spec

\* While the guard holds a receipt valid on traffic it was shown, today's share
\* of the clusters proven is within a fifth of the share the receipt states, and
\* at most a tenth of the traffic is in clusters nothing was scored in (check,
\* traffic_distance and Proposal.action).
THEOREM SameMix == Spec => []HoldingMeansSameMix
<1>1. Taken /\ GuardSaw => HoldingMeansSameMix
  <2> SUFFICES ASSUME Taken, GuardSaw, guard # None,
                      guard.world.traffic # <<>>, Holds(guard.found)
               PROVE  HoldingMeansSameMix
    BY DEF HoldingMeansSameMix
  <2> DEFINE now == guard.world.traffic
             mix == MixOf(read)
             part == NamesOf(read.proven)
             a == TotalShare(Claims(read))  b == SumOver(now, DOMAIN now)
             on == SumOver(now, DOMAIN now \cap {c.cluster : c \in ToSet(read.proven)})
             scored == {c.cluster : c \in ClaimSet(read)}
  <2>1. /\ ReceiptStands(read) /\ guard.world \in Worlds
        /\ guard.found = Check(read, guard.world.today, guard.world.fingerprints,
                               guard.world.traffic, guard.world.available)
    BY DEF Taken, GuardSaw
  <2>2. IsFiniteSet(DOMAIN now) /\ \A c \in DOMAIN now : now[c] \in Nat
    BY <2>1, EvidenceAssumption
  <2>3. "traffic_moved" \notin guard.found /\ "traffic_uncovered" \notin guard.found
        /\ "model_changed" \notin guard.found /\ guard.found \cap Invalidating = {}
    BY DEF Holds, Invalidating
  <2>4. ~MovedTooFar(mix, now) /\ ~UncoveredTooMuch(DOMAIN mix, now)
    BY <2>1, <2>3, CheckSees
  <2>5. /\ ReceiptMovable(read) = Sum(mix, part)
        /\ IsFiniteSet(DOMAIN mix) /\ \A c \in DOMAIN mix : mix[c] \in Nat
        /\ part \in SUBSET (DOMAIN mix)
        /\ a = Sum(mix, DOMAIN mix)
    BY <2>1, MovableWithinAll
  <2>6. part = {c.cluster : c \in ToSet(read.proven)} /\ DOMAIN mix = scored
    BY DEF NamesOf, MixOf, ToSet
  <2>7. b = Sum(now, DOMAIN now) /\ on = Sum(now, DOMAIN now \cap part)
    BY <2>6 DEF SumOver, Sum
  <2>8. a > 0 => 5 * Abs(on * a - ReceiptMovable(read) * b) <= a * b
    <3> SUFFICES ASSUME a > 0
                 PROVE  5 * Abs(on * a - ReceiptMovable(read) * b) <= a * b
      OBVIOUS
    <3>1. Sum(mix, DOMAIN mix) > 0
      BY <2>5
    <3> HIDE DEF now, mix, part, a, b, on
    <3>2. 5 * Abs(Sum(now, DOMAIN now \cap part) * Sum(mix, DOMAIN mix)
                    - Sum(mix, part) * Sum(now, DOMAIN now))
             <= Sum(mix, DOMAIN mix) * Sum(now, DOMAIN now)
      BY <2>2, <2>4, <2>5, <3>1, NearEnough
    <3> QED BY <2>5, <2>7, <3>2, Zenon
  <2>9. 10 * SumOver(now, DOMAIN now \ scored) <= b
    <3>1. DOMAIN now \ scored \in SUBSET (DOMAIN now)
      OBVIOUS
    <3>2. SumOver(now, DOMAIN now \ scored) = Sum(now, DOMAIN now \ scored)
      BY DEF SumOver, Sum
    <3> HIDE DEF now, b, scored, mix
    <3>3. Sum(now, DOMAIN now \ scored) \in Nat /\ Sum(now, DOMAIN now) \in Nat
      BY <2>2, <3>1, SumPartOf
    <3>4. ~(10 * SumOver(now, DOMAIN now \ scored) > SumOver(now, DOMAIN now))
      BY <2>4, <2>6 DEF UncoveredTooMuch
    <3>5. SumOver(now, DOMAIN now) = b
      BY DEF b
    <3> QED BY <2>7, <3>2, <3>3, <3>4, <3>5
  <2>10. Proposed(guard.found) \notin {"re-prove now", "re-sample and re-prove"}
    <3> DEFINE found == guard.found
    <3> HIDE DEF found
    <3> QED BY <2>3 DEF Proposed, found
  <2> QED BY <2>8, <2>9, <2>10 DEF HoldingMeansSameMix
<1> QED BY <1>1, TakenAlways, GuardSawAlways, PTL

-----------------------------------------------------------------------------
(* What a reproduction says                                                *)

\* The same items in another order: h says where each of the new list's stood.
Reordered(items, again, h) ==
    /\ h \in Bijection(DOMAIN again, DOMAIN items)
    /\ \A k \in DOMAIN again : again[k] = items[h[k]]

\* A list reversed is that list in another order, and as long.
LEMMA ReverseReorders ==
    ASSUME NEW items, items \in Seq(Range(items))
    PROVE  /\ \E h : Reordered(items, Reverse(items), h)
           /\ Len(Reverse(items)) = Len(items) /\ (Reverse(items) = <<>> <=> items = <<>>)
           /\ IsFiniteSet(DOMAIN items)
<1> DEFINE n == Len(items)
           h == [k \in 1..n |-> (n - k) + 1]
<1>1. n \in Nat /\ DOMAIN items = 1..n
  OBVIOUS
<1>2. DOMAIN Reverse(items) = 1..n /\ \A k \in 1..n : Reverse(items)[k] = items[(n - k) + 1]
  BY DEF Reverse
<1>3. PICK s : s = Reverse(items)
  OBVIOUS
<1> HIDE DEF n
<1>4. h \in [1..n -> 1..n]
  BY <1>1
<1>5. \A j, k \in 1..n : h[j] = h[k] => j = k
  BY <1>1
<1>6. \A k \in 1..n : h[h[k]] = k
  BY <1>1, <1>4
<1>7. h \in Bijection(1..n, 1..n)
  <2> HIDE DEF h
  <2> QED BY <1>4, <1>5, <1>6 DEF Bijection, Injection, Surjection, IsInjective
<1>8. Reordered(items, s, h)
  BY <1>1, <1>2, <1>3, <1>7 DEF Reordered
<1>9. s = [k \in 1..n |-> items[(n - k) + 1]]
  BY <1>3 DEF Reverse, n
<1>10. Len(s) = n /\ (s = <<>> <=> items = <<>>)
  <2>1. \A k \in 1..n : (n - k) + 1 \in 1..n
    BY <1>1
  <2>2. s \in [1..n -> Range(items)]
    BY <1>1, <1>9, <2>1 DEF Range
  <2>3. s \in Seq(Range(items)) /\ DOMAIN s = 1..n
    BY <1>1, <2>2, SeqDef
  <2>4. Len(s) = n
    BY <1>1, <2>3
  <2> QED BY <1>1, <2>3, <2>4, EmptySeq DEF n
<1>11. IsFiniteSet(1..n)
  BY <1>1, FS_Interval
<1> QED BY <1>1, <1>3, <1>8, <1>10, <1>11 DEF n

\* As many places hold an item of a kind in either list.
LEMMA AsMany ==
    ASSUME NEW items, NEW again, NEW h, Reordered(items, again, h), IsFiniteSet(DOMAIN items),
           NEW S \in SUBSET DOMAIN items, NEW T, T = {k \in DOMAIN again : h[k] \in S}
    PROVE  Cardinality(T) = Cardinality(S)
<1>1. /\ h \in [DOMAIN again -> DOMAIN items]
      /\ \A j, k \in DOMAIN again : h[j] = h[k] => j = k
      /\ \A i \in DOMAIN items : \E k \in DOMAIN again : h[k] = i
  BY DEF Reordered, Bijection, Injection, Surjection, IsInjective
<1> DEFINE g == [k \in T |-> h[k]]
<1>2. g \in [T -> S]
  BY <1>1
<1>3. \A j, k \in T : g[j] = g[k] => j = k
  BY <1>1
<1>4. \A i \in S : \E k \in T : g[k] = i
  BY <1>1
<1>5. g \in Bijection(T, S)
  <2> HIDE DEF g
  <2> QED BY <1>2, <1>3, <1>4 DEF Bijection, Injection, Surjection, IsInjective
<1>6. IsFiniteSet(S)
  BY FS_Subset
<1>7. g \in Injection(T, S) /\ g \in Surjection(T, S)
  BY <1>5 DEF Bijection
<1> QED BY <1>6, <1>7, FS_Injection

\* The clusters asked about.
AskedOf(items) == {items[k].cluster : k \in DOMAIN items}

\* A run of the same items in another order scores the same.
LEMMA SameRun ==
    ASSUME NEW items, NEW again, NEW h, Reordered(items, again, h), IsFiniteSet(DOMAIN items),
           NEW shares, NEW judge
    PROVE  /\ AskedOf(again) = AskedOf(items)
           /\ Run(again, shares, judge) = Run(items, shares, judge)
           /\ EvalSetDigest(again) = EvalSetDigest(items)
<1>1. /\ \A k \in DOMAIN again : h[k] \in DOMAIN items /\ again[k] = items[h[k]]
      /\ \A i \in DOMAIN items : \E k \in DOMAIN again : h[k] = i
  BY DEF Reordered, Bijection, Surjection
<1>2. {again[k].cluster : k \in DOMAIN again} = {items[k].cluster : k \in DOMAIN items}
  BY <1>1
<1>3. ASSUME NEW c
      PROVE  /\ Cardinality({k \in DOMAIN again : again[k].cluster = c})
                = Cardinality({k \in DOMAIN items : items[k].cluster = c})
             /\ Observations(again, c, judge) = Observations(items, c, judge)
  <2>1. Cardinality({k \in DOMAIN again : again[k].cluster = c})
          = Cardinality({k \in DOMAIN items : items[k].cluster = c})
    <3> DEFINE S == {k \in DOMAIN items : items[k].cluster = c}
               T == {k \in DOMAIN again : again[k].cluster = c}
    <3>1. T = {k \in DOMAIN again : h[k] \in S}
      BY <1>1
    <3>2. S \in SUBSET DOMAIN items
      OBVIOUS
    <3> HIDE DEF S, T
    <3>3. Cardinality(T) = Cardinality(S)
      BY <3>1, <3>2, AsMany
    <3> QED BY <3>3 DEF S, T
  <2>2. {again[k].prompt : k \in {n \in DOMAIN again : again[n].cluster = c}}
          = {items[k].prompt : k \in {n \in DOMAIN items : items[n].cluster = c}}
    BY <1>1
  <2>3. ASSUME NEW p
        PROVE  Merged(again, Copies(again, c, p), judge) = Merged(items, Copies(items, c, p), judge)
    <3> DEFINE S == Copies(items, c, p)
               T == Copies(again, c, p)
    <3>1. \A k \in T : h[k] \in S /\ again[k] = items[h[k]]
      BY <1>1 DEF Copies
    <3>2. \A i \in S : \E k \in T : h[k] = i
      BY <1>1 DEF Copies
    <3> HIDE DEF S, T
    <3>3. {ItemScores(again[k], judge) : k \in T} = {ItemScores(items[k], judge) : k \in S}
      BY <3>1, <3>2
    <3> QED BY <3>3 DEF Merged, S, T
  <2>4. PICK P : P = {items[k].prompt : k \in {n \in DOMAIN items : items[n].cluster = c}}
    OBVIOUS
  <2>5. /\ Observations(again, c, judge)
             = {<<p, Merged(again, Copies(again, c, p), judge)>> : p \in P}
        /\ Observations(items, c, judge)
             = {<<p, Merged(items, Copies(items, c, p), judge)>> : p \in P}
    BY <2>2, <2>4 DEF Observations
  <2>6. Observations(again, c, judge) = Observations(items, c, judge)
    BY <2>3, <2>5
  <2> QED BY <2>1, <2>6
<1>4. Run(again, shares, judge) = Run(items, shares, judge)
  <2> DEFINE asked == {items[k].cluster : k \in DOMAIN items}
             share(c) == IF c \in DOMAIN shares THEN shares[c] ELSE 0
             A == {ScoreCluster(c, share(c), Observations(again, c, judge),
                                Cardinality({n \in DOMAIN again : again[n].cluster = c})) :
                       c \in asked \cup Uncovered(shares, asked)}
             B == {ScoreCluster(c, share(c), Observations(items, c, judge),
                                Cardinality({n \in DOMAIN items : items[n].cluster = c})) :
                       c \in asked \cup Uncovered(shares, asked)}
  <2>1. A = B
    <3> HIDE DEF asked, share
    <3> QED BY <1>3
  <2>2. Run(items, shares, judge) = B
    BY DEF Run
  <2>3. Run(again, shares, judge) = A
    BY <1>2 DEF Run
  <2> QED BY <2>1, <2>2, <2>3
<1>5. EvalSetDigest(again) = EvalSetDigest(items)
  <2> DEFINE q(s, k) == <<s[k].id, s[k].cluster, s[k].prompt>>
             Q == {q(items, k) : k \in DOMAIN items}
  <2>1. {q(again, k) : k \in DOMAIN again} = Q
    <3>1. \A k \in DOMAIN again : q(again, k) = q(items, h[k])
      BY <1>1
    <3> HIDE DEF q
    <3> QED BY <1>1, <3>1
  <2>2. ASSUME NEW x
        PROVE  Cardinality({k \in DOMAIN again : q(again, k) = x})
                 = Cardinality({k \in DOMAIN items : q(items, k) = x})
    <3> DEFINE S == {k \in DOMAIN items : q(items, k) = x}
               T == {k \in DOMAIN again : q(again, k) = x}
    <3>1. T = {k \in DOMAIN again : h[k] \in S}
      BY <1>1
    <3>2. S \in SUBSET DOMAIN items
      OBVIOUS
    <3> HIDE DEF S, T
    <3>3. Cardinality(T) = Cardinality(S)
      BY <3>1, <3>2, AsMany
    <3> QED BY <3>3 DEF S, T
  <2>3. EvalSetDigest(items) = [x \in Q |-> Cardinality({k \in DOMAIN items : q(items, k) = x})]
    BY DEF EvalSetDigest
  <2>4. EvalSetDigest(again)
          = [x \in {q(again, k) : k \in DOMAIN again} |->
                Cardinality({k \in DOMAIN again : q(again, k) = x})]
    BY DEF EvalSetDigest
  <2> HIDE DEF q
  <2> QED BY <2>1, <2>2, <2>3, <2>4
<1> QED BY <1>2, <1>4, <1>5 DEF AskedOf

\* Two records that say the same, day and build apart.
SaysTheSame(r, s) == Undated(r) = Undated(s) /\ \A f \in Undated(r) : r[f] = s[f]

\* The suite says the same of the same items in another order, on another day.
LEMMA SameSuite ==
    ASSUME NEW items, items \in Seq(Range(items)), NEW shares, NEW judge, NEW bar,
           NEW captures, NEW meta, NEW day, NEW build
    PROVE  SaysTheSame(Suite(items, shares, judge, bar, meta, captures),
                       Suite(Reverse(items), shares, judge, bar,
                             [meta EXCEPT !.issued = day, !.tool_version = build], captures))
<1>1. PICK again : again = Reverse(items)
  OBVIOUS
<1>2. PICK later : later = [meta EXCEPT !.issued = day, !.tool_version = build]
  OBVIOUS
<1>3. /\ DOMAIN later = DOMAIN meta
      /\ \A f \in DOMAIN meta \ {"issued", "tool_version"} : later[f] = meta[f]
  BY <1>2
<1>4. PICK h : Reordered(items, again, h)
  BY <1>1, ReverseReorders
<1>5. Len(again) = Len(items) /\ (again = <<>> <=> items = <<>>) /\ IsFiniteSet(DOMAIN items)
  BY <1>1, ReverseReorders
<1>6. PICK asked : asked = {items[k].cluster : k \in DOMAIN items}
  OBVIOUS
<1>7. PICK scores : scores = Run(items, shares, judge)
  OBVIOUS
<1>8. PICK digest : digest = EvalSetDigest(items)
  OBVIOUS
<1>9. /\ asked = {again[k].cluster : k \in DOMAIN again}
      /\ scores = Run(again, shares, judge) /\ digest = EvalSetDigest(again)
  <2>1. /\ AskedOf(again) = AskedOf(items)
        /\ Run(again, shares, judge) = Run(items, shares, judge)
        /\ EvalSetDigest(again) = EvalSetDigest(items)
    BY <1>4, <1>5, SameRun
  <2> QED BY <1>6, <1>7, <1>8, <2>1 DEF AskedOf
<1>10. PICK drawn : drawn = IF captures > 0 THEN captures
                            ELSE IF Uncovered(shares, asked) # {} THEN 0 ELSE Len(items)
  OBVIOUS
<1> DEFINE Outcome(m) ==
        IF items = <<>> THEN Refused("empty eval set")
        ELSE IF ~CheckBar(bar) THEN Refused("bar")
        ELSE IF \E c \in DOMAIN shares : ~CheckShare(shares[c]) THEN Refused("share")
        ELSE IF ~SharesFit(scores) THEN Refused("shares")
        ELSE IF WeightedScore(scores) = None THEN Refused("nothing to weigh")
        ELSE Issue(scores, bar, m, digest, drawn)
<1>11. Suite(items, shares, judge, bar, meta, captures) = Outcome(meta)
  BY <1>6, <1>7, <1>8, <1>10 DEF Suite
<1>12. Suite(again, shares, judge, bar, later, captures) = Outcome(later)
  BY <1>5, <1>9, <1>10 DEF Suite
<1>13. SaysTheSame(Issue(scores, bar, meta, digest, drawn),
                   Issue(scores, bar, later, digest, drawn))
  <2>1. PICK core : \A m : Issue(scores, bar, m, digest, drawn) =
                       [f \in DOMAIN core \cup DOMAIN m |->
                            IF f \in DOMAIN core THEN core[f] ELSE m[f]]
    BY DEF Issue
  <2>2. PICK a, b : /\ a = Issue(scores, bar, meta, digest, drawn)
                    /\ b = Issue(scores, bar, later, digest, drawn)
    OBVIOUS
  <2>3. /\ DOMAIN a = DOMAIN core \cup DOMAIN meta
        /\ \A f \in DOMAIN a : a[f] = IF f \in DOMAIN core THEN core[f] ELSE meta[f]
    <3>1. a = [f \in DOMAIN core \cup DOMAIN meta |->
                    IF f \in DOMAIN core THEN core[f] ELSE meta[f]]
      BY <2>1, <2>2, Zenon
    <3> QED BY <3>1
  <2>4. /\ DOMAIN b = DOMAIN core \cup DOMAIN later
        /\ \A f \in DOMAIN b : b[f] = IF f \in DOMAIN core THEN core[f] ELSE later[f]
    <3>1. b = [f \in DOMAIN core \cup DOMAIN later |->
                    IF f \in DOMAIN core THEN core[f] ELSE later[f]]
      BY <2>1, <2>2, Zenon
    <3> QED BY <3>1
  <2>5. SaysTheSame(a, b)
    BY <1>3, <2>3, <2>4 DEF SaysTheSame, Undated
  <2> QED BY <2>2, <2>5
<1>14. SaysTheSame(Outcome(meta), Outcome(later))
  <2>1. \/ Outcome(meta) = Outcome(later)
        \/ /\ Outcome(meta) = Issue(scores, bar, meta, digest, drawn)
           /\ Outcome(later) = Issue(scores, bar, later, digest, drawn)
    OBVIOUS
  <2> HIDE DEF Outcome
  <2> QED BY <1>13, <2>1 DEF SaysTheSame
<1> QED BY <1>1, <1>2, <1>11, <1>12, <1>14

\* A reproduction finds nothing exactly if the two say the same.
LEMMA VerifySays ==
    ASSUME NEW r, NEW s
    PROVE  Verify(r, s) = {} <=> SaysTheSame(r, s)
<1>1. Verify(r, s) = {} <=> EvidenceDigest(r) = EvidenceDigest(s)
  BY DEF Verify
<1>2. /\ EvidenceDigest(r) = [f \in Undated(r) |-> r[f]]
      /\ EvidenceDigest(s) = [f \in Undated(s) |-> s[f]]
  BY DEF EvidenceDigest, Restrict, Undated
<1>3. ([f \in Undated(r) |-> r[f]] = [f \in Undated(s) |-> s[f]]) <=> SaysTheSame(r, s)
  <2>1. PICK D, E : D = Undated(r) /\ E = Undated(s)
    OBVIOUS
  <2>2. ([f \in D |-> r[f]] = [f \in E |-> s[f]]) => D = E /\ \A f \in D : r[f] = s[f]
    <3> SUFFICES ASSUME [f \in D |-> r[f]] = [f \in E |-> s[f]]
                 PROVE  D = E /\ \A f \in D : r[f] = s[f]
      OBVIOUS
    <3>1. PICK g : g = [f \in D |-> r[f]]
      OBVIOUS
    <3>2. DOMAIN g = D /\ DOMAIN g = E /\ \A f \in D : g[f] = r[f]
      BY <3>1
    <3>3. \A f \in E : g[f] = s[f]
      BY <3>1
    <3> QED BY <3>2, <3>3
  <2> QED BY <2>1, <2>2 DEF SaysTheSame
<1> QED BY <1>1, <1>2, <1>3

\* What was proved, and what its reproduction found of what was read.
Reproduced ==
    /\ doc # None => work \in Works
    /\ read # None => doc # None
    /\ verdict # None =>
          /\ read # None
          /\ \E when \in Reruns :
                verdict.found =
                    Verify(read, Suite(Reverse(work.items), work.shares, work.judge, work.bar,
                                       [work.meta EXCEPT !.issued = when[1],
                                                         !.tool_version = when[2]],
                                       work.captures))

\* A proof is made once, and what it is of stays.
LEMMA ReproducedStep == Reproduced /\ Taken /\ [Next]_vars => Reproduced'
<1> SUFFICES ASSUME Reproduced, Taken, [Next]_vars PROVE Reproduced'
  OBVIOUS
<1>1. CASE Prove
  <2>1. work' \in Works /\ UNCHANGED <<read, verdict>> /\ doc = None
    BY <1>1 DEF Prove, Taken
  <2> QED BY <2>1 DEF Reproduced
<1>2. CASE Edit
  BY <1>2 DEF Edit, Reproduced
<1>3. CASE Read
  BY <1>3 DEF Read, Reproduced
<1>4. CASE Reproduce
  <2>1. PICK when \in Reruns :
            verdict' = [found |-> Verify(read,
                Suite(Reverse(work.items), work.shares, work.judge, work.bar,
                      [work.meta EXCEPT !.issued = when[1], !.tool_version = when[2]],
                      work.captures))]
    BY <1>4 DEF Reproduce
  <2>2. UNCHANGED <<work, doc, read>> /\ read # None
    BY <1>4 DEF Reproduce, Accepted
  <2> QED BY <2>1, <2>2 DEF Reproduced
<1>5. CASE Guard \/ UNCHANGED vars
  BY <1>5 DEF Guard, vars, Reproduced
<1> QED BY <1>1, <1>2, <1>3, <1>4, <1>5 DEF Next

\* However often the file was edited and sealed again, a run of the same questions
\* and answers in another order, on another day and build, verifies it exactly if
\* what was read is what was issued, day and build apart (verify,
\* _evidence_digest and eval_set_digest).
THEOREM ReproductionsVerify == Spec => []ReproductionVerifies
<1>1. Init => Reproduced
  BY DEF Init, Reproduced
<1>2. Reproduced => ReproductionVerifies
  <2> SUFFICES ASSUME Reproduced, verdict # None PROVE ReproductionVerifies
    BY DEF ReproductionVerifies
  <2>1. PICK when \in Reruns :
            verdict.found = Verify(read, Suite(Reverse(work.items), work.shares, work.judge,
                work.bar, [work.meta EXCEPT !.issued = when[1], !.tool_version = when[2]],
                work.captures))
    BY DEF Reproduced
  <2>2. PICK issued, again :
            /\ issued = Suite(work.items, work.shares, work.judge, work.bar, work.meta,
                              work.captures)
            /\ again = Suite(Reverse(work.items), work.shares, work.judge, work.bar,
                  [work.meta EXCEPT !.issued = when[1], !.tool_version = when[2]], work.captures)
    OBVIOUS
  <2>3. work.items \in Seq(Range(work.items))
    BY EvidenceAssumption DEF Reproduced
  <2>4. SaysTheSame(issued, again)
    BY <2>2, <2>3, SameSuite
  <2>5. verdict.found = {} <=> SaysTheSame(read, again)
    BY <2>1, <2>2, VerifySays
  <2>6. SaysTheSame(read, again) <=> SaysTheSame(read, issued)
    BY <2>4 DEF SaysTheSame
  <2> QED BY <2>2, <2>5, <2>6 DEF ReproductionVerifies, SaysTheSame
<1> QED BY <1>1, <1>2, ReproducedStep, TakenAlways, PTL DEF Spec

-----------------------------------------------------------------------------
(* The scores of a run and the groups of a receipt                         *)

\* The elements of a list are those of a set.
Lists(s, S) == (\A k \in DOMAIN s : s[k] \in S) /\ (\A x \in S : \E k \in DOMAIN s : s[k] = x)

\* A list made of a set has its elements.
LEMMA Listed ==
    ASSUME NEW S, IsFiniteSet(S)
    PROVE  Lists(SetToSeq(S), S)
<1>0. PICK s : s = SetToSeq(S)
  OBVIOUS
<1> DEFINE n == Cardinality(S)
<1>1. n \in Nat /\ ExistsBijection(1..n, S)
  BY FS_CardinalityType
<1>2. \E f \in [1..n -> S] : IsInjective(f)
  <2>1. PICK f \in Bijection(1..n, S) : TRUE
    BY <1>1 DEF ExistsBijection
  <2>2. f \in [1..n -> S] /\ IsInjective(f)
    BY <2>1 DEF Bijection, Injection
  <2> QED BY <2>2
<1>3. s \in [1..n -> S] /\ IsInjective(s)
  BY <1>0, <1>2 DEF SetToSeq
<1>4. IsFiniteSet(1..n) /\ Cardinality(1..n) = n
  BY <1>1, FS_Interval
<1> HIDE DEF n
<1>5. s \in Injection(1..n, S)
  BY <1>3 DEF Injection
<1>6. s \in Surjection(1..n, S)
  BY <1>4, <1>5, FS_Injection DEF n
<1>7. \A x \in S : \E k \in 1..n : s[k] = x
  BY <1>6 DEF Surjection
<1> QED BY <1>0, <1>3, <1>7 DEF Lists

\* A run scores each cluster that was asked about or carries traffic, once.
LEMMA RunScores ==
    ASSUME NEW items, items \in Seq(Range(items)), NEW shares, IsFiniteSet(DOMAIN shares),
           NEW judge, NEW scores, scores = Run(items, shares, judge)
    PROVE  /\ IsFiniteSet(scores)
           /\ \A s \in scores : s.share = IF s.cluster \in DOMAIN shares
                                          THEN shares[s.cluster] ELSE 0
           /\ \A s, t \in scores : s.cluster = t.cluster => s = t
           /\ \A c \in DOMAIN shares : shares[c] > 0 => \E s \in scores : s.cluster = c
<1> DEFINE asked == AskedOf(items)
           share(c) == IF c \in DOMAIN shares THEN shares[c] ELSE 0
           scored(c) == ScoreCluster(c, share(c), Observations(items, c, judge),
                                     Cardinality({n \in DOMAIN items : items[n].cluster = c}))
           C == asked \cup Uncovered(shares, asked)
<1>1. scores = {scored(c) : c \in C}
  BY DEF Run, AskedOf
<1>2. IsFiniteSet(C)
  <2>1. IsFiniteSet(asked)
    <3>1. DOMAIN items = 1..Len(items) /\ Len(items) \in Nat
      OBVIOUS
    <3>2. IsFiniteSet(DOMAIN items)
      BY <3>1, FS_Interval
    <3>3. [k \in DOMAIN items |-> items[k].cluster] \in Surjection(DOMAIN items, asked)
      BY DEF Surjection, AskedOf
    <3> QED BY <3>2, <3>3, FS_Surjection
  <2>2. Uncovered(shares, asked) \subseteq DOMAIN shares
    BY DEF Uncovered
  <2>3. IsFiniteSet(Uncovered(shares, asked))
    BY <2>2, FS_Subset
  <2> QED BY <2>1, <2>3, FS_Union
<1>3. \A c \in DOMAIN shares : shares[c] > 0 => c \in C
  BY DEF Uncovered
<1>4. ASSUME NEW c
      PROVE  scored(c).cluster = c /\ scored(c).share = share(c)
  BY DEF ScoreCluster
<1> HIDE DEF C, scored
<1>5. IsFiniteSet(scores)
  <2>1. [c \in C |-> scored(c)] \in Surjection(C, scores)
    BY <1>1 DEF Surjection
  <2> QED BY <1>2, <2>1, FS_Surjection
<1>6. \A s, t \in scores : s.cluster = t.cluster => s = t
  BY <1>1, <1>4
<1>7. \A s \in scores : s.share = IF s.cluster \in DOMAIN shares THEN shares[s.cluster] ELSE 0
  BY <1>1, <1>4
<1>8. \A c \in DOMAIN shares : shares[c] > 0 => \E s \in scores : s.cluster = c
  BY <1>1, <1>3, <1>4
<1> QED BY <1>5, <1>6, <1>7, <1>8

\* The scores filed under some bands.
FiledUnder(scores, bar, bands) == {s \in scores : Band(s, bar) \in bands}

\* The claims of a list of scores are those of the scores listed.
LEMMA GroupIs ==
    ASSUME NEW S, NEW mine, Lists(mine, S), NEW bar, NEW g, DOMAIN g = DOMAIN mine,
           \A k \in DOMAIN mine : g[k] = ClaimOf(mine[k], bar)
    PROVE  ToSet(g) = {ClaimOf(s, bar) : s \in S}
<1>1. ASSUME NEW c \in ToSet(g) PROVE \E s \in S : c = ClaimOf(s, bar)
  BY <1>1 DEF ToSet, Lists
<1>2. ASSUME NEW s \in S PROVE ClaimOf(s, bar) \in ToSet(g)
  BY DEF ToSet, Lists
<1> QED BY <1>1, <1>2

\* What an issued receipt says of the scores.
Says(r, scores, bar) ==
    /\ ToSet(r.proven) = {ClaimOf(s, bar) : s \in FiledUnder(scores, bar, {"equivalent"})}
    /\ ToSet(r.regret) = {ClaimOf(s, bar) : s \in FiledUnder(scores, bar, {"regressed"})}
    /\ ToSet(r.unproven)
         = {ClaimOf(s, bar) : s \in FiledUnder(scores, bar, {"unknown", "unproven"})}

\* Every score is filed in the group of its band.
LEMMA IssuedSays ==
    ASSUME NEW scores, IsFiniteSet(scores), NEW bar, NEW meta, NEW evalset, NEW captures, NEW r,
           r = Issue(scores, bar, meta, evalset, captures)
    PROVE  Says(r, scores, bar) /\ r.captures = captures
<1> DEFINE mine(bands) == InOrder({s \in scores : Band(s, bar) \in bands})
           group(bands) == [k \in DOMAIN mine(bands) |-> ClaimOf(mine(bands)[k], bar)]
<1>1. \A bands : ToSet(group(bands)) = {ClaimOf(s, bar) : s \in FiledUnder(scores, bar, bands)}
  <2> SUFFICES ASSUME NEW bands
               PROVE  ToSet(group(bands)) = {ClaimOf(s, bar) : s \in FiledUnder(scores, bar, bands)}
    OBVIOUS
  <2>1. PICK S : S = FiledUnder(scores, bar, bands)
    OBVIOUS
  <2>2. IsFiniteSet(S) /\ mine(bands) = SetToSeq(S)
    <3>1. S \subseteq scores
      BY <2>1 DEF FiledUnder
    <3> QED BY <2>1, <3>1, FS_Subset DEF InOrder, FiledUnder
  <2>3. DOMAIN group(bands) = DOMAIN mine(bands)
        /\ \A k \in DOMAIN mine(bands) : group(bands)[k] = ClaimOf(mine(bands)[k], bar)
    OBVIOUS
  <2> HIDE DEF group, mine
  <2>4. Lists(mine(bands), S)
    BY <2>2, Listed
  <2> QED BY <2>1, <2>3, <2>4, GroupIs
<1>2. PICK p, q, u : /\ p = group({"equivalent"}) /\ q = group({"regressed"})
                     /\ u = group({"unknown", "unproven"})
  OBVIOUS
<1>3. PICK found : found = [bar |-> bar, eval_set |-> evalset, captures |-> captures,
                            proven |-> p, regret |-> q, unproven |-> u]
  OBVIOUS
<1>4. r = [f \in DOMAIN found \cup DOMAIN meta |-> IF f \in DOMAIN found THEN found[f] ELSE meta[f]]
  BY <1>2, <1>3 DEF Issue
<1> HIDE DEF group, mine
<1>5. /\ {"captures", "proven", "regret", "unproven"} \subseteq DOMAIN found
      /\ found.captures = captures /\ found.proven = p /\ found.regret = q /\ found.unproven = u
  BY <1>3
<1>6. r.captures = captures /\ r.proven = p /\ r.regret = q /\ r.unproven = u
  BY <1>4, <1>5
<1> QED BY <1>1, <1>2, <1>6 DEF Says

-----------------------------------------------------------------------------
(* What is issued, and the report                                          *)

\* What each score adds to the share that may be moved.
WorthOf(scores, bar) == [s \in scores |-> IF Band(s, bar) = "equivalent" THEN s.share ELSE 0]

\* The share that may be moved is a sum over the scores.
LEMMA MovableShareIsSum ==
    ASSUME NEW S, IsFiniteSet(S), NEW bar, \A s \in S : WorthOf(S, bar)[s] \in Int
    PROVE  MovableShare(S, bar) = Sum(WorthOf(S, bar), S)
<1> DEFINE Worth(s) == IF Band(s, bar) = "equivalent" THEN s.share ELSE 0
           e == WorthOf(S, bar)
           pk == [s \in SUBSET S |-> IF s = {} THEN S ELSE CHOOSE z \in s : TRUE]
           it == CHOOSE iter : iter = [s \in SUBSET S |->
                     IF s = {} THEN 0
                     ELSE Worth(CHOOSE z \in s : TRUE) + iter[s \ {CHOOSE z \in s : TRUE}]]
<1>1. MovableShare(S, bar) = it[S]
  BY DEF MovableShare, MapThenSumSet, MapThenFoldSet
<1>3. pk \in Picks(S)
  <2>1. \A s \in SUBSET S : s # {} => (CHOOSE z \in s : TRUE) \in s
    OBVIOUS
  <2> QED BY <2>1 DEF Picks
<1>4. PICK jt : Folding(e, pk, S, jt)
  <2> HIDE DEF pk, e
  <2> QED BY <1>3, FoldingExists
<1>5. \A k \in S : e[k] = Worth(k)
  BY DEF WorthOf
<1> HIDE DEF Worth, e
<1>6. \A iter : Folding(e, pk, S, iter) <=>
          iter = [s \in SUBSET S |->
                     IF s = {} THEN 0
                     ELSE Worth(CHOOSE z \in s : TRUE) + iter[s \ {CHOOSE z \in s : TRUE}]]
  <2> SUFFICES ASSUME NEW iter
               PROVE  Folding(e, pk, S, iter) <=>
                        iter = [s \in SUBSET S |->
                           IF s = {} THEN 0
                           ELSE Worth(CHOOSE z \in s : TRUE) + iter[s \ {CHOOSE z \in s : TRUE}]]
    OBVIOUS
  <2>1. \A s \in SUBSET S : s # {} =>
            /\ pk[s] = (CHOOSE z \in s : TRUE)
            /\ e[CHOOSE z \in s : TRUE] = Worth(CHOOSE z \in s : TRUE)
    BY <1>3, <1>5 DEF Picks
  <2> HIDE DEF pk
  <2> DEFINE L == [s \in SUBSET S |-> IF s = {} THEN 0 ELSE e[pk[s]] + iter[s \ {pk[s]}]]
             R == [s \in SUBSET S |->
                     IF s = {} THEN 0
                     ELSE Worth(CHOOSE z \in s : TRUE) + iter[s \ {CHOOSE z \in s : TRUE}]]
  <2>2. \A s \in SUBSET S : L[s] = R[s]
    <3>1. ASSUME NEW s \in SUBSET S, s # {} PROVE L[s] = R[s]
      <4>1. L[s] = e[pk[s]] + iter[s \ {pk[s]}]
        BY <3>1
      <4>2. R[s] = Worth(CHOOSE z \in s : TRUE) + iter[s \ {CHOOSE z \in s : TRUE}]
        BY <3>1
      <4> QED BY <2>1, <3>1, <4>1, <4>2, Zenon
    <3> QED BY <3>1
  <2>3. L = R
    BY <2>2
  <2> HIDE DEF R
  <2>4. Folding(e, pk, S, iter) <=> iter = R
    BY <2>3 DEF Folding
  <2> QED BY <2>4 DEF R
<1>7. Folding(e, pk, S, it)
  <2>1. jt = [s \in SUBSET S |->
                     IF s = {} THEN 0
                     ELSE Worth(CHOOSE z \in s : TRUE) + jt[s \ {CHOOSE z \in s : TRUE}]]
    BY <1>4, <1>6
  <2>2. it = [s \in SUBSET S |->
                     IF s = {} THEN 0
                     ELSE Worth(CHOOSE z \in s : TRUE) + it[s \ {CHOOSE z \in s : TRUE}]]
    BY <2>1, Zenon
  <2> HIDE DEF pk, it
  <2> QED BY <1>6, <2>2
<1> HIDE DEF pk, it
<1>8. Sum(e, S) = it[S]
  BY <1>3, <1>7, SumFolds DEF e
<1> QED BY <1>1, <1>8 DEF e

\* A claim is of its score.
LEMMA ClaimIs ==
    ASSUME NEW s, NEW bar
    PROVE  LET c == ClaimOf(s, bar)
           IN  c.cluster = s.cluster /\ c.share = s.share /\ c.total = s.total
BY DEF ClaimOf

\* The clusters of a list are those its claims name.
LEMMA NamesAre ==
    ASSUME NEW claims
    PROVE  NamesOf(claims) = Named(claims)
BY DEF NamesOf, Named, ToSet

\* Claims of a set of scores name its clusters.
LEMMA NamedBy ==
    ASSUME NEW claims, NEW S, NEW bar, ToSet(claims) = {ClaimOf(s, bar) : s \in S}
    PROVE  Named(claims) = {s.cluster : s \in S}
<1>1. \A s : ClaimOf(s, bar).cluster = s.cluster
  BY ClaimIs
<1> QED BY <1>1 DEF Named

\* A receipt of the scores splits the traffic as they do.
LEMMA SplitsAsScored ==
    ASSUME NEW r, ReceiptStands(r), NEW scores, IsFiniteSet(scores), NEW bar,
           \A s, t \in scores : s.cluster = t.cluster => s = t, Says(r, scores, bar)
    PROVE  /\ ReceiptMovable(r) = MovableShare(scores, bar)
           /\ Named(r.regret) = HybridFor(scores, bar).regret
           /\ HybridFor(scores, bar).unproven \subseteq Named(r.unproven)
<1> DEFINE E == FiledUnder(scores, bar, {"equivalent"})
           g == MixOf(r)
           f == WorthOf(scores, bar)
           h == [s \in E |-> s.cluster]
<1>1. \A s \in E : /\ s \in scores /\ Band(s, bar) = "equivalent"
                   /\ s.share \in Int /\ g[s.cluster] = s.share
  <2> SUFFICES ASSUME NEW s \in E
               PROVE  /\ s \in scores /\ Band(s, bar) = "equivalent"
                      /\ s.share \in Int /\ g[s.cluster] = s.share
    OBVIOUS
  <2>1. s \in scores /\ Band(s, bar) = "equivalent"
    BY DEF FiledUnder
  <2>2. ClaimOf(s, bar) \in ToSet(r.proven)
    BY DEF Says
  <2>3. PICK i \in DOMAIN Claims(r) : Claims(r)[i] = ClaimOf(s, bar)
    <3>1. ClaimOf(s, bar) \in ClaimSet(r)
      BY <2>2, ClaimsOf
    <3> QED BY <3>1 DEF ClaimSet, ToSet
  <2>4. /\ Claims(r)[i].share \in 0..10
        /\ g[Claims(r)[i].cluster] = Claims(r)[i].share
    BY MixIs
  <2>5. Claims(r)[i].cluster = s.cluster /\ Claims(r)[i].share = s.share
    BY <2>3, ClaimIs
  <2> HIDE DEF g, E
  <2> QED BY <2>1, <2>4, <2>5
<1>2. \A s \in scores : f[s] \in Int
  BY <1>1 DEF WorthOf, FiledUnder
<1>3. MovableShare(scores, bar) = Sum(f, scores)
  BY <1>2, MovableShareIsSum
<1>4. E \in SUBSET scores /\ IsFiniteSet(E)
  <2>1. E \in SUBSET scores
    BY DEF FiledUnder
  <2> QED BY <2>1, FS_Subset
<1>5. Sum(f, scores) = Sum(f, E)
  <2>1. /\ \A s \in scores \ E : f[s] = 0
        /\ \A s \in E : f[s] = f[s]
    BY DEF WorthOf, FiledUnder
  <2> HIDE DEF f, E
  <2> QED BY <1>2, <1>4, <2>1, SumWithin
<1>6. Sum(f, E) = Sum(g, {h[s] : s \in E})
  <2>1. \A s \in E : f[s] \in Int /\ f[s] = g[h[s]]
    BY <1>1 DEF WorthOf
  <2>2. \A s \in E, t \in E : h[s] = h[t] => s = t
    BY <1>1
  <2> HIDE DEF f, g, h, E
  <2> QED BY <1>4, <2>1, <2>2, SumRenamed
<1>7. {h[s] : s \in E} = NamesOf(r.proven)
  <2>1. Named(r.proven) = {s.cluster : s \in E}
    <3> HIDE DEF E
    <3> QED BY NamedBy DEF Says, E
  <2>2. {h[s] : s \in E} = {s.cluster : s \in E}
    OBVIOUS
  <2> QED BY <2>1, <2>2, NamesAre
<1>8. ReceiptMovable(r) = MovableShare(scores, bar)
  <2>1. ReceiptMovable(r) = Sum(g, NamesOf(r.proven))
    BY MovableWithinAll
  <2> HIDE DEF f, g, h, E
  <2> QED BY <1>3, <1>5, <1>6, <1>7, <2>1
<1>9. Named(r.regret) = {s.cluster : s \in FiledUnder(scores, bar, {"regressed"})}
      /\ Named(r.unproven) = {s.cluster : s \in FiledUnder(scores, bar, {"unknown", "unproven"})}
  BY NamedBy DEF Says
<1>10. Named(r.regret) = HybridFor(scores, bar).regret
  <2>1. {x \in scores : Band(x, bar) = "regressed"} = FiledUnder(scores, bar, {"regressed"})
    BY DEF FiledUnder
  <2> QED BY <1>9, <2>1 DEF HybridFor
<1>11. HybridFor(scores, bar).unproven \subseteq Named(r.unproven)
  <2>1. HybridFor(scores, bar).unproven
          = {s.cluster : s \in {x \in scores :
                       x.share > 0 /\ Band(x, bar) \in {"unproven", "unknown"}}}
    BY DEF HybridFor
  <2>2. {x \in scores : x.share > 0 /\ Band(x, bar) \in {"unproven", "unknown"}}
          \subseteq FiledUnder(scores, bar, {"unknown", "unproven"})
    BY DEF FiledUnder
  <2> QED BY <1>9, <2>1, <2>2
<1> QED BY <1>8, <1>10, <1>11

\* A cluster with traffic has a score, and its claim its share; without a graded
\* answer it is unproven.
LEMMA TrafficHasClaims ==
    ASSUME NEW r, ReceiptStands(r), NEW scores, NEW bar, Says(r, scores, bar),
           NEW s \in scores
    PROVE  \E c \in ClaimSet(r) : /\ c.cluster = s.cluster /\ c.share = s.share
                                  /\ c.total = 0 => c \in ToSet(r.unproven)
<1> DEFINE c == ClaimOf(s, bar)
<1>1. c.cluster = s.cluster /\ c.share = s.share /\ c.total = s.total
  BY ClaimIs
<1>2. Band(s, bar) \in {"equivalent", "regressed", "unknown", "unproven"}
      /\ (s.total = 0 => Band(s, bar) = "unknown")
  BY DEF Band
<1> HIDE DEF c
<1>3. \/ c \in ToSet(r.unproven)
      \/ s.total # 0 /\ (c \in ToSet(r.proven) \/ c \in ToSet(r.regret))
  BY <1>2 DEF Says, FiledUnder, c
<1>4. ClaimSet(r) = ToSet(r.proven) \cup ToSet(r.regret) \cup ToSet(r.unproven)
  BY ClaimsOf
<1> QED BY <1>1, <1>3, <1>4

-----------------------------------------------------------------------------
(* What is issued, and the judge                                           *)

\* The graders' scores are theirs.
LEMMA GradersGrade ==
    ASSUME NEW i, NEW s \in Grade(i)
    PROVE  s.tier \in {"assert", "task"}
<1>1. NonEmpty(i).tier \in {"assert", "task"} /\ JsonValid(i).tier \in {"assert", "task"}
      /\ JsonShape(i).tier \in {"assert", "task"}
  BY DEF NonEmpty, JsonValid, JsonShape, Silent, Ruled, Score
<1>2. ToolChoice(i).tier \in {"assert", "task"}
  BY DEF ToolChoice, Silent, Ruled, Score
<1>3. ToolArgs(i).tier \in {"assert", "task"}
  BY DEF ToolArgs, Silent, Ruled, Score
<1>4. ExactMatch(i).tier \in {"assert", "task"} /\ NumericAgreement(i).tier \in {"assert", "task"}
      /\ DiffFiles(i).tier \in {"assert", "task"}
  BY DEF ExactMatch, NumericAgreement, DiffFiles, Silent, Ruled, Score
<1> QED BY <1>1, <1>2, <1>3, <1>4 DEF Grade

\* A judge that approves of an item agrees with the graders, where both scored it.
LEMMA ApprovalAgrees ==
    ASSUME NEW i, NEW first, NEW second, Acceptable(JudgeItem(first, second)),
           NEW scores, scores = Judged(Grade(i), first, second),
           By(TRUE, scores) # {}, By(FALSE, scores) # {}
    PROVE  Approves(By(TRUE, scores)) = Approves(By(FALSE, scores))
<1>1. PICK G : G = Grade(i)
  OBVIOUS
<1>2. \A s \in G : s.tier # "judge"
  BY <1>1, GradersGrade
<1>3. PICK j : j = ToScore(JudgeItem(first, second))
  OBVIOUS
<1>4. j.tier = "judge" /\ j.outcome = "pass"
  BY <1>3 DEF ToScore, Acceptable, Ruled, Score
<1>5. scores = G \/ (scores = G \cup {j} /\ (Graded(G) => Passed(G)))
  BY <1>1, <1>3 DEF Judged
<1>6. By(TRUE, G) = {}
  BY <1>2 DEF By, Applicable
<1>7. scores = G \cup {j} /\ (Graded(G) => Passed(G))
  BY <1>5, <1>6
<1>8. By(TRUE, scores) = {j} /\ By(FALSE, scores) = Applicable(G)
  BY <1>2, <1>4, <1>7 DEF By, Applicable, Applies
<1>9. Approves(By(TRUE, scores)) = TRUE
  BY <1>4, <1>8 DEF Approves
<1>10. Approves(By(FALSE, scores)) = TRUE
  BY <1>7, <1>8 DEF Approves, Graded, Passed
<1> QED BY <1>9, <1>10

\* Where no prompt was asked twice of a cluster, the results are the items'.
LEMMA MergedIsItem ==
    ASSUME NEW items, NEW judge, NEW k \in DOMAIN items,
           \A x, y \in DOMAIN items : items[x].cluster = items[y].cluster
                                      /\ items[x].prompt = items[y].prompt => x = y
    PROVE  Merged(items, Copies(items, items[k].cluster, items[k].prompt), judge)
             = ItemScores(items[k], judge)
<1>1. Copies(items, items[k].cluster, items[k].prompt) = {k}
  BY DEF Copies
<1>2. {ItemScores(items[j], judge) : j \in {k}} = {ItemScores(items[k], judge)}
  OBVIOUS
<1>3. UNION {ItemScores(items[k], judge)} = ItemScores(items[k], judge)
  OBVIOUS
<1> QED BY <1>1, <1>2, <1>3 DEF Merged

\* A judge that approves of everything agrees with the graders on everything.
LEMMA JudgeIsHeard ==
    ASSUME NEW items, NEW judge, judge # None,
           \A x, y \in DOMAIN items : items[x].cluster = items[y].cluster
                                      /\ items[x].prompt = items[y].prompt => x = y,
           \A k \in DOMAIN items : Acceptable(JudgeItem(judge.first[items[k].merit],
                                                        judge.second[items[k].merit]))
    PROVE  Calibration(items, judge).agreed = Calibration(items, judge).total
<1> DEFINE asked == {<<items[k].cluster, items[k].prompt>> : k \in DOMAIN items}
           R == [x \in asked |-> Merged(items, Copies(items, x[1], x[2]), judge)]
<1>1. PICK results : results = R
  OBVIOUS
<1>2. Calibration(items, judge) = Calibrate(results)
  BY <1>1 DEF Calibration
<1>3. ASSUME NEW x \in DOMAIN results
      PROVE  \E k \in DOMAIN items :
                 results[x] = Judged(Grade(items[k]), judge.first[items[k].merit],
                                     judge.second[items[k].merit])
  <2>1. x \in asked
    BY <1>1, <1>3
  <2>2. PICK k \in DOMAIN items : x = <<items[k].cluster, items[k].prompt>>
    BY <2>1
  <2>3. results[x] = Merged(items, Copies(items, x[1], x[2]), judge)
    BY <1>1, <2>1
  <2>4. x[1] = items[k].cluster /\ x[2] = items[k].prompt
    BY <2>2
  <2>5. results[x] = ItemScores(items[k], judge)
    BY <2>3, <2>4, MergedIsItem
  <2> QED BY <2>5 DEF ItemScores
<1>4. ASSUME NEW x \in Both(results)
      PROVE  Approves(By(TRUE, results[x])) = Approves(By(FALSE, results[x]))
  <2>1. x \in DOMAIN results /\ By(TRUE, results[x]) # {} /\ By(FALSE, results[x]) # {}
    BY DEF Both
  <2>2. PICK k \in DOMAIN items :
            results[x] = Judged(Grade(items[k]), judge.first[items[k].merit],
                                judge.second[items[k].merit])
    BY <1>3, <2>1
  <2>3. PICK i, first, second, scores :
            /\ i = items[k] /\ first = judge.first[items[k].merit]
            /\ second = judge.second[items[k].merit] /\ scores = results[x]
    OBVIOUS
  <2>4. scores = Judged(Grade(i), first, second) /\ Acceptable(JudgeItem(first, second))
    BY <2>2, <2>3, Zenon
  <2>5. By(TRUE, scores) # {} /\ By(FALSE, scores) # {}
    BY <2>1, <2>3
  <2>6. Approves(By(TRUE, scores)) = Approves(By(FALSE, scores))
    BY <2>4, <2>5, ApprovalAgrees
  <2> QED BY <2>3, <2>6, Zenon
<1>5. Agreed(results) = Both(results)
  BY <1>4 DEF Agreed
<1> QED BY <1>2, <1>5 DEF Calibrate

-----------------------------------------------------------------------------
(* A receipt nobody touched                                                *)

\* A suite that is not refused issues a receipt of its run.
LEMMA SuiteIssues ==
    ASSUME NEW items, NEW shares, NEW judge, NEW bar, NEW meta, NEW captures, NEW r,
           r = Suite(items, shares, judge, bar, meta, captures), ~IsRefused(r)
    PROVE  \E drawn :
              /\ r = Issue(Run(items, shares, judge), bar, meta, EvalSetDigest(items), drawn)
              /\ captures = 0 /\ Uncovered(shares, AskedOf(items)) # {} => drawn = 0
<1>1. \A why : IsRefused(Refused(why))
  BY DEF IsRefused, Refused
<1>2. PICK drawn : drawn = IF captures > 0 THEN captures
                           ELSE IF Uncovered(shares, AskedOf(items)) # {} THEN 0 ELSE Len(items)
  OBVIOUS
<1>3. r = Issue(Run(items, shares, judge), bar, meta, EvalSetDigest(items), drawn)
  BY <1>1, <1>2 DEF Suite, AskedOf
<1> QED BY <1>2, <1>3

\* Until somebody edits it, the file is what the suite issued, and its reader
\* reads that.
Untouched ==
    /\ edits \in Seq({"altered", "resealed", "undigested", "cut off"})
    /\ doc # None => work \in Works
    /\ doc # None /\ edits = <<>> /\ ~IsRefused(doc) =>
          LET r == Suite(work.items, work.shares, work.judge, work.bar, work.meta, work.captures)
          IN  ~IsRefused(r) /\ doc = ToJson(r)
    /\ read # None => doc # None /\ ~IsRefused(doc) /\ read = FromJson(doc)

\* A list written to is a list that is not empty.
LEMMA Written ==
    ASSUME NEW T, NEW s \in Seq(T), NEW x \in T
    PROVE  Append(s, x) # <<>> /\ Append(s, x) \in Seq(T)
BY AppendProperties

\* An edit is written down, and what was read is not edited.
LEMMA UntouchedStep == Untouched /\ Taken /\ [Next]_vars => Untouched'
<1> SUFFICES ASSUME Untouched, Taken, [Next]_vars PROVE Untouched'
  OBVIOUS
<1>1. CASE Prove
  <2>1. PICK w \in Works :
            /\ work' = w
            /\ doc' = LET r == Suite(w.items, w.shares, w.judge, w.bar, w.meta, w.captures)
                      IN  IF IsRefused(r) THEN r ELSE ToJson(r)
    BY <1>1 DEF Prove
  <2>2. PICK r : r = Suite(w.items, w.shares, w.judge, w.bar, w.meta, w.captures)
    OBVIOUS
  <2>3. UNCHANGED <<edits, read>> /\ doc = None
    BY <1>1 DEF Prove, Taken
  <2>4. doc' = IF IsRefused(r) THEN r ELSE ToJson(r)
    BY <2>1, <2>2
  <2>5. read' = None
    BY <2>3 DEF Untouched
  <2>6. ~IsRefused(doc') => ~IsRefused(r) /\ doc' = ToJson(r)
    BY <2>4
  <2> QED BY <2>1, <2>2, <2>3, <2>5, <2>6 DEF Untouched
<1>2. CASE Edit
  <2>1. PICK how \in {"altered", "resealed", "undigested", "cut off"} : edits' = Append(edits, how)
    BY <1>2 DEF Edit
  <2>2. edits' # <<>> /\ edits' \in Seq({"altered", "resealed", "undigested", "cut off"})
    <3> DEFINE T == {"altered", "resealed", "undigested", "cut off"}
    <3>1. edits \in Seq(T) /\ how \in T
      BY <2>1 DEF Untouched
    <3> HIDE DEF T
    <3>2. Append(edits, how) # <<>> /\ Append(edits, how) \in Seq(T)
      BY <3>1, Written
    <3>3. edits' # <<>> /\ edits' \in Seq(T)
      BY <2>1, <3>2, Zenon
    <3> QED BY <3>3 DEF T
  <2>3. work' = work /\ read' = read /\ read = None /\ doc # None
    BY <1>2 DEF Edit
  <2> QED BY <2>2, <2>3 DEF Untouched
<1>3. CASE Read
  <2>1. UNCHANGED <<work, doc, edits>> /\ read' = FromJson(doc) /\ doc # None /\ ~IsRefused(doc)
    BY <1>3 DEF Read
  <2> QED BY <2>1 DEF Untouched
<1>4. CASE Reproduce \/ Guard \/ UNCHANGED vars
  <2>1. UNCHANGED <<work, doc, edits, read>>
    BY <1>4 DEF Reproduce, Guard, vars
  <2> QED BY <2>1 DEF Untouched
<1> QED BY <1>1, <1>2, <1>3, <1>4 DEF Next

\* What is issued says what the report says: every cluster with traffic has its
\* claim, the receipt moves the share that the report recommends moving, no
\* saving is stated on captures that the eval set did not stand for, and a judge
\* that approved of everything agrees with the graders (run, issue, suite,
\* Matrix.hybrid_for and calibrate).
THEOREM IssuedHonestly == Spec => []IssuedSaysTheReport
<1>1. Init => Untouched
  <2>1. <<>> \in Seq({"altered", "resealed", "undigested", "cut off"})
    OBVIOUS
  <2> QED BY <2>1 DEF Init, Untouched
<1>2. Untouched /\ Taken => IssuedSaysTheReport
  <2> SUFFICES ASSUME Untouched, Taken, Accepted, edits = <<>>
               PROVE  IssuedSaysTheReport
    BY DEF IssuedSaysTheReport
  <2> DEFINE items == work.items
             scores == Run(work.items, work.shares, work.judge)
             bar == work.bar
  <2>1. PICK r : r = Suite(work.items, work.shares, work.judge, work.bar, work.meta, work.captures)
    OBVIOUS
  <2>2. /\ work \in Works /\ ~IsRefused(r) /\ doc = ToJson(r)
        /\ read = FromJson(doc) /\ ~IsRefused(read)
    BY <2>1 DEF Untouched, Accepted
  <2>3. read = r
    <3>1. \A why : IsRefused(Refused(why))
      BY DEF IsRefused, Refused
    <3>2. doc.receipt = r
      BY <2>2 DEF ToJson
    <3>3. read = doc.receipt
      BY <2>2, <3>1 DEF FromJson
    <3> QED BY <3>2, <3>3
  <2>4. ReceiptStands(read)
    BY DEF Taken
  <2>5. items \in Seq(Range(items)) /\ IsFiniteSet(DOMAIN work.shares)
    BY <2>2, EvidenceAssumption
  <2>6. PICK drawn :
            /\ read = Issue(scores, bar, work.meta, EvalSetDigest(items), drawn)
            /\ work.captures = 0 /\ Uncovered(work.shares, AskedOf(items)) # {} => drawn = 0
    BY <2>1, <2>2, <2>3, SuiteIssues
  <2>7. /\ IsFiniteSet(scores)
        /\ \A s \in scores : s.share = IF s.cluster \in DOMAIN work.shares
                                       THEN work.shares[s.cluster] ELSE 0
        /\ \A s, t \in scores : s.cluster = t.cluster => s = t
        /\ \A c \in DOMAIN work.shares :
              work.shares[c] > 0 => \E s \in scores : s.cluster = c
    BY <2>5, RunScores
  <2>8. Says(read, scores, bar) /\ read.captures = drawn
    BY <2>6, <2>7, IssuedSays
  <2>9. NoTrafficLeftOut
    <3> SUFFICES ASSUME NEW k \in DOMAIN work.shares, work.shares[k] > 0
                 PROVE  \E c \in ClaimSet(read) :
                            /\ c.cluster = k /\ c.share = work.shares[k]
                            /\ c.total = 0 => c \in ToSet(read.unproven)
      BY DEF NoTrafficLeftOut
    <3>1. PICK s \in scores : s.cluster = k
      BY <2>7
    <3>2. s.share = work.shares[k]
      BY <2>7, <3>1
    <3>3. \E c \in ClaimSet(read) : /\ c.cluster = s.cluster /\ c.share = s.share
                                    /\ c.total = 0 => c \in ToSet(read.unproven)
      BY <2>4, <2>8, TrafficHasClaims
    <3> QED BY <3>1, <3>2, <3>3
  <2>10. SameSplit(HybridFor(Run(work.items, work.shares, work.judge), work.bar))
    <3>1. /\ ReceiptMovable(read) = MovableShare(scores, bar)
          /\ Named(read.regret) = HybridFor(scores, bar).regret
          /\ HybridFor(scores, bar).unproven \subseteq Named(read.unproven)
      BY <2>4, <2>7, <2>8, SplitsAsScored
    <3>2. HybridFor(scores, bar).moved = MovableShare(scores, bar)
      BY DEF HybridFor
    <3> QED BY <3>1, <3>2 DEF SameSplit
  <2>11. SavingIsCovered
    <3> SUFFICES ASSUME work.captures = 0, ~IsRefused(ReceiptSaving(read))
                 PROVE  Uncovered(work.shares, AskedOf(items)) = {}
      BY DEF SavingIsCovered, AskedOf
    <3>1. \A why : IsRefused(Refused(why))
      BY DEF IsRefused, Refused
    <3>2. read.captures # 0
      BY <3>1 DEF ReceiptSaving, Saving
    <3> QED BY <2>6, <2>8, <3>2
  <2>12. JudgeHeardOnPasses(Calibration(work.items, work.judge))
    <3> SUFFICES ASSUME work.judge # None,
                        \A x, y \in DOMAIN items : items[x].cluster = items[y].cluster
                                           /\ items[x].prompt = items[y].prompt => x = y,
                        \A m \in {items[k].merit : k \in DOMAIN items} :
                            Acceptable(JudgeItem(work.judge.first[m], work.judge.second[m]))
                 PROVE  Calibration(items, work.judge).agreed = Calibration(items, work.judge).total
      BY DEF JudgeHeardOnPasses
    <3>1. \A k \in DOMAIN items : Acceptable(JudgeItem(work.judge.first[items[k].merit],
                                                       work.judge.second[items[k].merit]))
      OBVIOUS
    <3> QED BY <3>1, JudgeIsHeard
  <2> QED BY <2>9, <2>10, <2>11, <2>12 DEF IssuedSaysTheReport
<1> QED BY <1>1, <1>2, UntouchedStep, TakenAlways, PTL DEF Spec
=============================================================================

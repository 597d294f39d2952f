-------------------------- MODULE ByteBudgetProofs --------------------------
(***************************************************************************)
(* What keeps to a budget of bytes: the cache of responses (DedupCache),   *)
(* the shard store of a gen9 console (Gen9Node), and the plan that says    *)
(* what each console of a fleet is to hold (Gen9Planner).  What is proved  *)
(* of each is true for any number of calls, threads or units, any sizes    *)
(* and any budget.  The stores count bytes up and down and never add them  *)
(* up, and a plan is whole when its bytes are the model's, so the proofs   *)
(* share the lemmas about sums of the first section.                       *)
(***************************************************************************)
EXTENDS DedupCache, Gen9Node, Gen9Planner, FiniteSetTheorems, TLAPS

-----------------------------------------------------------------------------
(* Sums over finite sets. *)

\* Some numbers have a least one.
LEMMA LeastNumber ==
    ASSUME NEW I \in SUBSET Nat, I # {}
    PROVE  \E k \in I : \A j \in I : k =< j
<1> DEFINE R == {s \in Nat \X Nat : s[1] < s[2]}
<1>1. IsWellFoundedOn(R, Nat)
  BY NatLessThanWellFounded DEF OpToRel
<1>2. PICK k \in I : \A j \in I : ~(<<j, k>> \in R)
  <2> HIDE DEF R
  <2> QED BY <1>1, WFMin
<1>3. \A j \in I : k =< j
  <2> TAKE j \in I
  <2>1. <<j, k>> \in R <=> j < k
    OBVIOUS
  <2> QED BY <1>2, <2>1
<1> QED BY <1>3

\* Among the parts of a finite set that fail a test there is a smallest one, and the test
\* holds of it without any one of its elements.
LEMMA SmallestPart ==
    ASSUME NEW D, IsFiniteSet(D), NEW Bad \in SUBSET SUBSET D, Bad # {}
    PROVE  \E s \in Bad : \A x \in s : s \ {x} \notin Bad
<1> DEFINE I == {Cardinality(s) : s \in Bad}
<1>1. \A s \in Bad : IsFiniteSet(s) /\ Cardinality(s) \in Nat
  BY FS_Subset, FS_CardinalityType
<1>2. I \in SUBSET Nat /\ I # {}
  BY <1>1
<1>3. PICK k \in I : \A j \in I : k =< j
  <2> HIDE DEF I
  <2> QED BY <1>2, LeastNumber
<1>4. PICK s \in Bad : Cardinality(s) = k
  BY <1>3
<1>5. ASSUME NEW x \in s, s \ {x} \in Bad PROVE FALSE
  <2>1. Cardinality(s \ {x}) = Cardinality(s) - 1
    BY <1>1, FS_RemoveElement
  <2>2. Cardinality(s \ {x}) \in I
    BY <1>5
  <2>3. k =< Cardinality(s \ {x}) /\ k \in Nat
    BY <1>2, <1>3, <2>2
  <2> QED BY <1>4, <2>1, <2>3
<1> QED BY <1>4, <1>5

\* The element a sum over a set takes out first, and what a fold of a function over the
\* parts of a set comes to (SumFunctionOnSet).
Taken(s) == CHOOSE x \in s : TRUE

Adds(g, f, D) ==
    g = [s \in SUBSET D |-> IF s = {} THEN 0 ELSE f[Taken(s)] + g[s \ {Taken(s)}]]

LEMMA SumIs ==
    ASSUME NEW f, NEW D
    PROVE  SumFunctionOnSet(f, D) = (CHOOSE g : Adds(g, f, D))[D]
  BY DEF SumFunctionOnSet, FoldFunctionOnSet, MapThenFoldSet, Adds, Taken

LEMMA AddsAt ==
    ASSUME NEW f, NEW D, NEW g, Adds(g, f, D), NEW s \in SUBSET D
    PROVE  /\ s = {} => g[s] = 0
           /\ s # {} => Taken(s) \in s /\ g[s] = f[Taken(s)] + g[s \ {Taken(s)}]
<1>1. s # {} => Taken(s) \in s
  BY DEF Taken
<1>2. \A r \in SUBSET D : g[r] = IF r = {} THEN 0 ELSE f[Taken(r)] + g[r \ {Taken(r)}]
  <2> HIDE DEF Taken
  <2> DEFINE rhs(h) == [r \in SUBSET D |-> IF r = {} THEN 0 ELSE f[Taken(r)] + h[r \ {Taken(r)}]]
  <2>1. g = rhs(g)
    BY DEF Adds
  <2>2. \A r \in SUBSET D : rhs(g)[r] = IF r = {} THEN 0 ELSE f[Taken(r)] + g[r \ {Taken(r)}]
    OBVIOUS
  <2> HIDE DEF rhs
  <2> QED BY <2>1, <2>2, Zenon
<1> QED BY <1>1, <1>2

\* Such a fold exists over a finite set.
LEMMA AddsExists ==
    ASSUME NEW f, NEW D, IsFiniteSet(D)
    PROVE  \E g : Adds(g, f, D)
<1> DEFINE Small(n) == {s \in SUBSET D : Cardinality(s) <= n}
           Upto(g, n) ==
             g = [s \in Small(n) |-> IF s = {} THEN 0 ELSE f[Taken(s)] + g[s \ {Taken(s)}]]
           Bad == {n \in Nat : ~ \E g : Upto(g, n)}
<1>1. \A s \in SUBSET D : IsFiniteSet(s) /\ Cardinality(s) \in Nat
  BY FS_Subset, FS_CardinalityType
<1>2. Bad = {}
  <2> SUFFICES ASSUME Bad # {} PROVE FALSE
    OBVIOUS
  <2>1. PICK k \in Bad : \A j \in Bad : k =< j
    <3>1. Bad \in SUBSET Nat
      OBVIOUS
    <3> HIDE DEF Bad
    <3> QED BY <3>1, LeastNumber
  <2>2. CASE k = 0
    <3> PICK g : g = [s \in Small(0) |-> 0]
      OBVIOUS
    <3>1. \A s \in Small(0) : s = {}
      <4>1. \A s \in SUBSET D : Cardinality(s) = 0 => s = {}
        BY <1>1, FS_EmptySet
      <4> QED BY <1>1, <4>1
    <3>2. Upto(g, 0)
      BY <3>1
    <3> QED BY <2>1, <2>2, <3>2
  <2>3. CASE k # 0
    <3>1. k - 1 \in Nat /\ k - 1 \notin Bad
      <4>1. k \in Nat
        OBVIOUS
      <4> HIDE DEF Bad
      <4> QED BY <2>1, <2>3, <4>1
    <3>2. PICK g : Upto(g, k - 1)
      BY <3>1
    <3> PICK h : h = [s \in Small(k) |-> IF s = {} THEN 0 ELSE f[Taken(s)] + g[s \ {Taken(s)}]]
      OBVIOUS
    <3>3. \A s \in Small(k - 1) : s \in Small(k) /\ h[s] = g[s]
      <4>1. \A s \in Small(k - 1) :
               g[s] = IF s = {} THEN 0 ELSE f[Taken(s)] + g[s \ {Taken(s)}]
        <5> DEFINE rhs == [s \in Small(k - 1) |->
                             IF s = {} THEN 0 ELSE f[Taken(s)] + g[s \ {Taken(s)}]]
        <5>1. g = rhs
          BY <3>2
        <5>2. \A s \in Small(k - 1) :
                 rhs[s] = IF s = {} THEN 0 ELSE f[Taken(s)] + g[s \ {Taken(s)}]
          OBVIOUS
        <5> HIDE DEF rhs, Small, Taken
        <5> QED BY <5>1, <5>2, Zenon
      <4>2. \A s \in Small(k - 1) : s \in Small(k)
        BY <1>1, <2>1
      <4> HIDE DEF Small, Taken
      <4> QED BY <4>1, <4>2
    <3>4. \A s \in Small(k) : s # {} => s \ {Taken(s)} \in Small(k - 1)
      <4> TAKE s \in Small(k)
      <4> HAVE s # {}
      <4>1. Taken(s) \in s
        BY DEF Taken
      <4>2. Cardinality(s \ {Taken(s)}) = Cardinality(s) - 1
        BY <1>1, <4>1, FS_RemoveElement
      <4> QED BY <1>1, <2>1, <4>2
    <3>5. \A s \in Small(k) : s # {} => h[s \ {Taken(s)}] = g[s \ {Taken(s)}]
      <4> HIDE DEF Small, Taken, Upto
      <4> QED BY <3>3, <3>4
    <3>6. Upto(h, k)
      <4> DEFINE old == [s \in Small(k) |->
                           IF s = {} THEN 0 ELSE f[Taken(s)] + g[s \ {Taken(s)}]]
                 new == [s \in Small(k) |->
                           IF s = {} THEN 0 ELSE f[Taken(s)] + h[s \ {Taken(s)}]]
      <4>1. old = new
        <5> HIDE DEF Small, Taken, Bad, Upto
        <5> QED BY <3>5
      <4>2. h = old
        OBVIOUS
      <4> HIDE DEF Small, Taken, Bad, old
      <4> QED BY <4>1, <4>2, Zenon
    <3>7. k \notin Bad
      <4> HIDE DEF Upto
      <4> QED BY <3>6
    <3> QED BY <2>1, <3>7
  <2> QED BY <2>2, <2>3
<1>3. Cardinality(D) \in Nat /\ Small(Cardinality(D)) = SUBSET D
  BY <1>1, FS_Subset, FS_CardinalityType
<1>4. PICK g : Upto(g, Cardinality(D))
  <2> HIDE DEF Upto
  <2> QED BY <1>2, <1>3
<1>5. Adds(g, f, D)
  BY <1>3, <1>4 DEF Adds
<1> QED BY <1>5

\* Two such folds agree where their functions do.
LEMMA AddsAgree ==
    ASSUME NEW f1, NEW f2, NEW D1, NEW D2, NEW g1, NEW g2, Adds(g1, f1, D1), Adds(g2, f2, D2),
           NEW S, IsFiniteSet(S), S \subseteq D1, S \subseteq D2, \A x \in S : f1[x] = f2[x]
    PROVE  g1[S] = g2[S]
<1> DEFINE Bad == {s \in SUBSET S : g1[s] # g2[s]}
<1>1. SUFFICES ASSUME Bad # {} PROVE FALSE
  OBVIOUS
<1>2. PICK s \in Bad : \A x \in s : s \ {x} \notin Bad
  <2>1. Bad \in SUBSET SUBSET S
    OBVIOUS
  <2> HIDE DEF Bad
  <2> QED BY <1>1, <2>1, SmallestPart
<1>3. s # {} /\ Taken(s) \in s /\ g1[s] = f1[Taken(s)] + g1[s \ {Taken(s)}]
      /\ g2[s] = f2[Taken(s)] + g2[s \ {Taken(s)}]
  <2>1. s \in SUBSET D1 /\ s \in SUBSET D2 /\ g1[s] # g2[s]
    OBVIOUS
  <2> HIDE DEF Bad
  <2> QED BY <2>1, AddsAt
<1>4. g1[s \ {Taken(s)}] = g2[s \ {Taken(s)}]
  BY <1>2, <1>3
<1>5. f1[Taken(s)] = f2[Taken(s)] /\ g1[s] # g2[s]
  BY <1>3
<1> QED BY <1>3, <1>4, <1>5

\* A fold of natural numbers is one.
LEMMA AddsNat ==
    ASSUME NEW f, NEW D, NEW g, Adds(g, f, D), NEW S, IsFiniteSet(S), S \subseteq D,
           \A x \in S : f[x] \in Nat
    PROVE  g[S] \in Nat
<1> DEFINE Bad == {s \in SUBSET S : g[s] \notin Nat}
<1>1. SUFFICES ASSUME Bad # {} PROVE FALSE
  OBVIOUS
<1>2. PICK s \in Bad : \A x \in s : s \ {x} \notin Bad
  <2>1. Bad \in SUBSET SUBSET S
    OBVIOUS
  <2> HIDE DEF Bad
  <2> QED BY <1>1, <2>1, SmallestPart
<1>3. s # {} /\ Taken(s) \in s /\ g[s] = f[Taken(s)] + g[s \ {Taken(s)}]
  <2>1. s \in SUBSET D /\ g[s] \notin Nat
    OBVIOUS
  <2> HIDE DEF Bad
  <2> QED BY <2>1, AddsAt
<1>4. g[s \ {Taken(s)}] \in Nat /\ f[Taken(s)] \in Nat /\ g[s] \notin Nat
  BY <1>2, <1>3
<1> QED BY <1>3, <1>4

\* Any element may be taken out first.
LEMMA AddsAny ==
    ASSUME NEW f, NEW D, NEW g, Adds(g, f, D), NEW S, IsFiniteSet(S), S \subseteq D,
           \A x \in S : f[x] \in Nat, NEW e \in S
    PROVE  g[S] = f[e] + g[S \ {e}]
<1> DEFINE Bad == {s \in SUBSET S : \E x \in s : g[s] # f[x] + g[s \ {x}]}
<1>1. SUFFICES ASSUME Bad # {} PROVE FALSE
  OBVIOUS
<1>2. PICK s \in Bad : \A x \in s : s \ {x} \notin Bad
  <2>1. Bad \in SUBSET SUBSET S
    OBVIOUS
  <2> HIDE DEF Bad
  <2> QED BY <1>1, <2>1, SmallestPart
<1>3. PICK x \in s : g[s] # f[x] + g[s \ {x}]
  OBVIOUS
<1>4. PICK c : c = Taken(s)
  OBVIOUS
<1>5. s \in SUBSET S /\ c \in s /\ g[s] = f[c] + g[s \ {c}]
  <2>1. s \in SUBSET D /\ s # {} /\ s \in SUBSET S
    OBVIOUS
  <2> HIDE DEF Bad
  <2> QED BY <1>4, <2>1, AddsAt
<1>6. c # x
  BY <1>3, <1>5
<1>7. s \ {c} \notin Bad /\ s \ {x} \notin Bad
  BY <1>2, <1>5
<1>8. g[s \ {c}] = f[x] + g[(s \ {c}) \ {x}] /\ g[s \ {x}] = f[c] + g[(s \ {x}) \ {c}]
  BY <1>5, <1>6, <1>7
<1>9. (s \ {c}) \ {x} = (s \ {x}) \ {c}
  OBVIOUS
<1>10. g[(s \ {c}) \ {x}] \in Nat /\ f[x] \in Nat /\ f[c] \in Nat
  <2>1. (s \ {c}) \ {x} \subseteq S
    BY <1>5
  <2>2. IsFiniteSet((s \ {c}) \ {x})
    BY <2>1, FS_Subset
  <2>3. g[(s \ {c}) \ {x}] \in Nat
    <3> HIDE DEF Bad
    <3> QED BY <2>1, <2>2, AddsNat
  <2> QED BY <1>5, <2>3
<1>11. PICK a : a = g[(s \ {c}) \ {x}]
  OBVIOUS
<1>12. g[s \ {c}] = f[x] + a /\ g[s \ {x}] = f[c] + a
  BY <1>8, <1>9, <1>11, Zenon
<1>13. g[s] = f[c] + (f[x] + a) /\ g[s] # f[x] + (f[c] + a)
  BY <1>3, <1>5, <1>12, Zenon
<1>14. a \in Nat /\ f[c] \in Nat /\ f[x] \in Nat
  BY <1>10, <1>11, Zenon
<1>15. f[c] + (f[x] + a) = f[x] + (f[c] + a)
  BY <1>14
<1> QED BY <1>13, <1>15, Zenon

\* A sum over a finite set: over nothing, of natural numbers, of other numbers that are the
\* same, and with one element taken out.
LEMMA SumOverNone ==
    ASSUME NEW f
    PROVE  SumFunctionOnSet(f, {}) = 0
<1>1. PICK g : Adds(g, f, {})
  BY AddsExists, FS_EmptySet
<1>2. Adds(CHOOSE h : Adds(h, f, {}), f, {})
  BY <1>1, Zenon
<1> QED BY <1>2, SumIs, AddsAt

LEMMA SumIsNat ==
    ASSUME NEW f, NEW D, IsFiniteSet(D), \A x \in D : f[x] \in Nat
    PROVE  SumFunctionOnSet(f, D) \in Nat
<1>1. PICK g : Adds(g, f, D)
  BY AddsExists
<1>2. Adds(CHOOSE h : Adds(h, f, D), f, D)
  BY <1>1, Zenon
<1> QED BY <1>2, SumIs, AddsNat

LEMMA SumSame ==
    ASSUME NEW f1, NEW f2, NEW D, IsFiniteSet(D), \A x \in D : f1[x] = f2[x]
    PROVE  SumFunctionOnSet(f1, D) = SumFunctionOnSet(f2, D)
<1>1. PICK g1, g2 : Adds(g1, f1, D) /\ Adds(g2, f2, D)
  BY AddsExists
<1>2. Adds(CHOOSE h : Adds(h, f1, D), f1, D) /\ Adds(CHOOSE h : Adds(h, f2, D), f2, D)
  BY <1>1, Zenon
<1> QED BY <1>2, SumIs, AddsAgree

LEMMA SumTakesOut ==
    ASSUME NEW f, NEW D, IsFiniteSet(D), \A x \in D : f[x] \in Nat, NEW e \in D
    PROVE  SumFunctionOnSet(f, D) = f[e] + SumFunctionOnSet(f, D \ {e})
<1> PICK S : S = D \ {e}
  OBVIOUS
<1>1. IsFiniteSet(S) /\ S \subseteq D
  BY FS_Subset
<1>2. PICK g, h : Adds(g, f, D) /\ Adds(h, f, S)
  BY <1>1, AddsExists
<1>3. PICK c : c = (CHOOSE k : Adds(k, f, D)) /\ Adds(c, f, D)
  BY <1>2, Zenon
<1>4. PICK d : d = (CHOOSE k : Adds(k, f, S)) /\ Adds(d, f, S)
  BY <1>2, Zenon
<1>5. c[D] = f[e] + c[S]
  BY <1>3, AddsAny
<1>6. c[S] = d[S]
  BY <1>1, <1>3, <1>4, AddsAgree
<1>7. SumFunctionOnSet(f, D) = c[D] /\ SumFunctionOnSet(f, S) = d[S]
  BY <1>3, <1>4, SumIs
<1> QED BY <1>5, <1>6, <1>7

\* Zeros may be left out of a sum.
LEMMA SumPastZeros ==
    ASSUME NEW f, NEW g, NEW D, IsFiniteSet(D), NEW T, T \subseteq D,
           \A x \in D : f[x] \in Nat /\ (x \in T => f[x] = g[x]) /\ (x \notin T => f[x] = 0)
    PROVE  SumFunctionOnSet(f, D) = SumFunctionOnSet(g, T)
<1> DEFINE Sum(s) == SumFunctionOnSet(f, s)
           Bad == {s \in SUBSET D : Sum(s) # Sum(s \cap T)}
<1>1. Bad = {}
  <2> SUFFICES ASSUME Bad # {} PROVE FALSE
    OBVIOUS
  <2>1. PICK s \in Bad : \A x \in s : s \ {x} \notin Bad
    <3>1. Bad \in SUBSET SUBSET D
      OBVIOUS
    <3> HIDE DEF Bad
    <3> QED BY <3>1, SmallestPart
  <2>2. s \subseteq D /\ Sum(s) # Sum(s \cap T)
    OBVIOUS
  <2>3. PICK x : x \in s
    <3>1. s = {} => s \cap T = s
      OBVIOUS
    <3> HIDE DEF Sum, Bad
    <3> QED BY <2>2, <3>1
  <2>4. Sum(s \ {x}) = Sum((s \ {x}) \cap T)
    <3>1. s \ {x} \in SUBSET D
      BY <2>2
    <3> HIDE DEF Sum
    <3> QED BY <2>1, <2>3, <3>1
  <2>5. Sum(s) = f[x] + Sum(s \ {x})
    <3>1. IsFiniteSet(s) /\ \A y \in s : f[y] \in Nat
      BY <2>2, FS_Subset
    <3> HIDE DEF Bad
    <3> QED BY <2>3, <3>1, SumTakesOut
  <2>6. CASE x \in T
    <3>1. IsFiniteSet(s \cap T) /\ (\A y \in s \cap T : f[y] \in Nat) /\ x \in s \cap T
      BY <2>2, <2>3, <2>6, FS_Subset
    <3>2. Sum(s \cap T) = f[x] + Sum((s \cap T) \ {x})
      <4> HIDE DEF Bad
      <4> QED BY <3>1, SumTakesOut
    <3>3. (s \cap T) \ {x} = (s \ {x}) \cap T
      OBVIOUS
    <3> HIDE DEF Sum, Bad
    <3> QED BY <2>2, <2>4, <2>5, <3>2, <3>3, Zenon
  <2>7. CASE x \notin T
    <3>1. (s \ {x}) \cap T = s \cap T /\ f[x] = 0
      BY <2>2, <2>3, <2>7
    <3>2. Sum(s \ {x}) \in Nat
      <4>1. IsFiniteSet(s \ {x}) /\ \A y \in s \ {x} : f[y] \in Nat
        BY <2>2, FS_Subset
      <4> QED BY <4>1, SumIsNat
    <3>3. Sum(s) = 0 + Sum(s \ {x})
      BY <2>5, <3>1, Zenon
    <3> PICK a : a = Sum(s \ {x})
      OBVIOUS
    <3>4. a \in Nat /\ Sum(s) = 0 + a /\ Sum(s \cap T) = a
      BY <2>4, <3>1, <3>2, <3>3, Zenon
    <3>5. 0 + a = a
      BY <3>4
    <3> HIDE DEF Sum, Bad
    <3> QED BY <2>2, <3>4, <3>5, Zenon
  <2> QED BY <2>6, <2>7
<1>2. Sum(D) = Sum(T)
  <2>1. D \cap T = T /\ D \notin Bad /\ D \in SUBSET D
    BY <1>1
  <2>2. Sum(D) = Sum(D \cap T)
    <3> HIDE DEF Sum
    <3> QED BY <2>1
  <2> HIDE DEF Sum, Bad
  <2> QED BY <2>1, <2>2, Zenon
<1>3. Sum(T) = SumFunctionOnSet(g, T)
  <2>1. IsFiniteSet(T) /\ \A x \in T : f[x] = g[x]
    BY FS_Subset
  <2> HIDE DEF Bad
  <2> QED BY <2>1, SumSame
<1> QED BY <1>2, <1>3

\* Nothing but zeros adds up to zero.
LEMMA SumOfZeros ==
    ASSUME NEW f, NEW D, IsFiniteSet(D), \A x \in D : f[x] = 0
    PROVE  SumFunctionOnSet(f, D) = 0
<1>1. {} \subseteq D /\ \A x \in D : f[x] \in Nat /\ (x \in {} => f[x] = f[x])
                                      /\ (x \notin {} => f[x] = 0)
  OBVIOUS
<1>2. SumFunctionOnSet(f, D) = SumFunctionOnSet(f, {})
  BY <1>1, SumPastZeros
<1> QED BY <1>2, SumOverNone

\* One number is added or replaced.
LEMMA SumWithOne ==
    ASSUME NEW f, NEW g, NEW D, IsFiniteSet(D), NEW e, g[e] \in Nat,
           \A x \in D : f[x] \in Nat, \A x \in D \ {e} : g[x] = f[x]
    PROVE  /\ SumFunctionOnSet(f, D) \in Nat
           /\ SumFunctionOnSet(g, D \cup {e}) \in Nat
           /\ e \notin D =>
                SumFunctionOnSet(g, D \cup {e}) = g[e] + SumFunctionOnSet(f, D)
           /\ e \in D => /\ D \cup {e} = D
                         /\ SumFunctionOnSet(f, D) + g[e] = SumFunctionOnSet(g, D) + f[e]
<1> PICK R : R = D \ {e}
  OBVIOUS
<1> PICK E : E = D \cup {e}
  OBVIOUS
<1>1. IsFiniteSet(R) /\ IsFiniteSet(E) /\ E \ {e} = R /\ e \in E
  BY FS_Subset, FS_AddElement
<1>2. \A x \in R : g[x] = f[x] /\ f[x] \in Nat /\ g[x] \in Nat
  OBVIOUS
<1>3. PICK a : a = SumFunctionOnSet(f, R)
  OBVIOUS
<1>4. SumFunctionOnSet(g, R) = a /\ a \in Nat
  BY <1>1, <1>2, <1>3, SumSame, SumIsNat
<1>5. SumFunctionOnSet(g, E) = g[e] + a
  <2>1. \A x \in E : g[x] \in Nat
    BY <1>2
  <2>2. SumFunctionOnSet(g, E) = g[e] + SumFunctionOnSet(g, E \ {e})
    BY <1>1, <2>1, SumTakesOut
  <2> QED BY <1>1, <1>4, <2>2
<1>6. SumFunctionOnSet(f, D) \in Nat
  BY SumIsNat
<1>7. e \notin D => R = D
  OBVIOUS
<1>8. e \in D => E = D /\ SumFunctionOnSet(f, D) = f[e] + a /\ f[e] \in Nat
  <2> SUFFICES ASSUME e \in D PROVE SumFunctionOnSet(f, D) = f[e] + a
    OBVIOUS
  <2>1. SumFunctionOnSet(f, D) = f[e] + SumFunctionOnSet(f, D \ {e})
    BY SumTakesOut
  <2> QED BY <1>3, <2>1
<1> QED BY <1>3, <1>4, <1>5, <1>6, <1>7, <1>8

\* What holds of every part of one sum and another: they add up part by part, one is at most
\* the other, one is the other and a constant for every part, one scaled is at most the other.
LEMMA SumsAdd ==
    ASSUME NEW f, NEW g, NEW h, NEW D, IsFiniteSet(D),
           \A x \in D : f[x] \in Nat /\ g[x] \in Nat /\ h[x] = f[x] + g[x]
    PROVE  SumFunctionOnSet(h, D) = SumFunctionOnSet(f, D) + SumFunctionOnSet(g, D)
<1> DEFINE F(s) == SumFunctionOnSet(f, s)
           G(s) == SumFunctionOnSet(g, s)
           H(s) == SumFunctionOnSet(h, s)
           Bad == {s \in SUBSET D : H(s) # F(s) + G(s)}
<1>1. SUFFICES ASSUME Bad # {} PROVE FALSE
  OBVIOUS
<1>2. PICK s \in Bad : \A x \in s : s \ {x} \notin Bad
  <2>1. Bad \in SUBSET SUBSET D
    OBVIOUS
  <2> HIDE DEF Bad
  <2> QED BY <1>1, <2>1, SmallestPart
<1>3. s \subseteq D /\ H(s) # F(s) + G(s) /\ IsFiniteSet(s)
  BY FS_Subset
<1>4. s # {}
  <2> SUFFICES ASSUME s = {} PROVE FALSE
    OBVIOUS
  <2>1. F(s) = 0 /\ G(s) = 0 /\ H(s) = 0
    BY SumOverNone
  <2> QED BY <1>3, <2>1
<1>5. PICK x : x \in s
  BY <1>4
<1>6. PICK r : r = s \ {x}
  OBVIOUS
<1>7. IsFiniteSet(r) /\ r \subseteq D /\ H(r) = F(r) + G(r)
  <2>1. s \ {x} \notin Bad /\ s \ {x} \in SUBSET D
    BY <1>2, <1>3, <1>5
  <2>2. H(s \ {x}) = F(s \ {x}) + G(s \ {x})
    <3> HIDE DEF H, F, G
    <3> QED BY <2>1
  <2> QED BY <1>3, <1>6, <2>2, FS_Subset
<1>8. F(s) = f[x] + F(r) /\ G(s) = g[x] + G(r) /\ H(s) = h[x] + H(r)
  <2>1. \A y \in s : f[y] \in Nat /\ g[y] \in Nat /\ h[y] \in Nat
    BY <1>3
  <2> HIDE DEF Bad
  <2> QED BY <1>3, <1>5, <1>6, <2>1, SumTakesOut
<1>9. F(r) \in Nat /\ G(r) \in Nat
  <2>1. \A y \in r : f[y] \in Nat /\ g[y] \in Nat
    BY <1>7
  <2> HIDE DEF Bad
  <2> QED BY <1>7, <2>1, SumIsNat
<1>10. PICK a, b : a = F(r) /\ b = G(r)
  OBVIOUS
<1>11. PICK u, v : u = f[x] /\ v = g[x]
  OBVIOUS
<1>12. h[x] = u + v /\ u \in Nat /\ v \in Nat
  BY <1>3, <1>5, <1>11
<1>13. F(s) = u + a /\ G(s) = v + b /\ H(s) = (u + v) + (a + b)
  <2> HIDE DEF F, G, H, Bad
  <2> QED BY <1>7, <1>8, <1>10, <1>11, <1>12, Zenon
<1>14. a \in Nat /\ b \in Nat
  BY <1>9, <1>10, Zenon
<1>15. (u + v) + (a + b) = (u + a) + (v + b)
  BY <1>12, <1>14
<1> HIDE DEF F, G, H, Bad
<1> QED BY <1>3, <1>13, <1>15, Zenon

\* Summand by summand no more, no more in all.
LEMMA SumAtMost ==
    ASSUME NEW f, NEW g, NEW D, IsFiniteSet(D),
           \A x \in D : f[x] \in Nat /\ g[x] \in Nat /\ f[x] <= g[x]
    PROVE  SumFunctionOnSet(f, D) <= SumFunctionOnSet(g, D)
<1> DEFINE rest == [x \in D |-> g[x] - f[x]]
<1>1. \A x \in D : f[x] \in Nat /\ rest[x] \in Nat /\ g[x] = f[x] + rest[x]
  OBVIOUS
<1> HIDE DEF rest
<1>2. SumFunctionOnSet(g, D) = SumFunctionOnSet(f, D) + SumFunctionOnSet(rest, D)
  BY <1>1, SumsAdd
<1>3. PICK a, b : a = SumFunctionOnSet(f, D) /\ b = SumFunctionOnSet(rest, D)
  OBVIOUS
<1>4. a \in Nat /\ b \in Nat
  BY <1>1, <1>3, SumIsNat
<1>5. a <= a + b
  BY <1>4
<1> QED BY <1>2, <1>3, <1>5, Zenon

\* A part of a set of numbers adds up to no more than all of it.
LEMMA SumOfPart ==
    ASSUME NEW f, NEW D, IsFiniteSet(D), \A x \in D : f[x] \in Nat, NEW T, T \subseteq D
    PROVE  SumFunctionOnSet(f, T) <= SumFunctionOnSet(f, D)
<1> DEFINE g == [x \in D |-> IF x \in T THEN f[x] ELSE 0]
<1>1. \A x \in D : g[x] \in Nat /\ g[x] <= f[x] /\ (x \in T => g[x] = f[x])
                                                /\ (x \notin T => g[x] = 0)
  OBVIOUS
<1> HIDE DEF g
<1>2. SumFunctionOnSet(g, D) = SumFunctionOnSet(f, T)
  BY <1>1, SumPastZeros
<1>3. SumFunctionOnSet(g, D) <= SumFunctionOnSet(f, D)
  BY <1>1, SumAtMost
<1> QED BY <1>2, <1>3

\* A quotient of numbers is a number, and the divisor fits into the dividend that often.
LEMMA Quotient ==
    ASSUME NEW x \in Nat, NEW y \in Nat \ {0}
    PROVE  x \div y \in Nat /\ y * (x \div y) <= x
  BY SMTT(30)

\* Numbers all multiplied by the same one, and the same number for every part.
LEMMA SumTimes ==
    ASSUME NEW f, NEW g, NEW D, IsFiniteSet(D), NEW t \in Nat,
           \A x \in D : f[x] \in Nat /\ g[x] = t * f[x]
    PROVE  SumFunctionOnSet(g, D) = t * SumFunctionOnSet(f, D)
<1> DEFINE F(s) == SumFunctionOnSet(f, s)
           G(s) == SumFunctionOnSet(g, s)
           Bad == {s \in SUBSET D : G(s) # t * F(s)}
<1>1. SUFFICES ASSUME Bad # {} PROVE FALSE
  OBVIOUS
<1>2. PICK s \in Bad : \A x \in s : s \ {x} \notin Bad
  <2>1. Bad \in SUBSET SUBSET D
    OBVIOUS
  <2> HIDE DEF Bad
  <2> QED BY <1>1, <2>1, SmallestPart
<1>3. s \subseteq D /\ G(s) # t * F(s) /\ IsFiniteSet(s)
  BY FS_Subset
<1>4. s # {}
  <2> SUFFICES ASSUME s = {} PROVE FALSE
    OBVIOUS
  <2>1. F(s) = 0 /\ G(s) = 0
    BY SumOverNone
  <2>2. t * 0 = 0
    OBVIOUS
  <2> HIDE DEF F, G, Bad
  <2> QED BY <1>3, <2>1, <2>2, Zenon
<1>5. PICK x : x \in s
  BY <1>4
<1>6. PICK r : r = s \ {x}
  OBVIOUS
<1>7. IsFiniteSet(r) /\ r \subseteq D /\ G(r) = t * F(r)
  <2>1. s \ {x} \notin Bad /\ s \ {x} \in SUBSET D
    BY <1>2, <1>3, <1>5
  <2>2. G(s \ {x}) = t * F(s \ {x})
    <3> HIDE DEF F, G
    <3> QED BY <2>1
  <2> HIDE DEF F, G, Bad
  <2> QED BY <1>3, <1>6, <2>1, <2>2, FS_Subset, Zenon
<1>8. F(s) = f[x] + F(r) /\ G(s) = g[x] + G(r)
  <2>1. \A y \in s : f[y] \in Nat /\ g[y] \in Nat
    BY <1>3
  <2> HIDE DEF Bad
  <2> QED BY <1>3, <1>5, <1>6, <2>1, SumTakesOut
<1>9. PICK a, u : a = F(r) /\ u = f[x]
  OBVIOUS
<1>10. a \in Nat /\ u \in Nat /\ g[x] = t * u
  <2>1. \A y \in r : f[y] \in Nat
    BY <1>7
  <2>2. F(r) \in Nat
    <3> HIDE DEF Bad
    <3> QED BY <1>7, <2>1, SumIsNat
  <2> QED BY <1>3, <1>5, <1>9, <2>2
<1>11. F(s) = u + a /\ G(s) = t * u + t * a
  <2> HIDE DEF F, G, Bad
  <2> QED BY <1>7, <1>8, <1>9, <1>10, Zenon
<1>12. t * (u + a) = t * u + t * a
  BY <1>10
<1> HIDE DEF F, G, Bad
<1> QED BY <1>3, <1>11, <1>12, Zenon

\* The same number for every part adds up to that number times the parts.
LEMMA SumOfEqual ==
    ASSUME NEW f, NEW D, IsFiniteSet(D), NEW t \in Nat, \A x \in D : f[x] = t
    PROVE  SumFunctionOnSet(f, D) = t * Cardinality(D)
<1> DEFINE ones == [x \in D |-> 1]
           Bad == {s \in SUBSET D : SumFunctionOnSet(ones, s) # Cardinality(s)}
<1>1. Bad = {}
  <2> SUFFICES ASSUME Bad # {} PROVE FALSE
    OBVIOUS
  <2>1. PICK s \in Bad : \A x \in s : s \ {x} \notin Bad
    <3>1. Bad \in SUBSET SUBSET D
      OBVIOUS
    <3> HIDE DEF Bad
    <3> QED BY <3>1, SmallestPart
  <2>2. s \subseteq D /\ SumFunctionOnSet(ones, s) # Cardinality(s) /\ IsFiniteSet(s)
    BY FS_Subset
  <2>3. s # {}
    BY <2>2, SumOverNone, FS_EmptySet
  <2>4. PICK x : x \in s
    BY <2>3
  <2>5. SumFunctionOnSet(ones, s \ {x}) = Cardinality(s \ {x})
    BY <2>1, <2>2, <2>4
  <2>6. Cardinality(s) \in Nat /\ Cardinality(s \ {x}) = Cardinality(s) - 1
    BY <2>2, <2>4, FS_CardinalityType, FS_RemoveElement
  <2>7. SumFunctionOnSet(ones, s) = ones[x] + SumFunctionOnSet(ones, s \ {x})
    <3>1. \A y \in s : ones[y] \in Nat
      BY <2>2
    <3> HIDE DEF Bad, ones
    <3> QED BY <2>2, <2>4, <3>1, SumTakesOut
  <2>8. ones[x] = 1
    BY <2>2, <2>4
  <2> HIDE DEF ones, Bad
  <2> QED BY <2>2, <2>5, <2>6, <2>7, <2>8
<1>2. SumFunctionOnSet(ones, D) = Cardinality(D)
  <2>1. D \in SUBSET D /\ D \notin Bad
    BY <1>1
  <2> HIDE DEF ones
  <2> QED BY <2>1
<1>3. \A x \in D : ones[x] \in Nat /\ f[x] = t * ones[x]
  OBVIOUS
<1> HIDE DEF ones, Bad
<1> QED BY <1>2, <1>3, SumTimes

\* A number more for every part is that number more for each of the parts.
LEMMA SumEachPlus ==
    ASSUME NEW f, NEW g, NEW D, IsFiniteSet(D), NEW t \in Nat,
           \A x \in D : f[x] \in Nat /\ g[x] = f[x] + t
    PROVE  SumFunctionOnSet(g, D) = SumFunctionOnSet(f, D) + t * Cardinality(D)
<1> DEFINE same == [x \in D |-> t]
<1>1. \A x \in D : f[x] \in Nat /\ same[x] \in Nat /\ g[x] = f[x] + same[x] /\ same[x] = t
  OBVIOUS
<1> HIDE DEF same
<1>2. SumFunctionOnSet(g, D) = SumFunctionOnSet(f, D) + SumFunctionOnSet(same, D)
  BY <1>1, SumsAdd
<1>3. SumFunctionOnSet(same, D) = t * Cardinality(D)
  BY <1>1, SumOfEqual
<1> QED BY <1>2, <1>3

\* Shares of a total in proportion, each rounded down, are no more than the total.
LEMMA SharesAtMost ==
    ASSUME NEW f, NEW w, NEW D, IsFiniteSet(D), NEW n \in Nat,
           \A x \in D : w[x] \in Nat,
           SumFunctionOnSet(w, D) > 0,
           \A x \in D : f[x] = (n * w[x]) \div SumFunctionOnSet(w, D)
    PROVE  SumFunctionOnSet(f, D) <= n
<1>1. PICK t : t = SumFunctionOnSet(w, D)
  OBVIOUS
<1>2. t \in Nat /\ t > 0
  BY <1>1, SumIsNat
<1>3. \A x \in D : f[x] = (n * w[x]) \div t
  BY <1>1
<1>4. \A a \in Nat : a \div t \in Nat /\ t * (a \div t) <= a
  BY <1>2
<1>5. \A x \in D : f[x] \in Nat /\ t * f[x] <= n * w[x] /\ n * w[x] \in Nat
  BY <1>3, <1>4
<1> DEFINE tf == [x \in D |-> t * f[x]]
           nw == [x \in D |-> n * w[x]]
<1>6. \A x \in D : tf[x] = t * f[x] /\ nw[x] = n * w[x] /\ tf[x] \in Nat /\ nw[x] \in Nat
                     /\ tf[x] <= nw[x]
  BY <1>2, <1>5
<1> HIDE DEF tf, nw
<1>7. SumFunctionOnSet(tf, D) = t * SumFunctionOnSet(f, D)
  BY <1>2, <1>5, <1>6, SumTimes
<1>8. SumFunctionOnSet(nw, D) = n * t
  BY <1>1, <1>6, SumTimes
<1>9. SumFunctionOnSet(tf, D) <= SumFunctionOnSet(nw, D)
  BY <1>6, SumAtMost
<1>10. PICK a : a = SumFunctionOnSet(f, D)
  OBVIOUS
<1>11. a \in Nat
  BY <1>5, <1>10, SumIsNat
<1>12. t * a <= n * t
  BY <1>7, <1>8, <1>9, <1>10, Zenon
<1>13. a <= n
  BY <1>2, <1>11, <1>12
<1> QED BY <1>10, <1>13, Zenon

\* A finite set of integers that is not empty has a greatest member.
LEMMA Greatest ==
    ASSUME NEW S \in SUBSET Int, IsFiniteSet(S), S # {}
    PROVE  Max(S) \in S /\ \A y \in S : y <= Max(S)
<1> DEFINE Bad == {s \in SUBSET S : s # {} /\ \A m \in s : \E y \in s : ~(m >= y)}
<1>1. Bad = {}
  <2> SUFFICES ASSUME Bad # {} PROVE FALSE
    OBVIOUS
  <2>1. PICK s \in Bad : \A x \in s : s \ {x} \notin Bad
    <3>1. Bad \in SUBSET SUBSET S
      OBVIOUS
    <3> HIDE DEF Bad
    <3> QED BY <3>1, SmallestPart
  <2>2. s \subseteq S /\ s # {} /\ \A m \in s : \E y \in s : ~(m >= y)
    OBVIOUS
  <2>3. PICK x : x \in s
    BY <2>2
  <2>4. s \ {x} \in SUBSET S /\ s \ {x} \notin Bad
    BY <2>1, <2>2, <2>3
  <2>5. s \ {x} # {}
    BY <2>2, <2>3
  <2>6. PICK m \in s \ {x} : \A y \in s \ {x} : m >= y
    BY <2>4, <2>5
  <2>7. m \in Int /\ x \in Int /\ \A y \in s : y \in Int
    BY <2>2, <2>3, <2>6
  <2>8. (\A y \in s : m >= y) \/ (\A y \in s : x >= y)
    BY <2>6, <2>7
  <2> QED BY <2>2, <2>3, <2>6, <2>8
<1>2. \E m \in S : \A y \in S : m >= y
  <2>1. S \in SUBSET S /\ S \notin Bad
    BY <1>1
  <2> QED BY <2>1
<1>3. Max(S) \in S /\ \A y \in S : Max(S) >= y
  BY <1>2 DEF Max
<1> QED BY <1>3

\* Finitely many arguments have finitely many values.
LEMMA ValuesFinite ==
    ASSUME NEW f, NEW S, IsFiniteSet(S)
    PROVE  IsFiniteSet({f[i] : i \in S})
<1> PICK g : g = [i \in S |-> f[i]]
  OBVIOUS
<1> PICK T : T = {f[i] : i \in S}
  OBVIOUS
<1>1. \A i \in S : g[i] = f[i] /\ g[i] \in T
  OBVIOUS
<1>2. \A t \in T : \E i \in S : g[i] = t
  BY <1>1
<1>3. g \in [S -> T]
  BY <1>1
<1>4. g \in Surjection(S, T)
  BY <1>2, <1>3 DEF Surjection
<1> QED BY <1>4, FS_Surjection

\* One summand that changes changes the sum as much.
LEMMA SumChangesOne ==
    ASSUME NEW f, NEW g, NEW D, IsFiniteSet(D), NEW e \in D, NEW k \in Nat,
           \A x \in D : f[x] \in Nat, \A x \in D \ {e} : g[x] = f[x], g[e] = f[e] + k
    PROVE  SumFunctionOnSet(g, D) = SumFunctionOnSet(f, D) + k
<1>1. PICK old \in Nat : old = f[e]
  OBVIOUS
<1>2. g[e] \in Nat
  OBVIOUS
<1>3. PICK s \in Nat, t \in Nat : s = SumFunctionOnSet(f, D) /\ t = SumFunctionOnSet(g, D)
  <2>1. \A x \in D : g[x] \in Nat
    BY <1>2
  <2> QED BY <2>1, SumIsNat
<1>4. s + g[e] = t + old
  BY <1>1, <1>2, <1>3, SumWithOne
<1> QED BY <1>1, <1>3, <1>4

\* A sum splits over a part and the rest.
LEMMA SumSplits ==
    ASSUME NEW f, NEW D, IsFiniteSet(D), \A x \in D : f[x] \in Nat, NEW T, T \subseteq D
    PROVE  SumFunctionOnSet(f, D) = SumFunctionOnSet(f, T) + SumFunctionOnSet(f, D \ T)
<1> PICK g : g = [x \in D |-> IF x \in T THEN f[x] ELSE 0]
  OBVIOUS
<1> PICK h : h = [x \in D |-> IF x \in T THEN 0 ELSE f[x]]
  OBVIOUS
<1>1. \A x \in D : g[x] \in Nat /\ h[x] \in Nat /\ f[x] = g[x] + h[x]
  OBVIOUS
<1>2. SumFunctionOnSet(f, D) = SumFunctionOnSet(g, D) + SumFunctionOnSet(h, D)
  BY <1>1, SumsAdd
<1>3. SumFunctionOnSet(g, D) = SumFunctionOnSet(f, T)
  <2>1. \A x \in D : g[x] \in Nat /\ (x \in T => g[x] = f[x]) /\ (x \notin T => g[x] = 0)
    OBVIOUS
  <2> QED BY <2>1, SumPastZeros
<1>4. SumFunctionOnSet(h, D) = SumFunctionOnSet(f, D \ T)
  <2>1. \A x \in D : /\ h[x] \in Nat /\ (x \in D \ T => h[x] = f[x])
                     /\ (x \notin D \ T => h[x] = 0)
    OBVIOUS
  <2>2. D \ T \subseteq D
    OBVIOUS
  <2> QED BY <2>1, <2>2, SumPastZeros
<1> QED BY <1>2, <1>3, <1>4

\* A sum over numbers from some number on is the sum over as many from nothing on.
Shifted(f, g, k, m) == \A h \in 0..m - 1 : f[k + h] \in Nat /\ g[h] = f[k + h]

LEMMA SumShifts ==
    ASSUME NEW f, NEW g, NEW k \in Nat, NEW m \in Nat, Shifted(f, g, k, m)
    PROVE  SumFunctionOnSet(g, 0..m - 1) = SumFunctionOnSet(f, k..k + m - 1)
<1> USE DEF Shifted
<1> DEFINE Even(n) == SumFunctionOnSet(g, 0..n - 1) = SumFunctionOnSet(f, k..k + n - 1)
<1> PICK I : I = {n \in 0..m : ~Even(n)}
  OBVIOUS
<1>1. SUFFICES ASSUME I # {} PROVE FALSE
  <2>1. m \in 0..m
    OBVIOUS
  <2> QED BY <2>1
<1>2. PICK n \in I : \A j \in I : n =< j
  <2>1. I \in SUBSET Nat
    OBVIOUS
  <2> HIDE DEF Even
  <2>2. \E k2 \in I : \A j \in I : k2 =< j
    BY <1>1, <2>1, LeastNumber
  <2> QED BY <2>2
<1>3. n \in 0..m /\ ~Even(n)
  BY <1>2
<1>4. Even(0)
  <2>1. 0..0 - 1 = {} /\ k..k + 0 - 1 = {}
    OBVIOUS
  <2> QED BY <2>1, SumOverNone
<1>5. n # 0
  BY <1>3, <1>4
<1>6. PICK b \in Nat : b = n - 1
  BY <1>3, <1>5
<1>7. Even(b)
  <2>1. b \in 0..m /\ ~(n =< b)
    BY <1>3, <1>6
  <2> QED BY <1>2, <2>1
<1>8. SumFunctionOnSet(g, 0..b) = g[b] + SumFunctionOnSet(g, 0..b - 1)
  <2> PICK D : D = 0..b
    OBVIOUS
  <2>1. D \ {b} = 0..b - 1 /\ b \in D /\ \A x \in D : g[x] \in Nat
    BY <1>3, <1>6, SMTT(30)
  <2>2. IsFiniteSet(D)
    BY <1>6, FS_Interval
  <2>3. SumFunctionOnSet(g, D) = g[b] + SumFunctionOnSet(g, D \ {b})
    BY ONLY <2>1, <2>2, SumTakesOut
  <2> QED BY <2>1, <2>3
<1>9. SumFunctionOnSet(f, k..k + b) = f[k + b] + SumFunctionOnSet(f, k..k + b - 1)
  <2> PICK e \in Nat : e = k + b
    BY <1>6
  <2> PICK D : D = k..e
    OBVIOUS
  <2>1. D \ {e} = k..e - 1 /\ e \in D
    BY <1>6, SMTT(30)
  <2>2. \A x \in D : f[x] \in Nat
    <3> TAKE x \in D
    <3>1. x - k \in 0..m - 1 /\ k + (x - k) = x
      BY <1>3, <1>6
    <3> QED BY <3>1
  <2>3. IsFiniteSet(D)
    BY FS_Interval
  <2>4. SumFunctionOnSet(f, D) = f[e] + SumFunctionOnSet(f, D \ {e})
    BY ONLY <2>1, <2>2, <2>3, SumTakesOut
  <2>5. SumFunctionOnSet(f, D) = f[e] + SumFunctionOnSet(f, k..e - 1)
    BY <2>1, <2>4
  <2>6. k + b = e
    OBVIOUS
  <2> QED BY ONLY <2>5, <2>6, D = k..e
<1>10. n - 1 = b /\ k + n - 1 = k + b
  BY <1>3, <1>6
<1>11. g[b] = f[k + b]
  BY <1>3, <1>6
<1> QED BY <1>3, <1>7, <1>8, <1>9, <1>10, <1>11

-----------------------------------------------------------------------------
(* The cache of responses.  The inductive invariant, part by part. *)

\* A call under way has a request; what only run() does, a run does.
RequestInv ==
    \A c \in Calls :
        /\ pc[c] \notin {"new", "answered"} => req[c] \in Requests
        /\ pc[c] \in {"reserve", "compute", "finish", "fit", "failed", "await"}
               => req[c].op = "run"
        /\ pc[c] = "new" => req[c] = NoRequest
        /\ pc[c] = "peek" => req[c].op = "replay"

\* The lock is held by the one call that is inside a critical section.
LockInv ==
    \A c \in Calls : (lock = c) <=> (pc[c] \in {"expire", "lookup", "reserve", "fit"})

\* An id maps to the slot of a run of that id that has registered.
TableInv ==
    \A i \in Tracked :
        /\ req[table[i]].id = i
        /\ req[table[i]].op = "run"
        /\ pc[table[i]] \in {"compute", "finish", "fit", "failed", "answered"}

\* What a slot says agrees with how far its call has come.
SlotInv ==
    \A c \in Calls :
        /\ pc[c] = "compute" => ~slot[c].done
        /\ slot[c].failed => ~slot[c].cached
        /\ pc[c] = "failed" => ~slot[c].cached
        /\ pc[c] \in {"finish", "fit"} => slot[c].size \in SizesOf[req[c].id]

\* What a critical section has established still holds inside it.
SectionInv ==
    \A c \in Calls :
        /\ pc[c] = "lookup"  => Stale = {}
        /\ pc[c] = "reserve" => table[req[c].id] = None

\* A slot somebody waits on was created for the same request.
JoinedInv ==
    \A c \in Calls :
        /\ pc[c] = "await" => joined[c] # None
        /\ joined[c] # None =>
              /\ pc[c] \in {"await", "peek", "answered"}
              /\ pc[joined[c]] \in {"compute", "finish", "fit", "failed", "answered"}
              /\ req[joined[c]].id = req[c].id
              /\ req[joined[c]].op = "run"
              /\ req[c].op = "run" => req[joined[c]].fp = req[c].fp

AnswerInv ==
    \A c \in Calls :
        /\ pc[c] # "answered" => answer[c].of = None
        /\ answer[c].of \notin {c, None} => answer[c].of = joined[c]

\* A running or just failed batch whose response always fits is the one its id maps to.
OwnedInv ==
    \A c \in Calls :
        pc[c] \in {"compute", "failed"} /\ req[c].id \in FittingIds => table[req[c].id] = c

IInv == /\ TypeOK
        /\ RequestInv
        /\ LockInv
        /\ TableInv
        /\ SlotInv
        /\ SectionInv
        /\ JoinedInv
        /\ AnswerInv
        /\ OwnedInv
        /\ FailureForgotten
-----------------------------------------------------------------------------
\* An empty cache satisfies the invariant.
LEMMA InitInv == Init => IInv
  BY NoneAssumption, RequestAssumption, BytesAssumption, ClockAssumption
  DEF Init, IInv, TypeOK, RequestInv, LockInv, TableInv, SlotInv, SectionInv, JoinedInv,
      AnswerInv, OwnedInv, FailureForgotten, Slot, FreshSlot, Answer, Refusal, NoRequest,
      PCs, Tracked

\* Ending a computation and giving up on caching keep a slot a slot.
LEMMA SlotUpdates ==
    /\ \A s \in Slot : [s EXCEPT !.cached = FALSE] \in Slot
    /\ \A s \in Slot, t \in 0..MaxTime :
          /\ [s EXCEPT !.done = TRUE, !.failed = TRUE, !.cached = FALSE, !.finished = t] \in Slot
          /\ \A n \in Nat : [s EXCEPT !.done = TRUE, !.size = n, !.finished = t] \in Slot
  BY ZenonT(30) DEF Slot

\* Every step of run(), replay(), clear() and the clock keeps the invariant.
LEMMA StepInv == IInv /\ [Next]_vars => IInv'
<1> SUFFICES ASSUME IInv, [Next]_vars PROVE IInv'
  OBVIOUS
<1> USE NoneAssumption, RequestAssumption, SizesAssumption, BytesAssumption,
        ClockAssumption
<1> USE DEF IInv, TypeOK, RequestInv, LockInv, TableInv, SlotInv, SectionInv, JoinedInv,
            AnswerInv, OwnedInv, FailureForgotten, Slot, PCs, GoTo, Return, Slots,
            Tracked, Completed, Stale
<1>1. ASSUME NEW c \in Calls, NEW r \in Requests, Arrive(c, r) PROVE IInv'
  BY <1>1 DEF Arrive, NoRequest
<1>2. ASSUME NEW c \in Calls, RunUnnamed(c) PROVE IInv'
  BY <1>2 DEF RunUnnamed, Answer
<1>3. ASSUME NEW c \in Calls, Enter(c) PROVE IInv'
  BY <1>3 DEF Enter
<1>4. ASSUME NEW c \in Calls, NEW i \in Ids, ExpireOne(c, i) PROVE IInv'
  BY <1>4 DEF ExpireOne, Drop
<1>5. ASSUME NEW c \in Calls, ExpireDone(c) PROVE IInv'
  BY <1>5 DEF ExpireDone
<1>6. ASSUME NEW c \in Calls, Mismatch(c) PROVE IInv'
  BY <1>6 DEF Mismatch, Answer, Refusal
<1>7. ASSUME NEW c \in Calls, Join(c) PROVE IInv'
  <2>0. req[c].id \in Ids /\ table[req[c].id] \in Calls /\ joined[c] = None
    BY <1>7 DEF Join
  <2>1. TypeOK'
    BY <1>7, <2>0 DEF Join
  <2>2. RequestInv'
    BY <1>7, <2>0 DEF Join
  <2>3. LockInv'
    BY <1>7, <2>0 DEF Join
  <2>4. TableInv'
    BY <1>7, <2>0 DEF Join
  <2>5. SlotInv'
    BY <1>7, <2>0 DEF Join
  <2>6. SectionInv'
    BY <1>7, <2>0 DEF Join
  <2>7. JoinedInv'
    BY <1>7, <2>0 DEF Join
  <2>8. AnswerInv'
    BY <1>7, <2>0 DEF Join
  <2>9. OwnedInv'
    BY <1>7, <2>0 DEF Join
  <2>10. FailureForgotten'
    BY <1>7, <2>0 DEF Join
  <2> QED BY <2>1, <2>2, <2>3, <2>4, <2>5, <2>6, <2>7, <2>8, <2>9, <2>10 DEF IInv
<1>8. ASSUME NEW c \in Calls, Miss(c) PROVE IInv'
  BY <1>8 DEF Miss
<1>9. ASSUME NEW c \in Calls, NEW i \in Ids, EvictForSlot(c, i) PROVE IInv'
  BY <1>9 DEF EvictForSlot, Drop, Oldest
<1>10. ASSUME NEW c \in Calls, RejectFull(c) PROVE IInv'
  BY <1>10 DEF RejectFull, Answer, Refusal
<1>11. ASSUME NEW c \in Calls, Register(c) PROVE IInv'
  BY <1>11 DEF Register, FreshSlot
<1>12. ASSUME NEW c \in Calls, ComputeOk(c) PROVE IInv'
  <2>1. TypeOK'
    <3>1. PICK n \in SizesOf[req[c].id] :
             slot' = [slot EXCEPT ![c] = [@ EXCEPT !.done = TRUE, !.size = n,
                                                   !.finished = now]]
      BY <1>12 DEF ComputeOk
    <3>2. n \in Nat
      BY <1>12 DEF ComputeOk
    <3> HIDE DEF Slot
    <3>0. slot[c] \in Slot /\ now \in 0..MaxTime
      OBVIOUS
    <3>3. [slot[c] EXCEPT !.done = TRUE, !.size = n, !.finished = now] \in Slot
      BY <3>0, <3>2, SlotUpdates, Zenon
    <3>4. slot' \in [Calls -> Slot]
      BY <3>1, <3>3
    <3> QED BY <1>12, <3>4 DEF ComputeOk
  <2>2. RequestInv'
    BY <1>12 DEF ComputeOk
  <2>3. LockInv'
    BY <1>12 DEF ComputeOk
  <2>4. TableInv'
    BY <1>12 DEF ComputeOk
  <2>5. SlotInv'
    BY <1>12 DEF ComputeOk
  <2>6. SectionInv'
    BY <1>12 DEF ComputeOk
  <2>7. JoinedInv'
    BY <1>12 DEF ComputeOk
  <2>8. AnswerInv'
    BY <1>12 DEF ComputeOk
  <2>9. OwnedInv'
    BY <1>12 DEF ComputeOk
  <2>10. FailureForgotten'
    BY <1>12 DEF ComputeOk
  <2> QED BY <2>1, <2>2, <2>3, <2>4, <2>5, <2>6, <2>7, <2>8, <2>9, <2>10 DEF IInv
<1>13. ASSUME NEW c \in Calls, ComputeFail(c) PROVE IInv'
  <2>1. TypeOK'
    <3> HIDE DEF Slot
    <3>0. slot[c] \in Slot /\ now \in 0..MaxTime
      OBVIOUS
    <3>1. [slot[c] EXCEPT !.done = TRUE, !.failed = TRUE, !.cached = FALSE,
                          !.finished = now] \in Slot
      BY <3>0, SlotUpdates, Zenon
    <3>2. slot' \in [Calls -> Slot]
      BY <1>13, <3>1 DEF ComputeFail
    <3> QED BY <1>13, <3>2 DEF ComputeFail
  <2>2. RequestInv'
    BY <1>13 DEF ComputeFail
  <2>3. LockInv'
    BY <1>13 DEF ComputeFail
  <2>4. TableInv'
    BY <1>13 DEF ComputeFail
  <2>5. SlotInv'
    BY <1>13 DEF ComputeFail
  <2>6. SectionInv'
    BY <1>13 DEF ComputeFail
  <2>7. JoinedInv'
    BY <1>13 DEF ComputeFail
  <2>8. AnswerInv'
    BY <1>13 DEF ComputeFail
  <2>9. OwnedInv'
    BY <1>13 DEF ComputeFail
  <2>10. FailureForgotten'
    BY <1>13 DEF ComputeFail
  <2> QED BY <2>1, <2>2, <2>3, <2>4, <2>5, <2>6, <2>7, <2>8, <2>9, <2>10 DEF IInv
<1>14. ASSUME NEW c \in Calls, ForgetFailed(c) PROVE IInv'
  BY <1>14 DEF ForgetFailed, Answer
<1>15. ASSUME NEW c \in Calls, FinishOversized(c) PROVE IInv'
  <2>1. TypeOK'
    <3> HIDE DEF Slot
    <3>0. slot[c] \in Slot /\ now \in 0..MaxTime
      OBVIOUS
    <3>1. [slot[c] EXCEPT !.cached = FALSE] \in Slot
      BY <3>0, SlotUpdates, Zenon
    <3>2. slot' \in [Calls -> Slot]
      BY <1>15, <3>1 DEF FinishOversized
    <3> QED BY <1>15, <3>2 DEF FinishOversized, Answer
  <2>2. RequestInv'
    BY <1>15 DEF FinishOversized, FittingIds, Answer
  <2>3. LockInv'
    BY <1>15 DEF FinishOversized, FittingIds, Answer
  <2>4. TableInv'
    BY <1>15 DEF FinishOversized, FittingIds, Answer
  <2>5. SlotInv'
    BY <1>15 DEF FinishOversized, FittingIds, Answer
  <2>6. SectionInv'
    BY <1>15 DEF FinishOversized, FittingIds, Answer
  <2>7. JoinedInv'
    BY <1>15 DEF FinishOversized, FittingIds, Answer
  <2>8. AnswerInv'
    BY <1>15 DEF FinishOversized, FittingIds, Answer
  <2>9. OwnedInv'
    BY <1>15 DEF FinishOversized, FittingIds, Answer
  <2>10. FailureForgotten'
    BY <1>15 DEF FinishOversized, FittingIds, Answer
  <2> QED BY <2>1, <2>2, <2>3, <2>4, <2>5, <2>6, <2>7, <2>8, <2>9, <2>10 DEF IInv
<1>16. ASSUME NEW c \in Calls, FinishEnter(c) PROVE IInv'
  BY <1>16 DEF FinishEnter
<1>17. ASSUME NEW c \in Calls, NEW i \in Ids, EvictForBytes(c, i) PROVE IInv'
  BY <1>17 DEF EvictForBytes, Drop, Oldest
<1>18. ASSUME NEW c \in Calls, Account(c) PROVE IInv'
  BY <1>18 DEF Account, Answer
<1>19. ASSUME NEW c \in Calls, Await(c) PROVE IInv'
  BY <1>19 DEF Await, Answer
<1>20. ASSUME NEW c \in Calls, AwaitTimeout(c) PROVE IInv'
  BY <1>20 DEF AwaitTimeout, Answer, Refusal
<1>21. ASSUME NEW c \in Calls, ReplayLookup(c) PROVE IInv'
  <2>0. req[c].id \in Ids /\ joined[c] = None
    BY <1>21 DEF ReplayLookup
  <2>1. TypeOK'
    BY <1>21, <2>0 DEF ReplayLookup
  <2>2. RequestInv'
    BY <1>21, <2>0 DEF ReplayLookup
  <2>3. LockInv'
    BY <1>21, <2>0 DEF ReplayLookup
  <2>4. TableInv'
    BY <1>21, <2>0 DEF ReplayLookup
  <2>5. SlotInv'
    BY <1>21, <2>0 DEF ReplayLookup
  <2>6. SectionInv'
    BY <1>21, <2>0 DEF ReplayLookup
  <2>7. JoinedInv'
    BY <1>21, <2>0 DEF ReplayLookup
  <2>8. AnswerInv'
    BY <1>21, <2>0 DEF ReplayLookup
  <2>9. OwnedInv'
    BY <1>21, <2>0 DEF ReplayLookup
  <2>10. FailureForgotten'
    BY <1>21, <2>0 DEF ReplayLookup
  <2> QED BY <2>1, <2>2, <2>3, <2>4, <2>5, <2>6, <2>7, <2>8, <2>9, <2>10 DEF IInv
<1>22. ASSUME NEW c \in Calls, Peek(c) PROVE IInv'
  <2>1. TypeOK'
    <3>1. PICK a \in Answer : Return(c, a)
      BY <1>22 DEF Peek, Answer, Refusal
    <3> QED BY <1>22, <3>1 DEF Peek
  <2>2. RequestInv'
    BY <1>22 DEF Peek, Answer, Refusal
  <2>3. LockInv'
    BY <1>22 DEF Peek, Answer, Refusal
  <2>4. TableInv'
    BY <1>22 DEF Peek, Answer, Refusal
  <2>5. SlotInv'
    BY <1>22 DEF Peek, Answer, Refusal
  <2>6. SectionInv'
    BY <1>22 DEF Peek, Answer, Refusal
  <2>7. JoinedInv'
    <3>1. req' = req /\ joined' = joined /\ pc' = [pc EXCEPT ![c] = "answered"]
      BY <1>22 DEF Peek
    <3>2. pc[c] = "peek"
      BY <1>22 DEF Peek
    <3> QED BY <3>1, <3>2
  <2>8. AnswerInv'
    <3>1. PICK a \in Answer : Return(c, a) /\ a.of \in {joined[c], None}
      BY <1>22 DEF Peek, Answer, Refusal
    <3>2. joined' = joined /\ answer' = [answer EXCEPT ![c] = a]
          /\ pc' = [pc EXCEPT ![c] = "answered"]
      BY <1>22, <3>1 DEF Peek
    <3> QED BY <3>1, <3>2
  <2>9. OwnedInv'
    <3>1. req' = req /\ table' = table /\ pc' = [pc EXCEPT ![c] = "answered"]
      BY <1>22 DEF Peek, Slots
    <3> QED BY <3>1
  <2>10. FailureForgotten'
    BY <1>22 DEF Peek, Answer, Refusal
  <2> QED BY <2>1, <2>2, <2>3, <2>4, <2>5, <2>6, <2>7, <2>8, <2>9, <2>10 DEF IInv
<1>23. CASE Clear
  <2>1. /\ \A c \in Calls : pc[c] \in {"new", "answered"}
        /\ table' = [i \in Ids |-> None] /\ bytes' = 0
        /\ UNCHANGED <<now, lock, pc, req, slot, joined, answer>>
    BY <1>23 DEF Clear
  <2>2. TypeOK' /\ RequestInv' /\ LockInv'
    BY <2>1
  <2>3. TableInv' /\ SlotInv' /\ SectionInv'
    BY <2>1
  <2>4. JoinedInv' /\ AnswerInv' /\ OwnedInv' /\ FailureForgotten'
    BY <2>1
  <2> QED BY <2>2, <2>3, <2>4 DEF IInv
<1>24. CASE Tick
  BY <1>24 DEF Tick
<1>25. CASE UNCHANGED vars
  BY <1>25 DEF vars
<1> QED
  BY <1>1, <1>2, <1>3, <1>4, <1>5, <1>6, <1>7, <1>8, <1>9, <1>10, <1>11, <1>12, <1>13,
     <1>14, <1>15, <1>16, <1>17, <1>18, <1>19, <1>20, <1>21, <1>22, <1>23, <1>24, <1>25
     DEF Next, Step

\* The invariant holds in every reachable state.
LEMMA Invariance == Spec => []IInv
  BY InitInv, StepInv, PTL DEF Spec

-----------------------------------------------------------------------------
\* The type invariant: in particular the clamp of _drop_locked keeps _bytes a natural
\* number although a slot can be dropped before its bytes were added.
THEOREM TypeCorrect == Spec => []TypeOK
<1>1. IInv => TypeOK
  BY DEF IInv
<1> QED BY <1>1, Invariance, PTL

\* A batch whose response always fits the budget stays in the table for as long as it
\* runs, so no retry of it can start a second execution beside the first.
THEOREM InFlightSafe == Spec => []FittingInFlightTracked
<1>1. IInv => FittingInFlightTracked
  BY DEF IInv, OwnedInv, FittingInFlightTracked, InFlight
<1> QED BY <1>1, Invariance, PTL

\* Whatever a call is handed was computed for its own id, and for its own content.
THEOREM AnswersMatch == Spec => []AnswerOfSameRequest
<1>1. IInv => AnswerOfSameRequest
  BY NoneAssumption
  DEF IInv, TypeOK, Answer, JoinedInv, AnswerInv, AnswerOfSameRequest
<1> QED BY <1>1, Invariance, PTL

\* An error reaches the retries that were waiting for it and no later call.
THEOREM FailuresForgotten == Spec => []FailureForgotten
<1>1. IInv => FailureForgotten
  BY DEF IInv
<1> QED BY <1>1, Invariance, PTL

\* A completed response handed to a later call is never older than the ttl.
THEOREM ReplaysFresh == Spec => NoStaleReplay
<1> DEFINE Fresh == \A c \in Calls : joined'[c] # joined[c] =>
                LET s == slot[joined'[c]] IN s.done /\ s.cached => s.finished >= now - Ttl
<1>1. ASSUME IInv, [Next]_vars PROVE Fresh
  <2> SUFFICES ASSUME NEW c \in Calls, joined'[c] # joined[c]
               PROVE  LET s == slot[joined'[c]]
                      IN  s.done /\ s.cached => s.finished >= now - Ttl
    OBVIOUS
  <2>1. Join(c) \/ ReplayLookup(c)
    <3>1. ASSUME NEW d \in Calls, Step(d), ~Join(d), ~ReplayLookup(d)
          PROVE  joined' = joined
      BY <3>1
      DEF Step, Enter, ExpireOne, ExpireDone, Mismatch, Miss, EvictForSlot, RejectFull,
          Register, ComputeOk, ComputeFail, ForgetFailed, FinishOversized, FinishEnter,
          EvictForBytes, Account, Await, Peek
    <3>2. joined' # joined
      OBVIOUS
    <3>3. PICK d \in Calls : Join(d) \/ ReplayLookup(d)
      BY <1>1, <3>1, <3>2 DEF Next, vars, Arrive, RunUnnamed, AwaitTimeout, Clear, Tick
    <3>4. d = c
      BY <1>1, <3>3 DEF IInv, TypeOK, Join, ReplayLookup
    <3> QED BY <3>3, <3>4
  <2> DEFINE i == req[c].id
  <2>2. pc[c] = "lookup" /\ joined' = [joined EXCEPT ![c] = table[i]]
    BY <2>1 DEF Join, ReplayLookup
  <2>3. i \in Ids /\ joined[c] = None /\ Stale = {}
    BY <1>1, <2>2, RequestAssumption DEF IInv, RequestInv, JoinedInv, SectionInv
  <2>4. joined'[c] = table[i] /\ i \in Tracked
    BY <1>1, <2>2, <2>3 DEF IInv, TypeOK, Tracked
  <2>5. table[i] \in Calls
    BY <1>1, <2>4 DEF IInv, TypeOK, Tracked
  <2>6. slot[table[i]].finished \in Int /\ now \in Int /\ Ttl \in Int
    BY <1>1, <2>5, ClockAssumption DEF IInv, TypeOK, Slot
  <2> QED BY <2>3, <2>4, <2>6 DEF Stale, Completed
<1>2. IInv /\ [Next]_vars => [Fresh]_vars
  BY <1>1
<1> QED BY <1>2, Invariance, PTL DEF Spec, NoStaleReplay

-----------------------------------------------------------------------------
\* A slot that can be found, in the table or by a reference, is done or being computed.
DoneOrRunning(c) == slot[c].done \/ pc[c] = "compute"

FoundInv ==
    /\ \A c \in Calls : pc[c] \in {"finish", "fit", "failed"} => slot[c].done
    /\ \A i \in Tracked : DoneOrRunning(table[i])
    /\ \A c \in Calls : joined[c] # None => DoneOrRunning(joined[c])

\* A step takes no slot back: only its own call registers one, before anybody can find it.
LEMMA FoundStep == ASSUME IInv, FoundInv, [Next]_vars PROVE FoundInv'
<1> USE NoneAssumption, RequestAssumption DEF IInv, TypeOK, FoundInv, DoneOrRunning, Tracked
<1>1. ASSUME NEW c \in Calls, Register(c) PROVE FoundInv'
  BY <1>1 DEF Register, RequestInv, TableInv, JoinedInv, FreshSlot, GoTo, Slot, Tracked
<1>2. ASSUME NEW c \in Calls, ComputeOk(c) PROVE FoundInv'
  <2>1. slot'[c].done /\ \A d \in Calls : d # c => slot'[d] = slot[d]
    BY <1>2 DEF ComputeOk, Slot
  <2> QED BY <1>2, <2>1 DEF ComputeOk, GoTo, Slots, RequestInv, JoinedInv
<1>3. ASSUME NEW c \in Calls, ComputeFail(c) PROVE FoundInv'
  <2>1. slot'[c].done /\ \A d \in Calls : d # c => slot'[d] = slot[d]
    BY <1>3 DEF ComputeFail, Slot
  <2> QED BY <1>3, <2>1 DEF ComputeFail, GoTo, Slots, RequestInv, JoinedInv
<1>4. ASSUME NEW c \in Calls, FinishOversized(c) PROVE FoundInv'
  <2>1. \A d \in Calls : slot'[d].done = slot[d].done
    BY <1>4 DEF FinishOversized, Slot
  <2> QED BY <1>4, <2>1 DEF FinishOversized, GoTo, Return, RequestInv, JoinedInv
<1>5. ASSUME NEW c \in Calls, Join(c) \/ ReplayLookup(c) PROVE FoundInv'
  BY <1>5 DEF Join, ReplayLookup, GoTo, Slots, RequestInv
<1>6. ASSUME NEW c \in Calls, NEW i \in Ids,
             ExpireOne(c, i) \/ EvictForSlot(c, i) \/ EvictForBytes(c, i)
      PROVE  FoundInv'
  BY <1>6 DEF ExpireOne, EvictForSlot, EvictForBytes, Drop
<1>7. ASSUME NEW c \in Calls, Enter(c) \/ ExpireDone(c) \/ Miss(c) \/ FinishEnter(c)
      PROVE  FoundInv'
  BY <1>7 DEF Enter, ExpireDone, Miss, FinishEnter, GoTo, Slots
<1>8. ASSUME NEW c \in Calls,
             \/ Mismatch(c) \/ RejectFull(c) \/ ForgetFailed(c) \/ Account(c)
             \/ Await(c) \/ AwaitTimeout(c) \/ Peek(c) \/ RunUnnamed(c)
      PROVE  FoundInv'
  BY <1>8 DEF Mismatch, RejectFull, ForgetFailed, Account, Await, AwaitTimeout, Peek,
              RunUnnamed, GoTo, Return, Slots, RequestInv
<1>9. ASSUME NEW c \in Calls, NEW r \in Requests, Arrive(c, r) PROVE FoundInv'
  BY <1>9 DEF Arrive, GoTo, Slots
<1>10. CASE Clear \/ Tick \/ UNCHANGED vars
  BY <1>10 DEF Clear, Tick, vars, Slots
<1> QED
  BY <1>1, <1>2, <1>3, <1>4, <1>5, <1>6, <1>7, <1>8, <1>9, <1>10 DEF Next, Step

\* No waiter is stranded: whoever waits on a slot waits on one that is done or whose call
\* is still computing, so the event it waits for has been or will be set.
THEOREM WaitersHaveWorkers == Spec => []WaiterHasWorker
<1>1. Init => FoundInv
  BY NoneAssumption DEF Init, FoundInv, DoneOrRunning, Tracked, FreshSlot
<1>2. IInv /\ FoundInv /\ [Next]_vars => FoundInv'
  BY FoundStep
<1>3. IInv /\ FoundInv => WaiterHasWorker
  BY DEF IInv, JoinedInv, FoundInv, DoneOrRunning, WaiterHasWorker
<1> QED BY <1>1, <1>2, <1>3, Invariance, PTL DEF Spec

-----------------------------------------------------------------------------
\* max_entries bounds the table at every instant.
THEOREM TableBounded == Spec => []EntriesBounded
<1> USE EntriesAssumption, IdsAssumption DEF EntriesBounded
<1>1. Init => EntriesBounded
  <2> SUFFICES ASSUME Init PROVE EntriesBounded
    OBVIOUS
  <2>1. Tracked = {}
    BY DEF Init, Tracked
  <2> QED BY <2>1, FS_EmptySet
<1>2. ASSUME IInv, EntriesBounded, [Next]_vars PROVE EntriesBounded'
  <2>1. IsFiniteSet(Tracked)
    BY FS_Subset DEF Tracked
  <2>2. ASSUME Tracked' \subseteq Tracked PROVE EntriesBounded'
    <3>1. Cardinality(Tracked') <= Cardinality(Tracked)
      BY <2>1, <2>2, FS_Subset
    <3>2. Cardinality(Tracked') \in Nat /\ Cardinality(Tracked) \in Nat
      BY <2>1, <2>2, FS_Subset, FS_CardinalityType
    <3> QED BY <1>2, <3>1, <3>2
  <2>3. ASSUME NEW c \in Calls, Register(c) PROVE EntriesBounded'
    <3>1. Tracked' \subseteq Tracked \cup {req[c].id}
      BY <1>2, <2>3 DEF Register, Tracked, IInv, TypeOK
    <3>2. Cardinality(Tracked \cup {req[c].id}) <= Cardinality(Tracked) + 1
      <4> DEFINE i == req[c].id
      <4>1. Cardinality(Tracked) \in Nat
        BY <2>1, FS_CardinalityType
      <4> HIDE DEF i
      <4>2. Cardinality(Tracked \cup {i})
               = IF i \in Tracked THEN Cardinality(Tracked) ELSE Cardinality(Tracked) + 1
        BY <2>1, FS_AddElement
      <4>3. Cardinality(Tracked \cup {i}) <= Cardinality(Tracked) + 1
        BY <4>1, <4>2
      <4> QED BY <4>3 DEF i
    <3>3. IsFiniteSet(Tracked \cup {req[c].id})
      BY <2>1, FS_AddElement
    <3>4. Cardinality(Tracked') <= Cardinality(Tracked \cup {req[c].id})
      BY <3>1, <3>3, FS_Subset
    <3>5. Cardinality(Tracked) < MaxEntries
      BY <2>3 DEF Register
    <3>6. /\ Cardinality(Tracked) \in Nat
          /\ Cardinality(Tracked') \in Nat
          /\ Cardinality(Tracked \cup {req[c].id}) \in Nat
      BY <2>1, <3>1, <3>3, FS_Subset, FS_CardinalityType, SMTT(30)
    <3> QED BY <3>2, <3>4, <3>5, <3>6
  <2>4. ASSUME NEW c \in Calls, Step(c), ~Register(c) PROVE Tracked' \subseteq Tracked
    BY <1>2, <2>4, Zenon
    DEF Step, Enter, ExpireOne, ExpireDone, Mismatch, Join, Miss, EvictForSlot, RejectFull,
        ComputeOk, ComputeFail, ForgetFailed, FinishOversized, FinishEnter, EvictForBytes,
        Account, Await, ReplayLookup, Peek, Drop, Slots, Tracked, IInv, TypeOK
  <2>5. ASSUME NEW c \in Calls, NEW r \in Requests,
               Arrive(c, r)
        PROVE  Tracked' \subseteq Tracked
    BY <2>5 DEF Arrive, Slots, Tracked
  <2>6. ASSUME Clear \/ Tick \/ UNCHANGED vars PROVE Tracked' \subseteq Tracked
    BY <2>6 DEF Clear, Tick, vars, Slots, Tracked
  <2>7. ASSUME NEW c \in Calls, RunUnnamed(c) \/ AwaitTimeout(c)
        PROVE  Tracked' \subseteq Tracked
    BY <2>7 DEF RunUnnamed, AwaitTimeout, Slots, Tracked
  <2> QED BY <1>2, <2>2, <2>3, <2>4, <2>5, <2>6, <2>7 DEF Next
<1> QED BY <1>1, <1>2, Invariance, PTL DEF Spec

-----------------------------------------------------------------------------
(* The byte budget of the cache. *)

\* No response over the budget has been computed so far.
AllFit == \A c \in Calls : slot[c].done => slot[c].size <= MaxBytes

\* A slot is done once its call has left the computation, and is not for keeping only after
\* a failure or because its response is too large.
EndedInv ==
    \A c \in Calls :
        /\ slot[c].done => pc[c] \in {"finish", "fit", "failed", "answered"}
        /\ pc[c] \in {"finish", "fit"} => slot[c].done /\ slot[c].cached
        /\ ~slot[c].cached => slot[c].done /\ (slot[c].failed \/ slot[c].size > MaxBytes)

\* Then a call that computes, or is about to report a failure, still has its place.
OwnInv == \A c \in Calls : pc[c] \in {"compute", "failed"} => table[req[c].id] = c

\* The calls whose response may be evicted and is not counted yet.
Pending == {c \in Calls : pc[c] \in {"finish", "fit"}}

\* What an id retains of responses that were counted, and what was taken off the count for
\* the response of a call that will still be added to it.
HeldOf(i) ==
    IF i \in Tracked /\ slot[table[i]].cached /\ pc[table[i]] = "answered"
      THEN slot[table[i]].size ELSE 0
OwedOf(c) == IF table[req[c].id] = c THEN 0 ELSE slot[c].size

Held == SumFunction([i \in Ids |-> HeldOf(i)])
Owed == SumFunction([c \in Pending |-> OwedOf(c)])

\* The count covers what is retained but for what it is owed, and it exceeds the budget only
\* while nothing is retained.
CountInv ==
    /\ IsFiniteSet(Pending)
    /\ Held <= bytes + Owed
    /\ bytes <= MaxBytes \/ Held = 0

CoverInv == AllFit => OwnInv /\ CountInv

\* A step undoes no computation: a slot that was done stays so, with the size it has.
LEMMA EndedStep ==
    ASSUME IInv, EndedInv, [Next]_vars
    PROVE  /\ EndedInv'
           /\ \A c \in Calls : slot[c].done => slot'[c].done /\ slot'[c].size = slot[c].size
<1> DEFINE Kept == \A c \in Calls :
                     slot[c].done => slot'[c].done /\ slot'[c].size = slot[c].size
<1> USE RequestAssumption DEF IInv, TypeOK, EndedInv
<1>1. ASSUME NEW c \in Calls, Register(c) PROVE EndedInv' /\ Kept
  BY <1>1 DEF Register, FreshSlot, GoTo, Slot
<1>2. ASSUME NEW c \in Calls, ComputeOk(c) PROVE EndedInv' /\ Kept
  <2>1. /\ slot'[c].done /\ slot'[c].cached = slot[c].cached
        /\ \A d \in Calls : d # c => slot'[d] = slot[d]
        /\ slot'[c].failed = slot[c].failed
    BY <1>2 DEF ComputeOk, Slot
  <2>2. pc[c] = "compute" /\ ~slot[c].done /\ pc' = [pc EXCEPT ![c] = "finish"]
    BY <1>2 DEF ComputeOk, GoTo, SlotInv
  <2> QED BY <2>1, <2>2
<1>3. ASSUME NEW c \in Calls, ComputeFail(c) PROVE EndedInv' /\ Kept
  <2>1. slot'[c].done /\ slot'[c].failed /\ \A d \in Calls : d # c => slot'[d] = slot[d]
    BY <1>3 DEF ComputeFail, Slot
  <2>2. pc[c] = "compute" /\ ~slot[c].done /\ pc' = [pc EXCEPT ![c] = "failed"]
    BY <1>3 DEF ComputeFail, GoTo, SlotInv
  <2> QED BY <2>1, <2>2
<1>4. ASSUME NEW c \in Calls, FinishOversized(c) PROVE EndedInv' /\ Kept
  <2>1. /\ slot'[c].done = slot[c].done /\ slot'[c].size = slot[c].size
        /\ \A d \in Calls : d # c => slot'[d] = slot[d]
    BY <1>4 DEF FinishOversized, Slot
  <2>2. pc[c] = "finish" /\ slot[c].size > MaxBytes /\ pc' = [pc EXCEPT ![c] = "answered"]
    BY <1>4 DEF FinishOversized, Return, GoTo
  <2> QED BY <2>1, <2>2
<1>5. ASSUME slot' = slot, NEW c \in Calls, NEW l, pc' = [pc EXCEPT ![c] = l],
             \/ l \in {"fit", "answered"} /\ pc[c] \in {"finish", "fit", "failed"}
             \/ pc[c] \in {"new", "enter", "expire", "lookup", "reserve", "await", "peek"}
                  /\ l \notin {"finish", "fit"},
             l = "fit" => pc[c] = "finish"
      PROVE  EndedInv' /\ Kept
  BY <1>5
<1>6. ASSUME NEW c \in Calls, Enter(c) \/ ExpireDone(c) \/ Miss(c) \/ Join(c) \/ ReplayLookup(c)
      PROVE  EndedInv' /\ Kept
  BY <1>5, <1>6 DEF Enter, ExpireDone, Miss, Join, ReplayLookup, GoTo
<1>7. ASSUME NEW c \in Calls,
             \/ Mismatch(c) \/ RejectFull(c) \/ ForgetFailed(c) \/ Account(c) \/ Peek(c)
             \/ Await(c) \/ AwaitTimeout(c) \/ RunUnnamed(c)
      PROVE  EndedInv' /\ Kept
  BY <1>5, <1>7 DEF Mismatch, RejectFull, ForgetFailed, Account, Peek, Await, AwaitTimeout,
                    RunUnnamed, Return, GoTo
<1>8. ASSUME NEW c \in Calls, FinishEnter(c) PROVE EndedInv' /\ Kept
  BY <1>5, <1>8 DEF FinishEnter, GoTo
<1>9. ASSUME NEW c \in Calls, NEW r \in Requests, Arrive(c, r) PROVE EndedInv' /\ Kept
  BY <1>5, <1>9 DEF Arrive, GoTo
<1>10. ASSUME UNCHANGED <<pc, slot>> PROVE EndedInv' /\ Kept
  BY <1>10
<1>11. ASSUME NEW c \in Calls, NEW i \in Ids,
              ExpireOne(c, i) \/ EvictForSlot(c, i) \/ EvictForBytes(c, i)
       PROVE  EndedInv' /\ Kept
  BY <1>10, <1>11 DEF ExpireOne, EvictForSlot, EvictForBytes
<1>12. CASE Clear \/ Tick \/ UNCHANGED vars
  BY <1>10, <1>12 DEF Clear, Tick, vars
<1> QED
  BY <1>1, <1>2, <1>3, <1>4, <1>6, <1>7, <1>8, <1>9, <1>11, <1>12 DEF Next, Step

\* While every response fits, a call that computes or has failed keeps its place.
LEMMA OwnStep ==
    ASSUME IInv, EndedInv, OwnInv, AllFit, [Next]_vars
    PROVE  OwnInv'
<1> USE NoneAssumption, RequestAssumption DEF IInv, TypeOK, OwnInv
<1>1. ASSUME UNCHANGED <<table, req>>,
             \A c \in Calls : pc'[c] \in {"compute", "failed"} => pc[c] \in {"compute", "failed"}
      PROVE  OwnInv'
  BY <1>1
<1>2. ASSUME NEW c \in Calls, Register(c) PROVE OwnInv'
  BY <1>2 DEF Register, GoTo, SectionInv, RequestInv
<1>3. ASSUME NEW c \in Calls, ForgetFailed(c) PROVE OwnInv'
  BY <1>3 DEF ForgetFailed, Return, GoTo, RequestInv
<1>4. ASSUME NEW c \in Calls, FinishOversized(c) PROVE FALSE
  BY <1>4, BytesAssumption DEF FinishOversized, EndedInv, AllFit, Slot
<1>5. ASSUME NEW c \in Calls, NEW i \in Ids,
             ExpireOne(c, i) \/ EvictForSlot(c, i) \/ EvictForBytes(c, i)
      PROVE  OwnInv'
  <2>1. i \in Completed /\ Drop(i) /\ UNCHANGED <<pc, req>>
    BY <1>5 DEF ExpireOne, EvictForSlot, EvictForBytes, Stale, Oldest
  <2>2. pc[table[i]] \notin {"compute", "failed"}
    BY <2>1 DEF Completed, Tracked, SlotInv
  <2> QED BY <2>1, <2>2 DEF Drop
<1>6. CASE Clear
  BY <1>6 DEF Clear
<1>7. ASSUME NEW c \in Calls, NEW r \in Requests, Arrive(c, r) PROVE OwnInv'
  BY <1>7 DEF Arrive, GoTo, Slots
<1>8. ASSUME NEW c \in Calls, Step(c) \/ AwaitTimeout(c) \/ RunUnnamed(c),
             ~Register(c), ~ForgetFailed(c), ~FinishOversized(c),
             \A i \in Ids : ~ExpireOne(c, i) /\ ~EvictForSlot(c, i) /\ ~EvictForBytes(c, i)
      PROVE  OwnInv'
  <2>1. UNCHANGED <<table, req>>
    BY <1>8 DEF Step, Enter, ExpireDone, Mismatch, Join, Miss, RejectFull, ComputeOk,
                ComputeFail, FinishEnter, Account, Await, ReplayLookup, Peek, AwaitTimeout,
                RunUnnamed, Slots
  <2>2. \/ \E l \in PCs : pc' = [pc EXCEPT ![c] = l] /\ l \notin {"compute", "failed"}
        \/ pc' = [pc EXCEPT ![c] = "failed"] /\ pc[c] = "compute"
    BY <1>8 DEF Step, Enter, ExpireDone, Mismatch, Join, Miss, RejectFull, ComputeOk,
                ComputeFail, FinishEnter, Account, Await, ReplayLookup, Peek, AwaitTimeout,
                RunUnnamed, Return, GoTo, PCs
  <2>3. \A d \in Calls : pc'[d] \in {"compute", "failed"} => pc[d] \in {"compute", "failed"}
    BY <2>2
  <2> QED BY <1>1, <2>1, <2>3
<1>9. CASE Tick \/ UNCHANGED vars
  BY <1>1, <1>9 DEF Tick, vars, Slots
<1> QED
  BY <1>2, <1>3, <1>4, <1>5, <1>6, <1>7, <1>8, <1>9 DEF Next, Step

\* The sums are of natural numbers, over finite sets.
LEMMA CountTyped ==
    ASSUME IInv, CountInv
    PROVE  /\ \A i \in Ids : HeldOf(i) \in Nat
           /\ \A c \in Calls : OwedOf(c) \in Nat
           /\ Held = SumFunctionOnSet([i \in Ids |-> HeldOf(i)], Ids) /\ Held \in Nat
           /\ Owed = SumFunctionOnSet([c \in Pending |-> OwedOf(c)], Pending) /\ Owed \in Nat
           /\ bytes \in Nat
<1>1. \A i \in Ids : HeldOf(i) \in Nat
  BY DEF HeldOf, IInv, TypeOK, Tracked, Slot
<1>2. \A c \in Calls : OwedOf(c) \in Nat
  BY DEF OwedOf, IInv, TypeOK, Slot
<1>3. Held = SumFunctionOnSet([i \in Ids |-> HeldOf(i)], Ids) /\ Held \in Nat
  <2> DEFINE f == [i \in Ids |-> HeldOf(i)]
  <2>1. Held = SumFunctionOnSet(f, Ids)
    BY DEF Held, SumFunction
  <2>2. \A i \in Ids : f[i] \in Nat
    BY <1>1
  <2> HIDE DEF f
  <2>3. Held \in Nat
    BY <2>1, <2>2, IdsAssumption, SumIsNat
  <2> QED BY <2>1, <2>3 DEF f
<1>4. Owed = SumFunctionOnSet([c \in Pending |-> OwedOf(c)], Pending) /\ Owed \in Nat
  <2> DEFINE f == [c \in Pending |-> OwedOf(c)]
  <2>1. Owed = SumFunctionOnSet(f, Pending)
    BY DEF Owed, SumFunction
  <2>2. \A c \in Pending : f[c] \in Nat
    BY <1>2 DEF Pending
  <2> HIDE DEF f
  <2>3. Owed \in Nat
    BY <2>1, <2>2, SumIsNat DEF CountInv
  <2> QED BY <2>1, <2>3 DEF f
<1> QED BY <1>1, <1>2, <1>3, <1>4 DEF IInv, TypeOK

\* What an id retains changes for one id at most: the sum changes by as much.
LEMMA HeldMoves ==
    ASSUME IInv, IInv', CountInv, NEW e \in Ids, \A i \in Ids \ {e} : HeldOf(i)' = HeldOf(i)
    PROVE  /\ Held' \in Nat /\ HeldOf(e) \in Nat /\ HeldOf(e)' \in Nat
           /\ Held + HeldOf(e)' = Held' + HeldOf(e)
<1> PICK f, g : f = [i \in Ids |-> HeldOf(i)] /\ g = [i \in Ids |-> HeldOf(i)]'
  OBVIOUS
<1>1. Held = SumFunctionOnSet(f, Ids)
  BY DEF Held, SumFunction
<1>2. Held' = SumFunctionOnSet(g, Ids)
  BY DEF Held, SumFunction
<1>3. \A i \in Ids : f[i] = HeldOf(i) /\ f[i] \in Nat
  BY CountTyped
<1>4. \A i \in Ids : g[i] = HeldOf(i)' /\ g[i] \in Nat
  BY DEF HeldOf, IInv, TypeOK, Tracked, Slot
<1>5. \A i \in Ids \ {e} : g[i] = f[i]
  BY <1>3, <1>4
<1>6. Ids \cup {e} = Ids
  OBVIOUS
<1>7. /\ SumFunctionOnSet(g, Ids \cup {e}) \in Nat
      /\ SumFunctionOnSet(f, Ids) + g[e] = SumFunctionOnSet(g, Ids) + f[e]
  BY <1>3, <1>4, <1>5, IdsAssumption, SumWithOne
<1> QED BY <1>1, <1>2, <1>3, <1>4, <1>6, <1>7

\* The same of what is owed, while the same calls are pending.
LEMMA OwedMoves ==
    ASSUME IInv, IInv', CountInv, NEW c \in Pending, Pending' = Pending,
           \A d \in Pending \ {c} : OwedOf(d)' = OwedOf(d)
    PROVE  /\ Owed' \in Nat /\ OwedOf(c) \in Nat /\ OwedOf(c)' \in Nat
           /\ Owed + OwedOf(c)' = Owed' + OwedOf(c)
<1> PICK f, g, D : /\ f = [d \in Pending |-> OwedOf(d)] /\ g = [d \in Pending |-> OwedOf(d)]'
                   /\ D = Pending
  OBVIOUS
<1>1. Owed = SumFunctionOnSet(f, D) /\ IsFiniteSet(D) /\ D \subseteq Calls
  BY DEF Owed, SumFunction, CountInv, Pending
<1>2. Owed' = SumFunctionOnSet(g, Pending')
  BY DEF Owed, SumFunction
<1>3. \A d \in D : f[d] = OwedOf(d) /\ f[d] \in Nat
  BY <1>1, CountTyped
<1>4. \A d \in D : g[d] = OwedOf(d)' /\ g[d] \in Nat
  <2>1. \A d \in Pending' : g[d] = OwedOf(d)'
    OBVIOUS
  <2>2. \A d \in Calls : OwedOf(d)' \in Nat
    BY DEF OwedOf, IInv, TypeOK, Slot
  <2> QED BY <1>1, <2>1, <2>2
<1>5. \A d \in D \ {c} : g[d] = f[d]
  BY <1>3, <1>4
<1>6. D \cup {c} = D
  OBVIOUS
<1>7. /\ SumFunctionOnSet(g, D \cup {c}) \in Nat
      /\ SumFunctionOnSet(f, D) + g[c] = SumFunctionOnSet(g, D) + f[c]
  BY <1>1, <1>3, <1>4, <1>5, SumWithOne
<1> QED BY <1>1, <1>2, <1>3, <1>4, <1>6, <1>7

\* A call more is pending.
LEMMA OwedGrows ==
    ASSUME IInv, IInv', CountInv, NEW c \in Calls, c \notin Pending, Pending' = Pending \cup {c},
           \A d \in Pending : OwedOf(d)' = OwedOf(d)
    PROVE  /\ IsFiniteSet(Pending') /\ Owed' \in Nat /\ OwedOf(c)' \in Nat
           /\ Owed' = Owed + OwedOf(c)'
<1>0. PICK f, g, D : /\ f = [d \in Pending |-> OwedOf(d)] /\ g = [d \in Pending |-> OwedOf(d)]'
                     /\ D = Pending
  OBVIOUS
<1>1. Owed = SumFunctionOnSet(f, D) /\ IsFiniteSet(D) /\ D \subseteq Calls
  BY <1>0 DEF Owed, SumFunction, CountInv, Pending
<1>2. Owed' = SumFunctionOnSet(g, Pending')
  BY <1>0 DEF Owed, SumFunction
<1>3. \A d \in D : f[d] = OwedOf(d) /\ f[d] \in Nat
  BY <1>0, <1>1, CountTyped
<1>4. \A d \in D \cup {c} : g[d] = OwedOf(d)' /\ g[d] \in Nat
  <2>1. \A d \in Pending' : g[d] = OwedOf(d)'
    BY <1>0
  <2>2. \A d \in Calls : OwedOf(d)' \in Nat
    BY <1>0 DEF OwedOf, IInv, TypeOK, Slot
  <2> QED BY <1>0, <1>1, <2>1, <2>2
<1>5. c \notin D /\ g[c] = OwedOf(c)' /\ g[c] \in Nat /\ \A d \in D \ {c} : g[d] = f[d]
  BY <1>0, <1>3, <1>4
<1>6. /\ SumFunctionOnSet(f, D) \in Nat /\ SumFunctionOnSet(g, D \cup {c}) \in Nat
      /\ SumFunctionOnSet(g, D \cup {c}) = g[c] + SumFunctionOnSet(f, D)
  <2>1. IsFiniteSet(D) /\ g[c] \in Nat /\ c \notin D
    BY <1>1, <1>5
  <2>2. \A d \in D : f[d] \in Nat
    BY <1>3
  <2>3. \A d \in D \ {c} : g[d] = f[d]
    BY <1>5
  <2>4. /\ SumFunctionOnSet(f, D) \in Nat
        /\ SumFunctionOnSet(g, D \cup {c}) \in Nat
        /\ c \notin D => SumFunctionOnSet(g, D \cup {c}) = g[c] + SumFunctionOnSet(f, D)
        /\ c \in D => /\ D \cup {c} = D
                      /\ SumFunctionOnSet(f, D) + g[c] = SumFunctionOnSet(g, D) + f[c]
    BY <2>1, <2>2, <2>3, SumWithOne
  <2> QED BY <2>1, <2>4
<1>7. IsFiniteSet(Pending') /\ Pending' = D \cup {c}
  BY <1>0, <1>1, FS_AddElement
<1>8. Owed' = SumFunctionOnSet(g, D \cup {c})
  BY <1>2, <1>7, Zenon
<1> QED BY <1>1, <1>5, <1>6, <1>7, <1>8

\* A call less is pending.
LEMMA OwedShrinks ==
    ASSUME IInv, IInv', CountInv, NEW c \in Pending, Pending' = Pending \ {c},
           \A d \in Pending \ {c} : OwedOf(d)' = OwedOf(d)
    PROVE  /\ IsFiniteSet(Pending') /\ Owed' \in Nat /\ OwedOf(c) \in Nat
           /\ Owed = Owed' + OwedOf(c)
<1> PICK f, g, D : /\ f = [d \in Pending |-> OwedOf(d)] /\ g = [d \in Pending |-> OwedOf(d)]'
                   /\ D = Pending
  OBVIOUS
<1>1. Owed = SumFunctionOnSet(f, D) /\ IsFiniteSet(D) /\ D \subseteq Calls
  BY DEF Owed, SumFunction, CountInv, Pending
<1>2. Owed' = SumFunctionOnSet(g, D \ {c})
  BY DEF Owed, SumFunction
<1>3. \A d \in D : f[d] = OwedOf(d) /\ f[d] \in Nat
  BY <1>1, CountTyped
<1>4. \A d \in D \ {c} : g[d] = f[d]
  BY <1>3
<1>5. IsFiniteSet(D \ {c}) /\ IsFiniteSet(Pending')
  BY <1>1, FS_RemoveElement
<1>6. SumFunctionOnSet(f, D) = f[c] + SumFunctionOnSet(f, D \ {c})
  BY <1>1, <1>3, SumTakesOut
<1>7. SumFunctionOnSet(f, D \ {c}) = SumFunctionOnSet(g, D \ {c})
  BY <1>4, <1>5, SumSame
<1>8. SumFunctionOnSet(f, D \ {c}) \in Nat
  BY <1>3, <1>5, SumIsNat
<1> QED BY <1>1, <1>2, <1>3, <1>5, <1>6, <1>7, <1>8

\* A step that changes neither the count nor what it should cover.
LEMMA CountKept ==
    ASSUME CountInv, bytes' = bytes, Pending' = Pending,
           \A i \in Ids : HeldOf(i)' = HeldOf(i), \A c \in Pending : OwedOf(c)' = OwedOf(c)
    PROVE  CountInv'
<1>1. Held' = Held
  BY DEF Held
<1>2. Owed' = Owed
  BY DEF Owed
<1> QED BY <1>1, <1>2 DEF CountInv

\* A call that returns or moves on, without a response of its own to count.
LEMMA QuietCounts ==
    ASSUME IInv, CountInv, NEW c \in Calls, NEW l, pc' = [pc EXCEPT ![c] = l],
           UNCHANGED <<table, bytes, slot>>, \A d \in Calls \ {c} : req'[d] = req[d],
           \/ /\ pc[c] \in {"new", "enter", "expire", "lookup", "reserve", "await", "peek"}
              /\ l \notin {"finish", "fit"}
           \/ pc[c] = "finish" /\ l = "fit" /\ req' = req
    PROVE  CountInv'
<1> USE NoneAssumption DEF IInv, TypeOK
<1>1. Pending' = Pending
  BY DEF Pending
<1>2. ASSUME NEW i \in Ids PROVE HeldOf(i)' = HeldOf(i)
  <2>1. i \in Tracked => pc[table[i]] \in {"compute", "finish", "fit", "failed", "answered"}
    BY DEF TableInv
  <2>2. i \in Tracked => (pc'[table[i]] = "answered" <=> pc[table[i]] = "answered")
    BY <2>1 DEF Tracked
  <2> QED BY <2>2 DEF HeldOf, Tracked
<1>3. ASSUME NEW d \in Pending PROVE OwedOf(d)' = OwedOf(d)
  <2>1. d \in Calls /\ req'[d] = req[d]
    BY DEF Pending
  <2> QED BY <2>1 DEF OwedOf
<1> QED BY <1>1, <1>2, <1>3, CountKept

\* A slot is dropped: what it adds to the count, or will add to it, is taken off.
LEMMA DropCounts ==
    ASSUME IInv, IInv', EndedInv, CountInv, NEW i \in Ids, i \in Completed, Drop(i),
           UNCHANGED <<pc, req, slot>>
    PROVE  CountInv'
<1> USE NoneAssumption DEF IInv, TypeOK
<1>0. PICK c : c = table[i]
  OBVIOUS
<1> PICK n : n = slot[c].size
  OBVIOUS
<1>1. /\ c \in Calls /\ req[c].id = i /\ n \in Nat /\ slot[c].cached
      /\ pc[c] \in {"finish", "fit", "answered"}
  BY <1>0 DEF Completed, Tracked, TableInv, SlotInv, Slot
<1>2. /\ table' = [table EXCEPT ![i] = None]
      /\ bytes' \in Nat /\ bytes' <= bytes /\ bytes <= bytes' + n
  BY <1>0, <1>1 DEF Drop
<1>3. Pending' = Pending
  BY DEF Pending
<1>4. \A j \in Ids \ {i} : HeldOf(j)' = HeldOf(j)
  BY <1>2 DEF HeldOf, Tracked
<1>5. HeldOf(i)' = 0
  BY <1>2 DEF HeldOf, Tracked
<1>6. \A d \in Calls \ {c} : OwedOf(d)' = OwedOf(d)
  <2> TAKE d \in Calls \ {c}
  <2>1. table'[req[d].id] = d <=> table[req[d].id] = d
    <3>1. CASE req[d].id = i
      BY <1>0, <1>2, <3>1
    <3>2. CASE req[d].id # i
      BY <1>2, <3>2
    <3> QED BY <3>1, <3>2
  <2> QED BY <2>1 DEF OwedOf
<1>7. /\ Held' \in Nat /\ HeldOf(i) \in Nat
      /\ Held = Held' + HeldOf(i)
  BY <1>4, <1>5, HeldMoves, CountTyped
<1>8. Held \in Nat /\ Owed \in Nat /\ bytes \in Nat /\ MaxBytes \in Nat
  BY CountTyped, BytesAssumption
<1>9. CASE pc[c] = "answered"
  <2>1. HeldOf(i) = n
    BY <1>0, <1>1, <1>9 DEF HeldOf, Completed
  <2>2. c \notin Pending
    BY <1>9 DEF Pending
  <2>3. Owed' = Owed
    <3>1. \A d \in Pending : OwedOf(d)' = OwedOf(d)
      BY <1>6, <2>2 DEF Pending
    <3> QED BY <1>3, <3>1 DEF Owed
  <2>4. Held' <= bytes' + Owed'
    <3>1. PICK h, b, o : h = Held' /\ b = bytes' /\ o = Owed
      OBVIOUS
    <3>2. Held = h + n /\ h \in Nat /\ n \in Nat /\ b \in Nat /\ o \in Nat
      BY <1>1, <1>2, <1>7, <1>8, <2>1, <3>1, Zenon
    <3>3. bytes <= b + n /\ bytes \in Nat
      BY <1>2, <1>8, <3>1
    <3>4. h + n <= bytes + o
      BY <3>1, <3>2, Zenon DEF CountInv
    <3>5. h <= b + o
      <4> HIDE DEF IInv
      <4> QED BY <3>2, <3>3, <3>4
    <3> QED BY <2>3, <3>1, <3>5, Zenon
  <2>5. bytes' <= MaxBytes \/ Held' = 0
    BY <1>1, <1>2, <1>7, <1>8, <2>1 DEF CountInv
  <2> QED BY <1>3, <2>4, <2>5 DEF CountInv
<1>10. CASE pc[c] \in {"finish", "fit"}
  <2>1. HeldOf(i) = 0
    BY <1>0, <1>10 DEF HeldOf
  <2>2. c \in Pending
    BY <1>1, <1>10 DEF Pending
  <2>3. OwedOf(c) = 0 /\ OwedOf(c)' = n
    BY <1>0, <1>1, <1>2 DEF OwedOf
  <2>4. Owed' \in Nat /\ Owed' = Owed + n
    <3>1. \A d \in Pending \ {c} : OwedOf(d)' = OwedOf(d)
      BY <1>6 DEF Pending
    <3>2. /\ Owed' \in Nat /\ Owed + OwedOf(c)' = Owed' + OwedOf(c)
      BY <1>3, <2>2, <3>1, OwedMoves
    <3> QED BY <1>1, <1>8, <2>3, <3>2
  <2>5. Held' <= bytes' + Owed'
    BY <1>1, <1>2, <1>7, <1>8, <2>1, <2>4 DEF CountInv
  <2>6. bytes' <= MaxBytes \/ Held' = 0
    BY <1>1, <1>2, <1>7, <1>8, <2>1 DEF CountInv
  <2> QED BY <1>3, <2>5, <2>6 DEF CountInv
<1> QED BY <1>1, <1>9, <1>10

\* A response is counted.  It goes over the budget only if nothing is left to evict.
LEMMA AccountCounts ==
    ASSUME IInv, IInv', EndedInv, FoundInv, CountInv, NEW c \in Calls, Account(c)
    PROVE  CountInv'
<1> USE NoneAssumption DEF IInv, TypeOK
<1> PICK i, n : i = req[c].id /\ n = slot[c].size
  OBVIOUS
<1>1. /\ pc[c] = "fit" /\ pc' = [pc EXCEPT ![c] = "answered"]
      /\ bytes' = bytes + n /\ UNCHANGED <<table, slot, req>>
      /\ bytes + n <= MaxBytes \/ Completed = {}
  BY DEF Account, Return, GoTo
<1>2. i \in Ids /\ n \in Nat /\ slot[c].done /\ slot[c].cached
  BY <1>1, RequestAssumption DEF RequestInv, EndedInv, Slot
<1>3. c \in Pending /\ Pending' = Pending \ {c}
  BY <1>1 DEF Pending
<1>4. \A d \in Pending \ {c} : OwedOf(d)' = OwedOf(d)
  BY <1>1 DEF OwedOf
<1>5. IsFiniteSet(Pending') /\ Owed' \in Nat /\ OwedOf(c) \in Nat /\ Owed = Owed' + OwedOf(c)
  BY <1>3, <1>4, OwedShrinks
<1>6. \A j \in Ids \ {i} : HeldOf(j)' = HeldOf(j)
  <2> TAKE j \in Ids \ {i}
  <2>1. j \in Tracked => table[j] # c /\ pc'[table[j]] = pc[table[j]]
    BY <1>1 DEF TableInv, Tracked
  <2> QED BY <1>1, <2>1 DEF HeldOf, Tracked
<1>7. /\ Held' \in Nat /\ HeldOf(i) \in Nat /\ HeldOf(i)' \in Nat
      /\ Held + HeldOf(i)' = Held' + HeldOf(i)
  BY <1>2, <1>6, HeldMoves
<1>8. Held \in Nat /\ Owed \in Nat /\ bytes \in Nat /\ MaxBytes \in Nat
  BY CountTyped, BytesAssumption
<1>9. Completed = {} => Held = 0
  <2> SUFFICES ASSUME Completed = {} PROVE Held = 0
    OBVIOUS
  <2> DEFINE f == [j \in Ids |-> HeldOf(j)]
  <2>1. ASSUME NEW j \in Ids PROVE HeldOf(j) = 0
    <3>1. SUFFICES ASSUME j \in Tracked, slot[table[j]].cached, pc[table[j]] = "answered"
                   PROVE  FALSE
      BY DEF HeldOf
    <3>2. slot[table[j]].done
      BY <3>1 DEF FoundInv, DoneOrRunning
    <3> QED BY <3>1, <3>2 DEF Completed
  <2>2. \A j \in Ids : f[j] = 0
    BY <2>1
  <2>3. Held = SumFunctionOnSet(f, Ids)
    BY DEF Held, SumFunction
  <2> HIDE DEF f
  <2> QED BY <2>2, <2>3, IdsAssumption, SumOfZeros
<1>10. CASE table[i] = c
  <2>1. OwedOf(c) = 0
    BY <1>10 DEF OwedOf
  <2>2. HeldOf(i) = 0 /\ HeldOf(i)' = n
    BY <1>1, <1>2, <1>10 DEF HeldOf, Tracked
  <2>3. Completed # {}
    BY <1>2, <1>10 DEF Completed, Tracked
  <2>4. Held' = Held + n /\ bytes + n <= MaxBytes
    BY <1>1, <1>2, <1>7, <1>8, <2>2, <2>3
  <2>5. Held' <= bytes' + Owed'
    <3>1. PICK h, o : h = Held /\ o = Owed'
      OBVIOUS
    <3>2. h \in Nat /\ o \in Nat /\ n \in Nat /\ bytes \in Nat
      BY <1>2, <1>5, <1>8, <3>1, Zenon
    <3>3. Owed = o
      <4>1. Owed = o + 0
        BY <1>5, <2>1, <3>1, Zenon
      <4> QED BY <3>2, <4>1
    <3>4. h <= bytes + o
      BY <3>1, <3>3, Zenon DEF CountInv
    <3>5. h + n <= bytes + n + o
      <4> HIDE DEF IInv
      <4> QED BY <3>2, <3>4
    <3> QED BY <1>1, <2>4, <3>1, <3>5, Zenon
  <2> QED BY <1>1, <1>5, <2>4, <2>5 DEF CountInv
<1>11. CASE table[i] # c
  <2>1. OwedOf(c) = n
    BY <1>11 DEF OwedOf
  <2>2. HeldOf(i)' = HeldOf(i)
    <3>1. i \in Tracked => pc'[table[i]] = pc[table[i]]
      BY <1>1, <1>11 DEF Tracked
    <3> QED BY <1>1, <3>1 DEF HeldOf, Tracked
  <2>3. Held' = Held
    BY <1>7, <1>8, <2>2
  <2>4. Held' <= bytes' + Owed'
    BY <1>1, <1>2, <1>5, <1>8, <2>1, <2>3 DEF CountInv
  <2>5. bytes' <= MaxBytes \/ Held' = 0
    BY <1>1, <1>9, <2>3
  <2> QED BY <1>5, <2>4, <2>5 DEF CountInv
<1> QED BY <1>10, <1>11

\* Every step keeps the count covered while no response over the budget has been computed.
LEMMA CountStep ==
    ASSUME IInv, IInv', EndedInv, FoundInv, OwnInv, AllFit, CountInv, [Next]_vars
    PROVE  CountInv'
<1> USE NoneAssumption DEF TypeOK
<1>1. ASSUME NEW c \in Calls,
             \/ Enter(c) \/ ExpireDone(c) \/ Mismatch(c) \/ Join(c) \/ Miss(c) \/ RejectFull(c)
             \/ FinishEnter(c) \/ Await(c) \/ ReplayLookup(c) \/ Peek(c) \/ AwaitTimeout(c)
             \/ RunUnnamed(c) \/ \E r \in Requests : Arrive(c, r)
      PROVE  CountInv'
  <2>1. /\ UNCHANGED <<table, bytes, slot>> /\ \A d \in Calls \ {c} : req'[d] = req[d]
        /\ \/ req' = req
           \/ pc[c] = "new"
    BY <1>1 DEF Enter, ExpireDone, Mismatch, Join, Miss, RejectFull, FinishEnter, Await,
                ReplayLookup, Peek, AwaitTimeout, RunUnnamed, Arrive, Slots, IInv
  <2>2. PICK l \in PCs : pc' = [pc EXCEPT ![c] = l] /\
           \/ /\ pc[c] \in {"new", "enter", "expire", "lookup", "reserve", "await", "peek"}
              /\ l \notin {"finish", "fit"}
           \/ pc[c] = "finish" /\ l = "fit"
    BY <1>1 DEF Enter, ExpireDone, Mismatch, Join, Miss, RejectFull, FinishEnter, Await,
                ReplayLookup, Peek, AwaitTimeout, RunUnnamed, Arrive, Return, GoTo, PCs
  <2>3. pc[c] = "finish" => req' = req
    BY <2>1
  <2> QED BY <2>1, <2>2, <2>3, QuietCounts
<1>2. ASSUME NEW c \in Calls, NEW i \in Ids,
             ExpireOne(c, i) \/ EvictForSlot(c, i) \/ EvictForBytes(c, i)
      PROVE  CountInv'
  <2>1. i \in Completed /\ Drop(i) /\ UNCHANGED <<pc, req, slot>>
    BY <1>2 DEF ExpireOne, EvictForSlot, EvictForBytes, Stale, Oldest
  <2> QED BY <2>1, DropCounts
<1>3. ASSUME NEW c \in Calls, Register(c) PROVE CountInv'
  <2> PICK e : e = req[c].id
    OBVIOUS
  <2>1. /\ pc[c] = "reserve" /\ pc' = [pc EXCEPT ![c] = "compute"]
        /\ e \in Ids /\ table[e] = None /\ table' = [table EXCEPT ![e] = c]
        /\ slot' = [slot EXCEPT ![c] = FreshSlot] /\ UNCHANGED <<bytes, req>>
    BY <1>3, RequestAssumption DEF Register, GoTo, IInv, SectionInv, RequestInv
  <2>2. Pending' = Pending /\ c \notin Pending
    BY <2>1 DEF Pending, IInv
  <2>3. ASSUME NEW i \in Ids PROVE HeldOf(i)' = HeldOf(i)
    <3>1. CASE i = e
      BY <2>1, <3>1 DEF HeldOf, Tracked, IInv
    <3>2. CASE i # e
      <4>1. i \in Tracked => table[i] # c
        BY <2>1 DEF IInv, TableInv
      <4> QED BY <2>1, <3>2, <4>1 DEF HeldOf, Tracked, IInv
    <3> QED BY <3>1, <3>2
  <2>4. ASSUME NEW d \in Pending PROVE OwedOf(d)' = OwedOf(d)
    BY <2>1, <2>2 DEF OwedOf, Pending, IInv
  <2> QED BY <2>1, <2>2, <2>3, <2>4, CountKept
<1>4. ASSUME NEW c \in Calls, ComputeFail(c) PROVE CountInv'
  <2>1. /\ pc[c] = "compute" /\ pc' = [pc EXCEPT ![c] = "failed"]
        /\ UNCHANGED <<table, bytes, req>> /\ \A d \in Calls \ {c} : slot'[d] = slot[d]
    BY <1>4 DEF ComputeFail, GoTo, Slots, IInv
  <2>2. Pending' = Pending /\ c \notin Pending
    BY <2>1 DEF Pending, IInv
  <2>3. ASSUME NEW i \in Ids PROVE HeldOf(i)' = HeldOf(i)
    BY <2>1 DEF HeldOf, Tracked, IInv
  <2>4. ASSUME NEW d \in Pending PROVE OwedOf(d)' = OwedOf(d)
    BY <2>1, <2>2 DEF OwedOf, Pending
  <2> QED BY <2>1, <2>2, <2>3, <2>4, CountKept
<1>5. ASSUME NEW c \in Calls, ForgetFailed(c) PROVE CountInv'
  <2> PICK e : e = req[c].id
    OBVIOUS
  <2>1. /\ pc[c] = "failed" /\ pc' = [pc EXCEPT ![c] = "answered"]
        /\ e \in Ids /\ table[e] = c /\ table' = [table EXCEPT ![e] = None]
        /\ UNCHANGED <<bytes, req, slot>>
    BY <1>5, RequestAssumption DEF ForgetFailed, Return, GoTo, IInv, OwnInv, RequestInv
  <2>2. Pending' = Pending /\ c \notin Pending
    BY <2>1 DEF Pending, IInv
  <2>3. ASSUME NEW i \in Ids PROVE HeldOf(i)' = HeldOf(i)
    <3>1. CASE i = e
      BY <2>1, <3>1 DEF HeldOf, Tracked, IInv
    <3>2. CASE i # e
      <4>1. i \in Tracked => table[i] # c
        BY <3>2 DEF IInv, TableInv
      <4> QED BY <2>1, <3>2, <4>1 DEF HeldOf, Tracked, IInv
    <3> QED BY <3>1, <3>2
  <2>4. ASSUME NEW d \in Pending PROVE OwedOf(d)' = OwedOf(d)
    BY <2>1, <2>2 DEF OwedOf, Pending, IInv
  <2> QED BY <2>1, <2>2, <2>3, <2>4, CountKept
<1>6. ASSUME NEW c \in Calls, ComputeOk(c) PROVE CountInv'
  <2>1. /\ pc[c] = "compute" /\ pc' = [pc EXCEPT ![c] = "finish"]
        /\ UNCHANGED <<table, bytes, req>> /\ \A d \in Calls \ {c} : slot'[d] = slot[d]
    BY <1>6 DEF ComputeOk, GoTo, Slots, IInv
  <2>2. c \notin Pending /\ Pending' = Pending \cup {c}
    BY <2>1 DEF Pending, IInv
  <2>3. ASSUME NEW i \in Ids PROVE HeldOf(i)' = HeldOf(i)
    BY <2>1 DEF HeldOf, Tracked, IInv
  <2>4. ASSUME NEW d \in Pending PROVE OwedOf(d)' = OwedOf(d)
    BY <2>1, <2>2 DEF OwedOf, Pending
  <2>5. OwedOf(c)' = 0
    BY <2>1 DEF OwedOf, OwnInv
  <2>6. IsFiniteSet(Pending') /\ Owed' = Owed
    <3>1. /\ IsFiniteSet(Pending') /\ Owed' = Owed + OwedOf(c)'
      BY <2>2, <2>4, OwedGrows
    <3>2. Owed' = Owed + 0 /\ Owed \in Nat
      BY <2>5, <3>1, CountTyped
    <3> QED BY <3>1, <3>2
  <2>7. Held' = Held
    BY <2>3 DEF Held
  <2> QED BY <2>1, <2>6, <2>7 DEF CountInv
<1>7. ASSUME NEW c \in Calls, FinishOversized(c) PROVE FALSE
  BY <1>7, BytesAssumption DEF FinishOversized, EndedInv, AllFit, Slot, IInv
<1>8. ASSUME NEW c \in Calls, Account(c) PROVE CountInv'
  BY <1>8, AccountCounts
<1>9. CASE Clear
  <2>1. /\ \A c \in Calls : pc[c] \in {"new", "answered"}
        /\ table' = [i \in Ids |-> None] /\ bytes' = 0 /\ pc' = pc
    BY <1>9 DEF Clear
  <2>2. Pending = {} /\ Pending' = {}
    BY <2>1 DEF Pending
  <2>3. \A i \in Ids : HeldOf(i)' = 0
    BY <2>1 DEF HeldOf, Tracked
  <2>4. Held' = 0
    <3> PICK f : f = [i \in Ids |-> HeldOf(i)]'
      OBVIOUS
    <3>1. Held' = SumFunctionOnSet(f, Ids)
      BY DEF Held, SumFunction
    <3>2. \A i \in Ids : f[i] = 0
      BY <2>3
    <3> QED BY <3>1, <3>2, IdsAssumption, SumOfZeros
  <2>5. Owed' = 0
    <3> PICK f : f = [c \in Pending |-> OwedOf(c)]'
      OBVIOUS
    <3>1. Owed' = SumFunctionOnSet(f, {})
      BY <2>2 DEF Owed, SumFunction
    <3> QED BY <3>1, SumOverNone
  <2> QED BY <2>1, <2>2, <2>4, <2>5, FS_EmptySet DEF CountInv
<1>10. CASE Tick \/ UNCHANGED vars
  <2>1. UNCHANGED <<table, bytes, slot, pc, req>>
    BY <1>10 DEF Tick, vars, Slots
  <2> QED BY <2>1 DEF CountInv, Held, Owed, HeldOf, OwedOf, Pending, Tracked
<1> QED
  BY <1>1, <1>2, <1>3, <1>4, <1>5, <1>6, <1>7, <1>8, <1>9, <1>10 DEF Next, Step

LEMMA CoverStep ==
    ASSUME IInv, IInv', EndedInv, FoundInv, CoverInv, [Next]_vars
    PROVE  CoverInv'
<1> SUFFICES ASSUME AllFit' PROVE OwnInv' /\ CountInv'
  BY DEF CoverInv
<1>1. AllFit
  <2> SUFFICES ASSUME NEW c \in Calls, slot[c].done PROVE slot[c].size <= MaxBytes
    BY DEF AllFit
  <2>1. slot'[c].done /\ slot'[c].size = slot[c].size
    BY EndedStep
  <2> QED BY <2>1 DEF AllFit
<1>2. OwnInv /\ CountInv
  BY <1>1 DEF CoverInv
<1> QED BY <1>1, <1>2, OwnStep, CountStep

\* When no call is under way every byte that is retained is counted.
LEMMA RetainedHeld ==
    ASSUME IInv, EndedInv, CountInv, AllFit, Quiescent
    PROVE  RetainedBytes = Held /\ Held <= bytes /\ Held <= MaxBytes
<1> USE NoneAssumption DEF TypeOK
<1> PICK f, g : f = [i \in Ids |-> HeldOf(i)] /\ g = [i \in Tracked |-> slot[table[i]].size]
  OBVIOUS
<1>1. Held = SumFunctionOnSet(f, Ids) /\ RetainedBytes = SumFunctionOnSet(g, Tracked)
  BY DEF Held, RetainedBytes, SumFunction
<1>2. ASSUME NEW i \in Ids
      PROVE  f[i] \in Nat /\ (i \in Tracked => f[i] = g[i]) /\ (i \notin Tracked => f[i] = 0)
  <2>1. f[i] = HeldOf(i) /\ f[i] \in Nat
    BY CountTyped
  <2>2. i \in Tracked => slot[table[i]].cached /\ pc[table[i]] = "answered"
    <3> SUFFICES ASSUME i \in Tracked PROVE slot[table[i]].cached /\ pc[table[i]] = "answered"
      OBVIOUS
    <3>1. table[i] \in Calls /\ pc[table[i]] = "answered"
      BY DEF IInv, TableInv, Tracked, Quiescent
    <3>2. ~slot[table[i]].failed
      BY <3>1 DEF IInv, FailureForgotten
    <3>3. slot[table[i]].done => ~(slot[table[i]].size > MaxBytes)
      BY <3>1, BytesAssumption DEF AllFit, IInv, Slot
    <3> QED BY <3>1, <3>2, <3>3 DEF EndedInv
  <2> QED BY <2>1, <2>2 DEF HeldOf
<1>3. RetainedBytes = Held
  <2>1. Tracked \subseteq Ids
    BY DEF Tracked
  <2>2. SumFunctionOnSet(f, Ids) = SumFunctionOnSet(g, Tracked)
    BY <1>2, <2>1, IdsAssumption, SumPastZeros
  <2> QED BY <1>1, <2>2
<1>4. Owed = 0
  <2>1. Pending = {}
    BY DEF Pending, Quiescent
  <2> PICK o : o = [c \in Pending |-> OwedOf(c)]
    OBVIOUS
  <2>2. Owed = SumFunctionOnSet(o, {})
    BY <2>1 DEF Owed, SumFunction
  <2> QED BY <2>2, SumOverNone
<1>5. PICK h, b : h = Held /\ b = bytes /\ h \in Nat /\ b \in Nat
  BY CountTyped
<1>6. h <= b + 0 /\ (b <= MaxBytes \/ h = 0)
  BY <1>4, <1>5, Zenon DEF CountInv
<1>7. h <= b /\ h <= MaxBytes
  BY <1>5, <1>6, BytesAssumption
<1> QED BY <1>3, <1>5, <1>7, Zenon

\* Whenever no call is under way, what the table retains fits the budget and is counted in
\* full, as long as no response over the budget has been computed: although a response can be
\* evicted before it is counted, and _drop_locked clamps the count at zero.
THEOREM BytesCovered == Spec => []FittingBytesCovered
<1>1. Init => FoundInv
  BY NoneAssumption DEF Init, FoundInv, DoneOrRunning, Tracked, FreshSlot
<1>2. IInv /\ FoundInv /\ [Next]_vars => FoundInv'
  BY FoundStep
<1>3. Init => EndedInv /\ CoverInv
  <2> SUFFICES ASSUME Init PROVE EndedInv /\ CoverInv
    OBVIOUS
  <2> USE DEF Init
  <2>1. EndedInv
    BY DEF EndedInv, FreshSlot
  <2>2. OwnInv
    BY DEF OwnInv
  <2>3. Pending = {}
    BY DEF Pending
  <2>4. Held = 0
    <3> PICK f : f = [i \in Ids |-> HeldOf(i)]
      OBVIOUS
    <3>1. \A i \in Ids : f[i] = 0
      BY DEF HeldOf, Tracked
    <3>2. Held = SumFunctionOnSet(f, Ids)
      BY DEF Held, SumFunction
    <3> QED BY <3>1, <3>2, IdsAssumption, SumOfZeros
  <2>5. Owed = 0
    <3> PICK f : f = [c \in Pending |-> OwedOf(c)]
      OBVIOUS
    <3>1. Owed = SumFunctionOnSet(f, {})
      BY <2>3 DEF Owed, SumFunction
    <3> QED BY <3>1, SumOverNone
  <2> QED BY <2>1, <2>2, <2>3, <2>4, <2>5, FS_EmptySet DEF CoverInv, CountInv
<1>4. IInv /\ IInv' /\ EndedInv /\ FoundInv /\ CoverInv /\ [Next]_vars => EndedInv' /\ CoverInv'
  BY EndedStep, CoverStep
<1>5. IInv /\ EndedInv /\ CoverInv => FittingBytesCovered
  BY RetainedHeld DEF CoverInv, FittingBytesCovered, AllFit
<1> QED BY <1>1, <1>2, <1>3, <1>4, <1>5, Invariance, PTL DEF Spec

-----------------------------------------------------------------------------
(* The cache implements SingleFlight for the ids whose response always fits. *)

\* What the calls see of the abstract state.
LEMMA PromiseInit == Init => Promise!Init
  BY NoneAssumption
  DEF Init, Promise!Init, StageOf, AskedBy, SourceOf, Watched, NoRequest, FittingIds, Refusal

\* A step of call c shows in the abstract state as the change of c's own entries.
LEMMA OneCall ==
    ASSUME NEW c \in Calls,
           \A d \in Calls \ {c} : /\ pc'[d] = pc[d]
                                  /\ req'[d] = req[d]
                                  /\ answer'[d] = answer[d]
    PROVE  /\ [d \in Calls |-> StageOf(d)]'
                = [[d \in Calls |-> StageOf(d)] EXCEPT ![c] = StageOf(c)']
           /\ [d \in Calls |-> AskedBy(d)]'
                = [[d \in Calls |-> AskedBy(d)] EXCEPT ![c] = AskedBy(c)']
           /\ [d \in Calls |-> SourceOf(d)]'
                = [[d \in Calls |-> SourceOf(d)] EXCEPT ![c] = SourceOf(c)']
<1>1. ASSUME NEW d \in Calls \ {c}
      PROVE  StageOf(d)' = StageOf(d) /\ AskedBy(d)' = AskedBy(d) /\ SourceOf(d)' = SourceOf(d)
  BY <1>1 DEF StageOf, AskedBy, SourceOf, Watched, FittingIds
<1> QED BY <1>1

\* A step that leaves the abstract view of every call alone is a stutter.
LEMMA Silent ==
    ASSUME NEW c \in Calls,
           \A d \in Calls \ {c} : /\ pc'[d] = pc[d]
                                  /\ req'[d] = req[d]
                                  /\ answer'[d] = answer[d],
           StageOf(c)' = StageOf(c), AskedBy(c)' = AskedBy(c), SourceOf(c)' = SourceOf(c)
    PROVE  UNCHANGED Promise!vars
  BY OneCall DEF Promise!vars

\* The steps of a batch that the promise does not cover are stutters.
LEMMA UnwatchedSilent ==
    ASSUME NEW c \in Calls,
           \A d \in Calls \ {c} : /\ pc'[d] = pc[d]
                                  /\ req'[d] = req[d]
                                  /\ answer'[d] = answer[d],
           ~Watched(c), ~Watched(c)'
    PROVE  UNCHANGED Promise!vars
<1>1. StageOf(c)' = StageOf(c) /\ AskedBy(c)' = AskedBy(c) /\ SourceOf(c)' = SourceOf(c)
  BY DEF StageOf, AskedBy, SourceOf
<1> QED BY <1>1, Silent

\* Every step of the cache is a step of the promise or changes nothing it can see.
LEMMA PromiseStep == IInv /\ IInv' /\ [Next]_vars => [Promise!Next]_(Promise!vars)
<1> SUFFICES ASSUME IInv, IInv', [Next]_vars PROVE [Promise!Next]_(Promise!vars)
  OBVIOUS
<1> USE NoneAssumption
<1>1. FittingIds \subseteq Ids
  BY DEF FittingIds
<1>2. \A c \in Calls : Watched(c) => req[c] \in Requests
  BY <1>1 DEF IInv, TypeOK, Watched, NoRequest
<1>3. ASSUME NEW c \in Calls,
             \/ Enter(c) \/ ExpireDone(c) \/ Join(c) \/ Miss(c) \/ FinishEnter(c)
             \/ ReplayLookup(c)
             \/ \E i \in Ids : ExpireOne(c, i) \/ EvictForSlot(c, i) \/ EvictForBytes(c, i)
      PROVE  UNCHANGED Promise!vars
  <2>1. /\ UNCHANGED <<req, answer>>
        /\ \E l : pc' = [pc EXCEPT ![c] = l]
        /\ (pc'[c] \in {"compute", "finish", "fit", "failed", "answered"}
             \/ pc[c] \in {"compute", "finish", "fit", "failed", "answered"})
               => pc[c] \in {"finish", "fit"} /\ pc'[c] \in {"finish", "fit"}
    BY <1>3
    DEF Enter, ExpireDone, Join, Miss, FinishEnter, ReplayLookup, ExpireOne, EvictForSlot,
        EvictForBytes, GoTo, IInv, TypeOK
  <2>2. StageOf(c)' = StageOf(c) /\ AskedBy(c)' = AskedBy(c) /\ SourceOf(c)' = SourceOf(c)
    BY <2>1 DEF StageOf, AskedBy, SourceOf, Watched, FittingIds
  <2> QED BY <2>1, <2>2, Silent DEF IInv, TypeOK
<1>4. ASSUME NEW c \in Calls, NEW r \in Requests, Arrive(c, r)
      PROVE  [Promise!Next]_(Promise!vars)
  <2>1. /\ \A d \in Calls \ {c} : pc'[d] = pc[d] /\ req'[d] = req[d] /\ answer'[d] = answer[d]
        /\ pc[c] = "new" /\ pc'[c] = "enter" /\ req'[c] = r /\ answer'[c] = answer[c]
    BY <1>4 DEF Arrive, GoTo, IInv, TypeOK
  <2>2. ~Watched(c) /\ answer[c].of = None
    BY <1>1, <2>1 DEF IInv, RequestInv, AnswerInv, Watched, NoRequest
  <2>3. CASE Watched(c)'
    <3>1. StageOf(c) = "idle" /\ StageOf(c)' = "asked" /\ AskedBy(c)' = r
      BY <2>1, <2>2, <2>3 DEF StageOf, AskedBy
    <3>2. SourceOf(c)' = SourceOf(c) /\ r.op = "run" /\ r.id \in FittingIds
      BY <2>1, <2>2, <2>3 DEF SourceOf, Watched, FittingIds
    <3>3. Promise!Ask(c, r)
      BY <2>1, <3>1, <3>2, OneCall DEF Promise!Ask
    <3> QED BY <3>2, <3>3 DEF Promise!Next
  <2>4. CASE ~Watched(c)'
    BY <2>1, <2>2, <2>4, UnwatchedSilent
  <2> QED BY <2>3, <2>4
<1>5. ASSUME NEW c \in Calls, RunUnnamed(c) PROVE UNCHANGED Promise!vars
  <2>1. /\ \A d \in Calls \ {c} : pc'[d] = pc[d] /\ req'[d] = req[d] /\ answer'[d] = answer[d]
        /\ pc[c] = "new" /\ req' = req
    BY <1>5 DEF RunUnnamed, Return, GoTo, IInv, TypeOK
  <2>2. ~Watched(c) /\ ~Watched(c)'
    BY <1>1, <2>1 DEF IInv, RequestInv, Watched, NoRequest, FittingIds
  <2> QED BY <2>1, <2>2, UnwatchedSilent
<1>6. ASSUME NEW c \in Calls, Register(c) PROVE [Promise!Start(c)]_(Promise!vars)
  <2>1. /\ \A d \in Calls \ {c} : pc'[d] = pc[d] /\ req'[d] = req[d] /\ answer'[d] = answer[d]
        /\ pc[c] = "reserve" /\ pc'[c] = "compute" /\ req' = req /\ answer' = answer
    BY <1>6 DEF Register, GoTo, IInv, TypeOK
  <2>2. Watched(c)' = Watched(c)
    BY <2>1 DEF Watched, FittingIds
  <2>3. CASE Watched(c)
    <3>1. /\ StageOf(c) = "asked" /\ StageOf(c)' = "running"
          /\ AskedBy(c) = req[c] /\ AskedBy(c)' = AskedBy(c) /\ SourceOf(c)' = SourceOf(c)
      BY <2>1, <2>2, <2>3 DEF StageOf, AskedBy, SourceOf
    <3>2. table[req[c].id] = None
      BY <2>1 DEF IInv, SectionInv
    <3>3. ASSUME NEW d \in Calls, StageOf(d) = "running", AskedBy(d).id = req[c].id
          PROVE  FALSE
      <4>1. Watched(d) /\ pc[d] = "compute"
        BY <3>3 DEF StageOf
      <4>2. table[req[c].id] = d
        BY <3>3, <4>1 DEF IInv, OwnedInv, AskedBy, Watched
      <4> QED BY <3>2, <4>2
    <3>4. Promise!Running(req[c].id) = {}
      BY <3>3 DEF Promise!Running, IdOfRequest
    <3>5. Promise!Start(c)
      BY <2>1, <3>1, <3>4, OneCall DEF Promise!Start, IdOfRequest
    <3> QED BY <3>5
  <2>4. CASE ~Watched(c)
    BY <2>1, <2>2, <2>4, UnwatchedSilent
  <2> QED BY <2>3, <2>4
<1>7. ASSUME NEW c \in Calls, ComputeOk(c) \/ ComputeFail(c)
      PROVE  [Promise!Complete(c)]_(Promise!vars)
  <2>1. /\ \A d \in Calls \ {c} : pc'[d] = pc[d] /\ req'[d] = req[d] /\ answer'[d] = answer[d]
        /\ pc[c] = "compute" /\ pc'[c] \in {"finish", "failed"} /\ req' = req /\ answer' = answer
    BY <1>7 DEF ComputeOk, ComputeFail, GoTo, IInv, TypeOK
  <2>2. Watched(c)' = Watched(c)
    BY <2>1 DEF Watched, FittingIds
  <2>3. CASE Watched(c)
    <3>1. /\ StageOf(c) = "running" /\ StageOf(c)' = "ran"
          /\ AskedBy(c)' = AskedBy(c) /\ SourceOf(c)' = SourceOf(c)
      BY <2>1, <2>2, <2>3 DEF StageOf, AskedBy, SourceOf
    <3> QED BY <2>1, <3>1, OneCall DEF Promise!Complete
  <2>4. CASE ~Watched(c)
    BY <2>1, <2>2, <2>4, UnwatchedSilent
  <2> QED BY <2>3, <2>4
<1>8. ASSUME NEW c \in Calls, ForgetFailed(c) \/ FinishOversized(c) \/ Account(c)
      PROVE  [Promise!ReturnOwn(c)]_(Promise!vars)
  <2>1. /\ \A d \in Calls \ {c} : pc'[d] = pc[d] /\ req'[d] = req[d] /\ answer'[d] = answer[d]
        /\ pc[c] \in {"finish", "fit", "failed"} /\ pc'[c] = "answered" /\ req' = req
        /\ answer'[c].of = c
    BY <1>8 DEF ForgetFailed, FinishOversized, Account, Return, GoTo, IInv, TypeOK
  <2>2. Watched(c)' = Watched(c)
    BY <2>1 DEF Watched, FittingIds
  <2>3. CASE Watched(c)
    <3>1. /\ StageOf(c) = "ran" /\ StageOf(c)' = "closed"
          /\ AskedBy(c)' = AskedBy(c) /\ SourceOf(c)' = c
      BY <2>1, <2>2, <2>3 DEF StageOf, AskedBy, SourceOf
    <3> QED BY <2>1, <3>1, OneCall DEF Promise!ReturnOwn
  <2>4. CASE ~Watched(c)
    BY <2>1, <2>2, <2>4, UnwatchedSilent
  <2> QED BY <2>3, <2>4
<1>9. ASSUME NEW c \in Calls, Await(c) PROVE [Promise!Next]_(Promise!vars)
  <2> DEFINE e == joined[c]
  <2>1. /\ \A d \in Calls \ {c} : pc'[d] = pc[d] /\ req'[d] = req[d] /\ answer'[d] = answer[d]
        /\ pc[c] = "await" /\ pc'[c] = "answered" /\ req' = req /\ answer'[c].of = e
        /\ slot[e].done
    BY <1>9 DEF Await, Return, GoTo, IInv, TypeOK
  <2>2. Watched(c)' = Watched(c)
    BY <2>1 DEF Watched, FittingIds
  <2>3. /\ e \in Calls /\ pc[e] \in {"finish", "fit", "failed", "answered"}
        /\ req[e].id = req[c].id /\ req[c].op = "run" /\ req[e].fp = req[c].fp
    BY <2>1 DEF IInv, TypeOK, JoinedInv, RequestInv, SlotInv
  <2>4. CASE Watched(c)
    <3>1. req[e].op = "run"
      BY <2>1, <2>3 DEF IInv, TypeOK, JoinedInv
    <3>2. req[e] \in Requests /\ req[c] \in Requests
      BY <1>1, <2>3, <2>4 DEF IInv, TypeOK, Watched, NoRequest
    <3>3. req[e] = req[c]
      BY <2>3, <3>1, <3>2, RequestAssumption, Zenon
    <3>4. Watched(e) /\ e # c
      BY <2>1, <2>3, <2>4, <3>3 DEF Watched
    <3>5. /\ StageOf(c) = "asked" /\ StageOf(c)' = "closed" /\ StageOf(e) \in {"ran", "closed"}
          /\ AskedBy(e) = AskedBy(c) /\ AskedBy(c)' = AskedBy(c) /\ SourceOf(c)' = e
      BY <2>1, <2>2, <2>3, <2>4, <3>3, <3>4 DEF StageOf, AskedBy, SourceOf
    <3>6. Promise!ReturnShared(c, e)
      <4>1. /\ [d \in Calls |-> StageOf(d)]'
                 = [[d \in Calls |-> StageOf(d)] EXCEPT ![c] = "closed"]
            /\ [d \in Calls |-> SourceOf(d)]' = [[d \in Calls |-> SourceOf(d)] EXCEPT ![c] = e]
        BY <2>1, <3>5, OneCall
      <4>2. [d \in Calls |-> AskedBy(d)]' = [d \in Calls |-> AskedBy(d)]
        BY <2>1, <3>5, OneCall
      <4> HIDE DEF e
      <4> QED BY <2>3, <3>5, <4>1, <4>2 DEF Promise!ReturnShared
    <3> QED BY <2>3, <3>6 DEF Promise!Next
  <2>5. CASE ~Watched(c)
    BY <2>1, <2>2, <2>5, UnwatchedSilent
  <2> QED BY <2>4, <2>5
<1>10. ASSUME NEW c \in Calls, Mismatch(c) \/ RejectFull(c) \/ AwaitTimeout(c)
       PROVE  [Promise!Refuse(c)]_(Promise!vars)
  <2>1. /\ \A d \in Calls \ {c} : pc'[d] = pc[d] /\ req'[d] = req[d] /\ answer'[d] = answer[d]
        /\ pc[c] \in {"lookup", "reserve", "await"} /\ pc'[c] = "answered" /\ req' = req
        /\ answer'[c].of = None
    BY <1>10 DEF Mismatch, RejectFull, AwaitTimeout, Refusal, Return, GoTo, IInv, TypeOK
  <2>2. Watched(c)' = Watched(c) /\ answer[c].of = None
    BY <2>1 DEF Watched, FittingIds, IInv, AnswerInv
  <2>3. CASE Watched(c)
    <3>1. /\ StageOf(c) = "asked" /\ StageOf(c)' = "closed"
          /\ AskedBy(c)' = AskedBy(c) /\ SourceOf(c)' = SourceOf(c)
      BY <2>1, <2>2, <2>3 DEF StageOf, AskedBy, SourceOf
    <3> QED BY <2>1, <3>1, OneCall DEF Promise!Refuse
  <2>4. CASE ~Watched(c)
    BY <2>1, <2>2, <2>4, UnwatchedSilent
  <2> QED BY <2>3, <2>4
<1>11. ASSUME NEW c \in Calls, Peek(c) PROVE UNCHANGED Promise!vars
  <2>1. /\ \A d \in Calls \ {c} : pc'[d] = pc[d] /\ req'[d] = req[d] /\ answer'[d] = answer[d]
        /\ pc[c] = "peek" /\ req' = req
    BY <1>11 DEF Peek, Refusal, Return, GoTo, IInv, TypeOK
  <2>2. ~Watched(c) /\ ~Watched(c)'
    BY <2>1 DEF IInv, RequestInv, Watched
  <2> QED BY <2>1, <2>2, UnwatchedSilent
<1>12. CASE Clear \/ Tick \/ UNCHANGED vars
  <2>1. UNCHANGED <<pc, req, answer>>
    BY <1>12 DEF Clear, Tick, vars
  <2> QED BY <2>1 DEF Promise!vars, StageOf, AskedBy, SourceOf, Watched, FittingIds
<1> QED
  BY <1>3, <1>4, <1>5, <1>6, <1>7, <1>8, <1>9, <1>10, <1>11, <1>12
  DEF Next, Step, Promise!Next

\* DedupCache implements SingleFlight for the ids whose response always fits: executions
\* of one id never overlap, and every answer is that of one execution of the request.
THEOREM Implements == Spec => SingleFlightPromise
  BY PromiseInit, PromiseStep, Invariance, PTL DEF Spec, SingleFlightPromise, Promise!Spec

-----------------------------------------------------------------------------
(* The shard store of a console. *)

\* A shard that is being put has put its experts up to the next one, which is one of its own.
LoadingState ==
    {s \in [at : {"load"}, shard : Shards, next : Nat] :
        /\ Last(s.shard) \in Experts
        /\ s.next \in s.shard.first..Last(s.shard)}

\* A batch asks for experts of the layer.
BatchState == [at : {"batch"}, ids : Seq(Experts), got : Seq(Weights)]

BatchInv == \A h \in Handlers : handler[h].at = "batch" => handler[h] \in BatchState

LoadInv ==
    \A h \in Handlers :
        handler[h].at = "load" =>
            /\ handler[h] \in LoadingState
            /\ \A e \in handler[h].shard.first..(handler[h].next - 1) : e \in Stored

\* The bytes counted, which include those of copies that were replaced, fit.
CounterWithinCapacity == Capacity > 0 => resident <= Capacity

NodeInv ==
    /\ NodeTypeOK
    /\ handler = [h \in Handlers |-> handler[h]]
    /\ LoadInv
    /\ BatchInv
    /\ acked \subseteq Stored
    /\ CounterWithinCapacity

-----------------------------------------------------------------------------
\* The invariant holds of an empty store.
LEMMA NodeInitInv == NodeInit => NodeInv
<1> SUFFICES ASSUME NodeInit PROVE NodeInv
  OBVIOUS
<1>1. store = <<>> /\ DOMAIN store = {}
  <2>1. DOMAIN << >> = 1..Len(<< >>) /\ Len(<< >>) = 0
    OBVIOUS
  <2> QED BY <2>1 DEF NodeInit
<1>2. handler = [h \in Handlers |-> Idle] /\ \A h \in Handlers : handler[h].at = "idle"
  BY DEF NodeInit, Idle
<1>3. NodeTypeOK
  <2>1. Stored = {}
    BY <1>1 DEF Stored
  <2>2. resident \in Nat /\ loads \in 0..MaxLoads /\ acked \subseteq Experts
    BY BoundAssumption DEF NodeInit
  <2>3. twice \in BOOLEAN
    BY Zenon DEF NodeInit
  <2> QED BY <1>2, <2>1, <2>2, <2>3 DEF NodeTypeOK
<1>4. LoadInv /\ BatchInv
  BY <1>2 DEF LoadInv, BatchInv
<1>5. handler = [h \in Handlers |-> handler[h]]
  BY <1>2
<1>6. acked \subseteq Stored /\ CounterWithinCapacity
  BY <1>1, CapacityAssumption DEF NodeInit, Stored, CounterWithinCapacity
<1>7. QED
  BY <1>2, <1>3, <1>4, <1>5, <1>6 DEF NodeInv

\* Putting an expert keeps the store's type, loses no expert and counts what fits.
LEMMA PutInv ==
    ASSUME NodeInv, NEW e \in Experts, NEW w \in Weights, Put(e, w), InRam(w) => Fits(w)
    PROVE  /\ Stored' = Stored \cup {e}
           /\ \A x \in Stored' : store'[x] \in Weights
           /\ resident' \in Nat /\ twice' \in BOOLEAN
           /\ CounterWithinCapacity'
<1>1. store' = [x \in Stored \cup {e} |-> IF x = e THEN w ELSE store[x]]
  BY DEF Put
<1>2. Stored' = Stored \cup {e}
  BY <1>1 DEF Stored
<1>3. \A x \in Stored' : store'[x] \in Weights
  BY <1>1, <1>2 DEF NodeInv, NodeTypeOK
<1>4. resident' \in Nat /\ CounterWithinCapacity'
  BY CapacityAssumption
  DEF NodeInv, NodeTypeOK, Put, Counted, Fits, InRam, Weights, CounterWithinCapacity
<1>5. twice' \in BOOLEAN
  BY DEF Put, NodeInv, NodeTypeOK
<1>6. QED
  BY <1>2, <1>3, <1>4, <1>5

\* A shard that is under way before and after a step of another thread, or of its own that
\* leaves it as it is, still has its experts.
LEMMA LoadKept ==
    ASSUME LoadInv, Stored \subseteq Stored',
           \A h \in Handlers : handler'[h].at = "load" => handler'[h] = handler[h]
    PROVE  LoadInv'
<1> SUFFICES ASSUME NEW h \in Handlers, handler'[h].at = "load"
             PROVE  /\ handler'[h] \in LoadingState
                    /\ \A e \in handler'[h].shard.first..(handler'[h].next - 1) : e \in Stored'
  BY DEF LoadInv, LoadingState, Last
<1>1. handler'[h] = handler[h]
  OBVIOUS
<1>2. QED
  BY <1>1 DEF LoadInv

\* A step of one thread that leaves the store alone and begins no load.
LEMMA SetInv ==
    ASSUME NodeInv, NEW h \in Handlers, NEW state, Set(h, state),
           state.at \in {"idle", "reply"} \/ state \in BatchState,
           UNCHANGED <<store, resident, acked, twice>>, loads' \in 0..MaxLoads
    PROVE  NodeInv'
<1>1. /\ handler' = [g \in Handlers |-> IF g = h THEN state ELSE handler[g]]
      /\ handler' = [g \in Handlers |-> handler'[g]]
  BY DEF NodeInv, Set
<1>2. state.at \in {"idle", "batch", "reply"} /\ (state.at = "batch" => state \in BatchState)
  BY DEF BatchState
<1>3. NodeTypeOK' /\ BatchInv'
  BY <1>1, <1>2 DEF NodeInv, NodeTypeOK, Stored, BatchInv
<1>4. LoadInv'
  <2>1. Stored' = Stored
    BY DEF Stored
  <2>2. \A g \in Handlers : handler'[g].at = "load" => handler'[g] = handler[g]
    BY <1>1, <1>2
  <2> QED BY <2>1, <2>2, LoadKept DEF NodeInv
<1>5. QED
  BY <1>1, <1>3, <1>4 DEF NodeInv, Stored, CounterWithinCapacity

\* Every step keeps the invariant, and no expert leaves the store.
LEMMA NodeStepInv == NodeInv /\ [NodeNext]_nodeVars => NodeInv' /\ Stored \subseteq Stored'
<1> SUFFICES ASSUME NodeInv, [NodeNext]_nodeVars PROVE NodeInv' /\ Stored \subseteq Stored'
  OBVIOUS
<1>1. ASSUME NEW e \in Experts, MapFromStorage(e) PROVE NodeInv' /\ Stored \subseteq Stored'
  <2> DEFINE w == [bytes |-> Bytes["f32"], tier |-> "ssd"]
  <2>1. w \in Weights /\ Put(e, w) /\ ~InRam(w)
    BY <1>1, WeightsAssumption, TiersAssumption DEF MapFromStorage, InRam, Weights
  <2> HIDE DEF w
  <2>2. /\ Stored' = Stored \cup {e}
        /\ \A x \in Stored' : store'[x] \in Weights
        /\ resident' \in Nat /\ twice' \in BOOLEAN
        /\ CounterWithinCapacity'
    BY <2>1, PutInv
  <2>3. handler' = handler /\ acked' = acked /\ loads' \in 0..MaxLoads
    BY <1>1, BoundAssumption DEF MapFromStorage, NodeInv, NodeTypeOK
  <2>4. NodeTypeOK' /\ BatchInv'
    BY <2>2, <2>3 DEF NodeInv, NodeTypeOK, BatchInv
  <2>5. LoadInv'
    BY <2>2, <2>3, LoadKept DEF NodeInv
  <2> QED BY <2>2, <2>3, <2>4, <2>5 DEF NodeInv
<1>2. ASSUME NEW h \in Handlers, NEW s \in Shards, Load(h, s)
      PROVE  NodeInv' /\ Stored \subseteq Stored'
  <2>1. UNCHANGED <<store, resident, acked, twice>> /\ Stored' = Stored
    BY <1>2 DEF Load, Stored
  <2>2. loads' \in 0..MaxLoads
    BY <1>2, BoundAssumption DEF Load, NodeInv, NodeTypeOK
  <2>3. CASE ~s.whole
    <3>1. Set(h, Reply("error")) /\ Reply("error").at = "reply"
      BY <1>2, <2>3 DEF Load, Reply
    <3> QED BY <2>1, <2>2, <3>1, SetInv
  <2>4. CASE s.whole
    <3> DEFINE l == Loading(s)
    <3>1. /\ handler' = [g \in Handlers |-> IF g = h THEN l ELSE handler[g]]
          /\ handler' = [g \in Handlers |-> handler'[g]]
      BY <1>2, <2>4 DEF Load, Set, NodeInv
    <3>2. /\ l \in LoadingState /\ l.at = "load" /\ l.next = l.shard.first
          /\ l.next \in Nat
      <4>1. s.first \in Nat /\ s.n \in Nat \ {0} /\ Last(s) \in Experts
        <5>1. Cardinality(Experts) \in Nat
          BY ExpertsAssumption, FS_CardinalityType
        <5>2. s.first \in Experts /\ s.n \in 1..Cardinality(Experts)
          BY DEF Shards
        <5>3. Last(s) \in Experts
          BY <1>2 DEF Load
        <5>4. \A c \in Nat : s.n \in 1..c => s.n \in Nat \ {0}
          OBVIOUS
        <5>5. s.n \in Nat \ {0}
          BY <5>1, <5>2, <5>4
        <5> QED BY <5>2, <5>3, <5>5, ExpertsAssumption
      <4> QED BY <4>1 DEF Loading, LoadingState, Last
    <3> HIDE DEF l
    <3>3. NodeTypeOK' /\ BatchInv'
      BY <2>1, <2>2, <3>1, <3>2 DEF NodeInv, NodeTypeOK, BatchInv
    <3>4. LoadInv'
      <4>1. ASSUME NEW g \in Handlers, handler'[g].at = "load"
            PROVE  /\ handler'[g] \in LoadingState
                   /\ \A e \in handler'[g].shard.first..(handler'[g].next - 1) : e \in Stored
        <5>1. CASE g = h
          BY <3>1, <3>2, <5>1
        <5>2. CASE g # h
          BY <3>1, <4>1, <5>2 DEF NodeInv, LoadInv
        <5> QED BY <5>1, <5>2
      <4> QED BY <2>1, <4>1 DEF LoadInv, LoadingState, Last
    <3> QED BY <2>1, <3>1, <3>3, <3>4 DEF NodeInv, CounterWithinCapacity
  <2> QED BY <2>1, <2>3, <2>4
<1>3. ASSUME NEW h \in Handlers, PutNext(h) PROVE NodeInv' /\ Stored \subseteq Stored'
  <2> DEFINE s == handler[h].shard
             e == handler[h].next
             w == [bytes |-> Bytes[s.kind], tier |-> s.tier]
  <2>1. /\ handler[h] \in LoadingState /\ s \in Shards /\ e \in s.first..Last(s)
        /\ s.first \in Nat /\ Last(s) \in Nat /\ e \in Experts
        /\ \A x \in s.first..(e - 1) : x \in Stored
    <3>1. /\ handler[h] \in LoadingState
          /\ \A x \in s.first..(e - 1) : x \in Stored
      BY <1>3 DEF PutNext, NodeInv, LoadInv
    <3>2. s \in Shards /\ e \in s.first..Last(s) /\ Last(s) \in Experts
      BY <3>1 DEF LoadingState
    <3>3. s.first \in Experts
      BY <3>2 DEF Shards
    <3> QED BY <3>1, <3>2, <3>3, ExpertsAssumption
  <2>2. loads' = loads
    BY <1>3 DEF PutNext
  <2>3. CASE ~Fits(w)
    <3>1. Set(h, Reply("error")) /\ Reply("error").at = "reply"
      BY <1>3, <2>3 DEF PutNext, Reply
    <3>2. UNCHANGED <<store, resident, acked, twice>>
      BY <1>3, <2>3 DEF PutNext
    <3>3. loads' \in 0..MaxLoads
      BY <2>2 DEF NodeInv, NodeTypeOK
    <3> QED BY <3>1, <3>2, <3>3, SetInv DEF Stored
  <2>4. CASE Fits(w)
    <3>1. /\ Put(e, w) /\ acked' = acked \cup Acked(s, e)
          /\ Set(h, IF e = Last(s) THEN Reply("ack") ELSE [handler[h] EXCEPT !.next = e + 1])
      BY <1>3, <2>4 DEF PutNext
    <3>2. w \in Weights
      BY <2>1, WeightsAssumption DEF Shards, Weights
    <3> HIDE DEF w
    <3>3. /\ Stored' = Stored \cup {e}
          /\ \A x \in Stored' : store'[x] \in Weights
          /\ resident' \in Nat /\ twice' \in BOOLEAN
          /\ CounterWithinCapacity'
      BY <2>1, <2>4, <3>1, <3>2, PutInv
    <3>4. acked' \subseteq Stored' /\ acked' \subseteq Experts
      <4>1. Acked(s, e) \subseteq Stored'
        BY <2>1, <3>3 DEF Acked
      <4>2. Stored' \subseteq Experts
        BY <2>1, <3>3 DEF NodeInv, NodeTypeOK
      <4> QED BY <3>1, <3>3, <4>1, <4>2 DEF NodeInv
    <3> DEFINE l == IF e = Last(s) THEN Reply("ack") ELSE [handler[h] EXCEPT !.next = e + 1]
    <3>5. /\ handler' = [g \in Handlers |-> IF g = h THEN l ELSE handler[g]]
          /\ handler' = [g \in Handlers |-> handler'[g]]
      BY <3>1 DEF Set, NodeInv
    <3>6. /\ l.at \in {"load", "reply"}
          /\ l.at = "load" =>
                /\ l \in LoadingState
                /\ \A x \in l.shard.first..(l.next - 1) : x \in Stored'
      <4>1. CASE e = Last(s)
        BY <4>1 DEF Reply
      <4>2. CASE e # Last(s)
        <5>1. l = [at |-> "load", shard |-> s, next |-> e + 1]
          BY <2>1, <4>2 DEF LoadingState
        <5>2. e + 1 \in s.first..Last(s) /\ e + 1 \in Nat /\ Last(s) \in Experts
          BY <2>1, <4>2 DEF LoadingState
        <5>3. l \in LoadingState
          BY <2>1, <5>1, <5>2 DEF LoadingState
        <5>4. \A x \in s.first..e : x \in Stored'
          BY <2>1, <3>3
        <5>5. l.at = "load" /\ l.shard.first = s.first /\ l.next - 1 = e
          BY <2>1, <5>1
        <5> HIDE DEF l, s, e
        <5> QED BY <5>3, <5>4, <5>5, <2>1
      <4> QED BY <4>1, <4>2
    <3> HIDE DEF l
    <3>7. NodeTypeOK' /\ BatchInv'
      <4>1. Stored' \subseteq Experts
        BY <2>1, <3>3 DEF NodeInv, NodeTypeOK
      <4>2. \A g \in Handlers : /\ handler'[g].at \in {"idle", "load", "batch", "reply"}
                                /\ handler'[g].at = "batch" => handler'[g] \in BatchState
        BY <3>5, <3>6 DEF NodeInv, NodeTypeOK, BatchInv
      <4>3. loads' \in 0..MaxLoads
        BY <2>2 DEF NodeInv, NodeTypeOK
      <4> QED BY <3>3, <3>4, <4>1, <4>2, <4>3 DEF NodeTypeOK, BatchInv
    <3>8. LoadInv'
      <4>1. ASSUME NEW g \in Handlers, handler'[g].at = "load"
            PROVE  /\ handler'[g] \in LoadingState
                   /\ \A x \in handler'[g].shard.first..(handler'[g].next - 1) : x \in Stored'
        <5>1. CASE g = h
          BY <3>5, <3>6, <4>1, <5>1
        <5>2. CASE g # h
          BY <3>3, <3>5, <4>1, <5>2 DEF NodeInv, LoadInv
        <5> QED BY <5>1, <5>2
      <4> QED BY <4>1 DEF LoadInv, LoadingState, Last
    <3> QED BY <3>3, <3>4, <3>5, <3>7, <3>8 DEF NodeInv
  <2> QED BY <2>3, <2>4
<1>4. ASSUME NEW h \in Handlers, NEW ids \in Asked, AskBatch(h, ids)
      PROVE  NodeInv' /\ Stored \subseteq Stored'
  <2>1. Set(h, Getting(ids)) /\ UNCHANGED <<store, resident, loads, acked, twice>>
    BY <1>4 DEF AskBatch
  <2>2. Getting(ids) \in BatchState
    <3>1. ids \in Seq(Experts)
      <4>1. PICK e \in Experts, f \in Experts : ids = <<e>> \/ ids = <<e, f>>
        BY DEF Asked
      <4>2. CASE ids = <<e>>
        BY <4>2
      <4>3. CASE ids = <<e, f>>
        BY <4>3
      <4> QED BY <4>1, <4>2, <4>3
    <3>2. << >> \in Seq(Weights)
      OBVIOUS
    <3> QED BY <3>1, <3>2 DEF Getting, BatchState
  <2> QED BY <2>1, <2>2, SetInv DEF Stored, NodeInv, NodeTypeOK
<1>5. ASSUME NEW h \in Handlers, GetNext(h) PROVE NodeInv' /\ Stored \subseteq Stored'
  <2> DEFINE b == handler[h]
             e == b.ids[Len(b.got) + 1]
             n == IF e \in Stored THEN [b EXCEPT !.got = Append(@, store[e])] ELSE Missing(e)
  <2>1. Set(h, n) /\ UNCHANGED <<store, resident, loads, acked, twice>>
    BY <1>5 DEF GetNext
  <2>2. b \in BatchState
    BY <1>5 DEF GetNext, NodeInv, BatchInv
  <2>3. n.at = "reply" \/ n \in BatchState
    <3>1. CASE e \in Stored
      <4>1. Append(b.got, store[e]) \in Seq(Weights)
        BY <2>2, <3>1 DEF BatchState, NodeInv, NodeTypeOK
      <4> QED BY <2>2, <3>1, <4>1 DEF BatchState
    <3>2. CASE e \notin Stored
      BY <3>2 DEF Missing
    <3> QED BY <3>1, <3>2
  <2> HIDE DEF n
  <2> QED BY <2>1, <2>3, SetInv DEF Stored, NodeInv, NodeTypeOK
<1>6. ASSUME NEW h \in Handlers, NEW state, Set(h, state), state.at \in {"idle", "reply"},
             UNCHANGED <<store, resident, loads, acked, twice>>
      PROVE  NodeInv' /\ Stored \subseteq Stored'
  BY <1>6, SetInv DEF Stored, NodeInv, NodeTypeOK
<1>7. ASSUME NEW h \in Handlers, RunBatch(h) PROVE NodeInv' /\ Stored \subseteq Stored'
  BY <1>6, <1>7 DEF RunBatch, Rows
<1>8. ASSUME NEW h \in Handlers, Send(h) PROVE NodeInv' /\ Stored \subseteq Stored'
  BY <1>6, <1>8 DEF Send, Idle
<1>9. ASSUME NEW h \in Handlers, NEW msg \in {"STATUS", "BLOCK_FWD"}, AnswerFrame(h, msg)
      PROVE  NodeInv' /\ Stored \subseteq Stored'
  BY <1>6, <1>9 DEF AnswerFrame, Reply
<1>10. CASE UNCHANGED nodeVars
  BY <1>10 DEF nodeVars, NodeInv, NodeTypeOK, LoadInv, LoadingState, BatchInv, Stored, Last,
              CounterWithinCapacity
<1>11. QED
  BY <1>1, <1>2, <1>3, <1>4, <1>5, <1>7, <1>8, <1>9, <1>10 DEF NodeNext

LEMMA NodeInvariance == NodeSpec => []NodeInv
  BY NodeInitInv, NodeStepInv, PTL DEF NodeSpec

-----------------------------------------------------------------------------
\* The store holds weights of the layer's experts, and every thread is at a step of a frame.
THEOREM NodeTyped == NodeSpec => []NodeTypeOK
<1>1. NodeInv => NodeTypeOK
  BY DEF NodeInv
<1> QED BY <1>1, NodeInvariance, PTL

\* The bytes the store counts never exceed its capacity, however loads overlap, fail half-way
\* or replace each other (ShardStore.put looks and counts under one lock).
THEOREM CountedBytesFit == NodeSpec => []CounterWithinCapacity
<1>1. NodeInv => CounterWithinCapacity
  BY DEF NodeInv
<1> QED BY <1>1, NodeInvariance, PTL

\* An expert whose shard was acknowledged is never missing from a batch, whichever threads
\* load and read in between (_on_load answers after its last put, and nothing is evicted).
THEOREM AcknowledgedIsServed == NodeSpec => AckedServed
<1>1. NodeInv /\ [NodeNext]_nodeVars =>
        [\A h \in Handlers : handler[h].at = "batch" /\ handler'[h].at = "reply"
             /\ handler'[h].msg = "missing" => handler'[h].of \notin acked]_nodeVars
  <2> SUFFICES ASSUME NodeInv, NodeNext, NEW h \in Handlers, handler[h].at = "batch",
                      handler'[h].at = "reply", handler'[h].msg = "missing"
               PROVE  handler'[h].of \notin acked
    OBVIOUS
  <2>1. handler = [g \in Handlers |-> handler[g]] /\ acked \subseteq Stored
    BY DEF NodeInv
  <2>2. handler'[h] # handler[h]
    BY <2>1
  <2>3. ASSUME NEW g \in Handlers, NEW state, Set(g, state),
               state.at # "reply" \/ handler[g].at # "batch"
        PROVE  FALSE
    BY <2>1, <2>2, <2>3 DEF Set
  <2>4. PICK g \in Handlers : GetNext(g) \/ RunBatch(g)
    <3>1. ASSUME NEW e \in Experts PROVE ~MapFromStorage(e)
      BY <2>2 DEF MapFromStorage
    <3>2. ASSUME NEW g \in Handlers, NEW s \in Shards PROVE ~Load(g, s)
      BY <2>3 DEF Load
    <3>3. ASSUME NEW g \in Handlers, NEW ids \in Asked PROVE ~AskBatch(g, ids)
      BY <2>3 DEF AskBatch
    <3>4. ASSUME NEW g \in Handlers, NEW msg \in {"STATUS", "BLOCK_FWD"} PROVE ~AnswerFrame(g, msg)
      BY <2>3 DEF AnswerFrame
    <3>5. ASSUME NEW g \in Handlers PROVE ~Send(g)
      BY <2>3 DEF Send
    <3>6. ASSUME NEW g \in Handlers PROVE ~PutNext(g)
      BY <2>3 DEF PutNext
    <3> QED BY <3>1, <3>2, <3>3, <3>4, <3>5, <3>6 DEF NodeNext
  <2>5. CASE RunBatch(g)
    <3>1. Set(g, Rows(handler[g])) /\ Rows(handler[g]).msg = "rows"
      BY <2>5 DEF RunBatch, Rows
    <3> QED BY <2>1, <2>2, <3>1 DEF Set
  <2>6. CASE GetNext(g)
    <3> DEFINE b == handler[g]
               e == b.ids[Len(b.got) + 1]
               n == IF e \in Stored THEN [b EXCEPT !.got = Append(@, store[e])] ELSE Missing(e)
    <3>1. Set(g, n) /\ b \in BatchState
      BY <2>6 DEF GetNext, NodeInv, BatchInv
    <3>2. e \in Stored => n.at = "batch"
      BY <3>1 DEF BatchState
    <3>3. e \notin Stored => n.of = e
      BY DEF Missing
    <3> HIDE DEF n
    <3>4. handler'[h] = n
      BY <2>1, <2>2, <3>1 DEF Set
    <3> QED BY <2>1, <3>2, <3>3, <3>4
  <2> QED BY <2>4, <2>5, <2>6
<1> QED BY <1>1, NodeInvariance, PTL DEF NodeSpec, AckedServed

-----------------------------------------------------------------------------
(* The bytes of the weights that are in memory. *)

\* What every expert that is stored takes of the memory, and what the counter has to do with
\* the sum: it never falls short of it, and exceeds it by the copies that were replaced.
RamOfEach == [e \in Stored |-> RamOf(store[e])]

RamInv == RamBytes <= resident /\ BudgetExact

\* The numbers that are added up are natural ones, and there are finitely many.
LEMMA RamTyped ==
    ASSUME NodeInv
    PROVE  /\ IsFiniteSet(Stored) /\ RamBytes = SumFunctionOnSet(RamOfEach, Stored)
           /\ \A e \in Stored : RamOfEach[e] = RamOf(store[e]) /\ RamOfEach[e] \in Nat
<1>1. IsFiniteSet(Stored)
  BY ExpertsAssumption, FS_Subset DEF NodeInv, NodeTypeOK
<1>2. RamBytes = SumFunctionOnSet(RamOfEach, Stored)
  BY DEF RamBytes, RamOfEach, SumFunction
<1>3. \A e \in Stored : RamOfEach[e] = RamOf(store[e]) /\ RamOfEach[e] \in Nat
  BY DEF RamOfEach, RamOf, NodeInv, NodeTypeOK, Weights
<1> QED BY <1>1, <1>2, <1>3

\* Putting an expert counts its bytes: all of them if it is new, and no fewer if it replaces
\* a copy.
LEMMA PutCounts ==
    ASSUME NodeInv, NodeInv', RamInv, NEW e \in Experts, NEW w \in Weights, Put(e, w)
    PROVE  RamInv'
<1> PICK f, g, D : f = RamOfEach /\ g = RamOfEach' /\ D = Stored
  OBVIOUS
<1>1. /\ IsFiniteSet(D) /\ RamBytes = SumFunctionOnSet(f, D)
      /\ \A x \in D : f[x] = RamOf(store[x]) /\ f[x] \in Nat
  BY RamTyped
<1>2. /\ RamBytes' = SumFunctionOnSet(g, Stored')
      /\ \A x \in Stored' : g[x] = RamOf(store'[x]) /\ g[x] \in Nat
  <2>1. RamBytes' = SumFunctionOnSet(g, Stored')
    BY DEF RamBytes, RamOfEach, SumFunction
  <2>2. \A x \in Stored' : g[x] = RamOf(store'[x]) /\ g[x] \in Nat
    BY DEF RamOfEach, RamOf, InRam, NodeInv, NodeTypeOK, Weights
  <2> QED BY <2>1, <2>2
<1>3. store' = [x \in D \cup {e} |-> IF x = e THEN w ELSE store[x]] /\ Stored' = D \cup {e}
  BY DEF Put, Stored
<1>4. g[e] = RamOf(w) /\ g[e] \in Nat /\ \A x \in D \ {e} : g[x] = f[x]
  BY <1>1, <1>2, <1>3
<1>5. resident' = resident + RamOf(w) /\ twice' = (twice \/ e \in D) /\ resident \in Nat
  BY DEF Put, Counted, RamOf, Weights, NodeInv, NodeTypeOK
<1>6. /\ RamBytes \in Nat /\ RamBytes' \in Nat
      /\ e \notin D => RamBytes' = g[e] + RamBytes
      /\ e \in D => RamBytes + g[e] = RamBytes' + f[e]
  <2> PICK a, b : a = SumFunctionOnSet(f, D) /\ b = SumFunctionOnSet(g, D \cup {e})
    OBVIOUS
  <2>1. /\ a \in Nat /\ b \in Nat
        /\ e \notin D => b = g[e] + a
        /\ e \in D => D \cup {e} = D /\ a + g[e] = SumFunctionOnSet(g, D) + f[e]
    BY <1>1, <1>4, SumWithOne
  <2>2. RamBytes = a /\ RamBytes' = b
    BY <1>1, <1>2, <1>3, Zenon
  <2>3. e \in D => SumFunctionOnSet(g, D) = b
    BY <2>1, Zenon
  <2> QED BY <2>1, <2>2, <2>3
<1>7. CASE e \in D
  <2>1. twice' = TRUE
    BY <1>5, <1>7, Zenon
  <2>2. f[e] \in Nat /\ RamBytes <= resident
    BY <1>1, <1>7 DEF RamInv
  <2>3. RamBytes' <= resident'
    BY <1>4, <1>5, <1>6, <1>7, <2>2
  <2> QED BY <2>1, <2>3 DEF RamInv, BudgetExact
<1>8. CASE e \notin D
  <2>1. RamBytes' = g[e] + RamBytes /\ resident' = resident + g[e]
    BY <1>4, <1>5, <1>6, <1>8
  <2>2. twice' => twice
    BY <1>5, <1>8
  <2>3. ~twice' => twice' = FALSE /\ ~twice
    BY <1>5, <1>8
  <2> QED BY <1>4, <1>5, <1>6, <2>1, <2>3 DEF RamInv, BudgetExact
<1> QED BY <1>7, <1>8

\* Every step keeps the count.
LEMMA RamStep == NodeInv /\ NodeInv' /\ RamInv /\ [NodeNext]_nodeVars => RamInv'
<1> SUFFICES ASSUME NodeInv, NodeInv', RamInv, [NodeNext]_nodeVars PROVE RamInv'
  OBVIOUS
<1>1. ASSUME UNCHANGED <<store, resident, twice>> PROVE RamInv'
  BY <1>1 DEF RamInv, RamBytes, BudgetExact, Stored
<1>2. ASSUME NEW e \in Experts, MapFromStorage(e) PROVE RamInv'
  <2> DEFINE w == [bytes |-> Bytes["f32"], tier |-> "ssd"]
  <2>1. w \in Weights /\ Put(e, w)
    BY <1>2, WeightsAssumption, TiersAssumption DEF MapFromStorage, Weights
  <2> HIDE DEF w
  <2> QED BY <2>1, PutCounts
<1>3. ASSUME NEW h \in Handlers, PutNext(h) PROVE RamInv'
  <2> DEFINE s == handler[h].shard
             w == [bytes |-> Bytes[s.kind], tier |-> s.tier]
  <2>1. s \in Shards /\ handler[h].next \in s.first..Last(s) /\ Last(s) \in Experts
    BY <1>3 DEF PutNext, NodeInv, LoadInv, LoadingState
  <2>2. w \in Weights /\ handler[h].next \in Experts
    BY <2>1, WeightsAssumption, ExpertsAssumption DEF Shards, Weights
  <2>3. Put(handler[h].next, w) \/ UNCHANGED <<store, resident, twice>>
    BY <1>3 DEF PutNext
  <2> HIDE DEF w
  <2> QED BY <1>1, <2>2, <2>3, PutCounts
<1>4. ASSUME NEW h \in Handlers,
             \/ \E s \in Shards : Load(h, s)
             \/ \E ids \in Asked : AskBatch(h, ids)
             \/ \E msg \in {"STATUS", "BLOCK_FWD"} : AnswerFrame(h, msg)
             \/ GetNext(h) \/ RunBatch(h) \/ Send(h)
      PROVE  RamInv'
  BY <1>1, <1>4 DEF Load, AskBatch, AnswerFrame, GetNext, RunBatch, Send
<1>5. CASE UNCHANGED nodeVars
  BY <1>1, <1>5 DEF nodeVars
<1> QED BY <1>2, <1>3, <1>4, <1>5 DEF NodeNext

LEMMA RamAlways == NodeSpec => [](NodeInv /\ RamInv)
<1>1. NodeInit => RamInv
  <2> SUFFICES ASSUME NodeInit PROVE RamInv
    OBVIOUS
  <2>1. Stored = {} /\ resident = 0
    <3>1. DOMAIN << >> = 1..Len(<< >>) /\ Len(<< >>) = 0
      OBVIOUS
    <3> QED BY <3>1 DEF NodeInit, Stored
  <2>2. RamBytes = 0
    BY <2>1, RamTyped, NodeInitInv, SumOverNone
  <2> QED BY <2>1, <2>2 DEF RamInv, BudgetExact
<1> QED BY <1>1, RamStep, NodeInitInv, NodeStepInv, PTL DEF NodeSpec

\* The weights in memory stay within the budget, however loads of several peers overlap,
\* replace each other, move experts between memory and SSD or fail half-way: the counter that
\* ShardStore.put tests is never less than what the stored weights add up to.
THEOREM StoreWithinBudget == NodeSpec => []StoredWithinBudget
<1>1. NodeInv /\ RamInv => StoredWithinBudget
  BY DEF NodeInv, RamInv, CounterWithinCapacity, StoredWithinBudget
<1> QED BY <1>1, RamAlways, PTL

\* As long as no expert was stored a second time, the counter is what the stored weights add
\* up to, to the byte.
THEOREM StoreCountsExactly == NodeSpec => []BudgetExact
<1>1. NodeInv /\ RamInv => BudgetExact
  BY DEF RamInv
<1> QED BY <1>1, RamAlways, PTL

-----------------------------------------------------------------------------
(* What a console can be asked to hold *)

\* What a caller says of a unit is what is read back from the file it was saved in: the fields
\* left out of the file are those that say nothing.
THEOREM EntryReadBack ==
    ASSUME NEW u, ValidEntry(u)
    PROVE  EntryFromDict(EntryToDict(u)) = u
<1> DEFINE keys == {"id", "sku", "runtime", "downbin"} \cup DOMAIN Optional
           lost == DOMAIN Pristine
<1>1. /\ u = [k \in keys |-> u[k]]
      /\ u.downbin = [k \in lost |-> u.downbin[k]]
  BY DEF ValidEntry
<1>2. /\ keys = {"id", "sku", "runtime", "downbin", "backend", "measured", "app", "override"}
      /\ lost = {"cus", "cores", "cpu", "gpu", "losses", "scales", "budget"}
  BY DEF Optional, Pristine
<1>3. DOMAIN u = keys /\ DOMAIN u.downbin = lost
  <2> PICK v, d : v = u /\ d = u.downbin
    OBVIOUS
  <2>1. v = [k \in keys |-> v[k]] /\ d = [k \in lost |-> d[k]]
    BY <1>1
  <2>2. DOMAIN v = keys /\ DOMAIN d = lost
    BY <2>1
  <2> QED BY <2>2
<1> PICK d : d = u.downbin
  OBVIOUS
<1>4. d = [k \in lost |-> d[k]] /\ DOMAIN d = lost
  BY <1>1, <1>3
<1>5. DownbinFromDict(DownbinToDict(d)) = d
  <2> DEFINE raw == DownbinToDict(d)
  <2>1. /\ DOMAIN raw = {k \in lost : d[k] # Pristine[k]}
        /\ \A k \in DOMAIN raw : raw[k] = d[k]
    BY <1>4 DEF DownbinToDict, Without
  <2> HIDE DEF raw
  <2>2. \A k \in lost : Get(raw, k, Pristine[k]) = d[k]
    BY <2>1 DEF Get
  <2>3. DownbinFromDict(raw) = [k \in lost |-> Get(raw, k, Pristine[k])]
    BY DEF DownbinFromDict
  <2>4. DownbinFromDict(raw) = [k \in lost |-> d[k]]
    BY <2>2, <2>3
  <2>5. DownbinFromDict(raw) = d
    BY <1>4, <2>4
  <2> QED BY <2>5 DEF raw
<1> DEFINE said == [u EXCEPT !.downbin = DownbinToDict(@)]
           mute == {k \in DOMAIN Optional : u[k] = Optional[k]}
                     \cup (IF said.downbin = <<>> THEN {"downbin"} ELSE {})
           file == EntryToDict(u)
<1>6. /\ DOMAIN said = keys /\ said.downbin = DownbinToDict(d)
      /\ \A k \in keys : k # "downbin" => said[k] = u[k]
  BY <1>2, <1>3
<1>7. file = [k \in keys \ mute |-> said[k]]
  BY <1>6 DEF EntryToDict, Without
<1>8. DOMAIN file = keys \ mute /\ \A k \in keys \ mute : file[k] = said[k]
  BY <1>7
<1>9. EntryFromDict(file) = [k \in keys |->
         CASE k = "downbin" -> DownbinFromDict(Get(file, k, <<>>))
           [] k = "runtime" -> Get(file, k, "host-sim")
           [] k \in DOMAIN Optional -> Get(file, k, Optional[k])
           [] OTHER -> file[k]]
  BY DEF EntryFromDict
<1>10. DownbinFromDict(Get(file, "downbin", <<>>)) = d
  <2>1. Get(file, "downbin", <<>>) = DownbinToDict(d)
    <3>1. "downbin" \in keys /\ "downbin" \notin DOMAIN Optional
      BY DEF Optional
    <3>2. CASE said.downbin = <<>>
      BY <1>6, <1>8, <3>1, <3>2 DEF Get
    <3>3. CASE said.downbin # <<>>
      BY <1>6, <1>8, <3>1, <3>3 DEF Get
    <3> QED BY <3>2, <3>3
  <2> QED BY <1>5, <2>1
<1>11. \A k \in DOMAIN Optional : Get(file, k, Optional[k]) = u[k]
  <2> TAKE k \in DOMAIN Optional
  <2>1. k # "downbin" /\ k \in keys
    BY DEF Optional
  <2> QED BY <1>6, <1>8, <2>1 DEF Get
<1>12. \A k \in {"id", "sku", "runtime"} : k \in DOMAIN file /\ file[k] = u[k]
  <2> TAKE k \in {"id", "sku", "runtime"}
  <2>1. k \in keys \ mute
    BY DEF Optional
  <2> QED BY <1>6, <1>8, <2>1
<1> HIDE DEF file, said, mute
<1>13. \A k \in keys : EntryFromDict(file)[k] = u[k]
  <2> TAKE k \in keys
  <2>1. CASE k = "downbin"
    <3>1. k \notin DOMAIN Optional
      BY <2>1 DEF Optional
    <3> QED BY <1>9, <1>10, <2>1, <3>1
  <2>2. CASE k = "runtime"
    BY <1>9, <1>12, <2>2 DEF Get
  <2>3. CASE k \in DOMAIN Optional
    <3>1. k # "downbin" /\ k # "runtime"
      BY <2>3 DEF Optional
    <3> QED BY <1>9, <1>11, <2>3, <3>1
  <2>4. CASE k \in {"id", "sku"}
    <3>1. k \notin DOMAIN Optional
      BY <2>4 DEF Optional
    <3> QED BY <1>9, <1>12, <2>4, <3>1
  <2> QED BY <2>1, <2>2, <2>3, <2>4
<1>14. EntryFromDict(file) = [k \in keys |-> EntryFromDict(file)[k]]
  <2> PICK e : e = EntryFromDict(file)
    OBVIOUS
  <2>1. e = [k \in keys |-> e[k]]
    BY <1>9
  <2> QED BY <2>1
<1>15. EntryFromDict(file) = u
  <2> HIDE DEF keys
  <2> QED BY <1>1, <1>13, <1>14
<1> QED BY <1>15 DEF file

\* Every row of the table is made of numbers.
TierOK(t) == t.total \in Nat /\ t.bw \in Nat /\ t.reserved \in Nat /\ t.weights \in BOOLEAN

\* A table of tiers, and a row of the table of consoles.
TiersOK(tiers) ==
    /\ IsFiniteSet(DOMAIN tiers) /\ DOMAIN tiers \subseteq Nat
    /\ \A i \in DOMAIN tiers : TierOK(tiers[i])

SpecOK(s) ==
    /\ s.storage \in Nat /\ s.cores \in Nat /\ s.cpu \in Nat /\ s.gpu \in Nat
    /\ s.physical \in Nat /\ s.enabled \in Nat
    /\ TiersOK(s.tiers)

\* Consoles have one tier or two.
LEMMA OneOrTwoTiers ==
    ASSUME NEW tiers,
           \/ DOMAIN tiers = {1} /\ TierOK(tiers[1])
           \/ DOMAIN tiers = {1, 2} /\ TierOK(tiers[1]) /\ TierOK(tiers[2])
    PROVE  TiersOK(tiers)
<1>1. IsFiniteSet({1}) /\ IsFiniteSet({1, 2})
  <2>1. IsFiniteSet({} \cup {1})
    BY FS_EmptySet, FS_AddElement
  <2>2. IsFiniteSet({1} \cup {2})
    BY FS_Singleton, FS_AddElement
  <2>3. {} \cup {1} = {1} /\ {1} \cup {2} = {1, 2}
    OBVIOUS
  <2> QED BY <2>1, <2>2, <2>3
<1> QED BY <1>1 DEF TiersOK

LEMMA TableOK == \A s \in SKUS : SpecOK(s)
<1>1. SpecOK(PS5) /\ SpecOK(PS5_SLIM)
  <2>1. DOMAIN PS5.tiers = {1}
    BY SMT DEF PS5
  <2>2. PS5.tiers[1] = Tier("gddr6", 16 * GB, 448000, 3 * GB, TRUE)
    BY SMT DEF PS5
  <2>3. TierOK(PS5.tiers[1])
    BY <2>2, SMT DEF Tier, TierOK, GB
  <2>4. TiersOK(PS5.tiers)
    BY <2>1, <2>3, OneOrTwoTiers
  <2>5. PS5_SLIM.tiers = PS5.tiers
    BY SMT DEF PS5_SLIM
  <2>6. TiersOK(PS5_SLIM.tiers)
    BY <2>4, <2>5
  <2>7. SpecOK(PS5)
    BY <2>4, SMT DEF SpecOK, PS5, GB
  <2>8. SpecOK(PS5_SLIM)
    BY <2>6, SMT DEF SpecOK, PS5, PS5_SLIM, GB
  <2> QED BY <2>7, <2>8
<1>2. SpecOK(AMD_4700S) /\ SpecOK(AMD_4800S)
  <2>1. DOMAIN AMD_4700S.tiers = {1}
    BY SMT DEF AMD_4700S
  <2>2. AMD_4700S.tiers[1] = Tier("gddr6", 16 * GB, 92000, GB, TRUE)
    BY SMT DEF AMD_4700S
  <2>3. TierOK(AMD_4700S.tiers[1])
    BY <2>2, SMT DEF Tier, TierOK, GB
  <2>4. TiersOK(AMD_4700S.tiers)
    BY <2>1, <2>3, OneOrTwoTiers
  <2>5. AMD_4800S.tiers = AMD_4700S.tiers
    BY SMT DEF AMD_4800S
  <2>6. TiersOK(AMD_4800S.tiers)
    BY <2>4, <2>5
  <2>7. SpecOK(AMD_4700S)
    BY <2>4, SMT DEF SpecOK, AMD_4700S, GB
  <2>8. SpecOK(AMD_4800S)
    BY <2>6, SMT DEF SpecOK, AMD_4700S, AMD_4800S, GB
  <2> QED BY <2>7, <2>8
<1>3. SpecOK(BC_250)
  <2>1. DOMAIN BC_250.tiers = {1}
    BY SMT DEF BC_250
  <2>2. BC_250.tiers[1] = Tier("gddr6", 16 * GB, 360000, 3 * GB, TRUE)
    BY SMT DEF BC_250
  <2>3. TierOK(BC_250.tiers[1])
    BY <2>2, SMT DEF Tier, TierOK, GB
  <2>4. TiersOK(BC_250.tiers)
    BY <2>1, <2>3, OneOrTwoTiers
  <2> QED BY <2>4, SMT DEF SpecOK, BC_250, GB
<1>4. SpecOK(HOST_SIM_SKU)
  <2>1. DOMAIN HOST_SIM_SKU.tiers = {1}
    BY SMT DEF HOST_SIM_SKU
  <2>2. HOST_SIM_SKU.tiers[1] = Tier("host-ram", 8 * GB, 50000, 0, TRUE)
    BY SMT DEF HOST_SIM_SKU
  <2>3. TierOK(HOST_SIM_SKU.tiers[1])
    BY <2>2, SMT DEF Tier, TierOK, GB
  <2>4. TiersOK(HOST_SIM_SKU.tiers)
    BY <2>1, <2>3, OneOrTwoTiers
  <2> QED BY <2>4, SMT DEF SpecOK, HOST_SIM_SKU, GB
<1>5. SpecOK(PS5_PRO)
  <2>1. DOMAIN PS5_PRO.tiers = {1, 2}
    BY SMT DEF PS5_PRO
  <2>2. PS5_PRO.tiers[1] = Tier("gddr6", 16 * GB, 576000, 0, TRUE)
    BY SMT DEF PS5_PRO
  <2>3. TierOK(PS5_PRO.tiers[1])
    BY <2>2, SMT DEF Tier, TierOK, GB
  <2>4. PS5_PRO.tiers[2] = Tier("ddr5-os", 2 * GB, 0, 2 * GB, FALSE)
    BY SMT DEF PS5_PRO
  <2>5. TierOK(PS5_PRO.tiers[2])
    BY <2>4, SMT DEF Tier, TierOK, GB
  <2>6. TiersOK(PS5_PRO.tiers)
    BY <2>1, <2>3, <2>5, OneOrTwoTiers
  <2> QED BY <2>6, SMT DEF SpecOK, PS5_PRO, GB
<1>6. SpecOK(XBOX_SERIES_X)
  <2>1. DOMAIN XBOX_SERIES_X.tiers = {1, 2}
    BY SMT DEF XBOX_SERIES_X
  <2>2. XBOX_SERIES_X.tiers[1] = Tier("gddr6-fast", 10 * GB, 560000, 0, TRUE)
    BY SMT DEF XBOX_SERIES_X
  <2>3. TierOK(XBOX_SERIES_X.tiers[1])
    BY <2>2, SMT DEF Tier, TierOK, GB
  <2>4. XBOX_SERIES_X.tiers[2] = Tier("gddr6-slow", 6 * GB, 336000, 2560, TRUE)
    BY SMT DEF XBOX_SERIES_X
  <2>5. TierOK(XBOX_SERIES_X.tiers[2])
    BY <2>4, SMT DEF Tier, TierOK, GB
  <2>6. TiersOK(XBOX_SERIES_X.tiers)
    BY <2>1, <2>3, <2>5, OneOrTwoTiers
  <2> QED BY <2>6, SMT DEF SpecOK, XBOX_SERIES_X, GB
<1>7. SpecOK(XBOX_SERIES_S)
  <2>1. DOMAIN XBOX_SERIES_S.tiers = {1, 2}
    BY SMT DEF XBOX_SERIES_S
  <2>2. XBOX_SERIES_S.tiers[1] = Tier("gddr6-fast", 8 * GB, 224000, 0, TRUE)
    BY SMT DEF XBOX_SERIES_S
  <2>3. TierOK(XBOX_SERIES_S.tiers[1])
    BY <2>2, SMT DEF Tier, TierOK, GB
  <2>4. XBOX_SERIES_S.tiers[2] = Tier("gddr6-slow", 2 * GB, 56000, 2 * GB, TRUE)
    BY SMT DEF XBOX_SERIES_S
  <2>5. TierOK(XBOX_SERIES_S.tiers[2])
    BY <2>4, SMT DEF Tier, TierOK, GB
  <2>6. TiersOK(XBOX_SERIES_S.tiers)
    BY <2>1, <2>3, <2>5, OneOrTwoTiers
  <2> QED BY <2>6, SMT DEF SpecOK, XBOX_SERIES_S, GB
<1> QED BY <1>1, <1>2, <1>3, <1>4, <1>5, <1>6, <1>7 DEF SKUS

\* Reductions are numbers: what a tier has lost is no less than nothing, and what is left of
\* its bandwidth no more than all of it.
LossOK(d) ==
    /\ d.cus \in Int /\ d.cores \in Int
    /\ Figures(d.cpu) /\ Figures(d.gpu) /\ Figures(d.budget)
    /\ \A n \in DOMAIN d.losses : d.losses[n] \in Nat
    /\ \A n \in DOMAIN d.scales : d.scales[n] \in 0..100

\* The reductions of a unit that lost nothing, of a runtime, and of both are numbers.
LEMMA PristineOK == LossOK(Pristine)
<1> PICK e : e = <<>>
  OBVIOUS
<1>1. DOMAIN e = {}
  OBVIOUS
<1>2. Pristine.losses = e /\ Pristine.scales = e
  BY DEF Pristine
<1> QED BY <1>1, <1>2 DEF Pristine, LossOK, Figures

\* Whatever runtime a unit boots, what it takes is made of numbers.
LEMMA RuntimeOK ==
    ASSUME NEW runtime, NEW spec, NEW app
    PROVE  LossOK(RuntimeDownbin(runtime, spec, app))
<1>1. ASSUME NEW m \in Int
      PROVE  /\ LossOK([Pristine EXCEPT !.cores = 2, !.budget = {m}])
             /\ LossOK([Pristine EXCEPT !.budget = {m}])
  BY PristineOK DEF LossOK, Pristine, Figures
<1>2. ASSUME NEW name, NEW m \in Nat
      PROVE  LossOK([Pristine EXCEPT !.losses = [n \in {name} |-> m]])
  <2> PICK f : f = [n \in {name} |-> m]
    OBVIOUS
  <2>1. \A n \in DOMAIN f : f[n] \in Nat
    OBVIOUS
  <2>2. LossOK([Pristine EXCEPT !.losses = f])
    BY <2>1, PristineOK DEF LossOK, Pristine, Figures
  <2> QED BY <2>2
<1>3. GB \in Nat /\ 5 * GB \in Int /\ 8 * GB \in Int /\ GB \in Int
  BY DEF GB
<1>4. CASE runtime = "xbox-devmode"
  <2>1. PICK m \in Int : m = IF app THEN GB ELSE 5 * GB
    BY <1>3
  <2>2. LossOK([Pristine EXCEPT !.cores = 2, !.budget = {m}])
    BY <1>1, Zenon
  <2>3. RuntimeDownbin(runtime, spec, app) = [Pristine EXCEPT !.cores = 2, !.budget = {m}]
    BY <1>4, <2>1 DEF RuntimeDownbin
  <2> QED BY <2>2, <2>3
<1>5. CASE runtime = "ps5-hen"
  <2>1. LossOK([Pristine EXCEPT !.budget = {8 * GB}])
    BY <1>1, <1>3
  <2> QED BY <1>5, <2>1 DEF RuntimeDownbin
<1>6. CASE runtime \in {"ps5-linux", "salvage-linux"}
  <2>1. PICK name : name = FastTier(spec).name
    BY Zenon
  <2>2. LossOK([Pristine EXCEPT !.losses = [n \in {name} |-> GB]])
    BY <1>2, <1>3, Zenon
  <2>3. RuntimeDownbin(runtime, spec, app)
          = [Pristine EXCEPT !.losses = [n \in {FastTier(spec).name} |-> GB]]
    BY <1>6 DEF RuntimeDownbin
  <2> QED BY <2>1, <2>2, <2>3, Zenon
<1>7. CASE runtime \notin {"xbox-devmode", "ps5-hen", "ps5-linux", "salvage-linux"}
  BY <1>7, PristineOK DEF RuntimeDownbin
<1> QED BY <1>4, <1>5, <1>6, <1>7

\* Of two figures the lesser, of one that one.
LEMMA TightestIs ==
    ASSUME NEW a, NEW b, Figures(a), Figures(b)
    PROVE  /\ Figures(Tightest(a, b))
           /\ Tightest(a, b) = {} <=> a = {} /\ b = {}
           /\ b = {} => Tightest(a, b) = a
           /\ \A v \in b : /\ a = {} => Tightest(a, b) = {v}
                           /\ \A w \in a : Tightest(a, b) = {AtMost(w, v)}
<1>1. \A v, w \in Int : v \in {v, w} /\ w \in {v, w} /\ Min({v, w}) = AtMost(w, v)
  <2> TAKE v, w \in Int
  <2>1. AtMost(w, v) \in {v, w} /\ \A y \in {v, w} : AtMost(w, v) =< y
    BY DEF AtMost
  <2>2. PICK m : m = Min({v, w})
    OBVIOUS
  <2>3. m \in {v, w} /\ \A y \in {v, w} : m =< y
    BY <2>1, <2>2 DEF Min
  <2>4. AtMost(w, v) =< m /\ m =< AtMost(w, v) /\ m \in Int /\ AtMost(w, v) \in Int
    BY <2>1, <2>3
  <2> QED BY <2>2, <2>4
<1>2. CASE a = {} /\ b = {}
  BY <1>2 DEF Tightest, Figures
<1>3. ASSUME NEW v \in a, b = {} PROVE Tightest(a, b) = a /\ a # {}
  <2>1. v \in Int /\ a \cup b = {v, v} /\ a = {v}
    BY <1>3 DEF Figures
  <2>2. Min({v, v}) = v
    BY <1>1, <2>1 DEF AtMost
  <2> QED BY <2>1, <2>2 DEF Tightest
<1>4. ASSUME NEW v \in b, a = {} PROVE Tightest(a, b) = {v} /\ b = {v} /\ v \in Int
  <2>1. v \in Int /\ a \cup b = {v, v} /\ b = {v}
    BY <1>4 DEF Figures
  <2>2. Min({v, v}) = v
    BY <1>1, <2>1 DEF AtMost
  <2> QED BY <2>1, <2>2 DEF Tightest
<1>5. ASSUME NEW v \in b, NEW w \in a
      PROVE  Tightest(a, b) = {AtMost(w, v)} /\ AtMost(w, v) \in Int
  <2>1. v \in Int /\ w \in Int /\ a \cup b = {v, w}
    BY DEF Figures
  <2>2. Min({v, w}) = AtMost(w, v) /\ AtMost(w, v) \in Int
    BY <1>1, <2>1 DEF AtMost
  <2> QED BY <2>1, <2>2 DEF Tightest
<1>6. ASSUME NEW v \in a, b = {} PROVE Figures(a)
  OBVIOUS
<1>7. CASE b = {} /\ a # {}
  BY <1>3, <1>7
<1>8. CASE b # {} /\ a = {}
  <2>1. PICK v : v \in b
    BY <1>8
  <2>2. Tightest(a, b) = {v} /\ b = {v} /\ v \in Int
    BY <1>4, <1>8, <2>1
  <2>3. \A x \in b : x = v
    BY <2>2
  <2> QED BY <1>8, <2>2, <2>3 DEF Figures
<1>9. CASE b # {} /\ a # {}
  <2>1. PICK v, w : v \in b /\ w \in a
    BY <1>9
  <2>2. Tightest(a, b) = {AtMost(w, v)} /\ AtMost(w, v) \in Int
    BY <1>5, <2>1
  <2>3. Figures(Tightest(a, b)) /\ Tightest(a, b) # {}
    BY <2>2 DEF Figures
  <2> QED BY <1>5, <1>9, <2>3
<1> QED BY <1>2, <1>7, <1>8, <1>9

\* Reductions that are merged are made of numbers still.
LEMMA MergeOK ==
    ASSUME NEW a, NEW b, LossOK(a), LossOK(b)
    PROVE  LossOK(Merge(a, b))
<1> PICK m : m = Merge(a, b)
  OBVIOUS
<1>1. m.cus \in Int /\ m.cores \in Int
  BY DEF Merge, LossOK
<1>2. Figures(m.cpu) /\ Figures(m.gpu) /\ Figures(m.budget)
  <2>1. m.cpu = Tightest(a.cpu, b.cpu) /\ m.gpu = Tightest(a.gpu, b.gpu)
          /\ m.budget = Tightest(a.budget, b.budget)
    BY DEF Merge
  <2>2. /\ Figures(a.cpu) /\ Figures(a.gpu) /\ Figures(a.budget)
        /\ Figures(b.cpu) /\ Figures(b.gpu) /\ Figures(b.budget)
    BY DEF LossOK
  <2> QED BY <2>1, <2>2, TightestIs
<1>3. \A n \in DOMAIN m.losses : m.losses[n] \in Nat
  <2>1. m.losses = [n \in DOMAIN a.losses \cup DOMAIN b.losses |->
                      Get(a.losses, n, 0) + Get(b.losses, n, 0)]
    BY DEF Merge
  <2>2. \A n : Get(a.losses, n, 0) \in Nat /\ Get(b.losses, n, 0) \in Nat
    BY SMTT(30) DEF LossOK, Get
  <2> QED BY <2>1, <2>2
<1>4. \A n \in DOMAIN m.scales : m.scales[n] \in 0..100
  <2>1. m.scales = [n \in DOMAIN a.scales \cup DOMAIN b.scales |->
                      (Get(a.scales, n, 100) * Get(b.scales, n, 100)) \div 100]
    BY DEF Merge
  <2>2. \A n : Get(a.scales, n, 100) \in 0..100 /\ Get(b.scales, n, 100) \in 0..100
    BY DEF LossOK, Get
  <2>3. \A x, y \in 0..100 : (x * y) \div 100 \in 0..100
    <3> TAKE x, y \in 0..100
    <3>1. x * y <= 100 * 100 /\ x * y >= 0 /\ x * y \in Int
      OBVIOUS
    <3> QED BY <3>1
  <2> QED BY <2>1, <2>2, <2>3
<1> QED BY <1>1, <1>2, <1>3, <1>4 DEF LossOK

\* All that is taken of a unit a caller may name is made of numbers.
LEMMA ReductionsOK ==
    ASSUME NEW u, ValidEntry(u), ValidDownbin(u.downbin)
    PROVE  LossOK(u.downbin) /\ LossOK(Reductions(u))
<1>1. LossOK(u.downbin)
  BY DEF ValidEntry, ValidDownbin, LossOK
<1> QED BY <1>1, RuntimeOK, MergeOK DEF Reductions

\* A unit's console is in the table.
LEMMA SkuFound ==
    ASSUME NEW u, ValidEntry(u)
    PROVE  SkuFor(u.sku) \in SKUS /\ SpecOK(SkuFor(u.sku))
<1>1. \E s \in SKUS : s.sku = u.sku
  BY DEF ValidEntry
<1>2. SkuFor(u.sku) \in SKUS
  BY <1>1, Zenon DEF SkuFor
<1> QED BY <1>2, TableOK

\* What a tier, and what a sandbox, leaves is a number of bytes.
LEMMA UsableIsNat ==
    ASSUME NEW t, TierOK(t)
    PROVE  Usable(t) \in Nat
  BY DEF TierOK, Usable, AtLeast

\* The tiers of a console that survive are those of its table, smaller and slower.
LEMMA SurvivingOK ==
    ASSUME NEW s, SpecOK(s), NEW d, LossOK(d)
    PROVE  /\ TiersOK(Surviving(s, d)) /\ DOMAIN Surviving(s, d) = DOMAIN s.tiers
           /\ \A i \in DOMAIN s.tiers :
                LET t == s.tiers[i]
                    total == AtLeast(0, t.total - Get(d.losses, t.name, 0))
                IN  /\ Surviving(s, d)[i].total = total
                    /\ Surviving(s, d)[i].bw = (t.bw * Get(d.scales, t.name, 100)) \div 100
                    /\ Surviving(s, d)[i].reserved = AtMost(t.reserved, total)
                    /\ Surviving(s, d)[i].weights = t.weights
<1> PICK tiers : tiers = Surviving(s, d)
  OBVIOUS
<1>1. DOMAIN tiers = DOMAIN s.tiers
  BY DEF Surviving
<1>2. ASSUME NEW i \in DOMAIN s.tiers
      PROVE  LET t == s.tiers[i]
                 total == AtLeast(0, t.total - Get(d.losses, t.name, 0))
             IN  /\ tiers[i].total = total
                 /\ tiers[i].bw = (t.bw * Get(d.scales, t.name, 100)) \div 100
                 /\ tiers[i].reserved = AtMost(t.reserved, total)
                 /\ tiers[i].weights = t.weights
  BY DEF Surviving, Tier
<1>3. ASSUME NEW i \in DOMAIN s.tiers PROVE TierOK(tiers[i])
  <2> PICK t : t = s.tiers[i]
    OBVIOUS
  <2> PICK lost : lost = Get(d.losses, t.name, 0)
    OBVIOUS
  <2> PICK scale : scale = Get(d.scales, t.name, 100)
    OBVIOUS
  <2>1. TierOK(t) /\ lost \in Nat /\ scale \in 0..100
    BY DEF SpecOK, TiersOK, LossOK, Get
  <2>2. /\ tiers[i].total = AtLeast(0, t.total - lost)
        /\ tiers[i].bw = (t.bw * scale) \div 100
        /\ tiers[i].reserved = AtMost(t.reserved, AtLeast(0, t.total - lost))
        /\ tiers[i].weights = t.weights
    BY <1>2
  <2>3. t.total \in Nat /\ t.bw \in Nat /\ t.reserved \in Nat /\ t.weights \in BOOLEAN
    BY <2>1 DEF TierOK
  <2>4. AtLeast(0, t.total - lost) \in Nat
    BY <2>1, <2>3 DEF AtLeast
  <2>5. AtMost(t.reserved, AtLeast(0, t.total - lost)) \in Nat
    BY <2>3, <2>4 DEF AtMost
  <2>6. (t.bw * scale) \div 100 \in Nat
    <3>1. t.bw * scale \in Nat
      BY <2>1, <2>3
    <3> QED BY <3>1
  <2> QED BY <2>2, <2>3, <2>4, <2>5, <2>6 DEF TierOK
<1>4. IsFiniteSet(DOMAIN tiers) /\ DOMAIN tiers \subseteq Nat
  BY <1>1 DEF SpecOK, TiersOK
<1> QED BY <1>1, <1>2, <1>3, <1>4 DEF TiersOK

\* What the coffers are made of.
CoffersOK(coffers) ==
    /\ IsFiniteSet(DOMAIN coffers)
    /\ \A i \in DOMAIN coffers : coffers[i].bw \in Nat /\ coffers[i].size \in Nat

\* A figure or what stands for it is a number.
LEMMA OrIsInt ==
    ASSUME NEW opt, Figures(opt), NEW d \in Int
    PROVE  Or(opt, d) \in Int
<1>1. CASE opt = {}
  BY <1>1 DEF Or
<1>2. CASE opt # {}
  <2>1. (CHOOSE v \in opt : TRUE) \in opt
    BY <1>2, Zenon
  <2> QED BY <1>2, <2>1 DEF Or, Figures
<1> QED BY <1>1, <1>2

\* The sandbox leaves a tier no more than it has.
LEMMA SparedIsNat ==
    ASSUME NEW tiers, TiersOK(tiers), NEW budget, Figures(budget), NEW i \in DOMAIN tiers
    PROVE  Spared(tiers, budget, i) \in Nat /\ Spared(tiers, budget, i) <= Usable(tiers[i])
<1> PICK f : f = [j \in {k \in DOMAIN tiers : Ahead(tiers, k, i)} |-> Usable(tiers[j])]
  OBVIOUS
<1>1. IsFiniteSet(DOMAIN f) /\ \A j \in DOMAIN f : f[j] \in Nat
  <2>1. DOMAIN f \subseteq DOMAIN tiers /\ \A j \in DOMAIN f : f[j] = Usable(tiers[j])
    OBVIOUS
  <2>2. \A j \in DOMAIN tiers : Usable(tiers[j]) \in Nat
    BY UsableIsNat DEF TiersOK
  <2> QED BY <2>1, <2>2, FS_Subset DEF TiersOK
<1>2. PICK before : before = SumFunction(f)
  OBVIOUS
<1>3. before \in Nat
  BY <1>1, <1>2, SumIsNat DEF SumFunction
<1>4. PICK most \in Int : most = Or(budget, 0)
  BY OrIsInt
<1>5. PICK here \in Nat : here = Usable(tiers[i])
  BY UsableIsNat DEF TiersOK
<1>6. Spared(tiers, budget, i)
        = IF budget = {} THEN here ELSE AtMost(here, AtLeast(0, most - before))
  BY <1>2, <1>4, <1>5 DEF Spared
<1> QED BY <1>3, <1>5, <1>6 DEF AtMost, AtLeast

\* The coffers of a unit are made of numbers.
LEMMA MemoryOK ==
    ASSUME NEW s, SpecOK(s), NEW d, LossOK(d)
    PROVE  CoffersOK(ApplyMemoryDownbin(s, d))
<1> PICK tiers : tiers = Surviving(s, d)
  OBVIOUS
<1> PICK coffers : coffers = ApplyMemoryDownbin(s, d)
  OBVIOUS
<1>1. TiersOK(tiers)
  BY SurvivingOK
<1>2. coffers = [i \in {j \in DOMAIN tiers : Spared(tiers, d.budget, j) > 0} |->
                   [bw |-> tiers[i].bw, size |-> Spared(tiers, d.budget, i)]]
  BY DEF ApplyMemoryDownbin
<1>3. \A i \in DOMAIN tiers : tiers[i].bw \in Nat /\ Spared(tiers, d.budget, i) \in Nat
  BY <1>1, SparedIsNat DEF TiersOK, TierOK, LossOK
<1>4. IsFiniteSet(DOMAIN coffers)
  BY <1>1, <1>2, FS_Subset DEF TiersOK
<1>5. \A i \in DOMAIN coffers : coffers[i].bw \in Nat /\ coffers[i].size \in Nat
  BY <1>2, <1>3
<1> QED BY <1>4, <1>5 DEF CoffersOK

\* The bandwidth of the fastest coffer is a number.
LEMMA FastIsNat ==
    ASSUME NEW coffers, CoffersOK(coffers)
    PROVE  FastBandwidth(coffers) \in Nat
<1> PICK S : S = {0} \cup {coffers[i].bw : i \in DOMAIN coffers}
  OBVIOUS
<1>1. S \in SUBSET Nat /\ S # {}
  BY DEF CoffersOK
<1>2. IsFiniteSet(S)
  <2>1. IsFiniteSet({coffers[i].bw : i \in DOMAIN coffers})
    <3> PICK f : f = [i \in DOMAIN coffers |-> coffers[i].bw]
      OBVIOUS
    <3>1. {coffers[i].bw : i \in DOMAIN coffers} = {f[i] : i \in DOMAIN coffers}
      OBVIOUS
    <3> QED BY <3>1, ValuesFinite DEF CoffersOK
  <2>2. IsFiniteSet({coffers[i].bw : i \in DOMAIN coffers} \cup {0})
    BY <2>1, FS_AddElement
  <2>3. {coffers[i].bw : i \in DOMAIN coffers} \cup {0} = S
    OBVIOUS
  <2> QED BY <2>2, <2>3
<1>3. Max(S) \in S
  <2>1. S \in SUBSET Int
    BY <1>1
  <2> QED BY <1>1, <1>2, <2>1, Greatest
<1>4. FastBandwidth(coffers) = Max(S)
  BY DEF FastBandwidth
<1> QED BY <1>1, <1>3, <1>4

\* The coffers that are fast enough hold no more than all of them.
LEMMA WeightsOK ==
    ASSUME NEW cap, CoffersOK(cap.coffers), NEW floor \in Int
    PROVE  /\ WeightAtLeast(cap, floor) \in Nat /\ WeightBytes(cap) \in Nat
           /\ WeightAtLeast(cap, floor) <= WeightBytes(cap)
<1> PICK coffers : coffers = cap.coffers
  OBVIOUS
<1> PICK T : T = {j \in DOMAIN coffers : coffers[j].bw >= floor}
  OBVIOUS
<1> PICK f : f = [i \in DOMAIN coffers |-> coffers[i].size]
  OBVIOUS
<1> PICK g : g = [i \in T |-> coffers[i].size]
  OBVIOUS
<1>1. T \subseteq DOMAIN coffers /\ IsFiniteSet(DOMAIN coffers) /\ IsFiniteSet(T)
  BY FS_Subset DEF CoffersOK
<1>2. \A i \in DOMAIN coffers : f[i] \in Nat
  BY DEF CoffersOK
<1>3. \A i \in T : g[i] = f[i]
  OBVIOUS
<1>4. DOMAIN f = DOMAIN coffers /\ DOMAIN g = T
  OBVIOUS
<1>5. SumFunctionOnSet(g, T) = SumFunctionOnSet(f, T)
  BY <1>1, <1>3, SumSame
<1>6. SumFunctionOnSet(f, T) <= SumFunctionOnSet(f, DOMAIN coffers)
  BY <1>1, <1>2, SumOfPart
<1>7. SumFunctionOnSet(f, T) \in Nat /\ SumFunctionOnSet(f, DOMAIN coffers) \in Nat
  BY <1>1, <1>2, SumIsNat
<1>8. WeightAtLeast(cap, floor) = SumFunction(g) /\ WeightBytes(cap) = SumFunction(f)
  BY DEF WeightAtLeast, WeightBytes
<1>9. SumFunction(g) = SumFunctionOnSet(g, T) /\ SumFunction(f) = SumFunctionOnSet(f, DOMAIN f)
  BY <1>4 DEF SumFunction
<1> QED BY <1>4, <1>5, <1>6, <1>7, <1>8, <1>9

\* A clock under its cap is a number.
LEMMA ClockIsInt ==
    ASSUME NEW nominal \in Int, NEW cap, Figures(cap)
    PROVE  Clock(nominal, cap) \in Int
<1> PICK c \in Int : c = Or(cap, 0)
  BY OrIsInt
<1> QED BY DEF Clock, AtMost

\* What a unit can do is made of numbers.
LEMMA EffectiveOK ==
    ASSUME NEW u, ValidEntry(u), ValidDownbin(u.downbin)
    PROVE  /\ Effective(u).storage \in Nat /\ Effective(u).gflops \in Int
           /\ CoffersOK(Effective(u).coffers)
           /\ Effective(u).coffers = ApplyMemoryDownbin(SkuFor(u.sku), Reductions(u))
<1> PICK spec : spec = SkuFor(u.sku)
  OBVIOUS
<1> PICK total : total = Reductions(u)
  OBVIOUS
<1>1. SpecOK(spec) /\ LossOK(total) /\ Figures(u.measured) /\ Figures(u.override)
  <2>1. Figures(u.measured) /\ Figures(u.override)
    BY DEF ValidEntry
  <2> QED BY <2>1, SkuFound, ReductionsOK
<1>2. PICK coffers : coffers = ApplyMemoryDownbin(spec, total)
  OBVIOUS
<1>3. CoffersOK(coffers)
  BY <1>1, <1>2, MemoryOK
<1>4. PICK fast \in Nat : fast = FastBandwidth(coffers)
  BY <1>3, FastIsNat
<1>5. PICK baseline \in Int : baseline = IF u.override = {} THEN spec.enabled
                                         ELSE AtMost(Or(u.override, 0), spec.physical)
  <2> PICK o \in Int : o = Or(u.override, 0)
    BY <1>1, OrIsInt
  <2>1. spec.enabled \in Int /\ spec.physical \in Int
    BY <1>1 DEF SpecOK
  <2> QED BY <2>1 DEF AtMost
<1>6. PICK active \in Int : active = AtLeast(0, baseline - total.cus)
  BY <1>1 DEF LossOK, AtLeast
<1>7. PICK gpu \in Int : gpu = Clock(spec.gpu, total.gpu)
  BY <1>1, ClockIsInt DEF LossOK, SpecOK
<1>8. PICK cpu \in Int : cpu = Clock(spec.cpu, total.cpu)
  BY <1>1, ClockIsInt DEF LossOK, SpecOK
<1>9. PICK cores \in Int : cores = AtLeast(1, spec.cores - total.cores)
  BY <1>1 DEF LossOK, SpecOK, AtLeast
<1>10. PICK backend : backend = IF active = 0 THEN "cpu"
                                ELSE PickBackend(spec, u.runtime, u.backend)
  OBVIOUS
<1>11. PICK estimate : estimate = EstimateGemv(backend, active, gpu, cores, cpu, fast)
  OBVIOUS
<1>12. estimate \in Int
  <2>1. \A x, y \in Int : AtMost(x, y) \in Int
    BY DEF AtMost
  <2>2. cores * cpu * 8 \in Int /\ active * 32 * gpu \in Int
    OBVIOUS
  <2>3. (fast * 7) \div 10 \in Int /\ (fast * 14) \div 10 \in Int
    OBVIOUS
  <2> QED BY <1>11, <2>1, <2>2, <2>3 DEF EstimateGemv
<1>13. Effective(u) = [sku |-> spec.sku, backend |-> backend, coffers |-> coffers,
                       storage |-> spec.storage, gflops |-> Or(u.measured, estimate),
                       measured |-> u.measured # {}]
  BY <1>2, <1>4, <1>5, <1>6, <1>7, <1>8, <1>9, <1>10, <1>11, Zenon DEF Effective
<1>14. Or(u.measured, estimate) \in Int
  BY <1>1, <1>12, OrIsInt
<1>15. Effective(u).storage = spec.storage /\ Effective(u).gflops = Or(u.measured, estimate)
         /\ Effective(u).coffers = coffers
  BY <1>13
<1> QED BY <1>1, <1>2, <1>3, <1>14, <1>15 DEF SpecOK


-----------------------------------------------------------------------------
(* The plan of a split: the budget of each unit. *)

\* What a unit's plan, and a stage, are made of.
IoPieces == ({"mtp-head"} \X Nat) \cup ({"embedding", "lm_head"} \X {"ram", "ssd"})

UnitPlans ==
    [hosted : SUBSET Nat, io : SUBSET IoPieces,
     shards : SUBSET [layer : Nat, first : Nat, n : Nat \ {0}, tier : {"fast", "slow", "ssd"}],
     hot : Nat, fast : Nat, slow : Nat, ssd : Nat, kv : Nat,
     capacity : Nat, fastCapacity : Nat, gflops : Int]

StagePlans(ids) ==
    [first : Nat, n : Nat \ {0}, host : ids, shelf : SUBSET ids, experts : SUBSET ids]

\* The type of a plan under way.
PlanTypeOK ==
    /\ case \in Cases
    /\ phase \in {"load", "shelve", "deal", "range", "experts", "embedding", "lm_head", "done",
                  "error"}
    /\ IsFiniteSet(Consoles) /\ Consoles \subseteq Nat /\ DOMAIN caps = Consoles
    /\ units \in [Consoles -> UnitPlans]
    /\ \A id \in Consoles : caps[id].storage \in Nat
    /\ shelves \in Seq(SUBSET Consoles)
    /\ quotas \in Seq(Nat) /\ Len(quotas) = Len(shelves)
    /\ stages \in Seq(StagePlans(Consoles))
    /\ at \in Nat \ {0} /\ layer \in Nat /\ next \in 0..Routed /\ short \in Nat
    /\ pass \in {"none", "ram", "ssd", "outside"} /\ todo \subseteq Consoles

\* A shelf has room for a unit: a plan that is under way was asked for with shelves of at
\* least one.
SizeInv == phase \notin {"load", "error"} => case.size >= 1

\* The fast part of a unit is a part of it.
FastFits == \A id \in Consoles : units[id].fastCapacity <= units[id].capacity

\* Until the turn of its shelf a unit holds nothing, and until the ranges are dealt no unit
\* holds an expert; no unit is on two shelves.
NoBlocks(u) == u.hosted = {} /\ u.hot = 0 /\ u.kv = 0

NoExperts(u) == u.shards = {} /\ u.fast = 0 /\ u.slow = 0 /\ u.ssd = 0

FreshInv ==
    /\ \A i, j \in DOMAIN shelves : i # j => shelves[i] \cap shelves[j] = {}
    /\ phase \in {"shelve", "deal", "range"} =>
         \A id \in Consoles :
            /\ NoExperts(units[id])
            /\ (\A i \in DOMAIN shelves : i < at => id \notin shelves[i]) => NoBlocks(units[id])
    /\ phase \in {"load", "shelve"} => shelves = <<>>
    /\ phase \in {"load", "shelve", "deal"} => at = 1 /\ layer = 0 /\ stages = <<>>

\* Between layers nothing is under way; in the passes over a shelf its own units have turns.
PassInv ==
    /\ phase \in {"load", "shelve", "deal", "range"} => pass = "none" /\ short = 0
    /\ pass = "none" => next = 0 /\ todo = {}
    /\ pass \in {"ram", "ssd"} /\ at <= Len(stages) => todo \subseteq stages[at].shelf

\* The layers promised to the shelves whose turn is to come are no more than are left.
QuotasInv ==
    /\ phase = "deal" => SumFunctionOnSet(quotas, 1..Len(quotas)) <= Blocks
    /\ phase = "range" => layer + SumFunctionOnSet(quotas, at..Len(quotas)) <= Blocks

\* The invariant the capacity of a unit needs.
BudgetInv ==
    PlanTypeOK /\ SizeInv /\ FastFits /\ FreshInv /\ PassInv /\ QuotasInv /\ WithinCapacity

\* The figures a plan is made of are numbers.
LEMMA PlanNumbers ==
    ASSUME case \in Cases
    PROVE  /\ Blocks \in Nat /\ Routed \in Nat /\ Expert \in Nat \ {0}
           /\ EmbeddingBytes(profile) \in Nat /\ FinalHeadBytes(profile) \in Nat
           /\ profile.layers \in Nat /\ profile.mtp \in Nat
           /\ Blocks = profile.layers + profile.mtp
           /\ profile.moe.dense \in 0..profile.layers
           /\ \A i \in 0..Blocks - 1 : /\ BlockBytes(profile, i) \in Nat
                                       /\ BlockKvBytes(profile, i, case.context) \in Nat
           /\ case.size \in Int
<1>1. ValidProfile(profile, case.context) /\ case.size \in Int
  BY CasesAssumption DEF profile
<1>2. Blocks = profile.layers + profile.mtp /\ Blocks = PlanningLayers(profile)
  BY DEF Blocks, PlanningLayers
<1> QED BY <1>1, <1>2 DEF ValidProfile, Routed, Expert

\* The planner reads the fleet that was saved.
LEMMA FleetRead ==
    ASSUME case \in Cases
    PROVE  /\ Loaded = case.fleet /\ DOMAIN Loaded = 1..Len(case.fleet)
           /\ Len(case.fleet) \in Nat
           /\ \A i \in DOMAIN Loaded : ValidEntry(Loaded[i])
<1> PICK fleet : fleet = case.fleet
  OBVIOUS
<1>1. fleet \in Seq(Range(fleet)) /\ \A i \in DOMAIN fleet : ValidEntry(fleet[i])
  BY CasesAssumption
<1>2. \A i \in DOMAIN fleet : EntryFromDict(EntryToDict(fleet[i])) = fleet[i]
  BY <1>1, EntryReadBack
<1>3. fleet = [i \in DOMAIN fleet |-> fleet[i]]
  BY <1>1
<1>4. Loaded = [i \in DOMAIN fleet |-> EntryFromDict(EntryToDict(fleet[i]))]
  BY DEF Loaded
<1>5. Loaded = fleet
  BY <1>2, <1>3, <1>4, Zenon
<1> QED BY <1>1, <1>5

\* The headroom takes away, and as much of the fast part as of the whole.
LEMMA UsablyIsLess ==
    ASSUME NEW m \in Nat, NEW n \in Nat, m <= n
    PROVE  Usably(m) \in Nat /\ Usably(m) <= Usably(n)
<1>1. m * 92 <= n * 92 /\ m * 92 \in Nat /\ n * 92 \in Nat
  OBVIOUS
<1>2. (m * 92) \div 100 \in Nat /\ (m * 92) \div 100 <= (n * 92) \div 100
  BY <1>1
<1> QED BY <1>2 DEF Usably, Headroom

\* It holds before anything is loaded,
LEMMA InitBudget ==
    ASSUME PlanInit
    PROVE  BudgetInv
<1>1. DOMAIN units = {} /\ DOMAIN caps = {} /\ DOMAIN shelves = {} /\ DOMAIN stages = {}
        /\ DOMAIN quotas = {}
  BY DEF PlanInit
<1>2. Routed \in Nat /\ case \in Cases
  BY PlanNumbers DEF PlanInit
<1>3. PlanTypeOK
  <2>1. IsFiniteSet(Consoles)
    BY <1>1, FS_EmptySet DEF Consoles
  <2>2. units \in [Consoles -> UnitPlans]
    BY <1>1 DEF Consoles, PlanInit
  <2>3. /\ shelves \in Seq(SUBSET Consoles) /\ quotas \in Seq(Nat) /\ Len(quotas) = Len(shelves)
        /\ stages \in Seq(StagePlans(Consoles))
    BY DEF PlanInit
  <2> QED BY <1>1, <1>2, <2>1, <2>2, <2>3 DEF PlanTypeOK, PlanInit, Consoles
<1>4. SizeInv /\ PassInv /\ QuotasInv /\ FreshInv
  BY <1>1 DEF SizeInv, PassInv, QuotasInv, FreshInv, PlanInit
<1>5. FastFits /\ WithinCapacity
  BY <1>1 DEF FastFits, WithinCapacity, Consoles
<1> QED BY <1>3, <1>4, <1>5 DEF BudgetInv

\* What a unit starts with.
LEMMA NoPlanOK ==
    ASSUME NEW u, ValidEntry(u), ValidDownbin(u.downbin)
    PROVE  /\ NoPlan(Effective(u)) \in UnitPlans
           /\ NoPlan(Effective(u)).fastCapacity <= NoPlan(Effective(u)).capacity
           /\ NoExperts(NoPlan(Effective(u))) /\ NoBlocks(NoPlan(Effective(u)))
           /\ Resident(NoPlan(Effective(u))) = 0
<1> PICK cap : cap = Effective(u)
  OBVIOUS
<1>1. CoffersOK(cap.coffers) /\ cap.gflops \in Int
  BY EffectiveOK
<1>2. Floor \in Int
  BY DEF Floor
<1>3. PICK m \in Nat, n \in Nat : m = WeightAtLeast(cap, Floor) /\ n = WeightBytes(cap) /\ m <= n
  BY <1>1, <1>2, WeightsOK
<1>4. Usably(m) \in Nat /\ Usably(n) \in Nat /\ Usably(m) <= Usably(n)
  <2>1. n <= n
    OBVIOUS
  <2> QED BY <1>3, <2>1, UsablyIsLess
<1>5. NoPlan(cap) =
        [hosted |-> {}, io |-> {}, shards |-> {}, hot |-> 0, fast |-> 0, slow |-> 0, ssd |-> 0,
         kv |-> 0, capacity |-> Usably(n), fastCapacity |-> Usably(m), gflops |-> cap.gflops]
  BY <1>3 DEF NoPlan
<1>6. NoPlan(cap) \in UnitPlans /\ NoPlan(cap).fastCapacity <= NoPlan(cap).capacity
  BY <1>1, <1>4, <1>5 DEF UnitPlans
<1>7. NoExperts(NoPlan(cap)) /\ NoBlocks(NoPlan(cap)) /\ Resident(NoPlan(cap)) = 0
  BY <1>5 DEF NoExperts, NoBlocks, Resident
<1> QED BY <1>6, <1>7

\* Every unit of the fleet that is loaded is one that was saved, with losses that can be.
LEMMA FleetLoaded ==
    ASSUME BudgetInv, LoadFleet
    PROVE  /\ IsFiniteSet(Consoles') /\ Consoles' \subseteq Nat /\ DOMAIN caps' = Consoles'
           /\ units' = [id \in Consoles' |-> units'[id]]
           /\ \A i, j \in DOMAIN case.fleet : i # j => case.fleet[i].id # case.fleet[j].id
           /\ \A id \in Consoles' : \E i \in DOMAIN case.fleet : \E u :
                 /\ ValidEntry(u) /\ ValidDownbin(u.downbin)
                 /\ u.id = id /\ u = case.fleet[i]
                 /\ caps'[id] = Effective(u) /\ units'[id] = NoPlan(Effective(u))
<1>1. /\ Loaded = case.fleet /\ DOMAIN Loaded = 1..Len(case.fleet) /\ Len(case.fleet) \in Nat
      /\ \A i \in DOMAIN Loaded : ValidEntry(Loaded[i])
  BY FleetRead DEF BudgetInv, PlanTypeOK
<1>2. /\ \A i \in DOMAIN Loaded : ValidDownbin(Loaded[i].downbin)
      /\ \A i, j \in DOMAIN Loaded : i # j => Loaded[i].id # Loaded[j].id
  BY DEF LoadFleet, Refused, DuplicateId
<1>3. PICK ids : ids = {Loaded[i].id : i \in DOMAIN Loaded}
  OBVIOUS
<1>4. PICK unit : unit = [id \in ids |-> Loaded[CHOOSE i \in DOMAIN Loaded : Loaded[i].id = id]]
  OBVIOUS
<1>5. ASSUME NEW id \in ids
      PROVE  /\ \E i \in DOMAIN Loaded : unit[id] = Loaded[i] /\ Loaded[i].id = id
             /\ unit[id] = Loaded[CHOOSE i \in DOMAIN Loaded : Loaded[i].id = id]
  <2>1. PICK k : k = CHOOSE i \in DOMAIN Loaded : Loaded[i].id = id
    OBVIOUS
  <2>2. \E i \in DOMAIN Loaded : Loaded[i].id = id
    BY <1>3
  <2>3. k \in DOMAIN Loaded /\ Loaded[k].id = id
    BY <2>1, <2>2, Zenon
  <2>4. unit[id] = Loaded[CHOOSE i \in DOMAIN Loaded : Loaded[i].id = id]
    BY <1>4
  <2>5. unit[id] = Loaded[k]
    BY <2>1, <2>4, Zenon
  <2> QED BY <2>3, <2>4, <2>5
<1>6. /\ caps' = [id \in ids |-> Effective(unit[id])]
      /\ units' = [id \in ids |-> NoPlan(Effective(unit[id]))]
  <2>1. /\ caps' = [id \in {Loaded[i].id : i \in DOMAIN Loaded} |->
                     Effective(Loaded[CHOOSE i \in DOMAIN Loaded : Loaded[i].id = id])]
        /\ units' = [id \in {Loaded[i].id : i \in DOMAIN Loaded} |->
                     NoPlan(Effective(Loaded[CHOOSE i \in DOMAIN Loaded : Loaded[i].id = id]))]
    BY Zenon DEF LoadFleet
  <2>2. /\ caps' = [id \in ids |->
                     Effective(Loaded[CHOOSE i \in DOMAIN Loaded : Loaded[i].id = id])]
        /\ units' = [id \in ids |->
                     NoPlan(Effective(Loaded[CHOOSE i \in DOMAIN Loaded : Loaded[i].id = id]))]
    BY <1>3, <2>1, Zenon
  <2>3. \A id \in ids : Loaded[CHOOSE i \in DOMAIN Loaded : Loaded[i].id = id] = unit[id]
    BY <1>5, Zenon
  <2>4. /\ \A id \in ids :
              Effective(Loaded[CHOOSE i \in DOMAIN Loaded : Loaded[i].id = id])
                = Effective(unit[id])
        /\ \A id \in ids :
              NoPlan(Effective(Loaded[CHOOSE i \in DOMAIN Loaded : Loaded[i].id = id]))
                = NoPlan(Effective(unit[id]))
    BY <2>3, Zenon
  <2> QED BY <2>2, <2>4, Zenon
<1>7. IsFiniteSet(ids)
  <2> PICK f : f = [i \in DOMAIN Loaded |-> Loaded[i].id]
    OBVIOUS
  <2>1. ids = {f[i] : i \in DOMAIN Loaded}
    BY <1>3
  <2>2. IsFiniteSet(DOMAIN Loaded)
    <3> PICK n \in Nat : n = Len(case.fleet)
      BY <1>1
    <3>1. IsFiniteSet(1..n)
      BY FS_Interval
    <3> QED BY <1>1, <3>1
  <2> QED BY <2>1, <2>2, ValuesFinite
<1>8. ids \subseteq Nat
  <2>1. \A i \in DOMAIN Loaded : Loaded[i].id \in Nat
    <3> SUFFICES ASSUME NEW i \in DOMAIN Loaded
                 PROVE  Loaded[i].id \in Nat
      OBVIOUS
    <3>1. ValidEntry(Loaded[i])
      BY <1>1, Zenon
    <3> QED BY ONLY <3>1, Zenon DEF ValidEntry
  <2> QED BY <1>3, <2>1, Zenon
<1>9. Consoles' = ids /\ DOMAIN caps' = ids /\ units' = [id \in ids |-> units'[id]]
  BY <1>6 DEF Consoles
<1>10. ASSUME NEW id \in ids
       PROVE  \E i \in DOMAIN case.fleet : \E u :
                 /\ ValidEntry(u) /\ ValidDownbin(u.downbin)
                 /\ u.id = id /\ u = case.fleet[i]
                 /\ caps'[id] = Effective(u) /\ units'[id] = NoPlan(Effective(u))
  <2>1. PICK i \in DOMAIN Loaded : unit[id] = Loaded[i] /\ Loaded[i].id = id
    BY <1>5
  <2>2. caps'[id] = Effective(unit[id]) /\ units'[id] = NoPlan(Effective(unit[id]))
    BY <1>6
  <2>3. ValidEntry(unit[id]) /\ ValidDownbin(unit[id].downbin)
    BY <1>1, <1>2, <2>1
  <2> QED BY <1>1, <2>1, <2>2, <2>3
<1> QED BY <1>1, <1>2, <1>7, <1>8, <1>9, <1>10

\* when the fleet is loaded,
LEMMA LoadBudget ==
    ASSUME BudgetInv, LoadFleet
    PROVE  BudgetInv'
<1>1. /\ IsFiniteSet(Consoles') /\ Consoles' \subseteq Nat /\ DOMAIN caps' = Consoles'
      /\ units' = [id \in Consoles' |-> units'[id]]
  BY FleetLoaded
<1>2. ASSUME NEW id \in Consoles'
      PROVE  /\ units'[id] \in UnitPlans /\ caps'[id].storage \in Nat
             /\ units'[id].fastCapacity <= units'[id].capacity
             /\ NoExperts(units'[id]) /\ NoBlocks(units'[id])
             /\ Resident(units'[id]) = 0
  <2>1. PICK u : /\ ValidEntry(u) /\ ValidDownbin(u.downbin)
                 /\ caps'[id] = Effective(u) /\ units'[id] = NoPlan(Effective(u))
    BY FleetLoaded
  <2>2. caps'[id].storage \in Nat
    BY <2>1, EffectiveOK
  <2> QED BY <2>1, <2>2, NoPlanOK
<1>3. /\ phase = "load" /\ phase' = "shelve" /\ case' = case /\ shelves' = shelves
      /\ quotas' = quotas /\ stages' = stages /\ at' = at /\ layer' = layer /\ pass' = pass
      /\ todo' = todo /\ next' = next /\ short' = short
  BY DEF LoadFleet
<1>4. /\ case \in Cases /\ at = 1 /\ layer = 0 /\ pass = "none" /\ short = 0 /\ next = 0
      /\ todo = {} /\ shelves = <<>> /\ stages = <<>> /\ quotas = <<>>
  <2>1. Len(quotas) = Len(shelves) /\ quotas \in Seq(Nat) /\ shelves = <<>>
    BY <1>3 DEF BudgetInv, PlanTypeOK, FreshInv
  <2>2. quotas = <<>>
    BY <2>1
  <2> QED BY <1>3, <2>1, <2>2 DEF BudgetInv, PlanTypeOK, FreshInv, PassInv
<1>5. units' \in [Consoles' -> UnitPlans]
  BY <1>1, <1>2
<1>6. PlanTypeOK'
  <2>1. Routed' = Routed /\ Routed \in Nat
    BY <1>3, <1>4, PlanNumbers DEF Routed, profile
  <2>2. /\ shelves' \in Seq(SUBSET Consoles') /\ quotas' \in Seq(Nat)
        /\ Len(quotas') = Len(shelves') /\ stages' \in Seq(StagePlans(Consoles'))
    BY <1>3, <1>4
  <2> QED BY <1>1, <1>2, <1>3, <1>4, <1>5, <2>1, <2>2 DEF PlanTypeOK
<1>7. SizeInv'
  <2>1. case.size \in Int /\ ~(case.size < 1)
    BY <1>4, PlanNumbers DEF LoadFleet, Refused
  <2> QED BY <1>3, <2>1 DEF SizeInv
<1>8. FastFits'
  BY <1>2 DEF FastFits
<1>9. FreshInv'
  BY <1>2, <1>3, <1>4 DEF FreshInv
<1>10. PassInv' /\ QuotasInv'
  BY <1>3, <1>4 DEF PassInv, QuotasInv
<1>11. WithinCapacity'
  BY <1>2 DEF WithinCapacity, UnitPlans
<1> QED BY <1>6, <1>7, <1>8, <1>9, <1>10, <1>11 DEF BudgetInv

\* What a step that leaves the units alone leaves true.
LEMMA UnitsKept ==
    ASSUME BudgetInv, UNCHANGED <<case, caps, units>>
    PROVE  /\ Consoles' = Consoles /\ Routed' = Routed /\ Blocks' = Blocks
           /\ case' \in Cases /\ IsFiniteSet(Consoles') /\ Consoles' \subseteq Nat
           /\ DOMAIN caps' = Consoles' /\ units' \in [Consoles' -> UnitPlans]
           /\ \A id \in Consoles' : caps'[id].storage \in Nat
           /\ FastFits' /\ WithinCapacity' /\ UnitPlans' = UnitPlans
<1>1. Consoles' = Consoles /\ Routed' = Routed /\ Blocks' = Blocks
  BY DEF Consoles, Routed, Blocks, profile
<1>2. FastFits' /\ WithinCapacity'
  BY <1>1 DEF BudgetInv, FastFits, WithinCapacity
<1> QED BY <1>1, <1>2 DEF BudgetInv, PlanTypeOK, UnitPlans

\* A plan that fails changes nothing it had.
LEMMA FailBudget ==
    ASSUME BudgetInv, phase' = "error",
           UNCHANGED <<case, caps, units, shelves, quotas, stages, at, layer, pass, todo, next,
                       short>>
    PROVE  BudgetInv'
<1>1. PlanTypeOK'
  BY UnitsKept DEF BudgetInv, PlanTypeOK, StagePlans
<1>2. SizeInv' /\ PassInv' /\ QuotasInv' /\ FreshInv'
  BY DEF BudgetInv, SizeInv, PassInv, QuotasInv, FreshInv
<1> QED BY <1>1, <1>2, UnitsKept DEF BudgetInv

\* The capacity of a shelf is a number.
LEMMA ShelfCapacityIsNat ==
    ASSUME PlanTypeOK, NEW shelf, shelf \subseteq Consoles
    PROVE  ShelfCapacity(shelf) \in Nat
<1> PICK f : f = [id \in shelf |-> units[id].capacity]
  OBVIOUS
<1>1. DOMAIN f = shelf /\ \A id \in shelf : f[id] \in Nat
  BY DEF PlanTypeOK, UnitPlans
<1>2. IsFiniteSet(shelf)
  BY FS_Subset DEF PlanTypeOK
<1>3. SumFunctionOnSet(f, shelf) \in Nat
  BY <1>1, <1>2, SumIsNat
<1>4. ShelfCapacity(shelf) = SumFunction(f)
  BY DEF ShelfCapacity
<1> QED BY <1>1, <1>3, <1>4 DEF SumFunction

\* The units are dealt to shelves that have none in common.
LEMMA Dealt ==
    ASSUME BudgetInv, phase = "shelve"
    PROVE  \E n \in Nat \ {0} :
              /\ BuildShelves \in [1..n -> SUBSET Consoles]
              /\ \A i, j \in 1..n : i # j => BuildShelves[i] \cap BuildShelves[j] = {}
<1>1. PICK size \in Nat \ {0} : size = case.size
  BY PlanNumbers DEF BudgetInv, PlanTypeOK, SizeInv
<1>2. PICK k \in Nat : k = Cardinality(Consoles)
  BY FS_CardinalityType DEF BudgetInv, PlanTypeOK
<1>3. (k + size - 1) \div size \in Int
  BY <1>1
<1>4. PICK n : n = AtLeast(1, (k + size - 1) \div size)
  OBVIOUS
<1>5. n \in Nat \ {0}
  BY <1>3, <1>4 DEF AtLeast
<1>6. PICK index : index = [id \in Consoles |-> Index(id)]
  OBVIOUS
<1>7. BuildShelves = [s \in 1..n |-> {id \in Consoles : index[id] % n = s - 1}]
  <2>1. BuildShelves = [s \in 1..n |-> {id \in Consoles : Index(id) % n = s - 1}]
    BY <1>1, <1>2, <1>4 DEF BuildShelves
  <2>2. \A id \in Consoles : index[id] = Index(id)
    BY <1>6
  <2> QED BY <2>1, <2>2, Zenon
<1>8. BuildShelves \in [1..n -> SUBSET Consoles]
  BY <1>7
<1>9. \A i, j \in 1..n : i # j => BuildShelves[i] \cap BuildShelves[j] = {}
  BY <1>5, <1>7
<1> QED BY <1>5, <1>8, <1>9

\* The quotas of the shelves, rounded down, promise no more than the layers there are.
LEMMA ShelveBudget ==
    ASSUME BudgetInv, Shelve
    PROVE  BudgetInv'
<1>1. PICK n \in Nat \ {0} :
         /\ BuildShelves \in [1..n -> SUBSET Consoles]
         /\ \A i, j \in 1..n : i # j => BuildShelves[i] \cap BuildShelves[j] = {}
  BY Dealt DEF Shelve
<1> PICK capacity : capacity = [s \in 1..n |-> ShelfCapacity(BuildShelves[s])]
  OBVIOUS
<1>2. \A s \in 1..n : capacity[s] \in Nat
  BY <1>1, ShelfCapacityIsNat DEF BudgetInv
<1>3. IsFiniteSet(1..n)
  BY FS_Interval
<1>4. PICK total \in Nat : total = SumFunctionOnSet(capacity, 1..n)
  BY <1>2, <1>3, SumIsNat
<1>5. total = SumFunction(capacity) /\ DOMAIN capacity = 1..n
  BY <1>4 DEF SumFunction
<1>6. UNCHANGED <<case, caps, units, stages, at, layer, pass, todo, next, short>>
  BY DEF Shelve
<1>7. DOMAIN BuildShelves = 1..n /\ [s \in DOMAIN BuildShelves |-> ShelfCapacity(BuildShelves[s])]
                                      = capacity
  BY <1>1
<1>8. IF total <= 0
      THEN phase' = "error" /\ UNCHANGED <<shelves, quotas>>
      ELSE /\ phase' = "deal"
           /\ shelves' = BuildShelves
           /\ quotas' = [s \in 1..n |-> (Blocks * capacity[s]) \div total]
  BY <1>5, <1>7, Zenon DEF Shelve
<1>9. CASE total <= 0
  BY <1>6, <1>8, <1>9, FailBudget
<1>10. CASE total > 0
  <2> PICK f : f = quotas'
    OBVIOUS
  <2> PICK blocks \in Nat : blocks = Blocks
    BY PlanNumbers DEF BudgetInv, PlanTypeOK
  <2>1. /\ phase' = "deal" /\ shelves' = BuildShelves
        /\ f = [s \in 1..n |-> (blocks * capacity[s]) \div total]
    BY <1>8, <1>10
  <2>2. \A s \in 1..n : f[s] = (blocks * capacity[s]) \div total /\ f[s] \in Nat
    <3> TAKE s \in 1..n
    <3>1. blocks * capacity[s] \in Nat
      BY <1>2
    <3>2. (blocks * capacity[s]) \div total \in Nat
      BY <1>10, <3>1
    <3> QED BY <2>1, <3>2
  <2>3. \A s \in 1..n : f[s] = (blocks * capacity[s]) \div SumFunctionOnSet(capacity, 1..n)
    BY <1>4, <2>2
  <2>4. SumFunctionOnSet(capacity, 1..n) > 0
    BY <1>4, <1>10
  <2>5. SumFunctionOnSet(f, 1..n) <= blocks
    BY <1>2, <1>3, <2>3, <2>4, SharesAtMost, SMTT(30)
  <2>6. f \in Seq(Nat) /\ Len(f) = n /\ shelves' \in Seq(SUBSET Consoles) /\ Len(shelves') = n
    BY <1>1, <2>1, <2>2
  <2>7. Blocks' = blocks /\ Consoles' = Consoles
    BY <1>6, UnitsKept
  <2>8. QuotasInv'
    BY <2>1, <2>5, <2>6, <2>7 DEF QuotasInv
  <2>9. PlanTypeOK'
    BY <1>6, <2>1, <2>6, UnitsKept DEF BudgetInv, PlanTypeOK, StagePlans
  <2>10. FreshInv'
    <3>1. phase = "shelve" /\ shelves = <<>>
      BY DEF Shelve, BudgetInv, FreshInv
    <3>2. \A id \in Consoles : NoExperts(units[id]) /\ NoBlocks(units[id])
      BY <3>1 DEF BudgetInv, FreshInv
    <3>3. at = 1 /\ layer = 0 /\ stages = <<>>
      BY <3>1 DEF BudgetInv, FreshInv
    <3>4. \A i, j \in DOMAIN shelves' : i # j => shelves'[i] \cap shelves'[j] = {}
      BY <1>1, <2>1
    <3> QED BY <1>6, <2>1, <2>7, <3>2, <3>3, <3>4 DEF FreshInv
  <2>11. SizeInv' /\ PassInv'
    BY <1>6, <2>1 DEF BudgetInv, SizeInv, PassInv, Shelve
  <2> QED BY <1>6, <2>8, <2>9, <2>10, <2>11, UnitsKept DEF BudgetInv
<1> QED BY <1>4, <1>9, <1>10

\* A layer is dealt only while some are left.
LEMMA DealBudget ==
    ASSUME BudgetInv, DealLayer \/ EndDeal
    PROVE  BudgetInv'
<1>1. phase = "deal" /\ quotas \in Seq(Nat) /\ DOMAIN quotas = 1..Len(quotas)
        /\ Len(quotas) \in Nat
  BY DEF DealLayer, EndDeal, BudgetInv, PlanTypeOK
<1>2. at = 1 /\ layer = 0 /\ stages = <<>> /\ pass = "none" /\ short = 0 /\ next = 0 /\ todo = {}
  BY <1>1 DEF BudgetInv, FreshInv, PassInv
<1>3. UNCHANGED <<case, caps, units, shelves, stages, at, layer, pass, todo, next, short>>
        /\ phase' \in {"deal", "range"}
  BY <1>1 DEF DealLayer, EndDeal
<1>4. PICK blocks \in Nat : blocks = Blocks
  BY PlanNumbers DEF BudgetInv, PlanTypeOK
<1> PICK f : f = quotas
  OBVIOUS
<1> PICK g : g = quotas'
  OBVIOUS
<1> PICK D : D = 1..Len(quotas)
  OBVIOUS
<1>5. IsFiniteSet(D) /\ DOMAIN f = D /\ \A x \in D : f[x] \in Nat
  <2> PICK n \in Nat : n = Len(quotas)
    BY <1>1
  <2>1. IsFiniteSet(1..n)
    BY FS_Interval
  <2> QED BY <1>1, <2>1, SMTT(30)
<1>6. PICK sum \in Nat : sum = SumFunctionOnSet(f, D)
  BY <1>5, SumIsNat
<1> SumFunction(quotas) = sum
  BY <1>5, <1>6 DEF SumFunction
<1>7. /\ quotas' \in Seq(Nat) /\ Len(quotas') = Len(quotas)
      /\ \E left \in Nat : left = SumFunctionOnSet(quotas', 1..Len(quotas')) /\ left <= blocks
  <2>1. CASE EndDeal
    <3>1. sum <= blocks /\ quotas' = quotas
      BY <1>1, <1>4, <1>6, <2>1 DEF EndDeal, BudgetInv, QuotasInv
    <3> QED BY <1>1, <1>6, <3>1
  <2>2. CASE DealLayer
    <3>1. PICK s \in D : quotas' = [quotas EXCEPT ![s] = @ + 1]
      BY <1>5, <2>2 DEF DealLayer
    <3>2. DOMAIN g = D /\ g \in Seq(Nat) /\ Len(g) = Len(quotas)
            /\ g[s] = f[s] + 1 /\ f[s] \in Nat /\ g[s] \in Nat
            /\ \A x \in D \ {s} : g[x] = f[x]
      BY <1>1, <1>5, <3>1
    <3>3. SumFunctionOnSet(g, D) = SumFunctionOnSet(f, D) + 1
      <4>1. IsFiniteSet(D) /\ s \in D /\ \A x \in D : f[x] \in Nat
        BY <1>5
      <4>2. g[s] = f[s] + 1 /\ \A x \in D \ {s} : g[x] = f[x]
        BY <3>2
      <4>3. 1 \in Nat
        OBVIOUS
      <4> QED BY ONLY <4>1, <4>2, <4>3, SumChangesOne
    <3>4. sum + 1 \in Nat /\ sum + 1 = SumFunctionOnSet(g, D)
      BY <1>6, <3>3
    <3>6. sum < blocks
      BY <1>4, <2>2 DEF DealLayer
    <3> QED BY <3>2, <3>4, <3>6
  <2> QED BY <2>1, <2>2
<1>8. Blocks' = Blocks
  BY <1>3, UnitsKept
<1>9. QuotasInv'
  <2>1. PICK left \in Nat : left = SumFunctionOnSet(quotas', 1..Len(quotas')) /\ left <= blocks
    BY <1>7
  <2>2. at' = 1 /\ layer' = 0 /\ 0 + left <= blocks
    BY <1>2, <1>3, <2>1
  <2> QED BY <1>4, <1>8, <2>1, <2>2 DEF QuotasInv
<1>10. PlanTypeOK'
  BY <1>3, <1>7, UnitsKept DEF BudgetInv, PlanTypeOK, StagePlans
<1>11. FreshInv'
  <2>1. Consoles' = Consoles
    BY <1>3, UnitsKept
  <2> QED BY <1>1, <1>2, <1>3, <2>1 DEF BudgetInv, FreshInv
<1>12. SizeInv' /\ PassInv'
  BY <1>1, <1>2, <1>3 DEF BudgetInv, SizeInv, PassInv
<1> QED BY <1>3, <1>9, <1>10, <1>11, <1>12, UnitsKept DEF BudgetInv

\* What is promised from a shelf on is its own part and that of the later ones.
LEMMA QuotasFrom ==
    ASSUME BudgetInv, at <= Len(quotas)
    PROVE  \E rest \in Nat :
              /\ quotas[at] \in Nat /\ at \in DOMAIN quotas
              /\ rest = SumFunctionOnSet(quotas, at + 1..Len(quotas))
              /\ SumFunctionOnSet(quotas, at..Len(quotas)) = quotas[at] + rest
<1>1. PICK n \in Nat : n = Len(quotas)
  BY DEF BudgetInv, PlanTypeOK
<1>2. PICK a \in Nat \ {0} : a = at
  BY DEF BudgetInv, PlanTypeOK
<1> PICK f : f = quotas
  OBVIOUS
<1>3. DOMAIN f = 1..n /\ \A x \in 1..n : f[x] \in Nat
  BY <1>1 DEF BudgetInv, PlanTypeOK
<1>4. a <= n
  BY <1>1, <1>2
<1>5. IsFiniteSet(a..n) /\ IsFiniteSet(a + 1..n)
  BY FS_Interval
<1>6. (a..n) \ {a} = a + 1..n /\ a \in a..n /\ a..n \subseteq 1..n /\ a + 1..n \subseteq 1..n
  BY <1>4
<1>7. SumFunctionOnSet(f, a..n) = f[a] + SumFunctionOnSet(f, (a..n) \ {a})
  <2>1. \A x \in a..n : f[x] \in Nat
    BY <1>3, <1>6
  <2> QED BY <1>5, <1>6, <2>1, SumTakesOut, SMTT(30)
<1>8. SumFunctionOnSet(f, a + 1..n) \in Nat
  BY <1>3, <1>5, <1>6, SumIsNat
<1> QED BY <1>1, <1>2, <1>3, <1>6, <1>7, <1>8

\* A shelf with no quota is passed by.
LEMMA SkipBudget ==
    ASSUME BudgetInv, Skip
    PROVE  BudgetInv'
<1>1. /\ phase = "range" /\ at <= Len(shelves) /\ quotas[at] = 0 /\ at' = at + 1
      /\ UNCHANGED <<case, phase, caps, units, shelves, quotas, stages, layer, pass, todo, next,
                     short>>
  BY DEF Skip, InRange
<1>2. PICK a \in Nat \ {0} : a = at
  BY DEF BudgetInv, PlanTypeOK
<1>3. at <= Len(quotas)
  BY <1>1 DEF BudgetInv, PlanTypeOK
<1>4. QuotasInv'
  <2>1. PICK rest \in Nat :
              /\ quotas[at] \in Nat
              /\ rest = SumFunctionOnSet(quotas, at + 1..Len(quotas))
              /\ SumFunctionOnSet(quotas, at..Len(quotas)) = quotas[at] + rest
    BY <1>3, QuotasFrom
  <2>2. Blocks' = Blocks /\ quotas' = quotas
    BY <1>1, UnitsKept
  <2> QED BY <1>1, <2>1, <2>2 DEF BudgetInv, QuotasInv
<1>5. PlanTypeOK'
  BY <1>1, <1>2, UnitsKept DEF BudgetInv, PlanTypeOK
<1>6. FreshInv'
  <2>1. Consoles' = Consoles /\ units' = units /\ shelves' = shelves
    BY <1>1, UnitsKept
  <2>2. DOMAIN shelves \subseteq Nat
    BY DEF BudgetInv, PlanTypeOK
  <2>3. ASSUME NEW id \in Consoles, \A i \in DOMAIN shelves : i < at' => id \notin shelves[i]
        PROVE  \A i \in DOMAIN shelves : i < at => id \notin shelves[i]
    <3>1. \A i \in DOMAIN shelves : i < a + 1 => id \notin shelves[i]
      BY <1>1, <1>2, <2>3
    <3> QED BY <1>2, <2>2, <3>1
  <2>4. \A id \in Consoles :
            /\ NoExperts(units[id])
            /\ (\A i \in DOMAIN shelves : i < at' => id \notin shelves[i]) => NoBlocks(units[id])
    BY <1>1, <2>3 DEF BudgetInv, FreshInv
  <2> QED BY <1>1, <2>1, <2>4 DEF BudgetInv, FreshInv
<1>7. SizeInv' /\ PassInv'
  BY <1>1 DEF BudgetInv, SizeInv, PassInv
<1> QED BY <1>1, <1>4, <1>5, <1>6, <1>7, UnitsKept DEF BudgetInv

\* When the ranges are dealt no unit has an expert yet.
LEMMA EndRangesBudget ==
    ASSUME BudgetInv, EndRanges
    PROVE  BudgetInv'
<1>1. /\ phase = "range" /\ phase' \in {"error", "experts"} /\ at' = 1 /\ layer' = 0
      /\ UNCHANGED <<case, caps, units, shelves, quotas, stages, pass, todo, next, short>>
  BY DEF EndRanges
<1>2. PlanTypeOK'
  BY <1>1, UnitsKept DEF BudgetInv, PlanTypeOK
<1>3. SizeInv' /\ FreshInv' /\ PassInv' /\ QuotasInv'
  BY <1>1 DEF BudgetInv, SizeInv, FreshInv, PassInv, QuotasInv
<1> QED BY <1>1, <1>2, <1>3, UnitsKept DEF BudgetInv

\* The layers that are given on are no more than there are.
LEMMA Spilled ==
    ASSUME BudgetInv, at <= Len(quotas), NEW lost \in Nat
    PROVE  \E rest \in Nat, spilt \in Nat :
              /\ Spill(at, lost) \in Seq(Nat) /\ Len(Spill(at, lost)) = Len(quotas)
              /\ rest = SumFunctionOnSet(quotas, at + 1..Len(quotas))
              /\ spilt = SumFunctionOnSet(Spill(at, lost), at + 1..Len(quotas))
              /\ spilt <= rest + lost
<1>1. PICK len \in Nat : len = Len(quotas) /\ len = Len(shelves)
  BY DEF BudgetInv, PlanTypeOK
<1>2. PICK a \in Nat \ {0} : a = at
  BY DEF BudgetInv, PlanTypeOK
<1>3. PICK share : share = lost \div AtLeast(1, len - a)
  OBVIOUS
<1>4. share \in Nat /\ share * (len - a) <= lost
  <2>1. a <= len
    BY <1>1, <1>2
  <2>2. CASE a = len
    <3>1. AtLeast(1, len - a) = 1
      BY <2>2 DEF AtLeast
    <3> QED BY <1>3, <2>2, <3>1
  <2>3. CASE a < len
    <3> PICK k \in Nat \ {0} : k = len - a
      BY <2>3
    <3>1. AtLeast(1, len - a) = k
      BY DEF AtLeast
    <3>2. lost \div k \in Nat /\ k * (lost \div k) <= lost
      BY Quotient
    <3> QED BY <1>3, <3>1, <3>2
  <2> QED BY <2>1, <2>2, <2>3
<1> PICK f : f = quotas
  OBVIOUS
<1>5. DOMAIN f = 1..len /\ \A x \in 1..len : f[x] \in Nat
  BY <1>1 DEF BudgetInv, PlanTypeOK
<1> PICK g : g = Spill(at, lost)
  OBVIOUS
<1>6. g = [i \in 1..len |-> IF i > a THEN f[i] + share ELSE f[i]]
  BY <1>1, <1>2, <1>3, <1>5 DEF Spill
<1>7. g \in Seq(Nat) /\ Len(g) = len
  <2>1. \A i \in 1..len : g[i] \in Nat
    BY <1>4, <1>5, <1>6
  <2> QED BY <1>6, <2>1
<1> PICK T : T = a + 1..len
  OBVIOUS
<1>8. IsFiniteSet(T) /\ Cardinality(T) = len - a
  <2>1. a + 1 \in Int /\ len \in Int /\ a <= len
    BY <1>1, <1>2
  <2>2. IsFiniteSet(a + 1..len) /\ Cardinality(a + 1..len) = IF a + 1 > len THEN 0
                                                             ELSE len - (a + 1) + 1
    BY <2>1, FS_Interval
  <2> QED BY <2>1, <2>2
<1>9. \A x \in T : f[x] \in Nat /\ g[x] = f[x] + share
  BY <1>5, <1>6
<1>10. SumFunctionOnSet(g, T) = SumFunctionOnSet(f, T) + share * Cardinality(T)
  <2>1. share \in Nat
    BY <1>4
  <2>2. IsFiniteSet(T)
    BY <1>8
  <2> QED BY ONLY <1>9, <2>1, <2>2, SumEachPlus
<1>11. PICK rest \in Nat : rest = SumFunctionOnSet(f, T)
  BY <1>8, <1>9, SumIsNat
<1>12. PICK spilt : spilt = SumFunctionOnSet(g, T)
  OBVIOUS
<1>13. spilt = rest + share * (len - a) /\ spilt \in Nat
  <2>1. \A x \in T : g[x] \in Nat
    BY <1>4, <1>9
  <2>2. spilt \in Nat
    BY <1>8, <1>12, <2>1, SumIsNat
  <2> QED BY <1>8, <1>10, <1>11, <1>12, <2>2
<1>14. spilt <= rest + lost
  BY <1>4, <1>13
<1> QED BY <1>1, <1>2, <1>7, <1>11, <1>12, <1>13, <1>14

\* What a range of layers needs is what its blocks take and what their caches take.
LEMMA NeedIs ==
    ASSUME case \in Cases, NEW first \in Nat, NEW n \in Nat, first + n <= Blocks
    PROVE  \E b \in Nat, k \in Nat :
              /\ b = SumFunction([i \in first..first + n - 1 |-> BlockBytes(profile, i)])
              /\ k = SumFunction([i \in first..first + n - 1 |->
                                    BlockKvBytes(profile, i, case.context)])
              /\ Need(first, n) = b + k
<1> PICK D : D = first..first + n - 1
  OBVIOUS
<1>1. IsFiniteSet(D)
  BY FS_Interval
<1>2. D \subseteq 0..Blocks - 1
  <2> PICK blocks \in Nat : blocks = Blocks
    BY PlanNumbers
  <2> QED OBVIOUS
<1> PICK f : f = [i \in D |-> BlockBytes(profile, i)]
  OBVIOUS
<1> PICK g : g = [i \in D |-> BlockKvBytes(profile, i, case.context)]
  OBVIOUS
<1> PICK h : h = [i \in D |-> BlockNeed(i)]
  OBVIOUS
<1>3. \A x \in D : f[x] = BlockBytes(profile, x) /\ g[x] = BlockKvBytes(profile, x, case.context)
                     /\ h[x] = BlockNeed(x)
  OBVIOUS
<1>4. \A x \in D : f[x] \in Nat /\ g[x] \in Nat /\ h[x] = f[x] + g[x]
  BY <1>2, <1>3, PlanNumbers DEF BlockNeed
<1>5. SumFunctionOnSet(h, D) = SumFunctionOnSet(f, D) + SumFunctionOnSet(g, D)
  BY ONLY <1>1, <1>4, SumsAdd
<1>6. PICK b \in Nat, k \in Nat : b = SumFunctionOnSet(f, D) /\ k = SumFunctionOnSet(g, D)
  BY <1>1, <1>4, SumIsNat
<1>7. DOMAIN f = D /\ DOMAIN g = D /\ DOMAIN h = D
  OBVIOUS
<1>8. b = SumFunction(f) /\ k = SumFunction(g) /\ SumFunction(h) = b + k
  BY <1>5, <1>6, <1>7 DEF SumFunction
<1>9. Need(first, n) = SumFunction(h)
  BY DEF Need
<1> QED BY <1>6, <1>8, <1>9

\* The range a shelf is given, and the one unit that changes for it.
LEMMA Ranged ==
    ASSUME BudgetInv, HostRange
    PROVE  \E n \in Nat \ {0}, host \in Consoles :
              /\ n <= quotas[at] /\ layer + n <= Blocks
              /\ at \in DOMAIN shelves /\ host \in shelves[at]
              /\ Need(layer, n) <= units[host].fastCapacity
              /\ units' = [units EXCEPT ![host] = Host(units[host], layer, n)]
              /\ stages' = Append(stages, [first |-> layer, n |-> n, host |-> host,
                                           shelf |-> shelves[at], experts |-> shelves[at]])
              /\ quotas' = Spill(at, quotas[at] - n)
              /\ layer' = layer + n
<1>1. at <= Len(shelves) /\ phase = "range"
  BY DEF HostRange, InRange
<1>2. at \in DOMAIN shelves /\ shelves[at] \subseteq Consoles /\ at <= Len(quotas)
  BY <1>1 DEF BudgetInv, PlanTypeOK
<1>3. PICK n \in 1..quotas[at] :
         /\ \E host \in Hosts(shelves[at], Need(layer, n)) :
               /\ units' = [units EXCEPT ![host] = Host(@, layer, n)]
               /\ stages' = Append(stages, [first |-> layer, n |-> n, host |-> host,
                                            shelf |-> shelves[at], experts |-> shelves[at]])
         /\ quotas' = Spill(at, quotas[at] - n)
         /\ layer' = layer + n
  BY DEF HostRange
<1>4. PICK host \in Hosts(shelves[at], Need(layer, n)) :
         /\ units' = [units EXCEPT ![host] = Host(@, layer, n)]
         /\ stages' = Append(stages, [first |-> layer, n |-> n, host |-> host,
                                      shelf |-> shelves[at], experts |-> shelves[at]])
  BY <1>3
<1>5. host \in shelves[at] /\ units[host].fastCapacity >= Need(layer, n)
  BY <1>4, Zenon DEF Hosts
<1>6. PICK rest \in Nat :
         /\ quotas[at] \in Nat
         /\ SumFunctionOnSet(quotas, at..Len(quotas)) = quotas[at] + rest
  BY <1>2, QuotasFrom
<1>7. PICK q \in Nat : q = quotas[at]
  BY <1>6
<1>8. PICK first \in Nat, blocks \in Nat : first = layer /\ blocks = Blocks
  BY PlanNumbers DEF BudgetInv, PlanTypeOK
<1>9. first + (q + rest) <= blocks
  <2>1. layer + SumFunctionOnSet(quotas, at..Len(quotas)) <= Blocks
    BY <1>1 DEF BudgetInv, QuotasInv
  <2>2. SumFunctionOnSet(quotas, at..Len(quotas)) = q + rest
    BY <1>6, <1>7
  <2> QED BY <1>8, <2>1, <2>2, Zenon
<1>10. n \in Nat \ {0} /\ n <= q /\ first + n <= blocks
  <2>1. n \in 1..q
    BY <1>3, <1>7, Zenon
  <2> QED BY <1>9, <2>1
<1>11. host \in Consoles /\ Need(layer, n) <= units[host].fastCapacity
  <2>1. first + n <= Blocks /\ n \in Nat /\ case \in Cases
    BY <1>8, <1>10 DEF BudgetInv, PlanTypeOK
  <2>2. Need(layer, n) \in Nat
    <3>1. PICK b \in Nat, k \in Nat :
              /\ b = SumFunction([i \in first..first + n - 1 |-> BlockBytes(profile, i)])
              /\ k = SumFunction([i \in first..first + n - 1 |->
                                    BlockKvBytes(profile, i, case.context)])
              /\ Need(first, n) = b + k
      BY <1>8, <2>1, NeedIs
    <3>2. Need(first, n) \in Nat
      BY <3>1
    <3> QED BY <1>8, <3>2
  <2>3. host \in Consoles
    BY <1>2, <1>5
  <2>4. units[host].fastCapacity \in Nat
    BY <2>3 DEF BudgetInv, PlanTypeOK, UnitPlans
  <2> QED BY <1>5, <2>2, <2>3, <2>4
<1> QED BY <1>2, <1>3, <1>4, <1>5, <1>7, <1>8, <1>10, <1>11

\* What the host has then: the blocks and their caches, within its capacity.
LEMMA HostOK ==
    ASSUME BudgetInv, phase = "range", NEW n \in Nat \ {0}, NEW host \in Consoles,
           layer + n <= Blocks, at \in DOMAIN shelves, host \in shelves[at],
           Need(layer, n) <= units[host].fastCapacity
    PROVE  /\ Host(units[host], layer, n) \in UnitPlans
           /\ Resident(Host(units[host], layer, n)) <= units[host].capacity
           /\ Host(units[host], layer, n).capacity = units[host].capacity
           /\ Host(units[host], layer, n).fastCapacity = units[host].fastCapacity
           /\ NoExperts(Host(units[host], layer, n))
           /\ Host(units[host], layer, n).hosted = units[host].hosted \cup (layer..layer + n - 1)
           /\ \E b \in Nat :
                 /\ b = SumFunction([i \in layer..layer + n - 1 |-> BlockBytes(profile, i)])
                 /\ OnUnits(units[host]) = 0 /\ OnUnits(Host(units[host], layer, n)) = b
<1> PICK u : u = units[host]
  OBVIOUS
<1> PICK v : v = Host(u, layer, n)
  OBVIOUS
<1>1. PICK first \in Nat : first = layer
  BY DEF BudgetInv, PlanTypeOK
<1>2. PICK b \in Nat, k \in Nat :
              /\ b = SumFunction([i \in first..first + n - 1 |-> BlockBytes(profile, i)])
              /\ k = SumFunction([i \in first..first + n - 1 |->
                                    BlockKvBytes(profile, i, case.context)])
              /\ Need(first, n) = b + k
  BY <1>1, NeedIs DEF BudgetInv, PlanTypeOK
<1>3. u \in UnitPlans /\ u.fastCapacity <= u.capacity
  BY DEF BudgetInv, PlanTypeOK, FastFits
<1>4. NoExperts(u) /\ NoBlocks(u)
  <2>1. \A i \in DOMAIN shelves : i < at => host \notin shelves[i]
    <3>1. DOMAIN shelves \subseteq Nat
      BY DEF BudgetInv, PlanTypeOK
    <3>2. \A i \in DOMAIN shelves : i < at => i # at
      BY <3>1 DEF BudgetInv, PlanTypeOK
    <3> QED BY <3>2 DEF BudgetInv, FreshInv
  <2> QED BY <2>1 DEF BudgetInv, FreshInv
<1> PICK mine : mine = first..first + n - 1
  OBVIOUS
<1> PICK heads : heads = {<<"mtp-head", i - profile.layers>> :
                            i \in {j \in mine : j >= profile.layers}}
  OBVIOUS
<1>5. v = [u EXCEPT !.hosted = @ \cup mine, !.io = @ \cup heads, !.hot = @ + b, !.kv = @ + k]
  BY <1>1, <1>2, Zenon DEF Host
<1>6. mine \subseteq Nat /\ heads \subseteq IoPieces
  <2>1. profile.layers \in Nat
    BY PlanNumbers DEF BudgetInv, PlanTypeOK
  <2>2. \A i \in mine : i >= profile.layers => i - profile.layers \in Nat
    BY <2>1
  <2>3. ASSUME NEW h \in heads PROVE h \in {"mtp-head"} \X Nat
    <3>1. PICK i \in mine : i >= profile.layers /\ h = <<"mtp-head", i - profile.layers>>
      OBVIOUS
    <3> QED BY <2>2, <3>1
  <2> QED BY <2>3 DEF IoPieces
<1>7. /\ v.hosted = u.hosted \cup mine /\ v.io = u.io \cup heads /\ v.hot = u.hot + b
      /\ v.kv = u.kv + k /\ v.shards = u.shards /\ v.fast = u.fast /\ v.slow = u.slow
      /\ v.ssd = u.ssd /\ v.capacity = u.capacity /\ v.fastCapacity = u.fastCapacity
      /\ v.gflops = u.gflops
  BY <1>3, <1>5 DEF UnitPlans
<1>8. v \in UnitPlans
  <2>1. /\ u.hosted \cup mine \in SUBSET Nat
        /\ u.io \cup heads \in SUBSET IoPieces
    BY <1>3, <1>6 DEF UnitPlans
  <2>2. u.hot + b \in Nat /\ u.kv + k \in Nat
    <3>1. u.hot \in Nat /\ u.kv \in Nat
      BY <1>3 DEF UnitPlans
    <3>2. b \in Nat /\ k \in Nat
      BY <1>2
    <3> QED BY <3>1, <3>2
  <2>3. PICK w : w = [hosted |-> u.hosted \cup mine, io |-> u.io \cup heads, shards |-> u.shards,
             hot |-> u.hot + b, fast |-> u.fast, slow |-> u.slow, ssd |-> u.ssd,
             kv |-> u.kv + k, capacity |-> u.capacity, fastCapacity |-> u.fastCapacity,
             gflops |-> u.gflops]
    OBVIOUS
  <2>4. w \in UnitPlans
    BY <1>3, <2>1, <2>2, <2>3 DEF UnitPlans
  <2>5. DOMAIN v = DOMAIN w
    BY <1>3, <1>5, <2>3 DEF UnitPlans
  <2>6. v = w
    BY <1>3, <1>5, <1>7, <2>3, <2>5 DEF UnitPlans
  <2> QED BY <2>4, <2>6
<1>9. NoExperts(v) /\ Resident(v) = b + k
  BY <1>4, <1>7 DEF NoExperts, NoBlocks, Resident
<1>10. b + k <= u.capacity
  <2> PICK c \in Nat, d \in Nat : c = u.capacity /\ d = u.fastCapacity
    BY <1>3 DEF UnitPlans
  <2>1. b + k <= d /\ d <= c
    BY <1>1, <1>2, <1>3
  <2> QED BY <1>2, <2>1
<1>11. OnUnits(u) = 0 /\ OnUnits(v) = b
  <2>1. /\ u.hot = 0 /\ u.fast = 0 /\ u.slow = 0 /\ u.ssd = 0
        /\ v.hot = u.hot + b /\ v.fast = u.fast /\ v.slow = u.slow /\ v.ssd = u.ssd
    BY <1>4, <1>7 DEF NoExperts, NoBlocks
  <2>2. b \in Nat
    BY <1>2
  <2> QED BY <2>1, <2>2 DEF OnUnits
<1>12. v.hosted = u.hosted \cup (layer..layer + n - 1)
  BY <1>1, <1>7
<1>13. b \in Nat /\ b = SumFunction([i \in layer..layer + n - 1 |-> BlockBytes(profile, i)])
  BY <1>1, <1>2
<1> QED BY <1>7, <1>8, <1>9, <1>10, <1>11, <1>12, <1>13

\* One unit changes: what it is then is a unit's plan, and what the rest is stays.
LEMMA OneUnitChanges ==
    ASSUME BudgetInv, UNCHANGED <<case, caps>>, NEW id \in Consoles, NEW v \in UnitPlans,
           units' = [units EXCEPT ![id] = v], v.fastCapacity = units[id].fastCapacity,
           v.capacity = units[id].capacity, Resident(v) <= v.capacity
    PROVE  /\ Consoles' = Consoles /\ Routed' = Routed /\ Blocks' = Blocks
           /\ case' \in Cases /\ IsFiniteSet(Consoles') /\ Consoles' \subseteq Nat
           /\ DOMAIN caps' = Consoles' /\ units' \in [Consoles' -> UnitPlans]
           /\ \A c \in Consoles' : caps'[c].storage \in Nat
           /\ \A c \in Consoles' : units'[c] = IF c = id THEN v ELSE units[c]
           /\ FastFits' /\ WithinCapacity'
<1>1. units \in [Consoles -> UnitPlans]
  BY DEF BudgetInv, PlanTypeOK
<1>2. Consoles' = Consoles
  BY <1>1 DEF Consoles
<1>3. \A c \in Consoles : units'[c] = IF c = id THEN v ELSE units[c]
  BY <1>1
<1>4. units' \in [Consoles -> UnitPlans]
  BY <1>1
<1>5. Routed' = Routed /\ Blocks' = Blocks
  BY DEF Routed, Blocks, profile
<1>6. FastFits' /\ WithinCapacity'
  BY <1>2, <1>3 DEF BudgetInv, FastFits, WithinCapacity
<1> QED BY <1>2, <1>3, <1>4, <1>5, <1>6 DEF BudgetInv, PlanTypeOK

\* A range that fits the fast part of an empty unit fits the unit.
LEMMA HostRangeBudget ==
    ASSUME BudgetInv, HostRange
    PROVE  BudgetInv'
<1>1. /\ phase = "range" /\ phase' = "range" /\ at' = at + 1 /\ at <= Len(shelves)
      /\ UNCHANGED <<case, caps, shelves, pass, todo, next, short>>
  BY DEF HostRange, InRange
<1>2. PICK n \in Nat \ {0}, host \in Consoles :
              /\ n <= quotas[at] /\ layer + n <= Blocks
              /\ at \in DOMAIN shelves /\ host \in shelves[at]
              /\ Need(layer, n) <= units[host].fastCapacity
              /\ units' = [units EXCEPT ![host] = Host(units[host], layer, n)]
              /\ stages' = Append(stages, [first |-> layer, n |-> n, host |-> host,
                                           shelf |-> shelves[at], experts |-> shelves[at]])
              /\ quotas' = Spill(at, quotas[at] - n)
              /\ layer' = layer + n
  BY Ranged
<1> PICK v : v = Host(units[host], layer, n)
  OBVIOUS
<1>3. /\ v \in UnitPlans /\ Resident(v) <= v.capacity
      /\ v.capacity = units[host].capacity /\ v.fastCapacity = units[host].fastCapacity
      /\ NoExperts(v)
  BY <1>1, <1>2, HostOK
<1>4. units' = [units EXCEPT ![host] = v]
  BY <1>2
<1>5. /\ Consoles' = Consoles /\ Routed' = Routed /\ Blocks' = Blocks
      /\ case' \in Cases /\ IsFiniteSet(Consoles') /\ Consoles' \subseteq Nat
      /\ DOMAIN caps' = Consoles' /\ units' \in [Consoles' -> UnitPlans]
      /\ \A c \in Consoles' : caps'[c].storage \in Nat
      /\ \A c \in Consoles' : units'[c] = IF c = host THEN v ELSE units[c]
      /\ FastFits' /\ WithinCapacity'
  BY <1>1, <1>2, <1>3, <1>4, OneUnitChanges
<1>6. PICK q \in Nat, a \in Nat \ {0}, len \in Nat, first \in Nat, blocks \in Nat :
         /\ q = quotas[at] /\ a = at /\ len = Len(quotas) /\ first = layer /\ blocks = Blocks
         /\ len = Len(shelves)
  <2>1. at \in 1..Len(quotas) /\ quotas \in Seq(Nat)
    BY <1>2 DEF BudgetInv, PlanTypeOK
  <2>2. quotas[at] \in Nat
    BY <2>1
  <2>3. /\ at \in Nat \ {0} /\ Len(quotas) \in Nat /\ layer \in Nat /\ Blocks \in Nat
        /\ Len(quotas) = Len(shelves)
    BY PlanNumbers DEF BudgetInv, PlanTypeOK
  <2> QED BY <2>2, <2>3, Zenon
<1>7. a <= len /\ n <= q
  BY <1>1, <1>2, <1>6
<1> PICK lost : lost = q - n
  OBVIOUS
<1>8. lost \in Nat /\ quotas' = Spill(at, lost)
  BY <1>2, <1>6, <1>7
<1>9. PICK rest \in Nat, spilt \in Nat :
              /\ Spill(at, lost) \in Seq(Nat) /\ Len(Spill(at, lost)) = Len(quotas)
              /\ rest = SumFunctionOnSet(quotas, at + 1..Len(quotas))
              /\ spilt = SumFunctionOnSet(Spill(at, lost), at + 1..Len(quotas))
              /\ spilt <= rest + lost
  BY <1>6, <1>7, <1>8, Spilled
<1>10. first + n + spilt <= blocks
  <2>1. PICK rest2 \in Nat :
              /\ rest2 = SumFunctionOnSet(quotas, at + 1..Len(quotas))
              /\ SumFunctionOnSet(quotas, at..Len(quotas)) = quotas[at] + rest2
    BY <1>6, <1>7, QuotasFrom
  <2>2. layer + SumFunctionOnSet(quotas, at..Len(quotas)) <= Blocks
    BY <1>1 DEF BudgetInv, QuotasInv
  <2>3. SumFunctionOnSet(quotas, at..Len(quotas)) = q + rest
    BY <1>6, <1>9, <2>1
  <2>4. first + (q + rest) <= blocks
    BY <1>6, <2>2, <2>3, Zenon
  <2>5. spilt <= rest + lost /\ n <= q
    BY <1>7, <1>9
  <2>6. spilt \in Nat /\ rest \in Nat /\ q \in Nat /\ first \in Nat /\ blocks \in Nat
    BY <1>6, <1>9
  <2> QED BY <2>4, <2>5, <2>6
<1>11. QuotasInv'
  <2>1. phase' = "range" /\ layer' = first + n /\ at' = at + 1 /\ Len(quotas') = Len(quotas)
          /\ Blocks' = blocks /\ quotas' = Spill(at, lost)
    BY <1>1, <1>2, <1>5, <1>6, <1>8, <1>9
  <2>2. SumFunctionOnSet(quotas', at'..Len(quotas')) = spilt
    BY <1>9, <2>1
  <2>3. layer' + SumFunctionOnSet(quotas', at'..Len(quotas')) <= Blocks'
    BY <1>10, <2>1, <2>2, Zenon
  <2> QED BY <2>1, <2>3 DEF QuotasInv
<1>12. stages' \in Seq(StagePlans(Consoles'))
  <2> PICK stage : stage = [first |-> first, n |-> n, host |-> host,
                            shelf |-> shelves[at], experts |-> shelves[at]]
    OBVIOUS
  <2>1. shelves[at] \in SUBSET Consoles
    BY <1>2 DEF BudgetInv, PlanTypeOK
  <2>2. stage \in StagePlans(Consoles)
    BY <1>2, <1>6, <2>1 DEF StagePlans
  <2>3. stages' = Append(stages, stage)
    BY <1>2, <1>6
  <2> QED BY <1>5, <2>2, <2>3 DEF BudgetInv, PlanTypeOK
<1>13. PlanTypeOK'
  <2>1. layer' \in Nat /\ at' \in Nat \ {0}
    BY <1>1, <1>2, <1>6
  <2>2. quotas' \in Seq(Nat) /\ Len(quotas') = Len(shelves')
    BY <1>1, <1>6, <1>8, <1>9
  <2> QED BY <1>1, <1>5, <1>12, <2>1, <2>2 DEF BudgetInv, PlanTypeOK
<1>14. FreshInv'
  <2>1. DOMAIN shelves \subseteq Nat
    BY DEF BudgetInv, PlanTypeOK
  <2>2. ASSUME NEW id \in Consoles
        PROVE  /\ NoExperts(units'[id])
               /\ (\A i \in DOMAIN shelves : i < at' => id \notin shelves[i])
                     => NoBlocks(units'[id])
    <3>1. NoExperts(units'[id])
      BY <1>1, <1>3, <1>5 DEF BudgetInv, FreshInv
    <3>2. ASSUME \A i \in DOMAIN shelves : i < at' => id \notin shelves[i]
          PROVE  NoBlocks(units'[id])
      <4>1. \A i \in DOMAIN shelves : i < a + 1 => id \notin shelves[i]
        BY <1>1, <1>6, <3>2
      <4>2. id # host
        BY <1>2, <1>6, <4>1
      <4>3. \A i \in DOMAIN shelves : i < at => id \notin shelves[i]
        BY <1>6, <2>1, <4>1
      <4> QED BY <1>1, <1>5, <4>2, <4>3 DEF BudgetInv, FreshInv
    <3> QED BY <3>1, <3>2
  <2> QED BY <1>1, <1>5, <2>2 DEF BudgetInv, FreshInv
<1>15. SizeInv' /\ PassInv'
  BY <1>1 DEF BudgetInv, SizeInv, PassInv
<1> QED BY <1>5, <1>11, <1>13, <1>14, <1>15 DEF BudgetInv

\* A member's share is a number of experts.
LEMMA ShareIsInt ==
    ASSUME BudgetInv, at \in DOMAIN stages, NEW id \in stages[at].shelf
    PROVE  Share(id) \in Int
<1> PICK shelf : shelf = stages[at].shelf
  OBVIOUS
<1>1. shelf \subseteq Consoles
  <2>1. stages[at] \in StagePlans(Consoles)
    BY DEF BudgetInv, PlanTypeOK
  <2> QED BY <2>1 DEF StagePlans
<1> PICK speed : speed = [m \in shelf |-> AtLeast(units[m].gflops, 1000)]
  BY Zenon
<1>2. \A m \in shelf : speed[m] \in Nat \ {0}
  <2> TAKE m \in shelf
  <2>1. units[m].gflops \in Int
    BY <1>1, Zenon DEF BudgetInv, PlanTypeOK, UnitPlans
  <2>2. AtLeast(units[m].gflops, 1000) \in Nat \ {0}
    BY <2>1 DEF AtLeast
  <2> QED BY <2>2
<1>3. IsFiniteSet(shelf)
  BY <1>1, FS_Subset DEF BudgetInv, PlanTypeOK
<1>4. \A m \in shelf : speed[m] \in Nat
  BY <1>2
<1>5. SumFunctionOnSet(speed, shelf) = speed[id] + SumFunctionOnSet(speed, shelf \ {id})
  BY <1>3, <1>4, SumTakesOut
<1>6. PICK rest \in Nat : rest = SumFunctionOnSet(speed, shelf \ {id})
  <2>1. IsFiniteSet(shelf \ {id}) /\ \A m \in shelf \ {id} : speed[m] \in Nat
    BY <1>3, <1>4, FS_Subset
  <2>2. SumFunctionOnSet(speed, shelf \ {id}) \in Nat
    BY <2>1, SumIsNat
  <2> QED BY <2>2
<1>7. PICK mine \in Nat \ {0}, routed \in Nat : mine = speed[id] /\ routed = Routed
  <2>1. Routed \in Nat
    BY PlanNumbers DEF BudgetInv, PlanTypeOK
  <2>2. speed[id] \in Nat \ {0}
    BY <1>2
  <2>3. PICK x \in Nat \ {0} : x = speed[id]
    BY <2>2
  <2>4. PICK y \in Nat : y = Routed
    BY <2>1
  <2> QED BY <2>3, <2>4
<1>8. SumFunction(speed) = mine + rest
  <2>1. DOMAIN speed = shelf
    OBVIOUS
  <2> QED BY <1>5, <1>6, <1>7, <2>1 DEF SumFunction
<1>9. Share(id) = AtLeast(1, Round(routed * mine, mine + rest))
  BY <1>7, <1>8, ZenonT(60) DEF Share
<1>10. \A x \in Nat, y \in Nat \ {0} : Round(x, y) \in Int
  BY DEF Round
<1>11. Round(routed * mine, mine + rest) \in Int
  <2>1. routed * mine \in Nat /\ mine + rest \in Nat \ {0}
    BY <1>6, <1>7
  <2> QED BY <1>10, <2>1
<1> QED BY <1>9, <1>11 DEF AtLeast

\* What is left of a unit is a number, below zero at worst.
LEMMA RoomIsInt ==
    ASSUME NEW u \in UnitPlans
    PROVE  /\ Resident(u) \in Nat /\ Room(u) \in Int /\ Room(u) = u.capacity - Resident(u)
           /\ Resident(u) = u.hot + u.fast + u.slow + u.kv
  BY DEF UnitPlans, Resident, Room

\* A unit takes no more than are left and, into its RAM, no more than it has room for.
LEMMA TakesAtMost ==
    ASSUME BudgetInv, at \in DOMAIN stages, NEW id \in todo
    PROVE  /\ Takes(id) \in Int /\ Takes(id) <= Routed - next
           /\ pass \in {"ram", "outside"} => Takes(id) <= Room(units[id]) \div Expert
           /\ id \in Consoles /\ pass \in {"ram", "ssd", "outside"}
<1>1. id \in Consoles /\ pass \in {"ram", "ssd", "outside"}
  BY DEF BudgetInv, PlanTypeOK, PassInv
<1>2. PICK e \in Nat \ {0}, room \in Int, free \in Int :
         e = Expert /\ room = Room(units[id]) /\ free = caps[id].storage \div 2 - units[id].ssd
  <2>1. Expert \in Nat \ {0}
    BY PlanNumbers DEF BudgetInv, PlanTypeOK
  <2>2. units[id] \in UnitPlans
    BY <1>1 DEF BudgetInv, PlanTypeOK
  <2>3. caps[id].storage \in Nat /\ units[id].ssd \in Nat
    BY <1>1, <2>2 DEF BudgetInv, PlanTypeOK, UnitPlans
  <2>4. caps[id].storage \div 2 - units[id].ssd \in Int
    BY <2>3
  <2> QED BY <2>1, <2>2, <2>4, RoomIsInt
<1>3. PICK some \in Int : some = Left /\ some = Routed - next
  <2>1. Routed \in Int /\ next \in Int
    BY PlanNumbers DEF BudgetInv, PlanTypeOK
  <2> QED BY <2>1 DEF Left
<1>4. room \div e \in Int /\ free \div e \in Int
  BY <1>2
<1>5. Takes(id) = CASE pass = "ram"     -> AtMost(some, AtMost(room \div e, Share(id)))
                    [] pass = "ssd"     -> AtMost(some, AtLeast(0, free \div e))
                    [] pass = "outside" -> AtMost(some, room \div e)
  BY <1>2, <1>3, Zenon DEF Takes
<1>6. CASE pass = "ram"
  <2>1. id \in stages[at].shelf
    <3>1. at <= Len(stages)
      BY DEF BudgetInv, PlanTypeOK
    <3> QED BY <1>6, <3>1 DEF BudgetInv, PassInv
  <2>2. PICK share \in Int : share = Share(id)
    BY <2>1, ShareIsInt
  <2>3. Takes(id) = AtMost(some, AtMost(room \div e, share))
    BY <1>5, <1>6, <2>2
  <2>4. Takes(id) \in Int /\ Takes(id) <= some /\ Takes(id) <= room \div e
    BY <1>3, <1>4, <2>2, <2>3 DEF AtMost
  <2> QED BY <1>1, <1>2, <1>3, <2>4
<1>7. CASE pass = "ssd"
  <2>1. Takes(id) = AtMost(some, AtLeast(0, free \div e))
    BY <1>5, <1>7
  <2>2. Takes(id) \in Int /\ Takes(id) <= some
    BY <1>3, <1>4, <2>1 DEF AtMost, AtLeast
  <2> QED BY <1>1, <1>3, <1>7, <2>2
<1>8. CASE pass = "outside"
  <2>1. Takes(id) = AtMost(some, room \div e)
    BY <1>5, <1>8
  <2>2. Takes(id) \in Int /\ Takes(id) <= some /\ Takes(id) <= room \div e
    BY <1>3, <1>4, <2>1 DEF AtMost
  <2> QED BY <1>1, <1>2, <1>3, <2>2
<1> QED BY <1>1, <1>6, <1>7, <1>8

\* v is the unit u with n more experts of the layer, from the next one on, in the tier.
Holding(v, u, n, tier) ==
    /\ v \in UnitPlans /\ v.capacity = u.capacity /\ v.fastCapacity = u.fastCapacity
    /\ v.hosted = u.hosted
    /\ v.shards = u.shards \cup {[layer |-> layer, first |-> next, n |-> n, tier |-> tier]}
    /\ Resident(v) = Resident(u) + (IF tier = "ssd" THEN 0 ELSE n * Expert)
    /\ OnUnits(v) = OnUnits(u) + n * Expert

\* A shard that is held is all of what changes.
LEMMA HoldOK ==
    ASSUME BudgetInv, NEW u \in UnitPlans, NEW n \in Nat \ {0},
           NEW tier \in {"fast", "slow", "ssd"}
    PROVE  Holding(Hold(u, n, tier), u, n, tier)
<1> PICK v : v = Hold(u, n, tier)
  OBVIOUS
<1> PICK s : s = [layer |-> layer, first |-> next, n |-> n, tier |-> tier]
  OBVIOUS
<1>1. PICK e \in Nat \ {0}, m \in Nat : e = Expert /\ m = n * e
  BY PlanNumbers DEF BudgetInv, PlanTypeOK
<1>2. v = [u EXCEPT !.shards = @ \cup {s}, !.fast = @ + (IF "fast" = tier THEN m ELSE 0),
                    !.slow = @ + (IF "slow" = tier THEN m ELSE 0),
                    !.ssd = @ + (IF "ssd" = tier THEN m ELSE 0)]
  BY <1>1, Zenon DEF Hold
<1>3. PICK f : f = IF "fast" = tier THEN m ELSE 0
  OBVIOUS
<1>9. PICK g : g = IF "slow" = tier THEN m ELSE 0
  OBVIOUS
<1>10. PICK h : h = IF "ssd" = tier THEN m ELSE 0
  OBVIOUS
<1>11. f \in Nat /\ g \in Nat /\ h \in Nat
  BY <1>1, <1>3, <1>9, <1>10
<1>4. v = [u EXCEPT !.shards = @ \cup {s}, !.fast = @ + f, !.slow = @ + g, !.ssd = @ + h]
  BY <1>2, <1>3, <1>9, <1>10, Zenon
<1>5. /\ v.hosted = u.hosted /\ v.io = u.io /\ v.hot = u.hot
      /\ v.kv = u.kv /\ v.shards = u.shards \cup {s} /\ v.fast = u.fast + f
      /\ v.slow = u.slow + g /\ v.ssd = u.ssd + h /\ v.capacity = u.capacity
      /\ v.fastCapacity = u.fastCapacity /\ v.gflops = u.gflops
  BY <1>4 DEF UnitPlans
<1>6. /\ u.hot \in Nat /\ u.fast \in Nat /\ u.slow \in Nat /\ u.ssd \in Nat /\ u.kv \in Nat
      /\ s \in [layer : Nat, first : Nat, n : Nat \ {0}, tier : {"fast", "slow", "ssd"}]
  <2>1. layer \in Nat /\ next \in Nat
    BY PlanNumbers DEF BudgetInv, PlanTypeOK
  <2> QED BY <2>1 DEF UnitPlans
<1>7. v \in UnitPlans
  <2> PICK w : w = [hosted |-> u.hosted, io |-> u.io, shards |-> u.shards \cup {s},
                    hot |-> u.hot, fast |-> u.fast + f, slow |-> u.slow + g, ssd |-> u.ssd + h,
                    kv |-> u.kv, capacity |-> u.capacity, fastCapacity |-> u.fastCapacity,
                    gflops |-> u.gflops]
    OBVIOUS
  <2>1. u.fast + f \in Nat /\ u.slow + g \in Nat /\ u.ssd + h \in Nat
    BY <1>6, <1>11
  <2>2. u.shards \cup {s} \in
          SUBSET [layer : Nat, first : Nat, n : Nat \ {0}, tier : {"fast", "slow", "ssd"}]
    BY <1>6 DEF UnitPlans
  <2>3. w \in UnitPlans
    BY <2>1, <2>2 DEF UnitPlans
  <2>4. v = w
    BY <1>4, <1>5 DEF UnitPlans
  <2> QED BY <2>3, <2>4
<1>8. f + g + h = m /\ f + g = IF tier = "ssd" THEN 0 ELSE m
  <2>1. m \in Nat
    BY <1>1
  <2>2. CASE tier = "fast"
    BY <1>3, <1>9, <1>10, <2>1, <2>2
  <2>3. CASE tier = "slow"
    BY <1>3, <1>9, <1>10, <2>1, <2>3
  <2>4. CASE tier = "ssd"
    BY <1>3, <1>9, <1>10, <2>1, <2>4
  <2> QED BY <2>2, <2>3, <2>4
<1>12. /\ Resident(v) = Resident(u) + (f + g)
      /\ OnUnits(v) = OnUnits(u) + (f + g + h)
  BY <1>5, <1>6, <1>11 DEF Resident, OnUnits
<1>13. v.shards = u.shards \cup {[layer |-> layer, first |-> next, n |-> n, tier |-> tier]}
  BY <1>5
<1>14. /\ Resident(v) = Resident(u) + (IF tier = "ssd" THEN 0 ELSE n * Expert)
       /\ OnUnits(v) = OnUnits(u) + n * Expert
  BY <1>1, <1>8, <1>12
<1>15. Holding(v, u, n, tier)
  BY ONLY <1>5, <1>7, <1>13, <1>14 DEF Holding
<1> QED BY <1>15

\* What has begun has been sized, and the shelves are as they were.
LEMMA PlacingKept ==
    ASSUME BudgetInv, phase \notin {"load", "shelve", "deal", "range", "error"},
           phase' \notin {"load", "shelve", "deal", "range"}, UNCHANGED <<case, shelves>>
    PROVE  SizeInv' /\ FreshInv' /\ QuotasInv'
<1>1. SizeInv' /\ QuotasInv'
  BY DEF BudgetInv, SizeInv, QuotasInv
<1>2. FreshInv'
  BY DEF BudgetInv, FreshInv
<1> QED BY <1>1, <1>2

\* The shard a unit takes in its turn.
LEMMA ShardTaken ==
    ASSUME BudgetInv, TakeShard
    PROVE  \E id \in todo, n \in Nat \ {0}, tier \in {"fast", "slow", "ssd"} :
              /\ id \in Consoles /\ n <= Routed - next /\ next' = next + n
              /\ units' = [units EXCEPT ![id] = Hold(units[id], n, tier)]
              /\ stages' = [stages EXCEPT ![at].experts = @ \cup {id}]
              /\ todo' = todo \ {id}
              /\ Resident(Hold(units[id], n, tier)) <= units[id].capacity
              /\ phase = "experts" /\ at \in DOMAIN stages
              /\ pass \in {"ram", "ssd", "outside"}
              /\ UNCHANGED <<case, phase, caps, shelves, quotas, at, layer, pass, short>>
<1>1. PICK id \in todo :
         /\ Turn(id) /\ Takes(id) > 0
         /\ LET n == Takes(id)
                tier == IF pass = "ssd" THEN "ssd" ELSE TierFor(units[id], n * Expert)
            IN  /\ units' = [units EXCEPT ![id] = Hold(@, n, tier)]
                /\ next' = next + n
         /\ stages' = [stages EXCEPT ![at].experts = @ \cup {id}]
  BY DEF TakeShard
<1>2. /\ phase = "experts" /\ at \in DOMAIN stages /\ todo' = todo \ {id}
      /\ UNCHANGED <<case, phase, caps, shelves, quotas, at, layer, pass, short>>
  <2>1. phase = "experts" /\ at <= Len(stages) /\ todo' = todo \ {id}
      /\ UNCHANGED <<case, phase, caps, shelves, quotas, at, layer, pass, short>>
    BY <1>1 DEF Turn
  <2> QED BY <2>1 DEF BudgetInv, PlanTypeOK
<1>3. /\ Takes(id) \in Int /\ Takes(id) <= Routed - next
      /\ pass \in {"ram", "outside"} => Takes(id) <= Room(units[id]) \div Expert
      /\ id \in Consoles /\ pass \in {"ram", "ssd", "outside"}
  BY <1>2, TakesAtMost
<1>4. PICK n \in Nat \ {0} : n = Takes(id)
  BY <1>1, <1>3
<1>5. PICK tier : tier = IF pass = "ssd" THEN "ssd" ELSE TierFor(units[id], n * Expert)
  OBVIOUS
<1>6. tier \in {"fast", "slow", "ssd"} /\ (tier = "ssd" <=> pass = "ssd")
  BY <1>5 DEF TierFor
<1>7. units' = [units EXCEPT ![id] = Hold(units[id], n, tier)] /\ next' = next + n
  BY <1>1, <1>4, <1>5, Zenon
<1>8. Resident(Hold(units[id], n, tier)) <= units[id].capacity
  <2> PICK u : u = units[id]
    OBVIOUS
  <2>1. u \in UnitPlans /\ Resident(u) <= u.capacity
    BY <1>3 DEF BudgetInv, PlanTypeOK, WithinCapacity
  <2>2. PICK res \in Nat, cap \in Nat, room \in Int :
           res = Resident(u) /\ cap = u.capacity /\ room = Room(u) /\ room = cap - res
    <3>1. Resident(u) \in Nat /\ Room(u) \in Int /\ Room(u) = u.capacity - Resident(u)
      BY <2>1, RoomIsInt
    <3>2. u.capacity \in Nat
      BY <2>1 DEF UnitPlans
    <3> QED BY <3>1, <3>2
  <2>3. PICK e \in Nat \ {0} : e = Expert
    BY PlanNumbers DEF BudgetInv, PlanTypeOK
  <2>4. Resident(Hold(u, n, tier)) = res + (IF tier = "ssd" THEN 0 ELSE n * e)
    <3>1. Holding(Hold(u, n, tier), u, n, tier)
      BY ONLY BudgetInv, <1>6, <2>1, HoldOK
    <3> QED BY ONLY <3>1, <2>2, <2>3 DEF Holding
  <2>5. CASE tier = "ssd"
    BY <2>1, <2>2, <2>4, <2>5
  <2>6. CASE tier # "ssd"
    <3>1. n <= room \div e
      BY <1>3, <1>4, <1>6, <2>2, <2>3, <2>6
    <3>2. n * e <= (room \div e) * e /\ (room \div e) * e <= room
      <4>1. room \div e \in Int
        BY <2>2, <2>3
      <4>2. (room \div e) * e <= room
        BY <2>2, <2>3
      <4>3. \A x, y \in Int : x <= y => x * e <= y * e
        BY <2>3
      <4>4. n \in Int
        BY <1>4
      <4> QED BY <3>1, <4>1, <4>2, <4>3, <4>4
    <3>3. n * e \in Int /\ (room \div e) * e \in Int
      BY <1>4, <2>2, <2>3
    <3>4. res + n * e <= cap
      BY <2>2, <3>2, <3>3
    <3> QED BY <2>2, <2>4, <2>6, <3>4
  <2> QED BY <2>5, <2>6
<1> QED BY <1>1, <1>2, <1>3, <1>4, <1>6, <1>7, <1>8

\* A shard that is taken into RAM fits what was left.
LEMMA TakeBudget ==
    ASSUME BudgetInv, TakeShard
    PROVE  BudgetInv'
<1>1. PICK id \in todo, n \in Nat \ {0}, tier \in {"fast", "slow", "ssd"} :
         /\ id \in Consoles /\ n <= Routed - next /\ next' = next + n
         /\ units' = [units EXCEPT ![id] = Hold(units[id], n, tier)]
         /\ stages' = [stages EXCEPT ![at].experts = @ \cup {id}]
         /\ todo' = todo \ {id}
         /\ Resident(Hold(units[id], n, tier)) <= units[id].capacity
         /\ phase = "experts" /\ at \in DOMAIN stages
         /\ pass \in {"ram", "ssd", "outside"}
         /\ UNCHANGED <<case, phase, caps, shelves, quotas, at, layer, pass, short>>
  BY ShardTaken
<1> PICK u : u = units[id]
  OBVIOUS
<1> PICK v : v = Hold(u, n, tier)
  OBVIOUS
<1>2. u \in UnitPlans
  BY <1>1 DEF BudgetInv, PlanTypeOK
<1>3. v \in UnitPlans /\ v.capacity = u.capacity /\ v.fastCapacity = u.fastCapacity
  <2>1. n \in Nat \ {0} /\ tier \in {"fast", "slow", "ssd"}
    BY <1>1
  <2>2. /\ Hold(u, n, tier) \in UnitPlans /\ Hold(u, n, tier).capacity = u.capacity
        /\ Hold(u, n, tier).fastCapacity = u.fastCapacity
    <3>1. Holding(Hold(u, n, tier), u, n, tier)
      BY ONLY BudgetInv, <1>2, <2>1, HoldOK
    <3> QED BY ONLY <3>1 DEF Holding
  <2> QED BY <2>2
<1>4. units' = [units EXCEPT ![id] = v] /\ Resident(v) <= v.capacity
  BY <1>1, <1>3
<1>5. /\ Consoles' = Consoles /\ Routed' = Routed /\ Blocks' = Blocks
      /\ case' \in Cases /\ IsFiniteSet(Consoles') /\ Consoles' \subseteq Nat
      /\ DOMAIN caps' = Consoles' /\ units' \in [Consoles' -> UnitPlans]
      /\ \A c \in Consoles' : caps'[c].storage \in Nat
      /\ \A c \in Consoles' : units'[c] = IF c = id THEN v ELSE units[c]
      /\ FastFits' /\ WithinCapacity'
  BY <1>1, <1>3, <1>4, OneUnitChanges
<1>6. /\ stages' \in Seq(StagePlans(Consoles)) /\ Len(stages') = Len(stages)
      /\ stages'[at].shelf = stages[at].shelf
  <2> PICK stage : stage = stages[at]
    OBVIOUS
  <2> PICK after : after = [stage EXCEPT !.experts = @ \cup {id}]
    OBVIOUS
  <2>1. stage \in StagePlans(Consoles) /\ stages \in Seq(StagePlans(Consoles))
    BY <1>1 DEF BudgetInv, PlanTypeOK
  <2>2. after \in StagePlans(Consoles) /\ after.shelf = stage.shelf
    BY <1>1, <2>1 DEF StagePlans
  <2>3. stages' = [stages EXCEPT ![at] = after]
    BY <1>1
  <2> PICK S : S = StagePlans(Consoles)
    OBVIOUS
  <2>4. \A q \in Seq(S), x \in S : \A i \in DOMAIN q :
           /\ [q EXCEPT ![i] = x] \in Seq(S) /\ Len([q EXCEPT ![i] = x]) = Len(q)
           /\ [q EXCEPT ![i] = x][i] = x
    OBVIOUS
  <2>5. at \in DOMAIN stages
    BY <1>1
  <2>6. /\ [stages EXCEPT ![at] = after] \in Seq(S)
        /\ Len([stages EXCEPT ![at] = after]) = Len(stages)
        /\ [stages EXCEPT ![at] = after][at] = after
    BY <2>1, <2>2, <2>4, <2>5, ZenonT(40)
  <2> QED BY <2>2, <2>3, <2>6
<1>7. next' \in 0..Routed'
  <2> PICK routed \in Nat, x \in Nat : routed = Routed /\ x = next
    BY PlanNumbers DEF BudgetInv, PlanTypeOK
  <2>1. x + n <= routed
    BY <1>1
  <2> QED BY <1>1, <1>5, <2>1
<1>8. PlanTypeOK'
  BY <1>1, <1>5, <1>6, <1>7 DEF BudgetInv, PlanTypeOK
<1>9. PassInv'
  BY <1>1, <1>6 DEF BudgetInv, PassInv
<1> QED BY <1>1, <1>5, <1>8, <1>9, PlacingKept DEF BudgetInv

\* A unit that is passed by, and a pass that begins, add nothing.
LEMMA PassBudget ==
    ASSUME BudgetInv, PassBy \/ NextPass
    PROVE  BudgetInv'
<1>1. /\ phase = "experts" /\ phase' = phase /\ at <= Len(stages)
      /\ UNCHANGED <<case, caps, units, shelves, quotas, stages, at, layer, next, short>>
  BY DEF PassBy, Turn, NextPass
<1>2. at \in DOMAIN stages /\ stages[at].shelf \subseteq Consoles
  <2>1. at \in DOMAIN stages
    BY <1>1 DEF BudgetInv, PlanTypeOK
  <2>2. stages[at] \in StagePlans(Consoles)
    BY <2>1 DEF BudgetInv, PlanTypeOK
  <2> QED BY <2>1, <2>2 DEF StagePlans
<1>3. /\ pass' \in {"none", "ram", "ssd", "outside"} /\ todo' \subseteq Consoles /\ PassInv'
  <2>1. CASE PassBy
    <3>1. todo' \subseteq todo /\ pass' = pass
      BY <2>1 DEF PassBy, Turn
    <3> QED BY <1>1, <3>1 DEF BudgetInv, PlanTypeOK, PassInv
  <2>2. CASE NextPass
    <3>1. /\ pass # "outside"
          /\ pass' = CASE pass = "none" -> "ram"
                       [] pass = "ram"  -> IF case.ssd THEN "ssd" ELSE "outside"
                       [] pass = "ssd"  -> "outside"
          /\ todo' = IF pass' = "outside" THEN Consoles \ stages[at].shelf ELSE stages[at].shelf
      BY <2>2 DEF NextPass
    <3>2. pass \in {"none", "ram", "ssd"}
      BY <3>1 DEF BudgetInv, PlanTypeOK
    <3>3. pass' \in {"ram", "ssd", "outside"}
      BY <3>1, <3>2
    <3>4. todo' \subseteq Consoles /\ (pass' \in {"ram", "ssd"} => todo' = stages[at].shelf)
      BY <1>2, <3>1
    <3> QED BY <1>1, <3>3, <3>4 DEF BudgetInv, PassInv
  <2> QED BY <2>1, <2>2
<1>4. PlanTypeOK'
  BY <1>1, <1>3, UnitsKept DEF BudgetInv, PlanTypeOK
<1> QED BY <1>1, <1>3, <1>4, UnitsKept, PlacingKept DEF BudgetInv

\* A layer that is done with adds nothing.
LEMMA NextLayerBudget ==
    ASSUME BudgetInv, NextLayer \/ EndExperts
    PROVE  BudgetInv'
<1>1. CASE NextLayer
  <2>1. /\ phase = "experts" /\ phase' = phase /\ at <= Len(stages)
        /\ short' = IF Dense(layer) THEN short ELSE short + Left * Expert
        /\ layer' = layer + 1
        /\ at' = IF layer' = stages[at].first + stages[at].n THEN at + 1 ELSE at
        /\ pass' = "none" /\ todo' = {} /\ next' = 0
        /\ UNCHANGED <<case, phase, caps, units, shelves, quotas, stages>>
    BY <1>1 DEF NextLayer
  <2>2. short' \in Nat
    <3> PICK e \in Nat : e = Expert
      BY PlanNumbers DEF BudgetInv, PlanTypeOK
    <3>1. Left \in Nat
      BY PlanNumbers DEF BudgetInv, PlanTypeOK, Left
    <3> PICK some \in Nat : some = Left
      BY <3>1
    <3>2. some * e \in Nat
      OBVIOUS
    <3>3. short \in Nat /\ Left * Expert = some * e
      BY DEF BudgetInv, PlanTypeOK
    <3>4. short + some * e \in Nat
      BY <3>2, <3>3
    <3> QED BY <2>1, <3>3, <3>4
  <2>3. layer' \in Nat /\ at' \in Nat \ {0}
    BY <2>1 DEF BudgetInv, PlanTypeOK
  <2>4. next' \in 0..Routed'
    BY <2>1, UnitsKept, PlanNumbers, SMTT(30) DEF BudgetInv, PlanTypeOK
  <2>5. PlanTypeOK'
    BY <2>1, <2>2, <2>3, <2>4, UnitsKept DEF BudgetInv, PlanTypeOK
  <2>6. PassInv'
    BY <2>1 DEF PassInv
  <2> QED BY <2>1, <2>5, <2>6, UnitsKept, PlacingKept DEF BudgetInv
<1>2. CASE EndExperts
  <2>1. /\ phase = "experts" /\ phase' = "embedding" /\ at > Len(stages)
        /\ UNCHANGED <<case, caps, units, shelves, quotas, stages, at, layer, pass, todo, next,
                       short>>
    BY <1>2 DEF EndExperts
  <2>2. PlanTypeOK'
    BY <2>1, UnitsKept DEF BudgetInv, PlanTypeOK
  <2>3. PassInv'
    BY <2>1 DEF BudgetInv, PassInv
  <2> QED BY <2>1, <2>2, <2>3, UnitsKept, PlacingKept DEF BudgetInv
<1> QED BY <1>1, <1>2

\* A piece goes to RAM where there is room for it, and its bytes to one of the two.
LEMMA PieceOK ==
    ASSUME NEW u \in UnitPlans, NEW piece \in {"embedding", "lm_head"}, NEW size \in Nat,
           Resident(u) <= u.capacity
    PROVE  /\ WithPiece(u, piece, size) \in UnitPlans
           /\ WithPiece(u, piece, size).capacity = u.capacity
           /\ WithPiece(u, piece, size).fastCapacity = u.fastCapacity
           /\ WithPiece(u, piece, size).shards = u.shards
           /\ WithPiece(u, piece, size).hosted = u.hosted
           /\ Resident(WithPiece(u, piece, size)) <= u.capacity
           /\ OnUnits(WithPiece(u, piece, size)) = OnUnits(u) + size
<1> PICK v : v = WithPiece(u, piece, size)
  OBVIOUS
<1> PICK where : where = IF Room(u) >= size THEN "ram" ELSE "ssd"
  OBVIOUS
<1>1. PICK a \in Nat : a = IF Room(u) >= size THEN size ELSE 0
  OBVIOUS
<1>2. PICK b \in Nat : b = IF Room(u) >= size THEN 0 ELSE size
  OBVIOUS
<1>3. v = [u EXCEPT !.io = @ \cup {<<piece, where>>}, !.hot = @ + a, !.ssd = @ + b]
  BY <1>1, <1>2, Zenon DEF WithPiece
<1>4. /\ v.hosted = u.hosted /\ v.io = u.io \cup {<<piece, where>>} /\ v.hot = u.hot + a
      /\ v.kv = u.kv /\ v.shards = u.shards /\ v.fast = u.fast /\ v.slow = u.slow
      /\ v.ssd = u.ssd + b /\ v.capacity = u.capacity /\ v.fastCapacity = u.fastCapacity
      /\ v.gflops = u.gflops
  BY <1>3 DEF UnitPlans
<1>5. /\ u.hot \in Nat /\ u.fast \in Nat /\ u.slow \in Nat /\ u.ssd \in Nat /\ u.kv \in Nat
      /\ u.capacity \in Nat
  BY DEF UnitPlans
<1>6. a \in Nat /\ b \in Nat
  BY <1>1, <1>2
<1>7. v \in UnitPlans
  <2> PICK w : w = [hosted |-> u.hosted, io |-> u.io \cup {<<piece, where>>},
                    shards |-> u.shards,
                    hot |-> u.hot + a, fast |-> u.fast, slow |-> u.slow, ssd |-> u.ssd + b,
                    kv |-> u.kv, capacity |-> u.capacity, fastCapacity |-> u.fastCapacity,
                    gflops |-> u.gflops]
    OBVIOUS
  <2>1. u.hot + a \in Nat /\ u.ssd + b \in Nat
    BY <1>5, <1>6
  <2>2. u.io \cup {<<piece, where>>} \in SUBSET IoPieces
    <3>1. <<piece, where>> \in {"embedding", "lm_head"} \X {"ram", "ssd"}
      OBVIOUS
    <3>2. <<piece, where>> \in IoPieces
      BY <3>1 DEF IoPieces
    <3>3. u.io \in SUBSET IoPieces
      BY DEF UnitPlans
    <3> QED BY <3>2, <3>3
  <2>3. w \in UnitPlans
    BY <2>1, <2>2 DEF UnitPlans
  <2>4. v = w
    BY <1>3, <1>4 DEF UnitPlans
  <2> QED BY <2>3, <2>4
<1>8. Resident(v) = Resident(u) + a /\ OnUnits(v) = OnUnits(u) + (a + b)
  BY <1>4, <1>5, <1>6 DEF Resident, OnUnits
<1>9. a + b = size
  <2>1. size \in Nat
    OBVIOUS
  <2>2. CASE Room(u) >= size
    BY <1>1, <1>2, <2>2
  <2>3. CASE ~(Room(u) >= size)
    BY <1>1, <1>2, <2>3
  <2> QED BY <2>2, <2>3
<1>10. Resident(u) + a <= u.capacity
  <2>1. Resident(u) \in Nat /\ Room(u) \in Int /\ Room(u) = u.capacity - Resident(u)
    BY RoomIsInt
  <2> PICK res \in Nat, cap \in Nat, room \in Int :
         res = Resident(u) /\ cap = u.capacity /\ room = Room(u) /\ room = cap - res
    BY <1>5, <2>1
  <2>2. CASE room >= size
    <3>1. a = size
      BY <1>1, <2>2
    <3>2. res + a <= cap
      BY <2>2, <3>1
    <3> QED BY <3>2
  <2>3. CASE ~(room >= size)
    <3>1. a = 0
      BY <1>1, <2>3
    <3> QED BY <3>1
  <2> QED BY <2>2, <2>3
<1> QED BY <1>4, <1>7, <1>8, <1>9, <1>10

\* The unit the piece is given to, and nothing else, changes.
LEMMA Assigned ==
    ASSUME BudgetInv, AssignEmbedding \/ AssignHead
    PROVE  \E id \in Consoles, v \in UnitPlans :
              /\ units' = [units EXCEPT ![id] = v] /\ v.shards = units[id].shards
              /\ v.hosted = units[id].hosted
              /\ v.capacity = units[id].capacity /\ v.fastCapacity = units[id].fastCapacity
              /\ Resident(v) <= v.capacity
              /\ OnUnits(v) = OnUnits(units[id]) + EmbeddingBytes(profile)
<1>1. PICK piece \in {"embedding", "lm_head"} : AssignPiece(piece)
  BY DEF AssignEmbedding, AssignHead
<1>2. PICK size \in Nat : size = EmbeddingBytes(profile)
  BY PlanNumbers DEF BudgetInv, PlanTypeOK
<1>3. PICK id \in Consoles : units' = [units EXCEPT ![id] = WithPiece(units[id], piece, size)]
  BY <1>1, <1>2 DEF AssignPiece
<1> PICK u : u = units[id]
  OBVIOUS
<1>4. u \in UnitPlans /\ Resident(u) <= u.capacity
  BY <1>3 DEF BudgetInv, PlanTypeOK, WithinCapacity
<1> PICK v : v = WithPiece(u, piece, size)
  OBVIOUS
<1>5. /\ v \in UnitPlans /\ v.capacity = u.capacity /\ v.fastCapacity = u.fastCapacity
      /\ v.shards = u.shards /\ v.hosted = u.hosted /\ Resident(v) <= u.capacity
      /\ OnUnits(v) = OnUnits(u) + size
  <2>1. piece \in {"embedding", "lm_head"} /\ size \in Nat
    BY <1>1, <1>2
  <2> QED BY <1>4, <2>1, PieceOK
<1> QED BY <1>2, <1>3, <1>5

\* A piece is put into RAM only where it fits.
LEMMA AssignBudget ==
    ASSUME BudgetInv, AssignEmbedding \/ AssignHead
    PROVE  BudgetInv'
<1>1. /\ phase \in {"embedding", "lm_head"} /\ phase' \in {"lm_head", "error", "done"}
      /\ UNCHANGED <<case, caps, shelves, quotas, stages, at, layer, pass, todo, next, short>>
  BY DEF AssignEmbedding, AssignHead, AssignPiece
<1>2. PICK id \in Consoles, v \in UnitPlans :
              /\ units' = [units EXCEPT ![id] = v]
              /\ v.capacity = units[id].capacity /\ v.fastCapacity = units[id].fastCapacity
              /\ Resident(v) <= v.capacity
  BY Assigned
<1>3. /\ Consoles' = Consoles /\ Routed' = Routed /\ Blocks' = Blocks
      /\ case' \in Cases /\ IsFiniteSet(Consoles') /\ Consoles' \subseteq Nat
      /\ DOMAIN caps' = Consoles' /\ units' \in [Consoles' -> UnitPlans]
      /\ \A c \in Consoles' : caps'[c].storage \in Nat
      /\ \A c \in Consoles' : units'[c] = IF c = id THEN v ELSE units[c]
      /\ FastFits' /\ WithinCapacity'
  BY <1>1, <1>2, OneUnitChanges
<1>4. PlanTypeOK'
  BY <1>1, <1>3 DEF BudgetInv, PlanTypeOK
<1>5. PassInv'
  BY <1>1 DEF BudgetInv, PassInv
<1> QED BY <1>1, <1>3, <1>4, <1>5, PlacingKept DEF BudgetInv

\* Every step of the plan keeps to the budget.
LEMMA StepBudget ==
    ASSUME BudgetInv, [PlanNext]_planVars
    PROVE  BudgetInv'
<1>1. CASE RefuseFleet
  BY <1>1, FailBudget DEF RefuseFleet
<1>2. CASE LoadFleet
  BY <1>2, LoadBudget
<1>3. CASE Shelve
  BY <1>3, ShelveBudget
<1>4. CASE DealLayer \/ EndDeal
  BY <1>4, DealBudget
<1>5. CASE Skip
  BY <1>5, SkipBudget
<1>6. CASE Unhosted
  BY <1>6, FailBudget DEF Unhosted
<1>7. CASE HostRange
  BY <1>7, HostRangeBudget
<1>8. CASE EndRanges
  BY <1>8, EndRangesBudget
<1>9. CASE TakeShard
  BY <1>9, TakeBudget
<1>10. CASE PassBy \/ NextPass
  BY <1>10, PassBudget
<1>11. CASE NextLayer \/ EndExperts
  BY <1>11, NextLayerBudget
<1>12. CASE AssignEmbedding \/ AssignHead
  BY <1>12, AssignBudget
<1>13. CASE UNCHANGED planVars
  <2>1. UNCHANGED <<case, phase, caps, units, shelves, quotas, stages, at, layer, pass, todo,
                    next, short>>
    BY <1>13 DEF planVars
  <2>2. PlanTypeOK'
    BY <2>1, UnitsKept DEF BudgetInv, PlanTypeOK
  <2>3. SizeInv' /\ FreshInv' /\ PassInv' /\ QuotasInv'
    <3>1. Consoles' = Consoles /\ Blocks' = Blocks
      BY <2>1, UnitsKept
    <3> QED BY <2>1, <3>1 DEF BudgetInv, SizeInv, FreshInv, PassInv, QuotasInv
  <2> QED BY <2>1, <2>2, <2>3, UnitsKept DEF BudgetInv
<1> QED BY <1>1, <1>2, <1>3, <1>4, <1>5, <1>6, <1>7, <1>8, <1>9, <1>10, <1>11, <1>12, <1>13
        DEF PlanNext

\* The invariant holds throughout: the budget of each unit, and what it rests on.
THEOREM PlanBudget == PlanSpec => []BudgetInv
<1>1. PlanInit => BudgetInv
  BY InitBudget
<1>2. BudgetInv /\ [PlanNext]_planVars => BudgetInv'
  BY StepBudget
<1> QED BY <1>1, <1>2, PTL DEF PlanSpec

\* What a plan has so far is of its type, whatever step it is at.
THEOREM PlanTypeCorrect == PlanSpec => []PlanTypeOK
<1>1. BudgetInv => PlanTypeOK
  BY DEF BudgetInv
<1> QED BY <1>1, PlanBudget, PTL

\* No unit is asked to hold more in RAM than what is left of it after every loss and the
\* headroom: not by the shelf that hosts blocks on it, nor by the passes over the experts,
\* nor by the ends of the model.
THEOREM PlanWithinCapacity == PlanSpec => []WithinCapacity
<1>1. BudgetInv => WithinCapacity
  BY DEF BudgetInv
<1> QED BY <1>1, PlanBudget, PTL


-----------------------------------------------------------------------------
(* The plan is whole: the ranges of the stages. *)

\* The ranges are dealt, the experts and the ends are being placed.
Placing == phase \in {"experts", "embedding", "lm_head", "done"}

\* The layers of a stage, and the first after them.
LayersOf(s) == s.first..s.first + s.n - 1

Reach(s) == s.first + s.n

\* The stages follow one another and cover the first k layers.
Laid(k) ==
    /\ \A i \in DOMAIN stages : stages[i].first = IF i = 1 THEN 0 ELSE Reach(stages[i - 1])
    /\ \A i, j \in DOMAIN stages : i < j => Reach(stages[i]) <= stages[j].first
    /\ \A i \in DOMAIN stages : Reach(stages[i]) <= k
    /\ IF Len(stages) = 0 THEN k = 0 ELSE Reach(stages[Len(stages)]) = k
    /\ \A l \in 0..k - 1 : \E i \in DOMAIN stages : l \in LayersOf(stages[i])

\* The ranges cover what was dealt, later all of the model; experts are placed layer by layer,
\* each in the turn of the stage it is of.
StagesInv ==
    /\ phase = "range" => Laid(layer)
    /\ Placing => Laid(Blocks)
    /\ phase = "experts" => /\ at <= Len(stages) + 1
                            /\ at <= Len(stages) => layer \in LayersOf(stages[at])
                            /\ at > Len(stages) => layer = Blocks
    /\ phase \in {"embedding", "lm_head", "done"} => layer = Blocks

\* A unit has the hot blocks of the layers of the stages it is the host of, and no other.
HostedInv ==
    \A id \in Consoles : \A l \in Nat :
       l \in units[id].hosted <=>
          \E i \in DOMAIN stages : stages[i].host = id /\ l \in LayersOf(stages[i])

\* Stages may be asked for more units' experts, and stay as they are otherwise.
SameStages ==
    /\ Len(stages') = Len(stages) /\ DOMAIN stages' = DOMAIN stages
    /\ \A i \in DOMAIN stages : /\ stages'[i].first = stages[i].first
                                /\ stages'[i].n = stages[i].n
                                /\ stages'[i].host = stages[i].host

\* What the stages are made of.
LEMMA StageIs ==
    ASSUME BudgetInv
    PROVE  /\ Len(stages) \in Nat /\ DOMAIN stages = 1..Len(stages)
           /\ \A i \in 1..Len(stages) :
                 /\ stages[i].first \in Nat /\ stages[i].n \in Nat \ {0}
                 /\ stages[i].host \in Consoles /\ stages[i].experts \subseteq Consoles
<1>1. stages \in Seq(StagePlans(Consoles))
  BY DEF BudgetInv, PlanTypeOK
<1>2. \A i \in 1..Len(stages) : stages[i] \in StagePlans(Consoles)
  BY <1>1
<1> QED BY <1>1, <1>2 DEF StagePlans

\* Stages that stay as they are cover what they covered.
LEMMA LaidKept ==
    ASSUME BudgetInv, SameStages, NEW k, Laid(k)
    PROVE  Laid(k)'
<1>1. Len(stages) \in Nat /\ DOMAIN stages = 1..Len(stages)
  BY StageIs
<1>2. \A i \in DOMAIN stages : /\ LayersOf(stages'[i]) = LayersOf(stages[i])
                               /\ Reach(stages'[i]) = Reach(stages[i])
  BY DEF SameStages, LayersOf, Reach
<1>3. \A i \in DOMAIN stages : i # 1 => i - 1 \in DOMAIN stages
  BY <1>1
<1>4. Len(stages) # 0 => Len(stages) \in DOMAIN stages
  BY <1>1
<1>5. \A i \in DOMAIN stages' : stages'[i].first = IF i = 1 THEN 0 ELSE Reach(stages'[i - 1])
  BY <1>2, <1>3 DEF SameStages, Laid
<1>6. \A i, j \in DOMAIN stages' : i < j => Reach(stages'[i]) <= stages'[j].first
  BY <1>2 DEF SameStages, Laid
<1>7. \A i \in DOMAIN stages' : Reach(stages'[i]) <= k
  BY <1>2 DEF SameStages, Laid
<1>8. IF Len(stages') = 0 THEN k = 0 ELSE Reach(stages'[Len(stages')]) = k
  BY <1>2, <1>4 DEF SameStages, Laid
<1>9. \A l \in 0..k - 1 : \E i \in DOMAIN stages' : l \in LayersOf(stages'[i])
  BY <1>2 DEF SameStages, Laid
<1> QED BY <1>5, <1>6, <1>7, <1>8, <1>9 DEF Laid

\* Blocks that stay where they are stay with their stages.
LEMMA HostedKept ==
    ASSUME BudgetInv, HostedInv, SameStages, Consoles' = Consoles,
           \A id \in Consoles : units'[id].hosted = units[id].hosted
    PROVE  HostedInv'
<1>1. \A i \in DOMAIN stages : LayersOf(stages'[i]) = LayersOf(stages[i])
  BY DEF SameStages, LayersOf
<1>2. SUFFICES ASSUME NEW id \in Consoles, NEW l \in Nat
               PROVE  l \in units'[id].hosted <=>
                        \E i \in DOMAIN stages' : stages'[i].host = id
                                                    /\ l \in LayersOf(stages'[i])
  BY DEF HostedInv
<1>3. l \in units[id].hosted <=>
         \E i \in DOMAIN stages : stages[i].host = id /\ l \in LayersOf(stages[i])
  BY DEF HostedInv
<1> QED BY <1>1, <1>3 DEF SameStages

\* The stage that is appended takes the layers on from where the others end.
LEMMA LaidFurther ==
    ASSUME BudgetInv, NEW k \in Nat, Laid(k), NEW stage \in StagePlans(Consoles),
           stage.first = k, stages' = Append(stages, stage), NEW m, m = k + stage.n
    PROVE  Laid(m)'
<1>1. PICK len \in Nat : len = Len(stages) /\ DOMAIN stages = 1..len
  BY StageIs
<1>2. \A i \in 1..len : stages[i].first \in Nat /\ stages[i].n \in Nat \ {0}
  BY <1>1, StageIs
<1>3. stage.n \in Nat \ {0} /\ stage.first \in Nat
  BY DEF StagePlans
<1>4. /\ DOMAIN stages' = 1..len + 1 /\ Len(stages') = len + 1 /\ stages'[len + 1] = stage
      /\ \A i \in 1..len : stages'[i] = stages[i]
  BY <1>1 DEF BudgetInv, PlanTypeOK
<1>5. Reach(stage) = m /\ m \in Nat /\ k <= m
  BY <1>3 DEF Reach
<1>6. \A i \in 1..len : Reach(stages[i]) \in Nat /\ Reach(stages[i]) <= k
  BY <1>1, <1>2 DEF Reach, Laid
<1>7. \A i \in DOMAIN stages' : stages'[i].first = IF i = 1 THEN 0 ELSE Reach(stages'[i - 1])
  <2> TAKE i \in DOMAIN stages'
  <2>1. CASE i \in 1..len
    <3>1. i # 1 => i - 1 \in 1..len
      BY <1>1, <2>1
    <3>2. stages[i].first = IF i = 1 THEN 0 ELSE Reach(stages[i - 1])
      BY <1>1, <2>1 DEF Laid
    <3> QED BY <1>4, <2>1, <3>1, <3>2
  <2>2. CASE i = len + 1
    <3>1. CASE len = 0
      BY <1>1, <1>4, <2>2, <3>1 DEF Laid
    <3>2. CASE len # 0
      <4>1. i - 1 = len /\ len \in 1..len /\ i # 1
        BY <1>1, <2>2, <3>2
      <4>2. Reach(stages[len]) = k
        BY <1>1, <3>2 DEF Laid
      <4> QED BY <1>4, <2>2, <4>1, <4>2
    <3> QED BY <3>1, <3>2
  <2> QED BY <1>1, <1>4, <2>1, <2>2
<1>8. \A i, j \in DOMAIN stages' : i < j => Reach(stages'[i]) <= stages'[j].first
  <2> TAKE i, j \in DOMAIN stages'
  <2> HAVE i < j
  <2>1. i \in 1..len /\ stages'[i] = stages[i] /\ (j \in 1..len \/ j = len + 1)
    BY <1>1, <1>4
  <2>2. CASE j \in 1..len
    BY <1>1, <1>4, <2>1, <2>2 DEF Laid
  <2>3. CASE j = len + 1
    BY <1>4, <1>6, <2>1, <2>3
  <2> QED BY <2>1, <2>2, <2>3
<1>9. \A i \in DOMAIN stages' : Reach(stages'[i]) <= m
  <2> TAKE i \in DOMAIN stages'
  <2>1. CASE i \in 1..len
    BY <1>4, <1>5, <1>6, <2>1
  <2>2. CASE i = len + 1
    BY <1>4, <1>5, <2>2
  <2> QED BY <1>1, <1>4, <2>1, <2>2
<1>10. Len(stages') # 0 /\ Reach(stages'[Len(stages')]) = m
  BY <1>1, <1>4, <1>5
<1>11. \A l \in 0..m - 1 : \E i \in DOMAIN stages' : l \in LayersOf(stages'[i])
  <2> TAKE l \in 0..m - 1
  <2>1. CASE l \in 0..k - 1
    <3>1. PICK i \in 1..len : l \in LayersOf(stages[i])
      BY <1>1, <2>1 DEF Laid
    <3> QED BY <1>1, <1>4, <3>1
  <2>2. CASE l \notin 0..k - 1
    <3>1. l \in k..m - 1
      BY <1>5, <2>2
    <3>2. LayersOf(stage) = k..m - 1
      <4>1. LayersOf(stage) = stage.first..Reach(stage) - 1
        BY <1>3 DEF LayersOf, Reach
      <4> QED BY <1>5, <4>1
    <3>3. len + 1 \in DOMAIN stages'
      BY <1>1, <1>4
    <3> QED BY <1>4, <3>1, <3>2, <3>3
  <2> QED BY <2>1, <2>2
<1> QED BY <1>7, <1>8, <1>9, <1>10, <1>11 DEF Laid

\* The host of a range has the blocks of the new stage on top of none.
LEMMA HostedByRange ==
    ASSUME BudgetInv, BudgetInv', HostedInv, HostRange
    PROVE  HostedInv'
<1>1. PICK n \in Nat \ {0}, host \in Consoles :
              /\ n <= quotas[at] /\ layer + n <= Blocks
              /\ at \in DOMAIN shelves /\ host \in shelves[at]
              /\ Need(layer, n) <= units[host].fastCapacity
              /\ units' = [units EXCEPT ![host] = Host(units[host], layer, n)]
              /\ stages' = Append(stages, [first |-> layer, n |-> n, host |-> host,
                                           shelf |-> shelves[at], experts |-> shelves[at]])
              /\ quotas' = Spill(at, quotas[at] - n)
              /\ layer' = layer + n
  BY Ranged
<1> PICK stage : stage = [first |-> layer, n |-> n, host |-> host,
                          shelf |-> shelves[at], experts |-> shelves[at]]
  OBVIOUS
<1> PICK mine : mine = layer..layer + n - 1
  OBVIOUS
<1>2. LayersOf(stage) = mine /\ stage.host = host
  BY SMTT(30) DEF LayersOf
<1>3. PICK len \in Nat : len = Len(stages) /\ DOMAIN stages = 1..len
  BY StageIs, Zenon
<1>4. /\ DOMAIN stages' = 1..len + 1 /\ stages'[len + 1] = stage
      /\ \A i \in 1..len : stages'[i] = stages[i]
  <2>1. stages' = Append(stages, stage) /\ stages \in Seq(StagePlans(Consoles))
    BY <1>1 DEF BudgetInv, PlanTypeOK
  <2> QED BY <1>3, <2>1
<1>5. /\ Host(units[host], layer, n).hosted = units[host].hosted \cup mine
      /\ phase = "range"
  <2>1. phase = "range"
    BY DEF HostRange, InRange
  <2> QED BY <1>1, <2>1, HostOK
<1>6. units \in [Consoles -> UnitPlans] /\ Consoles' = Consoles
  <2>1. units \in [Consoles -> UnitPlans]
    BY DEF BudgetInv, PlanTypeOK
  <2> QED BY <1>1, <2>1 DEF Consoles
<1>7. \A id \in Consoles : units'[id].hosted = IF id = host THEN units[id].hosted \cup mine
                                               ELSE units[id].hosted
  BY <1>1, <1>5, <1>6
<1>8. SUFFICES ASSUME NEW id \in Consoles, NEW l \in Nat
               PROVE  l \in units'[id].hosted <=>
                        \E i \in DOMAIN stages' : stages'[i].host = id
                                                    /\ l \in LayersOf(stages'[i])
  BY <1>6 DEF HostedInv
<1>9. l \in units[id].hosted <=>
         \E i \in 1..len : stages[i].host = id /\ l \in LayersOf(stages[i])
  BY <1>3 DEF HostedInv
<1>10. len + 1 \in DOMAIN stages' /\ 1..len \subseteq DOMAIN stages'
         /\ \A i \in DOMAIN stages' : i \in 1..len \/ i = len + 1
  BY <1>3, <1>4
<1>11. ASSUME NEW i \in DOMAIN stages', stages'[i].host = id, l \in LayersOf(stages'[i])
       PROVE  l \in units'[id].hosted
  <2>1. CASE i \in 1..len
    BY <1>4, <1>7, <1>9, <1>11, <2>1
  <2>2. CASE i = len + 1
    BY <1>2, <1>4, <1>7, <1>11, <2>2
  <2> QED BY <1>10, <2>1, <2>2
<1>12. ASSUME l \in units'[id].hosted
       PROVE  \E i \in DOMAIN stages' : stages'[i].host = id /\ l \in LayersOf(stages'[i])
  <2>1. CASE l \in units[id].hosted
    BY <1>4, <1>9, <1>10, <2>1
  <2>2. CASE l \notin units[id].hosted
    <3>1. id = host /\ l \in mine
      BY <1>7, <1>12, <2>2
    <3> QED BY <1>2, <1>4, <1>10, <3>1
  <2> QED BY <2>1, <2>2
<1> QED BY <1>11, <1>12

\* A unit that takes experts is asked for them, and that is all that changes of the stages.
LEMMA TakeSame ==
    ASSUME BudgetInv, TakeShard
    PROVE  SameStages
<1>1. PICK id \in todo :
         /\ id \in Consoles /\ at \in DOMAIN stages
         /\ stages' = [stages EXCEPT ![at].experts = @ \cup {id}]
  BY ShardTaken
<1>2. stages \in Seq(StagePlans(Consoles))
  BY DEF BudgetInv, PlanTypeOK
<1>3. \A i \in DOMAIN stages : stages[i] \in StagePlans(Consoles)
  BY <1>2
<1>4. DOMAIN stages' = DOMAIN stages /\ Len(stages') = Len(stages)
  BY <1>1, <1>2
<1>5. \A i \in DOMAIN stages :
         stages'[i] = IF i = at THEN [stages[i] EXCEPT !.experts = @ \cup {id}] ELSE stages[i]
  BY <1>1, <1>2
<1> QED BY <1>3, <1>4, <1>5 DEF SameStages, StagePlans

\* Every step of the plan keeps the blocks with the hosts of their stages.
LEMMA HostedStep ==
    ASSUME BudgetInv, BudgetInv', HostedInv, [PlanNext]_planVars
    PROVE  HostedInv'
<1>1. CASE LoadFleet
  <2>1. phase' = "shelve"
    BY <1>1 DEF LoadFleet
  <2>2. stages' = <<>> /\ shelves' = <<>>
    BY <2>1 DEF BudgetInv, FreshInv
  <2>3. \A id \in Consoles' : NoBlocks(units'[id])
    BY <2>1, <2>2 DEF BudgetInv, FreshInv
  <2> QED BY <2>2, <2>3 DEF HostedInv, NoBlocks
<1>2. CASE HostRange
  BY <1>2, HostedByRange
<1>3. CASE TakeShard
  <2>1. PICK id \in todo, n \in Nat \ {0}, tier \in {"fast", "slow", "ssd"} :
         /\ id \in Consoles
         /\ units' = [units EXCEPT ![id] = Hold(units[id], n, tier)]
         /\ stages' = [stages EXCEPT ![at].experts = @ \cup {id}]
         /\ at \in DOMAIN stages
    BY <1>3, ShardTaken
  <2>2. units \in [Consoles -> UnitPlans]
    BY DEF BudgetInv, PlanTypeOK
  <2>3. Hold(units[id], n, tier).hosted = units[id].hosted
    <3>1. units[id] \in UnitPlans /\ n \in Nat \ {0} /\ tier \in {"fast", "slow", "ssd"}
      BY <2>1, <2>2
    <3>2. Holding(Hold(units[id], n, tier), units[id], n, tier)
      BY ONLY BudgetInv, <3>1, HoldOK
    <3> QED BY ONLY <3>2 DEF Holding
  <2>4. Consoles' = Consoles /\ \A c \in Consoles : units'[c].hosted = units[c].hosted
    BY <2>1, <2>2, <2>3 DEF Consoles
  <2>5. SameStages
    BY <1>3, TakeSame
  <2> QED BY <2>4, <2>5, HostedKept
<1>4. CASE AssignEmbedding \/ AssignHead
  <2>1. PICK id \in Consoles, v \in UnitPlans :
           units' = [units EXCEPT ![id] = v] /\ v.hosted = units[id].hosted
    BY <1>4, Assigned
  <2>2. units \in [Consoles -> UnitPlans]
    BY DEF BudgetInv, PlanTypeOK
  <2>3. Consoles' = Consoles /\ \A c \in Consoles : units'[c].hosted = units[c].hosted
    BY <2>1, <2>2 DEF Consoles
  <2>4. SameStages
    BY <1>4 DEF AssignEmbedding, AssignHead, AssignPiece, SameStages
  <2> QED BY <2>3, <2>4, HostedKept
<1>5. ASSUME units' = units, stages' = stages
      PROVE  HostedInv'
  BY <1>5 DEF HostedInv, Consoles, LayersOf
<1>6. CASE \/ RefuseFleet \/ Shelve \/ DealLayer \/ EndDeal \/ Skip \/ Unhosted \/ EndRanges
           \/ PassBy \/ NextPass \/ NextLayer \/ EndExperts
  BY <1>5, <1>6 DEF RefuseFleet, Shelve, DealLayer, EndDeal, Skip, Unhosted, EndRanges, PassBy,
     Turn, NextPass, NextLayer, EndExperts
<1>7. CASE UNCHANGED planVars
  BY <1>5, <1>7 DEF planVars
<1> QED BY <1>1, <1>2, <1>3, <1>4, <1>6, <1>7 DEF PlanNext

\* While experts and the ends are placed the ranges stay, and so does the turn.
LEMMA StagesKept ==
    ASSUME BudgetInv, StagesInv, Placing, SameStages, UNCHANGED <<case, at, layer>>,
           phase' # "range", phase' = "experts" => phase = "experts",
           phase' \in {"embedding", "lm_head", "done"} => layer = Blocks
    PROVE  StagesInv'
<1>1. PICK k : k = Blocks /\ Blocks' = k
  BY DEF Blocks, profile
<1>2. Laid(k)'
  BY <1>1, LaidKept DEF StagesInv
<1>3. \A i \in DOMAIN stages : LayersOf(stages'[i]) = LayersOf(stages[i])
  BY DEF SameStages, LayersOf
<1>4. (Placing => Laid(Blocks))'
  BY <1>1, <1>2 DEF Laid
<1>5. (phase = "experts" => /\ at <= Len(stages) + 1
                            /\ at <= Len(stages) => layer \in LayersOf(stages[at])
                            /\ at > Len(stages) => layer = Blocks)'
  <2>1. SUFFICES ASSUME phase' = "experts"
                 PROVE  /\ at <= Len(stages') + 1
                        /\ at <= Len(stages') => layer \in LayersOf(stages'[at])
                        /\ at > Len(stages') => layer = Blocks'
    OBVIOUS
  <2>2. /\ at <= Len(stages) + 1
        /\ at <= Len(stages) => layer \in LayersOf(stages[at])
        /\ at > Len(stages) => layer = Blocks
    BY <2>1 DEF StagesInv
  <2>3. at <= Len(stages) => at \in DOMAIN stages
    BY DEF BudgetInv, PlanTypeOK
  <2> QED BY <1>1, <1>3, <2>2, <2>3 DEF SameStages
<1> QED BY <1>1, <1>4, <1>5 DEF StagesInv

\* Layer by layer the turn passes from the stage it ends at to the next.
LEMMA NextLayerStages ==
    ASSUME BudgetInv, StagesInv, NextLayer
    PROVE  StagesInv'
<1>1. /\ phase = "experts" /\ phase' = phase /\ at <= Len(stages)
      /\ layer' = layer + 1
      /\ at' = IF layer' = stages[at].first + stages[at].n THEN at + 1 ELSE at
      /\ UNCHANGED <<case, stages>>
  BY DEF NextLayer
<1>2. PICK len \in Nat, blocks \in Nat, a \in Nat \ {0}, l \in Nat :
         /\ len = Len(stages) /\ DOMAIN stages = 1..len /\ blocks = Blocks /\ Blocks' = blocks
         /\ a = at /\ l = layer
  <2>1. Blocks \in Nat /\ at \in Nat \ {0} /\ layer \in Nat
    BY PlanNumbers DEF BudgetInv, PlanTypeOK
  <2>2. Blocks' = Blocks
    BY <1>1 DEF Blocks, profile
  <2> QED BY <2>1, <2>2, StageIs
<1>3. PICK first \in Nat, n \in Nat \ {0} : first = stages[a].first /\ n = stages[a].n
  BY <1>1, <1>2, StageIs
<1>4. l \in first..first + n - 1
  <2>1. layer \in LayersOf(stages[at])
    BY <1>1 DEF StagesInv
  <2> QED BY <1>2, <1>3, <2>1, Zenon DEF LayersOf
<1>5. Laid(blocks)
  BY <1>1, <1>2 DEF StagesInv, Placing
<1>6. Laid(blocks)' /\ stages' = stages
  BY <1>1, <1>5 DEF Laid
<1>7. CASE l + 1 = first + n
  <2>1. at' = a + 1 /\ layer' = first + n
    BY <1>1, <1>2, <1>3, <1>7
  <2>2. CASE a = len
    <3>1. Reach(stages[len]) = blocks
      BY <1>2, <1>5, <2>2 DEF Laid
    <3>2. layer' = blocks
      BY <1>3, <2>1, <2>2, <3>1 DEF Reach
    <3>3. at' = len + 1 /\ Len(stages') = len
      BY <1>2, <1>6, <2>1, <2>2
    <3> QED BY <1>1, <1>2, <1>6, <3>2, <3>3 DEF StagesInv, Laid
  <2>3. CASE a < len
    <3>1. PICK b \in Nat : b = a + 1 /\ b \in 1..len /\ b # 1 /\ b - 1 = a
      BY <1>2, <2>3
    <3>2. stages[b].first = first + n
      BY <1>2, <1>3, <1>5, <3>1 DEF Laid, Reach
    <3>3. stages[b].first \in Nat /\ stages[b].n \in Nat \ {0}
      BY <1>2, <3>1, StageIs
    <3>4. layer' \in LayersOf(stages'[b])
      BY <1>6, <2>1, <3>2, <3>3 DEF LayersOf
    <3>5. at' = b /\ Len(stages') = len /\ b <= len
      BY <1>2, <1>6, <2>1, <3>1
    <3> QED BY <1>1, <1>2, <1>6, <3>4, <3>5 DEF StagesInv, Laid
  <2>4. a <= len
    BY <1>1, <1>2
  <2> QED BY <2>2, <2>3, <2>4
<1>8. CASE l + 1 # first + n
  <2>1. at' = a /\ layer' = l + 1
    BY <1>1, <1>2, <1>3, <1>8
  <2>2. layer' \in LayersOf(stages'[a])
    <3>1. l + 1 \in first..first + n - 1
      BY <1>3, <1>4, <1>8
    <3> QED BY <1>3, <1>6, <2>1, <3>1, Zenon DEF LayersOf
  <2>3. at' <= Len(stages')
    BY <1>1, <1>2, <1>6, <2>1
  <2> QED BY <1>1, <1>2, <1>6, <2>1, <2>2, <2>3 DEF StagesInv, Laid
<1> QED BY <1>7, <1>8

\* No range reaches beyond the model.
LEMMA LayersAreModels ==
    ASSUME BudgetInv, phase = "range"
    PROVE  layer <= Blocks
<1>1. PICK blocks \in Nat, l \in Nat : blocks = Blocks /\ l = layer
  BY PlanNumbers DEF BudgetInv, PlanTypeOK
<1>2. PICK rest \in Nat : rest = SumFunctionOnSet(quotas, at..Len(quotas))
  <2>1. PICK a \in Nat \ {0}, m \in Nat : a = at /\ m = Len(quotas)
    BY DEF BudgetInv, PlanTypeOK
  <2>2. \A x \in a..m : quotas[x] \in Nat
    BY <2>1 DEF BudgetInv, PlanTypeOK
  <2>3. IsFiniteSet(a..m)
    BY <2>1, FS_Interval
  <2>4. SumFunctionOnSet(quotas, a..m) \in Nat
    BY ONLY <2>2, <2>3, SumIsNat
  <2> QED BY <2>1, <2>4
<1>3. layer + SumFunctionOnSet(quotas, at..Len(quotas)) <= Blocks
  BY DEF BudgetInv, QuotasInv
<1>4. l + rest <= blocks
  BY <1>1, <1>2, <1>3, Zenon
<1>5. l <= blocks
  BY <1>4
<1> QED BY <1>1, <1>5

\* When the ranges are dealt they cover the model, and the first of them has the turn.
LEMMA EndRangesStages ==
    ASSUME BudgetInv, StagesInv, EndRanges
    PROVE  StagesInv'
<1>1. /\ phase = "range" /\ phase' = IF layer < Blocks THEN "error" ELSE "experts"
      /\ at' = 1 /\ layer' = 0 /\ UNCHANGED <<case, stages>>
  BY DEF EndRanges
<1>2. PICK blocks \in Nat, l \in Nat : blocks = Blocks /\ Blocks' = blocks /\ l = layer
  <2>1. Blocks \in Nat /\ layer \in Nat
    BY PlanNumbers DEF BudgetInv, PlanTypeOK
  <2>2. Blocks' = Blocks
    BY <1>1 DEF Blocks, profile
  <2> QED BY <2>1, <2>2
<1>3. l <= blocks
  BY <1>1, <1>2, LayersAreModels
<1>4. CASE layer < Blocks
  BY <1>1, <1>4 DEF StagesInv, Placing
<1>5. CASE ~(layer < Blocks)
  <2>1. l = blocks
    BY <1>2, <1>3, <1>5
  <2>2. Laid(blocks)
    BY <1>1, <1>2, <2>1 DEF StagesInv
  <2>3. Laid(blocks)' /\ stages' = stages
    BY <1>1, <2>2, SMTT(30) DEF Laid
  <2>4. PICK len \in Nat : len = Len(stages) /\ DOMAIN stages = 1..len
    BY StageIs, Zenon
  <2>5. CASE len = 0
    <3>1. blocks = 0
      BY <2>2, <2>4, <2>5 DEF Laid
    <3> QED BY <1>1, <1>2, <1>5, <2>3, <2>4, <2>5, <3>1 DEF StagesInv, Laid
  <2>6. CASE len # 0
    <3>1. 1 \in DOMAIN stages
      BY <2>4, <2>6
    <3>2. stages[1].first = 0
      BY <2>2, <3>1 DEF Laid
    <3>3. stages[1].n \in Nat \ {0}
      BY <2>4, <3>1, StageIs
    <3>4. layer' \in LayersOf(stages'[1]) /\ 1 <= len
      BY <1>1, <2>3, <2>4, <2>6, <3>2, <3>3 DEF LayersOf
    <3> QED BY <1>1, <1>2, <1>5, <2>3, <2>4, <3>4 DEF StagesInv, Laid
  <2> QED BY <2>5, <2>6
<1> QED BY <1>4, <1>5

\* Every step of the plan keeps the ranges in order.
LEMMA StagesStep ==
    ASSUME BudgetInv, BudgetInv', StagesInv, [PlanNext]_planVars
    PROVE  StagesInv'
<1>1. CASE RefuseFleet \/ LoadFleet \/ Shelve \/ DealLayer \/ Unhosted
  <2>1. phase' \in {"error", "shelve", "deal"}
    BY <1>1 DEF RefuseFleet, LoadFleet, Shelve, DealLayer, Unhosted
  <2> QED BY <2>1 DEF StagesInv, Placing
<1>2. CASE EndDeal
  <2>1. phase' = "range" /\ stages' = <<>> /\ layer' = 0
    BY <1>2 DEF EndDeal, BudgetInv, FreshInv
  <2> QED BY <2>1 DEF StagesInv, Placing, Laid
<1>3. CASE Skip
  <2>1. phase = "range" /\ UNCHANGED <<phase, layer, stages>>
    BY <1>3 DEF Skip, InRange
  <2> QED BY <2>1 DEF StagesInv, Placing, Laid
<1>4. CASE HostRange
  <2>1. phase = "range" /\ phase' = "range"
    BY <1>4 DEF HostRange, InRange
  <2>2. PICK n \in Nat \ {0}, host \in Consoles :
              /\ at \in DOMAIN shelves
              /\ stages' = Append(stages, [first |-> layer, n |-> n, host |-> host,
                                           shelf |-> shelves[at], experts |-> shelves[at]])
              /\ layer' = layer + n
    BY <1>4, Ranged
  <2> PICK k : k = layer
    OBVIOUS
  <2> PICK m : m = layer + n
    OBVIOUS
  <2> PICK stage : stage = [first |-> k, n |-> n, host |-> host, shelf |-> shelves[at],
                            experts |-> shelves[at]]
    OBVIOUS
  <2>3. k \in Nat /\ shelves[at] \subseteq Consoles
    BY <2>2, SMTT(30) DEF BudgetInv, PlanTypeOK
  <2>4. stage \in StagePlans(Consoles) /\ stage.first = k /\ stage.n = n
    BY <2>2, <2>3 DEF StagePlans
  <2>5. Laid(k)
    BY <2>1 DEF StagesInv
  <2>6. stages' = Append(stages, stage) /\ m = k + stage.n
    BY <2>2, <2>4
  <2>7. Laid(m)'
    BY <2>3, <2>4, <2>5, <2>6, LaidFurther
  <2> QED BY <2>1, <2>2, <2>7 DEF StagesInv, Placing, Laid
<1>5. CASE EndRanges
  BY <1>5, EndRangesStages
<1>6. CASE PassBy \/ NextPass \/ TakeShard
  <2>1. phase = "experts" /\ UNCHANGED <<phase, case, at, layer>>
    BY <1>6 DEF PassBy, NextPass, TakeShard, Turn
  <2>2. SameStages
    <3>1. CASE PassBy \/ NextPass
      BY <3>1 DEF PassBy, NextPass, SameStages
    <3>2. CASE TakeShard
      BY <3>2, TakeSame
    <3> QED BY <1>6, <3>1, <3>2
  <2> QED BY <2>1, <2>2, StagesKept DEF Placing
<1>7. CASE NextLayer
  BY <1>7, NextLayerStages
<1>8. CASE EndExperts \/ AssignEmbedding \/ AssignHead
  <2>1. /\ Placing /\ phase' \in {"embedding", "lm_head", "done", "error"}
        /\ UNCHANGED <<case, at, layer, stages>>
    BY <1>8 DEF EndExperts, AssignEmbedding, AssignHead, AssignPiece, Placing
  <2>2. layer = Blocks
    BY <1>8 DEF EndExperts, AssignEmbedding, AssignHead, StagesInv
  <2>3. SameStages
    BY <2>1 DEF SameStages
  <2> QED BY <2>1, <2>2, <2>3, StagesKept
<1>9. CASE UNCHANGED planVars
  <2>1. UNCHANGED <<phase, case, at, layer, stages>>
    BY <1>9 DEF planVars
  <2> QED BY <2>1 DEF StagesInv, Placing, Laid, Blocks, profile
<1> QED BY <1>1, <1>2, <1>3, <1>4, <1>5, <1>6, <1>7, <1>8, <1>9 DEF PlanNext

\* No layer is in the ranges of two stages.
LEMMA RangesApart ==
    ASSUME BudgetInv, NEW k, Laid(k), NEW i \in DOMAIN stages, NEW j \in DOMAIN stages,
           NEW l \in LayersOf(stages[i]), l \in LayersOf(stages[j])
    PROVE  i = j
<1>1. PICK len \in Nat : len = Len(stages) /\ DOMAIN stages = 1..len
  BY StageIs, Zenon
<1>2. \A p \in 1..len : /\ stages[p].first \in Nat
                        /\ LayersOf(stages[p]) = stages[p].first..Reach(stages[p]) - 1
                        /\ Reach(stages[p]) \in Nat
  <2> TAKE p \in 1..len
  <2>1. stages[p].first \in Nat /\ stages[p].n \in Nat
    BY <1>1, StageIs
  <2> QED BY <2>1 DEF LayersOf, Reach
<1>3. \A p, q \in 1..len : p < q => Reach(stages[p]) <= stages[q].first
  BY <1>1 DEF Laid
<1>4. ASSUME NEW p \in 1..len, NEW q \in 1..len, l \in LayersOf(stages[p]),
             l \in LayersOf(stages[q])
      PROVE  ~(p < q)
  <2>1. /\ l \in stages[p].first..Reach(stages[p]) - 1
        /\ l \in stages[q].first..Reach(stages[q]) - 1
    BY <1>2, <1>4
  <2>2. PICK r \in Nat, f \in Nat : r = Reach(stages[p]) /\ f = stages[q].first
    BY <1>2
  <2>3. l \in Nat /\ l < r /\ f <= l
    BY <1>2, <2>1, <2>2
  <2>4. ~(r <= f)
    BY <2>2, <2>3
  <2> QED BY <1>3, <2>2, <2>4
<1>5. i \in 1..len /\ j \in 1..len
  BY <1>1
<1>6. ~(i < j) /\ ~(j < i)
  BY <1>4, <1>5
<1> QED BY <1>5, <1>6, SMTT(30)

\* Once the ranges are dealt every block is hosted by the host of its stage, and by no other.
LEMMA BlocksHostedOnce ==
    ASSUME BudgetInv, StagesInv, HostedInv, Placing
    PROVE  HostedOnce
<1>1. Laid(Blocks)
  BY DEF StagesInv
<1>2. PICK blocks \in Nat, len \in Nat :
         blocks = Blocks /\ len = Len(stages) /\ DOMAIN stages = 1..len
  BY StageIs, PlanNumbers DEF BudgetInv, PlanTypeOK
<1>3. \A i \in 1..len : /\ stages[i].first \in Nat /\ stages[i].n \in Nat \ {0}
                        /\ stages[i].host \in Consoles
                        /\ LayersOf(stages[i]) = stages[i].first..Reach(stages[i]) - 1
                        /\ Reach(stages[i]) \in Nat
  BY <1>2, StageIs DEF LayersOf, Reach
<1>4. ASSUME NEW i \in 1..len, NEW j \in 1..len, NEW l \in LayersOf(stages[i]),
             l \in LayersOf(stages[j])
      PROVE  i = j
  BY <1>1, <1>2, <1>4, RangesApart
<1>5. SUFFICES ASSUME NEW l \in 0..blocks - 1
               PROVE  \E i \in DOMAIN stages :
                         /\ l \in LayersOf(stages[i])
                         /\ {id \in Consoles : l \in units[id].hosted} = {stages[i].host}
  BY <1>2, Zenon DEF HostedOnce, LayersOf
<1>6. PICK i \in 1..len : l \in LayersOf(stages[i])
  BY <1>1, <1>2 DEF Laid
<1>7. \A id \in Consoles : l \in units[id].hosted <=>
         \E j \in 1..len : stages[j].host = id /\ l \in LayersOf(stages[j])
  BY <1>2 DEF HostedInv
<1>8. \A id \in Consoles : l \in units[id].hosted <=> id = stages[i].host
  BY <1>4, <1>6, <1>7
<1> QED BY <1>2, <1>3, <1>6, <1>8

-----------------------------------------------------------------------------
(* The plan is whole: every expert is placed once. *)

\* Some unit has the expert.
Covered(l, e) == \E id \in Consoles : \E s \in units[id].shards : Has(s, l, e)

\* Shards are of layers up to the one under way, and of its experts before the next.
Bounded ==
    \A id \in Consoles : \A s \in units[id].shards :
       /\ s.layer \in profile.moe.dense..layer /\ s.layer < Blocks
       /\ s.first + s.n <= IF s.layer = layer THEN next ELSE Routed

\* A unit that has a shard of a layer is one its stage asks.
OnStage ==
    \A id \in Consoles : \A s \in units[id].shards : \A i \in DOMAIN stages :
       s.layer \in LayersOf(stages[i]) => id \in stages[i].experts

\* No two shards share an expert of a layer.
Apart ==
    \A a, b \in Consoles : \A s \in units[a].shards, t \in units[b].shards : \A e \in Nat :
       Has(s, s.layer, e) /\ Has(t, s.layer, e) => a = b /\ s = t

\* Unless experts went nowhere, all of them so far are on units.
Complete ==
    short = 0 => /\ \A l \in profile.moe.dense..layer - 1 : \A e \in 0..Routed - 1 : Covered(l, e)
                 /\ \A e \in 0..next - 1 : Covered(layer, e)

\* A pass is over a layer that has experts; the shards there are of layers up to it, of its
\* experts before the next, each on a unit its stage asks; no two share an expert; and until
\* an expert goes nowhere all of them up to the next are on some unit.
ShardsInv ==
    Placing =>
       /\ pass # "none" => phase = "experts" /\ at <= Len(stages) /\ profile.moe.dense <= layer
       /\ phase = "done" => short = 0
       /\ Bounded /\ OnStage /\ Apart /\ Complete

\* What a shard is made of.
LEMMA ShardIs ==
    ASSUME BudgetInv, NEW id \in Consoles, NEW s \in units[id].shards
    PROVE  s.layer \in Nat /\ s.first \in Nat /\ s.n \in Nat \ {0}
<1>1. units[id] \in UnitPlans
  BY DEF BudgetInv, PlanTypeOK
<1> QED BY <1>1 DEF UnitPlans

\* While no unit takes an expert the shards stay as they are.
LEMMA ShardsKept ==
    ASSUME BudgetInv, ShardsInv, Placing, stages' = stages, Consoles' = Consoles,
           UNCHANGED <<case, layer, next, short>>,
           \A id \in Consoles : units'[id].shards = units[id].shards,
           pass' # "none" =>
              phase' = "experts" /\ at' <= Len(stages) /\ profile.moe.dense <= layer,
           phase' = "done" => short = 0
    PROVE  ShardsInv'
<1>1. profile' = profile /\ Blocks' = Blocks /\ Routed' = Routed
  BY DEF profile, Blocks, Routed
<1>2. Bounded' /\ OnStage' /\ Apart'
  BY <1>1 DEF ShardsInv, Bounded, OnStage, Apart
<1>3. Complete'
  BY <1>1 DEF ShardsInv, Complete, Covered
<1> QED BY <1>1, <1>2, <1>3 DEF ShardsInv

\* The turn of a stage is at one of its layers, and at no other stage's.
LEMMA TurnIs ==
    ASSUME BudgetInv, StagesInv, phase = "experts", at \in DOMAIN stages
    PROVE  /\ layer \in LayersOf(stages[at]) /\ layer < Blocks
           /\ \A i \in DOMAIN stages : layer \in LayersOf(stages[i]) => i = at
<1>1. Laid(Blocks)
  BY DEF StagesInv, Placing
<1>2. PICK blocks \in Nat, len \in Nat, a \in Nat :
         blocks = Blocks /\ len = Len(stages) /\ DOMAIN stages = 1..len /\ a = at
  BY StageIs, PlanNumbers DEF BudgetInv, PlanTypeOK
<1>3. \A i \in 1..len : /\ stages[i].first \in Nat /\ stages[i].n \in Nat \ {0}
                        /\ LayersOf(stages[i]) = stages[i].first..Reach(stages[i]) - 1
                        /\ Reach(stages[i]) \in Nat
  BY <1>2, StageIs DEF LayersOf, Reach
<1>4. a \in 1..len /\ layer \in LayersOf(stages[a])
  BY <1>2 DEF StagesInv
<1>5. PICK l \in Nat : l = layer
  BY DEF BudgetInv, PlanTypeOK
<1>6. l < blocks
  <2>1. Reach(stages[a]) <= blocks
    BY <1>1, <1>2, <1>4 DEF Laid
  <2> QED BY <1>3, <1>4, <1>5, <2>1
<1>7. ASSUME NEW i \in 1..len, l \in LayersOf(stages[i])
      PROVE  i = a
  BY <1>1, <1>2, <1>4, <1>5, <1>7, RangesApart
<1> QED BY <1>2, <1>4, <1>5, <1>6, <1>7

\* The shard that a unit takes in its turn begins at the layer's next expert.
LEMMA TakeShards ==
    ASSUME BudgetInv, StagesInv, ShardsInv, TakeShard
    PROVE  ShardsInv'
<1>1. PICK id \in todo, n \in Nat \ {0}, tier \in {"fast", "slow", "ssd"} :
         /\ id \in Consoles /\ n <= Routed - next /\ next' = next + n
         /\ units' = [units EXCEPT ![id] = Hold(units[id], n, tier)]
         /\ stages' = [stages EXCEPT ![at].experts = @ \cup {id}]
         /\ phase = "experts" /\ at \in DOMAIN stages
         /\ pass \in {"ram", "ssd", "outside"}
         /\ UNCHANGED <<case, phase, caps, shelves, quotas, at, layer, pass, short>>
  BY ShardTaken
<1> PICK s0 : s0 = [layer |-> layer, first |-> next, n |-> n, tier |-> tier]
  OBVIOUS
<1>2. PICK l \in Nat, x \in Nat, routed \in Nat, dense \in Nat :
         /\ l = layer /\ x = next /\ routed = Routed /\ dense = profile.moe.dense
         /\ dense <= l
  <2>1. layer \in Nat /\ next \in Nat /\ Routed \in Nat /\ profile.moe.dense \in Nat
    BY PlanNumbers DEF BudgetInv, PlanTypeOK
  <2>2. profile.moe.dense <= layer
    BY <1>1 DEF ShardsInv, Placing
  <2> QED BY <2>1, <2>2
<1>3. /\ Consoles' = Consoles /\ profile' = profile /\ Blocks' = Blocks /\ Routed' = Routed
      /\ layer' = l /\ next' = x + n /\ x + n <= routed /\ layer < Blocks
  <2>1. Consoles' = Consoles
    BY <1>1 DEF BudgetInv, PlanTypeOK, Consoles
  <2>2. profile' = profile /\ Blocks' = Blocks /\ Routed' = Routed
    BY <1>1 DEF profile, Blocks, Routed
  <2>3. layer < Blocks
    BY <1>1, TurnIs
  <2>4. n <= routed - x
    BY <1>1, <1>2
  <2> QED BY <1>1, <1>2, <2>1, <2>2, <2>3, <2>4
<1>4. \A c \in Consoles : units'[c].shards = IF c = id THEN units[c].shards \cup {s0}
                                               ELSE units[c].shards
  <2>1. units \in [Consoles -> UnitPlans]
    BY DEF BudgetInv, PlanTypeOK
  <2>2. units[id] \in UnitPlans
    BY <1>1, <2>1
  <2>3. Hold(units[id], n, tier).shards = units[id].shards \cup {s0}
    <3>1. Holding(Hold(units[id], n, tier), units[id], n, tier)
      BY ONLY BudgetInv, <1>1, <2>2, HoldOK
    <3>2. Hold(units[id], n, tier).shards = units[id].shards \cup
             {[layer |-> layer, first |-> next, n |-> n, tier |-> tier]}
      BY ONLY <3>1 DEF Holding
    <3> QED BY <3>2, Zenon
  <2> QED BY <1>1, <2>1, <2>3
<1>5. s0.layer = l /\ s0.first = x /\ s0.n = n
  BY <1>2
<1>6. ASSUME NEW c \in Consoles, NEW s \in units'[c].shards
      PROVE  s \in units[c].shards \/ (c = id /\ s = s0)
  BY <1>4, <1>6
<1>7. Bounded'
  <2>1. ASSUME NEW c \in Consoles, NEW s \in units'[c].shards
        PROVE  /\ s.layer \in dense..l /\ s.layer < Blocks
               /\ s.first + s.n <= IF s.layer = l THEN x + n ELSE routed
    <3>1. CASE s \in units[c].shards
      <4>1. /\ s.layer \in dense..l /\ s.layer < Blocks
            /\ s.first + s.n <= IF s.layer = l THEN x ELSE routed
        BY <1>1, <1>2, <3>1 DEF ShardsInv, Placing, Bounded
      <4>2. s.first \in Nat /\ s.n \in Nat
        BY <3>1, ShardIs
      <4> QED BY <4>1, <4>2
    <3>2. CASE c = id /\ s = s0
      <4>1. s.first + s.n = x + n /\ s.layer = l
        BY <1>5, <3>2
      <4> QED BY <1>2, <1>3, <4>1
    <3> QED BY <1>6, <2>1, <3>1, <3>2
  <2> QED BY <1>2, <1>3, <2>1 DEF Bounded
<1>8. OnStage'
  <2>1. SameStages
    BY TakeSame
  <2>2. \A i \in DOMAIN stages : /\ stages[i].experts \subseteq stages'[i].experts
                                 /\ i = at => id \in stages'[i].experts
    <3>1. stages \in Seq(StagePlans(Consoles))
      BY DEF BudgetInv, PlanTypeOK
    <3>2. \A i \in DOMAIN stages : stages[i] \in StagePlans(Consoles)
      BY <3>1
    <3>3. \A i \in DOMAIN stages :
             stages'[i] = IF i = at THEN [stages[i] EXCEPT !.experts = @ \cup {id}]
                          ELSE stages[i]
      BY <1>1, <3>1
    <3>4. \A i \in DOMAIN stages :
             stages'[i].experts = IF i = at THEN stages[i].experts \cup {id}
                                  ELSE stages[i].experts
      BY <3>2, <3>3 DEF StagePlans
    <3> QED BY <3>4
  <2>3. ASSUME NEW c \in Consoles, NEW s \in units'[c].shards, NEW i \in DOMAIN stages,
               s.layer \in LayersOf(stages[i])
        PROVE  c \in stages'[i].experts
    <3>1. CASE s \in units[c].shards
      BY <1>1, <2>2, <2>3, <3>1 DEF ShardsInv, Placing, OnStage
    <3>2. CASE c = id /\ s = s0
      <4>1. layer \in LayersOf(stages[i])
        BY <1>2, <1>5, <2>3, <3>2
      <4>2. i = at
        BY <1>1, <4>1, TurnIs
      <4> QED BY <2>2, <3>2, <4>2
    <3> QED BY <1>6, <2>3, <3>1, <3>2
  <2>4. \A i \in DOMAIN stages : LayersOf(stages'[i]) = LayersOf(stages[i])
    BY <2>1 DEF SameStages, LayersOf
  <2> QED BY <1>3, <2>1, <2>3, <2>4 DEF OnStage, SameStages
<1>9. Apart'
  <2>1. ASSUME NEW c \in Consoles, NEW s \in units[c].shards, NEW e \in Nat, Has(s, l, e)
        PROVE  e < x
    <3>1. s.first \in Nat /\ s.n \in Nat
      BY ShardIs
    <3>2. s.layer = l /\ e \in s.first..s.first + s.n - 1
      BY <2>1 DEF Has
    <3>3. s.first + s.n <= x
      BY <1>1, <1>2, <3>2 DEF ShardsInv, Placing, Bounded
    <3> QED BY <3>1, <3>2, <3>3
  <2>2. ASSUME NEW e \in Nat, Has(s0, l, e)
        PROVE  x <= e
    BY <1>5, <2>2 DEF Has
  <2>3. ASSUME NEW a \in Consoles, NEW b \in Consoles,
               NEW s \in units'[a].shards, NEW t \in units'[b].shards, NEW e \in Nat,
               Has(s, s.layer, e), Has(t, s.layer, e)
        PROVE  a = b /\ s = t
    <3>1. CASE s \in units[a].shards /\ t \in units[b].shards
      BY <1>1, <2>3, <3>1 DEF ShardsInv, Placing, Apart
    <3>2. CASE s \in units[a].shards /\ b = id /\ t = s0
      <4>1. s.layer = l
        BY <1>5, <2>3, <3>2 DEF Has
      <4>2. e < x /\ x <= e
        BY <2>1, <2>2, <2>3, <3>2, <4>1
      <4> QED BY <4>2
    <3>3. CASE a = id /\ s = s0 /\ t \in units[b].shards
      <4>1. s.layer = l
        BY <1>5, <3>3
      <4>2. e < x /\ x <= e
        BY <2>1, <2>2, <2>3, <3>3, <4>1
      <4> QED BY <4>2
    <3>4. CASE a = id /\ s = s0 /\ b = id /\ t = s0
      BY <3>4
    <3> QED BY <1>6, <2>3, <3>1, <3>2, <3>3, <3>4
  <2> QED BY <1>3, <2>3 DEF Apart
<1>10. Complete'
  <2>1. ASSUME NEW k, NEW e, Covered(k, e)
        PROVE  Covered(k, e)'
    <3>1. PICK c \in Consoles : \E s \in units[c].shards : Has(s, k, e)
      BY <2>1 DEF Covered
    <3>2. PICK s \in units[c].shards : Has(s, k, e)
      BY <3>1
    <3>3. s \in units'[c].shards
      BY <1>4, <3>1, <3>2
    <3>4. c \in Consoles' /\ s \in units'[c].shards /\ Has(s, k, e)
      BY <1>3, <3>1, <3>2, <3>3
    <3> QED BY <3>4 DEF Covered
  <2>2. ASSUME NEW e \in x..x + n - 1
        PROVE  Covered(l, e)'
    <3>1. id \in Consoles
      BY <1>1
    <3>2. s0 \in units'[id].shards
      BY <1>4, <3>1
    <3>3. Has(s0, l, e)
      BY <1>5, <2>2 DEF Has
    <3>4. id \in Consoles' /\ s0 \in units'[id].shards /\ Has(s0, l, e)
      BY <1>3, <3>1, <3>2, <3>3
    <3> QED BY <3>4 DEF Covered
  <2>3. SUFFICES ASSUME short = 0
                 PROVE  /\ \A k \in dense..l - 1 : \A e \in 0..routed - 1 : Covered(k, e)'
                        /\ \A e \in 0..x + n - 1 : Covered(l, e)'
    BY <1>1, <1>2, <1>3 DEF Complete, Covered
  <2>4. /\ \A k \in dense..l - 1 : \A e \in 0..routed - 1 : Covered(k, e)
        /\ \A e \in 0..x - 1 : Covered(l, e)
    BY <1>1, <1>2, <2>3 DEF ShardsInv, Placing, Complete
  <2>5. \A e \in 0..x + n - 1 : e \in 0..x - 1 \/ e \in x..x + n - 1
    OBVIOUS
  <2> QED BY <2>1, <2>2, <2>4, <2>5
<1>11. /\ profile'.moe.dense <= layer' /\ phase' = "experts" /\ at' <= Len(stages')
  <2>1. at <= Len(stages)
    BY <1>1, StageIs DEF BudgetInv, PlanTypeOK
  <2>2. Len(stages') = Len(stages)
    BY TakeSame DEF SameStages
  <2> QED BY <1>1, <1>2, <1>3, <2>1, <2>2
<1> QED BY <1>7, <1>8, <1>9, <1>10, <1>11 DEF ShardsInv

\* A layer that is done with has all of its experts on units, or some went nowhere.
LEMMA NextLayerShards ==
    ASSUME BudgetInv, ShardsInv, NextLayer
    PROVE  ShardsInv'
<1>1. /\ phase = "experts" /\ at <= Len(stages) /\ phase' = phase
      /\ short' = IF Dense(layer) THEN short ELSE short + Left * Expert
      /\ layer' = layer + 1 /\ pass' = "none" /\ next' = 0
      /\ UNCHANGED <<case, units, stages>>
  BY DEF NextLayer
<1>2. PICK l \in Nat, x \in Nat, routed \in Nat, dense \in Nat, e0 \in Nat \ {0}, lost \in Nat :
         /\ l = layer /\ x = next /\ routed = Routed /\ dense = profile.moe.dense
         /\ e0 = Expert /\ x <= routed /\ lost = short
  <2>1. /\ layer \in Nat /\ next \in 0..Routed /\ Routed \in Nat /\ profile.moe.dense \in Nat
        /\ Expert \in Nat \ {0} /\ short \in Nat
    BY PlanNumbers DEF BudgetInv, PlanTypeOK
  <2>2. next \in Nat /\ next <= Routed
    BY <2>1
  <2> QED BY <2>1, <2>2
<1>3. /\ Consoles' = Consoles /\ profile' = profile /\ Blocks' = Blocks /\ Routed' = Routed
      /\ layer' = l + 1
  BY <1>1, <1>2 DEF Consoles, profile, Blocks, Routed
<1>4. Bounded'
  <2>1. ASSUME NEW c \in Consoles, NEW s \in units[c].shards
        PROVE  /\ s.layer \in dense..l + 1 /\ s.layer < Blocks
               /\ s.first + s.n <= IF s.layer = l + 1 THEN 0 ELSE routed
    <3>1. /\ s.layer \in dense..l /\ s.layer < Blocks
          /\ s.first + s.n <= IF s.layer = l THEN x ELSE routed
      BY <1>1, <1>2 DEF ShardsInv, Placing, Bounded
    <3>2. s.first \in Nat /\ s.n \in Nat
      BY ShardIs
    <3> QED BY <1>2, <3>1, <3>2
  <2> QED BY <1>1, <1>2, <1>3, <2>1 DEF Bounded
<1>5. OnStage' /\ Apart'
  BY <1>1, <1>3 DEF ShardsInv, Placing, OnStage, Apart
<1>6. Complete'
  <2>1. SUFFICES ASSUME short' = 0
                 PROVE  \A k \in dense..l : \A e \in 0..routed - 1 : Covered(k, e)
    <3>1. dense..l + 1 - 1 = dense..l /\ 0..0 - 1 = {}
      BY <1>2
    <3> QED BY <1>1, <1>2, <1>3, <2>1, <3>1 DEF Complete, Covered
  <2>2. lost = 0 /\ (dense <= l => x = routed)
    <3>1. CASE l < dense
      BY <1>1, <1>2, <2>1, <3>1 DEF Dense
    <3>2. CASE ~(l < dense)
      <4>1. short' = lost + (routed - x) * e0
        BY <1>1, <1>2, <3>2 DEF Dense, Left
      <4>2. routed - x \in Nat
        BY <1>2
      <4> PICK r \in Nat : r = routed - x
        BY <4>2
      <4>3. r * e0 \in Nat /\ (r # 0 => r * e0 # 0)
        BY <1>2
      <4>4. lost = 0 /\ r = 0
        BY <1>2, <2>1, <4>1, <4>3
      <4> QED BY <1>2, <4>4
    <3> QED BY <3>1, <3>2
  <2>3. /\ \A k \in dense..l - 1 : \A e \in 0..routed - 1 : Covered(k, e)
        /\ \A e \in 0..x - 1 : Covered(l, e)
    BY <1>1, <1>2, <2>2 DEF ShardsInv, Placing, Complete
  <2>4. \A k \in dense..l : k \in dense..l - 1 \/ (k = l /\ dense <= l)
    BY <1>2
  <2> QED BY <2>2, <2>3, <2>4
<1>7. phase' # "done" /\ pass' = "none"
  BY <1>1
<1> QED BY <1>4, <1>5, <1>6, <1>7 DEF ShardsInv

\* Every step of the plan keeps the shards apart and complete.
LEMMA ShardsStep ==
    ASSUME BudgetInv, BudgetInv', StagesInv, ShardsInv, [PlanNext]_planVars
    PROVE  ShardsInv'
<1>1. CASE \/ RefuseFleet \/ LoadFleet \/ Shelve \/ DealLayer \/ EndDeal \/ Skip \/ Unhosted
           \/ HostRange
  <2>1. phase' \in {"error", "shelve", "deal", "range"}
    BY <1>1 DEF RefuseFleet, LoadFleet, Shelve, DealLayer, EndDeal, Skip, Unhosted, HostRange,
       InRange
  <2> QED BY <2>1 DEF ShardsInv, Placing
<1>2. CASE EndRanges
  <2>1. /\ layer' = 0 /\ phase' \in {"error", "experts"} /\ phase = "range"
        /\ UNCHANGED <<case, units, pass, next>>
    BY <1>2 DEF EndRanges
  <2>2. pass' = "none" /\ next' = 0
    BY <2>1 DEF BudgetInv, PassInv
  <2>3. \A id \in Consoles' : units'[id].shards = {}
    BY <2>1 DEF BudgetInv, FreshInv, NoExperts, Consoles
  <2>4. profile.moe.dense \in Nat /\ profile' = profile
    BY <2>1, PlanNumbers DEF BudgetInv, PlanTypeOK, profile
  <2>5. Bounded' /\ OnStage' /\ Apart'
    BY <2>3 DEF Bounded, OnStage, Apart
  <2>6. Complete'
    BY <2>1, <2>2, <2>4 DEF Complete
  <2> QED BY <2>1, <2>2, <2>5, <2>6 DEF ShardsInv
<1>3. CASE PassBy
  <2>1. /\ Placing /\ phase' = "experts" /\ phase = "experts" /\ at <= Len(stages)
        /\ UNCHANGED <<case, units, stages, at, layer, pass, next, short>>
    BY <1>3 DEF PassBy, Turn, Placing
  <2>2. Consoles' = Consoles
    BY <2>1 DEF Consoles
  <2> QED BY <2>1, <2>2, ShardsKept DEF ShardsInv
<1>4. CASE NextPass
  <2>1. /\ Placing /\ phase' = "experts" /\ at <= Len(stages) /\ ~Dense(layer)
        /\ UNCHANGED <<case, units, stages, at, layer, next, short>>
    BY <1>4 DEF NextPass, Placing
  <2>2. Consoles' = Consoles
    BY <2>1 DEF Consoles
  <2>3. profile.moe.dense <= layer
    <3> PICK l \in Nat, d \in Nat : l = layer /\ d = profile.moe.dense
      <4>1. layer \in Nat /\ profile.moe.dense \in Nat
        BY PlanNumbers DEF BudgetInv, PlanTypeOK
      <4> QED BY <4>1
    <3>1. ~(l < d)
      BY <2>1, Zenon DEF Dense
    <3>2. d <= l
      BY <3>1
    <3> QED BY <3>2
  <2> QED BY <2>1, <2>2, <2>3, ShardsKept
<1>5. CASE TakeShard
  BY <1>5, TakeShards
<1>6. CASE NextLayer
  BY <1>6, NextLayerShards
<1>7. CASE EndExperts
  <2>1. /\ Placing /\ phase' = "embedding" /\ ~(at <= Len(stages))
        /\ UNCHANGED <<case, units, stages, at, layer, pass, next, short>>
    <3>1. at > Len(stages)
      BY <1>7 DEF EndExperts
    <3>2. at \in Nat /\ Len(stages) \in Nat
      BY StageIs DEF BudgetInv, PlanTypeOK
    <3> QED BY <1>7, <3>1, <3>2 DEF EndExperts, Placing
  <2>2. Consoles' = Consoles /\ pass' = "none"
    BY <2>1 DEF Consoles, ShardsInv
  <2> QED BY <2>1, <2>2, ShardsKept
<1>8. CASE AssignEmbedding \/ AssignHead
  <2>1. /\ phase \in {"embedding", "lm_head"}
        /\ UNCHANGED <<case, stages, at, layer, pass, next, short>>
    BY <1>8 DEF AssignEmbedding, AssignHead, AssignPiece
  <2>2. PICK id \in Consoles, w \in UnitPlans :
           units' = [units EXCEPT ![id] = w] /\ w.shards = units[id].shards
    BY <1>8, Assigned
  <2>3. units \in [Consoles -> UnitPlans]
    BY DEF BudgetInv, PlanTypeOK
  <2>4. Consoles' = Consoles /\ \A c \in Consoles : units'[c].shards = units[c].shards
    BY <2>2, <2>3 DEF Consoles
  <2>5. pass' = "none"
    BY <2>1 DEF ShardsInv, Placing
  <2>6. phase' = "done" => short = 0
    <3>1. short \in Nat
      BY DEF BudgetInv, PlanTypeOK
    <3> QED BY <1>8, <3>1 DEF AssignEmbedding, AssignHead
  <2> QED BY <2>1, <2>4, <2>5, <2>6, ShardsKept DEF Placing
<1>9. CASE UNCHANGED planVars
  <2>1. UNCHANGED <<case, phase, units, stages, at, layer, pass, next, short>>
    BY <1>9 DEF planVars
  <2>2. Consoles' = Consoles
    BY <2>1 DEF Consoles
  <2>3. CASE Placing
    BY <2>1, <2>2, <2>3, ShardsKept DEF ShardsInv
  <2>4. CASE ~Placing
    BY <2>1, <2>4 DEF ShardsInv, Placing
  <2> QED BY <2>3, <2>4
<1> QED BY <1>1, <1>2, <1>3, <1>4, <1>5, <1>6, <1>7, <1>8, <1>9 DEF PlanNext

\* When a plan is done every expert of every layer that has some is in one shard, on a unit
\* its stage asks.
LEMMA ExpertsPlacedOnce ==
    ASSUME BudgetInv, StagesInv, ShardsInv, phase = "done"
    PROVE  ExpertsOnce
<1>1. /\ Laid(Blocks) /\ layer = Blocks /\ short = 0 /\ OnStage /\ Apart /\ Complete
  BY DEF StagesInv, ShardsInv, Placing
<1>2. PICK blocks \in Nat, dense \in Nat, routed \in Nat :
         blocks = Blocks /\ dense = profile.moe.dense /\ routed = Routed
  BY PlanNumbers DEF BudgetInv, PlanTypeOK
<1>3. SUFFICES ASSUME NEW l \in dense..blocks - 1, NEW e \in 0..routed - 1
               PROVE  \E i \in DOMAIN stages : \E id \in stages[i].experts :
                         \E s \in units[id].shards :
                           /\ l \in stages[i].first..stages[i].first + stages[i].n - 1
                           /\ Has(s, l, e)
                           /\ \A b \in Consoles : \A t \in units[b].shards :
                                 Has(t, l, e) => b = id /\ t = s
  BY <1>2, Zenon DEF ExpertsOnce
<1>4. Covered(l, e)
  BY <1>1, <1>2 DEF Complete
<1>5. PICK id \in Consoles : \E s \in units[id].shards : Has(s, l, e)
  BY <1>4 DEF Covered
<1>6. PICK s \in units[id].shards : Has(s, l, e)
  BY <1>5
<1>7. PICK i \in DOMAIN stages : l \in LayersOf(stages[i])
  <2>1. l \in 0..blocks - 1
    BY <1>2
  <2> QED BY <1>1, <1>2, <2>1 DEF Laid
<1>8. s.layer = l /\ id \in stages[i].experts
  BY <1>1, <1>6, <1>7 DEF Has, OnStage
<1>9. \A b \in Consoles : \A t \in units[b].shards : Has(t, l, e) => b = id /\ t = s
  <2>1. e \in Nat
    BY <1>2
  <2> QED BY <1>1, <1>6, <1>8, <2>1 DEF Apart
<1> QED BY <1>6, <1>7, <1>8, <1>9 DEF LayersOf


-----------------------------------------------------------------------------
(* The plan is whole: the bytes that are placed are the model's. *)

\* The bytes on all units.
OnAll == SumFunction([id \in Consoles |-> OnUnits(units[id])])

\* The bytes of the first k blocks, and of the experts of the first k layers.
BlocksUpTo(k) == SumFunction([i \in 0..k - 1 |-> BlockBytes(profile, i)])

ColdOf(i) == IF i < profile.moe.dense THEN 0 ELSE ColdBytesPerMoeLayer(profile)

ExpertsUpTo(k) == SumFunction([i \in 0..k - 1 |-> ColdOf(i)])

\* The bytes of the ends that are placed.
Ends ==
    CASE phase = "lm_head" -> EmbeddingBytes(profile)
      [] phase = "done"    -> 2 * EmbeddingBytes(profile)
      [] OTHER             -> 0

\* What is on the units is the blocks of the ranges, then the experts up to the next but for
\* those that went nowhere, then the ends.
BytesInv ==
    /\ phase = "range" => OnAll = BlocksUpTo(layer)
    /\ Placing =>
         OnAll + short = BlocksUpTo(Blocks) + ExpertsUpTo(layer) + next * Expert + Ends

\* The bytes on a unit are a number, and so are those on all.
LEMMA OnUnitsIsNat ==
    ASSUME NEW u \in UnitPlans
    PROVE  OnUnits(u) \in Nat
<1>1. u.hot \in Nat /\ u.fast \in Nat /\ u.slow \in Nat /\ u.ssd \in Nat
  BY DEF UnitPlans
<1> QED BY <1>1 DEF OnUnits

\* The bytes on all units are a number.
LEMMA OnAllIsNat ==
    ASSUME BudgetInv
    PROVE  OnAll \in Nat
<1> PICK f : f = [id \in Consoles |-> OnUnits(units[id])]
  OBVIOUS
<1>1. IsFiniteSet(Consoles) /\ DOMAIN f = Consoles
  BY DEF BudgetInv, PlanTypeOK
<1>2. \A id \in Consoles : f[id] \in Nat
  BY OnUnitsIsNat DEF BudgetInv, PlanTypeOK
<1>3. SumFunctionOnSet(f, Consoles) \in Nat
  BY <1>1, <1>2, SumIsNat
<1> QED BY <1>1, <1>3 DEF OnAll, SumFunction

\* What one unit is given on top, all of them have on top.
LEMMA OnAllPlus ==
    ASSUME BudgetInv, NEW id \in Consoles, NEW v \in UnitPlans, NEW k \in Nat,
           units' = [units EXCEPT ![id] = v], OnUnits(v) = OnUnits(units[id]) + k
    PROVE  OnAll' = OnAll + k
<1> PICK D : D = Consoles
  OBVIOUS
<1> PICK f : f = [c \in D |-> OnUnits(units[c])]
  OBVIOUS
<1> PICK g : g = [c \in D |-> OnUnits(units'[c])]
  OBVIOUS
<1>1. IsFiniteSet(D) /\ DOMAIN f = D /\ DOMAIN g = D /\ id \in D
  BY DEF BudgetInv, PlanTypeOK
<1>2. units \in [D -> UnitPlans]
  BY DEF BudgetInv, PlanTypeOK
<1>3. \A c \in D : f[c] \in Nat
  BY <1>2, OnUnitsIsNat
<1>4. Consoles' = D /\ \A c \in D \ {id} : g[c] = f[c]
  BY <1>2 DEF Consoles
<1>5. g[id] = f[id] + k
  BY <1>1, <1>2
<1>6. SumFunctionOnSet(g, D) = SumFunctionOnSet(f, D) + k
  BY ONLY k \in Nat, <1>1, <1>3, <1>4, <1>5, SumChangesOne
<1>7. OnAll = SumFunctionOnSet(f, D)
  BY <1>1 DEF OnAll, SumFunction
<1>8. OnAll' = SumFunctionOnSet(g, D)
  BY <1>1, <1>4 DEF OnAll, SumFunction
<1> QED BY <1>6, <1>7, <1>8

\* The bytes of the first blocks are a number, of none of them zero.
LEMMA UpToIs ==
    ASSUME case \in Cases, NEW k \in Nat, k <= Blocks
    PROVE  /\ BlocksUpTo(k) \in Nat
           /\ BlocksUpTo(0) = 0
<1>1. PICK blocks \in Nat : blocks = Blocks
  BY PlanNumbers
<1> PICK f : f = [i \in 0..k - 1 |-> BlockBytes(profile, i)]
  OBVIOUS
<1>2. \A i \in 0..k - 1 : f[i] \in Nat
  BY <1>1, PlanNumbers, SMTT(30)
<1>3. IsFiniteSet(0..k - 1)
  BY FS_Interval
<1>4. SumFunctionOnSet(f, 0..k - 1) \in Nat
  BY ONLY <1>2, <1>3, SumIsNat
<1>5. DOMAIN f = 0..k - 1
  OBVIOUS
<1>6. BlocksUpTo(k) \in Nat
  BY <1>4, <1>5 DEF BlocksUpTo, SumFunction
<1> PICK z : z = [i \in 0..0 - 1 |-> BlockBytes(profile, i)]
  OBVIOUS
<1>7. DOMAIN z = {}
  OBVIOUS
<1>8. SumFunction(z) = 0
  BY <1>7, SumOverNone DEF SumFunction
<1> QED BY <1>6, <1>8 DEF BlocksUpTo

\* A range adds the blocks it has.
LEMMA BlocksFurther ==
    ASSUME case \in Cases, NEW k \in Nat, NEW n \in Nat, k + n <= Blocks, NEW b,
           b = SumFunction([i \in k..k + n - 1 |-> BlockBytes(profile, i)])
    PROVE  BlocksUpTo(k + n) = BlocksUpTo(k) + b
<1>1. PICK blocks \in Nat : blocks = Blocks
  BY PlanNumbers
<1> PICK D : D = 0..k + n - 1
  OBVIOUS
<1> PICK T : T = 0..k - 1
  OBVIOUS
<1> PICK R : R = k..k + n - 1
  OBVIOUS
<1>2. T \subseteq D /\ D \ T = R /\ R \subseteq D /\ D \subseteq 0..blocks - 1
  BY <1>1
<1>3. IsFiniteSet(D) /\ IsFiniteSet(T) /\ IsFiniteSet(R)
  BY FS_Interval
<1> PICK f : f = [i \in D |-> BlockBytes(profile, i)]
  OBVIOUS
<1> PICK g : g = [i \in T |-> BlockBytes(profile, i)]
  OBVIOUS
<1> PICK h : h = [i \in R |-> BlockBytes(profile, i)]
  OBVIOUS
<1>4. \A i \in D : f[i] \in Nat
  BY <1>1, <1>2, PlanNumbers
<1>5. /\ \A i \in T : g[i] = f[i]
      /\ \A i \in R : h[i] = f[i]
  BY <1>2
<1>6. SumFunctionOnSet(f, D) = SumFunctionOnSet(f, T) + SumFunctionOnSet(f, D \ T)
  <2>1. T \subseteq D
    BY <1>2
  <2>2. IsFiniteSet(D)
    BY <1>3
  <2> QED BY ONLY <1>4, <2>1, <2>2, SumSplits
<1>7. SumFunctionOnSet(g, T) = SumFunctionOnSet(f, T)
  BY ONLY <1>3, <1>5, SumSame
<1>8. SumFunctionOnSet(h, R) = SumFunctionOnSet(f, R)
  BY ONLY <1>3, <1>5, SumSame
<1>9. DOMAIN f = D /\ DOMAIN g = T /\ DOMAIN h = R
  OBVIOUS
<1>10. SumFunction(f) = SumFunction(g) + SumFunction(h)
  BY <1>2, <1>6, <1>7, <1>8, <1>9 DEF SumFunction
<1>11. SumFunction(f) = BlocksUpTo(k + n) /\ SumFunction(g) = BlocksUpTo(k)
  BY DEF BlocksUpTo
<1> QED BY <1>10, <1>11

\* The bytes of experts are numbers, and add up layer by layer.
LEMMA ColdIsNat ==
    ASSUME case \in Cases, NEW k \in Nat
    PROVE  /\ ColdOf(k) \in Nat /\ ExpertsUpTo(k) \in Nat /\ ExpertsUpTo(0) = 0
           /\ ExpertsUpTo(k + 1) = ExpertsUpTo(k) + ColdOf(k)
<1>1. ColdBytesPerMoeLayer(profile) \in Nat
  <2>1. PICK e \in Nat, r \in Nat : e = Expert /\ r = Routed
    BY PlanNumbers
  <2>2. ColdBytesPerMoeLayer(profile) = e * r
    BY <2>1 DEF ColdBytesPerMoeLayer, Expert, Routed
  <2>3. e * r \in Nat
    OBVIOUS
  <2> QED BY <2>2, <2>3
<1>2. \A i : ColdOf(i) \in Nat
  BY <1>1 DEF ColdOf
<1> PICK D : D = 0..k
  OBVIOUS
<1> PICK T : T = 0..k - 1
  OBVIOUS
<1>3. k \in D /\ D \ {k} = T /\ D = 0..k + 1 - 1
  OBVIOUS
<1>4. IsFiniteSet(D) /\ IsFiniteSet(T)
  BY FS_Interval
<1> PICK f : f = [i \in D |-> ColdOf(i)]
  OBVIOUS
<1> PICK g : g = [i \in T |-> ColdOf(i)]
  OBVIOUS
<1> HIDE DEF ColdOf
<1>5. DOMAIN f = D /\ DOMAIN g = T /\ f[k] = ColdOf(k)
  BY <1>3
<1>6. (\A i \in D : f[i] \in Nat) /\ (\A i \in T : g[i] = f[i]) /\ (\A i \in T : g[i] \in Nat)
  BY <1>2, <1>3
<1>7. SumFunctionOnSet(f, D) = f[k] + SumFunctionOnSet(f, T)
  <2>1. SumFunctionOnSet(f, D) = f[k] + SumFunctionOnSet(f, D \ {k})
    BY ONLY <1>3, <1>4, <1>6, SumTakesOut
  <2> QED BY <1>3, <2>1
<1>8. SumFunctionOnSet(g, T) = SumFunctionOnSet(f, T)
  BY ONLY <1>4, <1>6, SumSame
<1>9. SumFunctionOnSet(g, T) \in Nat
  BY ONLY <1>4, <1>6, SumIsNat
<1>10. ExpertsUpTo(k) = SumFunctionOnSet(g, T)
  BY <1>5 DEF ExpertsUpTo, SumFunction
<1>11. ExpertsUpTo(k + 1) = SumFunctionOnSet(f, D)
  BY <1>3, <1>5 DEF ExpertsUpTo, SumFunction
<1>12. ExpertsUpTo(0) = 0
  <2> PICK z : z = [i \in 0..0 - 1 |-> ColdOf(i)]
    OBVIOUS
  <2>1. DOMAIN z = {}
    OBVIOUS
  <2>2. SumFunction(z) = 0
    BY <2>1, SumOverNone DEF SumFunction
  <2> QED BY <2>2 DEF ExpertsUpTo
<1>13. ExpertsUpTo(k + 1) = ExpertsUpTo(k) + ColdOf(k)
  <2> PICK s \in Nat, c \in Nat : s = SumFunctionOnSet(g, T) /\ c = ColdOf(k)
    BY <1>2, <1>9
  <2>1. SumFunctionOnSet(f, D) = c + s
    BY <1>5, <1>7, <1>8
  <2>2. c + s = s + c
    OBVIOUS
  <2> QED BY <1>10, <1>11, <2>1, <2>2
<1> QED BY <1>2, <1>9, <1>10, <1>12, <1>13

\* When the ranges are dealt the units hold the blocks, and nothing is counted of the experts.
LEMMA EndRangesBytes ==
    ASSUME BudgetInv, BytesInv, EndRanges
    PROVE  BytesInv'
<1>1. /\ phase = "range" /\ phase' = IF layer < Blocks THEN "error" ELSE "experts"
      /\ layer' = 0 /\ UNCHANGED <<case, units, next, short>>
  BY DEF EndRanges
<1>2. PICK blocks \in Nat, l \in Nat : blocks = Blocks /\ l = layer /\ l <= blocks
  <2>1. PICK blocks \in Nat, l \in Nat : blocks = Blocks /\ l = layer
    BY PlanNumbers DEF BudgetInv, PlanTypeOK
  <2> QED BY <1>1, <2>1, LayersAreModels
<1>3. next' = 0 /\ short' = 0
  BY <1>1 DEF BudgetInv, PassInv
<1>4. CASE layer < Blocks
  BY <1>1, <1>4 DEF BytesInv, Placing
<1>5. CASE ~(layer < Blocks)
  <2>1. l = blocks
    BY <1>2, <1>5
  <2>2. OnAll = BlocksUpTo(blocks) /\ OnAll \in Nat
    BY <1>1, <1>2, <2>1, OnAllIsNat DEF BytesInv
  <2>3. OnAll' = OnAll /\ BlocksUpTo(Blocks)' = BlocksUpTo(Blocks)
        /\ ExpertsUpTo(layer)' = ExpertsUpTo(0) /\ Expert' = Expert /\ Ends' = 0
    <3>1. profile' = profile /\ Consoles' = Consoles /\ Blocks' = Blocks /\ phase' = "experts"
      BY <1>1, <1>5 DEF profile, Consoles, Blocks
    <3> QED BY <1>1, <3>1 DEF OnAll, BlocksUpTo, ExpertsUpTo, ColdOf, Expert, Ends
  <2>4. ExpertsUpTo(0) = 0 /\ Expert \in Nat
    BY ColdIsNat, PlanNumbers DEF BudgetInv, PlanTypeOK
  <2>5. PICK all \in Nat, e \in Nat : all = OnAll /\ e = Expert
    BY <2>2, <2>4
  <2>6. all + 0 = all + 0 + 0 * e + 0
    BY <2>5
  <2>7. (OnAll + short = BlocksUpTo(Blocks) + ExpertsUpTo(layer) + next * Expert + Ends)'
    BY <1>2, <1>3, <2>2, <2>3, <2>4, <2>5, <2>6, Zenon
  <2> QED BY <1>1, <1>5, <2>7 DEF BytesInv
<1> QED BY <1>4, <1>5

\* A range puts on the units the blocks it has.
LEMMA HostRangeBytes ==
    ASSUME BudgetInv, BytesInv, HostRange
    PROVE  BytesInv'
<1>1. PICK n \in Nat \ {0}, host \in Consoles :
              /\ layer + n <= Blocks
              /\ at \in DOMAIN shelves /\ host \in shelves[at]
              /\ Need(layer, n) <= units[host].fastCapacity
              /\ units' = [units EXCEPT ![host] = Host(units[host], layer, n)]
              /\ layer' = layer + n
  BY Ranged
<1>2. phase = "range" /\ phase' = "range" /\ case' = case
  BY DEF HostRange, InRange
<1>3. Host(units[host], layer, n) \in UnitPlans
  BY <1>1, <1>2, HostOK
<1>4. PICK b \in Nat :
         /\ b = SumFunction([i \in layer..layer + n - 1 |-> BlockBytes(profile, i)])
         /\ OnUnits(units[host]) = 0 /\ OnUnits(Host(units[host], layer, n)) = b
  BY <1>1, <1>2, HostOK
<1>5. OnUnits(Host(units[host], layer, n)) = OnUnits(units[host]) + b
  BY <1>4
<1>6. OnAll' = OnAll + b
  BY <1>1, <1>3, <1>5, OnAllPlus
<1>7. PICK l \in Nat : l = layer
  BY DEF BudgetInv, PlanTypeOK
<1>8. BlocksUpTo(l + n) = BlocksUpTo(l) + b
  BY <1>1, <1>4, <1>7, BlocksFurther DEF BudgetInv, PlanTypeOK
<1>9. OnAll = BlocksUpTo(l)
  BY <1>2, <1>7 DEF BytesInv
<1>10. BlocksUpTo(layer)' = BlocksUpTo(l + n)
  BY <1>1, <1>2, <1>7 DEF BlocksUpTo, profile
<1>11. OnAll' = BlocksUpTo(layer)'
  BY <1>6, <1>8, <1>9, <1>10
<1> QED BY <1>2, <1>11 DEF BytesInv, Placing

\* What a unit takes is the next experts.
LEMMA TakeBytes ==
    ASSUME BudgetInv, BytesInv, TakeShard
    PROVE  BytesInv'
<1>1. PICK id \in todo, n \in Nat \ {0}, tier \in {"fast", "slow", "ssd"} :
         /\ id \in Consoles /\ next' = next + n
         /\ units' = [units EXCEPT ![id] = Hold(units[id], n, tier)]
         /\ phase = "experts" /\ UNCHANGED <<case, phase, layer, short>>
  BY ShardTaken
<1>2. PICK e \in Nat, x \in Nat : e = Expert /\ x = next
  BY PlanNumbers DEF BudgetInv, PlanTypeOK
<1>3. Hold(units[id], n, tier) \in UnitPlans
        /\ OnUnits(Hold(units[id], n, tier)) = OnUnits(units[id]) + n * e
  <2>1. units[id] \in UnitPlans
    BY <1>1 DEF BudgetInv, PlanTypeOK
  <2>2. Holding(Hold(units[id], n, tier), units[id], n, tier)
    BY ONLY BudgetInv, <1>1, <2>1, HoldOK
  <2> QED BY ONLY <2>2, <1>2 DEF Holding
<1>4. n * e \in Nat
  BY <1>1, <1>2
<1>5. OnAll' = OnAll + n * e
  BY <1>1, <1>3, <1>4, OnAllPlus
<1>6. PICK all \in Nat, lost \in Nat, bl \in Nat, ex \in Nat :
         /\ all = OnAll /\ lost = short /\ bl = BlocksUpTo(Blocks)
         /\ ex = ExpertsUpTo(layer)
  <2>1. case \in Cases /\ layer \in Nat /\ short \in Nat
    BY DEF BudgetInv, PlanTypeOK
  <2>2. PICK blocks \in Nat : blocks = Blocks
    BY <2>1, PlanNumbers
  <2>3. BlocksUpTo(blocks) \in Nat
    BY <2>1, <2>2, UpToIs
  <2>4. ExpertsUpTo(layer) \in Nat
    BY <2>1, ColdIsNat
  <2> QED BY <2>1, <2>2, <2>3, <2>4, OnAllIsNat
<1>7. all + lost = bl + ex + x * e + 0
  <2>1. Ends = 0 /\ Placing
    BY <1>1 DEF Ends, Placing
  <2>2. OnAll + short = BlocksUpTo(Blocks) + ExpertsUpTo(layer) + next * Expert + Ends
    BY <2>1 DEF BytesInv
  <2> QED BY <1>2, <1>6, <2>1, <2>2, Zenon
<1>8. (x + n) * e = x * e + n * e /\ x * e \in Nat
  BY <1>1, <1>2
<1>9. PICK xe \in Nat, ne \in Nat : xe = x * e /\ ne = n * e /\ (x + n) * e = xe + ne
  BY <1>4, <1>8
<1>10. (all + ne) + lost = bl + ex + (xe + ne) + 0
  BY <1>6, <1>7, <1>9
<1>11. /\ OnAll' = all + ne /\ short' = lost /\ BlocksUpTo(Blocks)' = bl
       /\ ExpertsUpTo(layer)' = ex /\ next' * Expert' = xe + ne /\ Ends' = 0
  <2>1. profile' = profile /\ Blocks' = Blocks
    BY <1>1 DEF profile, Blocks
  <2>2. BlocksUpTo(Blocks)' = BlocksUpTo(Blocks) /\ ExpertsUpTo(layer)' = ExpertsUpTo(layer)
        /\ Expert' = Expert /\ Ends' = 0
    BY <1>1, <2>1 DEF BlocksUpTo, ExpertsUpTo, ColdOf, Expert, Ends
  <2> QED BY <1>1, <1>2, <1>5, <1>6, <1>9, <2>2
<1>12. (OnAll + short = BlocksUpTo(Blocks) + ExpertsUpTo(layer) + next * Expert + Ends)'
  BY <1>10, <1>11, Zenon
<1> QED BY <1>1, <1>12 DEF BytesInv

\* The experts of a layer that is done with are on units or went nowhere.
LEMMA NextLayerBytes ==
    ASSUME BudgetInv, ShardsInv, BytesInv, NextLayer
    PROVE  BytesInv'
<1>1. /\ phase = "experts" /\ phase' = phase
      /\ short' = IF Dense(layer) THEN short ELSE short + Left * Expert
      /\ layer' = layer + 1 /\ next' = 0 /\ UNCHANGED <<case, units>>
  BY DEF NextLayer
<1>2. PICK l \in Nat, x \in Nat, e \in Nat, routed \in Nat, dense \in Nat :
         /\ l = layer /\ x = next /\ e = Expert /\ routed = Routed /\ x <= routed
         /\ dense = profile.moe.dense
  <2>1. /\ layer \in Nat /\ next \in 0..Routed /\ Expert \in Nat /\ Routed \in Nat
        /\ profile.moe.dense \in Nat
    BY PlanNumbers DEF BudgetInv, PlanTypeOK
  <2>2. next \in Nat /\ next <= Routed
    BY <2>1
  <2> QED BY <2>1, <2>2
<1>3. PICK all \in Nat, lost \in Nat, bl \in Nat, ex \in Nat, cold \in Nat :
         /\ all = OnAll /\ lost = short /\ bl = BlocksUpTo(Blocks)
         /\ ex = ExpertsUpTo(l) /\ cold = ColdOf(l)
  <2>1. case \in Cases /\ short \in Nat
    BY DEF BudgetInv, PlanTypeOK
  <2>2. PICK blocks \in Nat : blocks = Blocks
    BY <2>1, PlanNumbers
  <2>3. BlocksUpTo(blocks) \in Nat
    BY <2>1, <2>2, UpToIs
  <2>4. ExpertsUpTo(l) \in Nat /\ ColdOf(l) \in Nat
    BY <2>1, ColdIsNat
  <2> QED BY <2>1, <2>2, <2>3, <2>4, OnAllIsNat
<1>4. all + lost = bl + ex + x * e + 0
  <2>1. Ends = 0 /\ Placing
    BY <1>1 DEF Ends, Placing
  <2>2. OnAll + short = BlocksUpTo(Blocks) + ExpertsUpTo(layer) + next * Expert + Ends
    BY <2>1 DEF BytesInv
  <2> QED BY <1>2, <1>3, <2>1, <2>2, Zenon
<1>5. /\ OnAll' = all /\ BlocksUpTo(Blocks)' = bl /\ ExpertsUpTo(layer)' = ex + cold
      /\ Expert' = e /\ Ends' = 0
  <2>1. profile' = profile /\ Blocks' = Blocks /\ Consoles' = Consoles
    BY <1>1 DEF profile, Blocks, Consoles
  <2>2. /\ OnAll' = OnAll /\ BlocksUpTo(Blocks)' = BlocksUpTo(Blocks)
        /\ ExpertsUpTo(layer)' = ExpertsUpTo(l + 1) /\ Expert' = Expert /\ Ends' = 0
    BY <1>1, <1>2, <2>1 DEF OnAll, BlocksUpTo, ExpertsUpTo, ColdOf, Expert, Ends
  <2>3. ExpertsUpTo(l + 1) = ExpertsUpTo(l) + ColdOf(l)
    BY ColdIsNat DEF BudgetInv, PlanTypeOK
  <2> QED BY <1>2, <1>3, <2>2, <2>3, Zenon
<1>6. PICK gone \in Nat : short' = lost + gone /\ x * e + gone = cold
  <2>1. CASE Dense(layer)
    <3>1. l < dense
      BY <1>2, <2>1, Zenon DEF Dense
    <3>2. cold = 0
      BY <1>2, <1>3, <3>1 DEF ColdOf
    <3>3. pass = "none"
      <4>1. ~(profile.moe.dense <= layer)
        BY <1>2, <3>1
      <4> QED BY <1>1, <4>1 DEF ShardsInv, Placing
    <3>4. x = 0
      BY <1>2, <3>3 DEF BudgetInv, PassInv
    <3>5. short' = lost + 0
      BY <1>1, <1>3, <2>1
    <3>6. x * e + 0 = cold
      BY <3>2, <3>4
    <3> QED BY <3>5, <3>6
  <2>2. CASE ~Dense(layer)
    <3>1. ~(l < dense)
      BY <1>2, <2>2, Zenon DEF Dense
    <3>2. cold = e * routed
      BY <1>2, <1>3, <3>1, Zenon DEF ColdOf, ColdBytesPerMoeLayer, Expert, Routed
    <3>3. short' = lost + (routed - x) * e
      BY <1>1, <1>2, <1>3, <2>2, Zenon DEF Left
    <3>4. PICK r \in Nat : r = routed - x /\ routed = x + r
      BY <1>2
    <3>5. r * e \in Nat /\ x * e + r * e = e * (x + r)
      OBVIOUS
    <3>6. short' = lost + r * e
      BY <3>3, <3>4
    <3>7. x * e + r * e = cold
      BY <3>2, <3>4, <3>5
    <3> QED BY <3>5, <3>6, <3>7
  <2> QED BY <2>1, <2>2
<1>7. all + (lost + gone) = bl + (ex + cold) + 0 * e + 0
  <2>1. PICK xe \in Nat : xe = x * e
    BY <1>2
  <2>2. 0 * e = 0
    BY <1>2
  <2>3. all + lost = bl + ex + xe + 0 /\ xe + gone = cold
    BY <1>4, <1>6, <2>1
  <2>4. all + (lost + gone) = bl + (ex + cold) + 0 + 0
    BY ONLY <2>3, all \in Nat, lost \in Nat, bl \in Nat, ex \in Nat, cold \in Nat, gone \in Nat,
       xe \in Nat
  <2> QED BY <2>2, <2>4
<1>8. (OnAll + short = BlocksUpTo(Blocks) + ExpertsUpTo(layer) + next * Expert + Ends)'
  BY <1>1, <1>5, <1>6, <1>7, Zenon
<1> QED BY <1>1, <1>8 DEF BytesInv

\* Each of the ends adds the bytes of an embedding.
LEMMA EndsBytes ==
    ASSUME BudgetInv, BytesInv, EndExperts \/ AssignEmbedding \/ AssignHead
    PROVE  BytesInv'
<1>1. /\ phase \in {"experts", "embedding", "lm_head"} /\ phase' \notin {"range", "experts"}
      /\ UNCHANGED <<case, layer, next, short>>
  BY DEF EndExperts, AssignEmbedding, AssignHead, AssignPiece
<1>2. PICK emb \in Nat : emb = EmbeddingBytes(profile)
  BY PlanNumbers DEF BudgetInv, PlanTypeOK
<1>3. profile' = profile /\ Blocks' = Blocks
  BY <1>1 DEF profile, Blocks
<1>4. /\ BlocksUpTo(Blocks)' = BlocksUpTo(Blocks) /\ ExpertsUpTo(layer)' = ExpertsUpTo(layer)
      /\ Expert' = Expert /\ EmbeddingBytes(profile)' = emb
  BY <1>1, <1>2, <1>3 DEF BlocksUpTo, ExpertsUpTo, ColdOf, Expert
<1>5. PICK sum : sum = BlocksUpTo(Blocks) + ExpertsUpTo(layer) + next * Expert
  OBVIOUS
<1>6. OnAll + short = sum + Ends
  BY <1>1, <1>5 DEF BytesInv, Placing
<1>7. sum \in Nat
  <2>1. case \in Cases /\ layer \in Nat
    BY DEF BudgetInv, PlanTypeOK
  <2>2. PICK blocks \in Nat : blocks = Blocks
    BY <2>1, PlanNumbers
  <2>3. PICK bl \in Nat : bl = BlocksUpTo(Blocks)
    BY <2>1, <2>2, UpToIs
  <2>4. PICK ex \in Nat : ex = ExpertsUpTo(layer)
    BY <2>1, ColdIsNat
  <2>5. PICK x \in Nat, e \in Nat : x = next /\ e = Expert
    <3>1. next \in Nat /\ Expert \in Nat
      BY PlanNumbers DEF BudgetInv, PlanTypeOK
    <3> QED BY <3>1
  <2>6. x * e \in Nat
    OBVIOUS
  <2>7. bl + ex + x * e \in Nat
    BY <2>6
  <2> QED BY <1>5, <2>3, <2>4, <2>5, <2>7, Zenon
<1>8. PICK all \in Nat, lost \in Nat : all = OnAll /\ lost = short
  BY OnAllIsNat DEF BudgetInv, PlanTypeOK
<1>9. SUFFICES ASSUME Placing'
               PROVE  OnAll' + short = sum + Ends'
  BY <1>1, <1>4, <1>5 DEF BytesInv
<1>10. CASE EndExperts
  <2>1. phase = "experts" /\ phase' = "embedding" /\ OnAll' = OnAll
    BY <1>10 DEF EndExperts, OnAll, Consoles
  <2>2. Ends = 0 /\ Ends' = 0
    BY <2>1 DEF Ends
  <2> QED BY <1>6, <2>1, <2>2
<1>11. CASE AssignEmbedding \/ AssignHead
  <2>1. PICK id \in Consoles, v \in UnitPlans :
           /\ units' = [units EXCEPT ![id] = v]
           /\ OnUnits(v) = OnUnits(units[id]) + EmbeddingBytes(profile)
    BY <1>11, Assigned
  <2>2. OnUnits(v) = OnUnits(units[id]) + emb
    BY <1>2, <2>1
  <2>3. OnAll' = all + emb
    <3>1. OnAll' = OnAll + emb
      BY <2>1, <2>2, OnAllPlus
    <3> QED BY <1>8, <3>1
  <2>4. CASE AssignEmbedding
    <3>1. phase = "embedding" /\ phase' = "lm_head"
      BY <2>4 DEF AssignEmbedding
    <3>2. Ends = 0 /\ Ends' = emb
      BY <1>4, <3>1 DEF Ends
    <3>3. all + lost = sum + 0
      BY <1>6, <1>8, <3>2, Zenon
    <3>4. (all + emb) + lost = sum + emb
      BY <1>7, <3>3
    <3> QED BY <1>8, <2>3, <3>2, <3>4, Zenon
  <2>5. CASE AssignHead
    <3>1. phase = "lm_head" /\ phase' = "done"
      BY <1>9, <2>5 DEF AssignHead, Placing
    <3>2. Ends = emb /\ Ends' = 2 * emb
      BY <1>2, <1>4, <3>1 DEF Ends
    <3>3. all + lost = sum + emb
      BY <1>6, <1>8, <3>2, Zenon
    <3>4. (all + emb) + lost = sum + 2 * emb
      BY <1>7, <3>3
    <3> QED BY <1>8, <2>3, <3>2, <3>4, Zenon
  <2> QED BY <1>11, <2>4, <2>5
<1> QED BY <1>10, <1>11

\* Every step of the plan accounts for the bytes it places.
LEMMA BytesStep ==
    ASSUME BudgetInv, BudgetInv', ShardsInv, BytesInv, [PlanNext]_planVars
    PROVE  BytesInv'
<1>1. CASE RefuseFleet \/ LoadFleet \/ Shelve \/ DealLayer \/ Unhosted
  <2>1. phase' \in {"error", "shelve", "deal"}
    BY <1>1 DEF RefuseFleet, LoadFleet, Shelve, DealLayer, Unhosted
  <2> QED BY <2>1 DEF BytesInv, Placing
<1>2. CASE EndDeal
  <2>1. phase' = "range" /\ stages' = <<>> /\ at' = 1 /\ layer' = 0
    BY <1>2 DEF EndDeal, BudgetInv, FreshInv
  <2>2. \A id \in Consoles' : NoExperts(units'[id]) /\ NoBlocks(units'[id])
    <3>1. \A i \in DOMAIN shelves' : ~(i < at')
      BY <2>1 DEF BudgetInv, PlanTypeOK
    <3> QED BY <2>1, <3>1 DEF BudgetInv, FreshInv
  <2> PICK D : D = Consoles'
    OBVIOUS
  <2> PICK f : f = [id \in D |-> OnUnits(units'[id])]
    OBVIOUS
  <2>3. \A id \in D : f[id] = 0
    BY <2>2 DEF NoExperts, NoBlocks, OnUnits
  <2>4. IsFiniteSet(D) /\ DOMAIN f = D
    BY DEF BudgetInv, PlanTypeOK
  <2>5. SumFunctionOnSet(f, D) = 0
    BY <2>3, <2>4, SumOfZeros
  <2>6. OnAll' = 0
    BY <2>4, <2>5 DEF OnAll, SumFunction
  <2>7. BlocksUpTo(layer)' = 0
    <3> PICK z : z = [i \in 0..0 - 1 |-> BlockBytes(profile', i)]
      OBVIOUS
    <3>1. DOMAIN z = {}
      OBVIOUS
    <3>2. SumFunction(z) = 0
      BY <3>1, SumOverNone DEF SumFunction
    <3> QED BY <2>1, <3>2 DEF BlocksUpTo
  <2> QED BY <2>1, <2>6, <2>7 DEF BytesInv, Placing
<1>3. CASE HostRange
  BY <1>3, HostRangeBytes
<1>4. CASE EndRanges
  BY <1>4, EndRangesBytes
<1>5. CASE TakeShard
  BY <1>5, TakeBytes
<1>6. CASE NextLayer
  BY <1>6, NextLayerBytes
<1>7. CASE EndExperts \/ AssignEmbedding \/ AssignHead
  BY <1>7, EndsBytes
<1>8. CASE Skip \/ PassBy \/ NextPass \/ UNCHANGED planVars
  <2>1. UNCHANGED <<case, phase, units, layer, next, short>>
    BY <1>8 DEF Skip, PassBy, Turn, NextPass, planVars
  <2>2. profile' = profile /\ Blocks' = Blocks /\ Consoles' = Consoles
    BY <2>1 DEF profile, Blocks, Consoles
  <2> QED BY <2>1, <2>2 DEF BytesInv, Placing, OnAll, BlocksUpTo, ExpertsUpTo, ColdOf, Ends, Expert
<1> QED BY <1>1, <1>2, <1>3, <1>4, <1>5, <1>6, <1>7, <1>8 DEF PlanNext


-----------------------------------------------------------------------------
(* The inductive invariant of a plan. *)

\* A layer's piece of the model is its block and its routed experts, an MTP head's likewise:
\* the sum over the blocks is the sum TotalBytes takes over layers and heads.
LEMMA ModelSum ==
    ASSUME case \in Cases
    PROVE  BlocksUpTo(Blocks) + ExpertsUpTo(Blocks) + 2 * EmbeddingBytes(profile)
             = TotalBytes(profile) - FinalHeadBytes(profile)
<1>1. PICK layers \in Nat, mtp \in Nat, dense \in Nat, blocks \in Nat :
         /\ layers = profile.layers /\ mtp = profile.mtp /\ dense = profile.moe.dense
         /\ blocks = Blocks /\ blocks = layers + mtp /\ dense <= layers
  <2>1. /\ profile.layers \in Nat /\ profile.mtp \in Nat /\ profile.moe.dense \in 0..profile.layers
        /\ Blocks = profile.layers + profile.mtp
    BY PlanNumbers
  <2>2. profile.moe.dense \in Nat /\ profile.moe.dense <= profile.layers /\ Blocks \in Nat
    BY <2>1
  <2> QED BY <2>1, <2>2
<1>2. PICK emb \in Nat, head \in Nat, cold \in Nat :
         /\ emb = EmbeddingBytes(profile) /\ head = FinalHeadBytes(profile)
         /\ cold = ColdBytesPerMoeLayer(profile)
  <2>1. PICK e \in Nat, r \in Nat : e = Expert /\ r = Routed
    BY PlanNumbers
  <2>2. ColdBytesPerMoeLayer(profile) = e * r
    BY <2>1 DEF ColdBytesPerMoeLayer, Expert, Routed
  <2>3. e * r \in Nat
    OBVIOUS
  <2> QED BY <2>2, <2>3, PlanNumbers
<1> PICK B : B = 0..blocks - 1
  OBVIOUS
<1> PICK T : T = 0..layers - 1
  OBVIOUS
<1> PICK H : H = 0..mtp - 1
  OBVIOUS
<1> PICK R : R = layers..layers + mtp - 1
  OBVIOUS
<1>3. T \subseteq B /\ B \ T = R /\ R \subseteq B
  <2>1. layers \in Nat /\ mtp \in Nat /\ B = 0..layers + mtp - 1
    BY <1>1, SMTT(30)
  <2>2. \A i \in B : i \in T \/ i \in R
    BY <2>1
  <2>3. \A i \in R : i \in B /\ i \notin T
    BY <2>1
  <2>4. T \subseteq B
    BY <2>1
  <2> QED BY <2>2, <2>3, <2>4
<1>4. IsFiniteSet(B) /\ IsFiniteSet(T) /\ IsFiniteSet(H) /\ IsFiniteSet(R)
  <2>1. layers \in Nat /\ mtp \in Nat /\ blocks \in Nat
    BY <1>1
  <2> QED BY <2>1, FS_Interval
<1> PICK fb : fb = [i \in B |-> BlockBytes(profile, i)]
  OBVIOUS
<1> PICK fc : fc = [i \in B |-> ColdOf(i)]
  OBVIOUS
<1> PICK f : f = [i \in B |-> fb[i] + fc[i]]
  OBVIOUS
<1> PICK g : g = [i \in T |-> LayerBytes(profile, i)]
  OBVIOUS
<1> PICK h : h = [n \in H |-> MtpHotBytes(profile, n) + ColdBytesPerMoeLayer(profile)]
  OBVIOUS
<1>5. \A i \in B : fb[i] \in Nat /\ fc[i] \in Nat /\ f[i] = fb[i] + fc[i]
  <2>1. \A i \in B : fb[i] \in Nat
    BY <1>1, PlanNumbers
  <2>2. \A i \in B : fc[i] \in Nat
    BY <1>2 DEF ColdOf
  <2> QED BY <2>1, <2>2
<1>6. \A i \in B : f[i] \in Nat
  BY <1>5
<1>7. SumFunctionOnSet(f, B) = SumFunctionOnSet(fb, B) + SumFunctionOnSet(fc, B)
  <2>1. IsFiniteSet(B)
    BY <1>4
  <2> QED BY ONLY <1>5, <2>1, SumsAdd
<1>8. SumFunctionOnSet(f, B) = SumFunctionOnSet(f, T) + SumFunctionOnSet(f, R)
  <2>1. IsFiniteSet(B) /\ T \subseteq B
    BY <1>3, <1>4
  <2>2. SumFunctionOnSet(f, B) = SumFunctionOnSet(f, T) + SumFunctionOnSet(f, B \ T)
    BY ONLY <1>6, <2>1, SumSplits
  <2> QED BY <1>3, <2>2
<1>9. SumFunctionOnSet(f, T) = SumFunctionOnSet(g, T)
  <2>1. ASSUME NEW i \in T
        PROVE  f[i] = g[i]
    <3>1. i \in B /\ i \in Nat /\ i < layers
      BY <1>1, <1>3, SMTT(30)
    <3>2. f[i] = BlockBytes(profile, i) + ColdOf(i) /\ g[i] = LayerBytes(profile, i)
      BY <3>1
    <3>3. CASE i < dense
      <4>1. BlockBytes(profile, i) = DenseLayerBytes(profile, i) /\ ColdOf(i) = 0
        BY <1>1, <3>3 DEF BlockBytes, ColdOf
      <4>2. LayerBytes(profile, i) = DenseLayerBytes(profile, i)
        BY <1>1, <3>3 DEF LayerBytes
      <4>3. PICK b \in Nat : b = BlockBytes(profile, i)
        BY <1>5, <3>1
      <4> QED BY <3>2, <4>1, <4>2, <4>3
    <3>4. CASE ~(i < dense)
      <4>1. i >= dense /\ i < layers
        BY <1>1, <3>1, <3>4
      <4>2. BlockBytes(profile, i) = HotBytesPerMoeLayer(profile, i)
        BY <1>1, <3>4, <4>1 DEF BlockBytes
      <4>3. ColdOf(i) = ColdBytesPerMoeLayer(profile)
        BY <1>1, <3>4 DEF ColdOf
      <4>4. LayerBytes(profile, i)
              = HotBytesPerMoeLayer(profile, i) + ColdBytesPerMoeLayer(profile)
        BY <1>1, <3>4 DEF LayerBytes
      <4> QED BY <3>2, <4>2, <4>3, <4>4
    <3> QED BY <3>3, <3>4
  <2>2. IsFiniteSet(T) /\ \A i \in T : f[i] = g[i]
    BY <1>4, <2>1
  <2> QED BY ONLY <2>2, SumSame
<1>10. SumFunctionOnSet(h, H) = SumFunctionOnSet(f, R)
  <2>1. ASSUME NEW n \in 0..mtp - 1
        PROVE  f[layers + n] \in Nat /\ h[n] = f[layers + n]
    <3>1. PICK i \in Nat : i = layers + n
      BY <1>1
    <3>2. i \in B /\ n \in H /\ ~(i < dense) /\ ~(i < layers) /\ i - layers = n
      <4>1. n \in Nat /\ n < mtp /\ layers \in Nat /\ mtp \in Nat /\ dense \in Nat
              /\ dense <= layers /\ blocks = layers + mtp
        BY <1>1
      <4>2. i \in 0..blocks - 1
        BY <3>1, <4>1
      <4> QED BY <3>1, <4>1, <4>2
    <3>3. BlockBytes(profile, i) = MtpHotBytes(profile, i - profile.layers)
      BY <1>1, <3>2 DEF BlockBytes
    <3>4. ColdOf(i) = ColdBytesPerMoeLayer(profile)
      BY <1>1, <3>2 DEF ColdOf
    <3>5. f[i] = BlockBytes(profile, i) + ColdOf(i)
      BY <3>2
    <3>6. h[n] = MtpHotBytes(profile, n) + ColdBytesPerMoeLayer(profile)
      BY <3>2
    <3>7. f[i] = h[n]
      BY <1>1, <3>2, <3>3, <3>4, <3>5, <3>6
    <3> QED BY <1>6, <3>1, <3>2, <3>7
  <2>2. \A n \in 0..mtp - 1 : f[layers + n] \in Nat /\ h[n] = f[layers + n]
    BY <2>1
  <2>3. SumFunctionOnSet(h, 0..mtp - 1) = SumFunctionOnSet(f, layers..layers + mtp - 1)
    <3>1. layers \in Nat
      BY <1>1
    <3>2. mtp \in Nat
      BY <1>1
    <3>3. Shifted(f, h, layers, mtp)
      BY <2>2 DEF Shifted
    <3> QED BY ONLY <3>1, <3>2, <3>3, SumShifts
  <2> QED BY <2>3
<1>11. DOMAIN fb = B /\ DOMAIN fc = B /\ DOMAIN g = T /\ DOMAIN h = H
  OBVIOUS
<1>12. PICK a \in Nat, c \in Nat, d \in Nat, m \in Nat :
          /\ a = SumFunctionOnSet(fb, B) /\ c = SumFunctionOnSet(fc, B)
          /\ d = SumFunctionOnSet(g, T) /\ m = SumFunctionOnSet(h, H)
  <2>1. SumFunctionOnSet(fb, B) \in Nat /\ SumFunctionOnSet(fc, B) \in Nat
    BY <1>4, <1>5, SumIsNat
  <2>2. (\A i \in T : f[i] \in Nat) /\ (\A i \in R : f[i] \in Nat)
    BY <1>3, <1>6
  <2>3. SumFunctionOnSet(f, T) \in Nat /\ SumFunctionOnSet(f, R) \in Nat
    BY <1>4, <2>2, SumIsNat
  <2> QED BY <1>9, <1>10, <2>1, <2>3
<1>13. BlocksUpTo(Blocks) = a /\ ExpertsUpTo(Blocks) = c
  <2>1. BlocksUpTo(Blocks) = SumFunction(fb) /\ ExpertsUpTo(Blocks) = SumFunction(fc)
    BY <1>1, Zenon DEF BlocksUpTo, ExpertsUpTo
  <2> QED BY <1>11, <1>12, <2>1 DEF SumFunction
<1>14. TotalBytes(profile) = 2 * emb + head + m + d
  <2>1. SumFunction(h) = m /\ SumFunction(g) = d
    BY <1>11, <1>12 DEF SumFunction
  <2>2. MtpBytes(profile) = SumFunction(h)
    BY <1>1, Zenon DEF MtpBytes
  <2>3. TotalBytes(profile) = 2 * emb + head + MtpBytes(profile) + SumFunction(g)
    BY <1>1, <1>2, Zenon DEF TotalBytes
  <2> QED BY <2>1, <2>2, <2>3, Zenon
<1>15. a + c = d + m
  BY <1>7, <1>8, <1>9, <1>10, <1>12
<1>16. a + c + 2 * emb = (2 * emb + head + m + d) - head
  BY ONLY <1>15, a \in Nat, c \in Nat, d \in Nat, m \in Nat, emb \in Nat, head \in Nat
<1> QED BY <1>2, <1>13, <1>14, <1>16, Zenon

\* The inductive invariant of a plan: its budget, its ranges, and what is placed.
PlanInv == BudgetInv /\ StagesInv /\ HostedInv /\ ShardsInv /\ BytesInv

\* The inductive invariant holds of every plan, at every step.
THEOREM PlanInvariant == PlanSpec => []PlanInv
<1>1. PlanInit => PlanInv
  <2> SUFFICES ASSUME PlanInit PROVE PlanInv
    OBVIOUS
  <2>1. phase = "load" /\ DOMAIN units = {}
    BY DEF PlanInit
  <2>2. StagesInv /\ ShardsInv /\ BytesInv
    BY <2>1 DEF StagesInv, ShardsInv, BytesInv, Placing
  <2>3. HostedInv
    BY <2>1 DEF HostedInv, Consoles
  <2> QED BY <2>2, <2>3, InitBudget DEF PlanInv
<1>2. PlanInv /\ [PlanNext]_planVars => PlanInv'
  <2> SUFFICES ASSUME PlanInv, [PlanNext]_planVars PROVE PlanInv'
    OBVIOUS
  <2>1. BudgetInv'
    BY StepBudget DEF PlanInv
  <2>2. StagesInv' /\ HostedInv'
    BY <2>1, StagesStep, HostedStep DEF PlanInv
  <2>3. ShardsInv' /\ BytesInv'
    BY <2>1, ShardsStep, BytesStep DEF PlanInv
  <2> QED BY <2>1, <2>2, <2>3 DEF PlanInv
<1> QED BY <1>1, <1>2, PTL DEF PlanSpec

\* A plan is whole: every block on the one host of its stage, every expert in one shard on a
\* unit its stage asks, and the bytes of all units those of the model, whatever fleet and
\* checkpoint it is a plan for.
THEOREM PlanIsWhole == PlanSpec => []PlanWhole
<1>1. PlanInv => PlanWhole
  <2> SUFFICES ASSUME PlanInv, Planned PROVE HostedOnce /\ ExpertsOnce /\ BytesPlaced
    BY DEF PlanWhole
  <2>1. phase = "done" /\ Placing
    BY DEF Planned, Placing
  <2>2. HostedOnce /\ ExpertsOnce
    BY <2>1, BlocksHostedOnce, ExpertsPlacedOnce DEF PlanInv
  <2>3. /\ OnAll + short = BlocksUpTo(Blocks) + ExpertsUpTo(layer) + next * Expert + Ends
        /\ layer = Blocks /\ short = 0 /\ pass = "none"
    BY <2>1 DEF PlanInv, BytesInv, StagesInv, ShardsInv
  <2>4. next = 0 /\ Ends = 2 * EmbeddingBytes(profile)
    BY <2>1, <2>3 DEF PlanInv, BudgetInv, PassInv, Ends
  <2>5. PICK all \in Nat, bl \in Nat, ex \in Nat, emb \in Nat, e \in Nat :
           /\ all = OnAll /\ bl = BlocksUpTo(Blocks) /\ ex = ExpertsUpTo(Blocks)
           /\ emb = EmbeddingBytes(profile) /\ e = Expert
    <3>1. case \in Cases
      BY DEF PlanInv, BudgetInv, PlanTypeOK
    <3>2. PICK blocks \in Nat : blocks = Blocks
      BY <3>1, PlanNumbers
    <3>3. BlocksUpTo(blocks) \in Nat /\ ExpertsUpTo(blocks) \in Nat
      BY <3>1, <3>2, UpToIs, ColdIsNat
    <3>4. OnAll \in Nat
      BY OnAllIsNat DEF PlanInv
    <3> QED BY <3>1, <3>2, <3>3, <3>4, PlanNumbers
  <2>6. all + 0 = bl + ex + 0 * e + 2 * emb
    BY <2>3, <2>4, <2>5, Zenon
  <2>7. all = bl + ex + 2 * emb
    BY ONLY <2>6, all \in Nat, bl \in Nat, ex \in Nat, emb \in Nat, e \in Nat
  <2>8. bl + ex + 2 * emb = TotalBytes(profile) - FinalHeadBytes(profile)
    BY <2>5, ModelSum DEF PlanInv, BudgetInv, PlanTypeOK
  <2>9. BytesPlaced
    BY <2>5, <2>7, <2>8, Zenon DEF BytesPlaced, OnAll
  <2> QED BY <2>2, <2>9
<1> QED BY <1>1, PlanInvariant, PTL


-----------------------------------------------------------------------------
(* What a loss takes away. *)

\* No two tiers are handed out at once.
LEMMA AheadOrders ==
    ASSUME NEW tiers, TiersOK(tiers)
    PROVE  /\ \A i, j \in DOMAIN tiers : i # j => Ahead(tiers, i, j) \/ Ahead(tiers, j, i)
           /\ \A i, j \in DOMAIN tiers : Ahead(tiers, i, j) => i # j /\ ~Ahead(tiers, j, i)
           /\ \A i, j, k \in DOMAIN tiers :
                 Ahead(tiers, i, j) /\ Ahead(tiers, j, k) => Ahead(tiers, i, k)
<1>1. \A i \in DOMAIN tiers : i \in Nat /\ tiers[i].bw \in Nat
  BY DEF TiersOK, TierOK
<1> QED BY <1>1 DEF Ahead

\* Of some tiers there is one that is handed out last.
LEMMA HindmostExists ==
    ASSUME NEW tiers, TiersOK(tiers), NEW s, s \subseteq DOMAIN tiers, s # {}
    PROVE  \E x \in s : \A k \in s \ {x} : Ahead(tiers, k, x)
<1> DEFINE Hindmost(t, x) == \A k \in t \ {x} : Ahead(tiers, k, x)
           Bad == {t \in SUBSET (DOMAIN tiers) : t # {} /\ \A x \in t : ~Hindmost(t, x)}
<1>1. SUFFICES ASSUME Bad # {} PROVE FALSE
  <2>1. s \in Bad \/ \E x \in s : Hindmost(s, x)
    OBVIOUS
  <2> QED BY <2>1
<1>2. PICK t \in Bad : \A x \in t : t \ {x} \notin Bad
  <2>1. Bad \in SUBSET SUBSET (DOMAIN tiers) /\ IsFiniteSet(DOMAIN tiers)
    BY DEF TiersOK
  <2> HIDE DEF Bad
  <2> QED BY <1>1, <2>1, SmallestPart
<1>3. t \subseteq DOMAIN tiers /\ t # {} /\ \A x \in t : ~Hindmost(t, x)
  OBVIOUS
<1>4. PICK x : x \in t
  BY <1>3
<1>5. PICK r : r = t \ {x}
  OBVIOUS
<1>6. r # {}
  BY <1>3, <1>4, <1>5
<1>7. PICK y \in r : Hindmost(r, y)
  <2>1. r \notin Bad /\ r \in SUBSET (DOMAIN tiers)
    BY <1>2, <1>3, <1>4, <1>5
  <2> QED BY <1>6, <2>1
<1>8. x \in DOMAIN tiers /\ y \in DOMAIN tiers /\ x # y /\ y \in t
  BY <1>3, <1>4, <1>5
<1>9. CASE Ahead(tiers, x, y)
  <2>1. Hindmost(t, y)
    BY <1>4, <1>5, <1>7, <1>9
  <2> QED BY <1>3, <1>8, <2>1
<1>10. CASE Ahead(tiers, y, x)
  <2>1. \A k \in r : k = y \/ Ahead(tiers, k, y)
    BY <1>7
  <2>2. \A k \in r : Ahead(tiers, k, x)
    BY <1>3, <1>5, <1>8, <1>10, <2>1, AheadOrders
  <2>3. Hindmost(t, x)
    BY <1>5, <2>2
  <2> QED BY <1>3, <1>4, <2>3
<1> QED BY <1>8, <1>9, <1>10, AheadOrders

\* Tiers that are handed out before any other.
Foremost(tiers, s) == \A i \in s : \A k \in DOMAIN tiers : Ahead(tiers, k, i) => k \in s

\* Of the foremost tiers a sandbox leaves all they have, or its budget.
LEMMA SandboxLeaves ==
    ASSUME NEW tiers, TiersOK(tiers), NEW budget, Figures(budget), budget # {},
           NEW F, F \subseteq DOMAIN tiers, Foremost(tiers, F),
           NEW us, us = [i \in DOMAIN tiers |-> Usable(tiers[i])],
           NEW sp, sp = [i \in DOMAIN tiers |-> Spared(tiers, budget, i)]
    PROVE  SumFunctionOnSet(sp, F)
             = AtMost(SumFunctionOnSet(us, F), AtLeast(0, Or(budget, 0)))
<1> DEFINE U(s) == SumFunctionOnSet(us, s)
           S(s) == SumFunctionOnSet(sp, s)
           Bad == {s \in SUBSET (DOMAIN tiers) :
                     Foremost(tiers, s) /\ S(s) # AtMost(U(s), AtLeast(0, Or(budget, 0)))}
<1>1. SUFFICES ASSUME Bad # {} PROVE FALSE
  OBVIOUS
<1>2. PICK s \in Bad : \A x \in s : s \ {x} \notin Bad
  <2>1. Bad \in SUBSET SUBSET (DOMAIN tiers) /\ IsFiniteSet(DOMAIN tiers)
    BY DEF TiersOK
  <2> HIDE DEF Bad
  <2> QED BY <1>1, <2>1, SmallestPart
<1>3. /\ s \subseteq DOMAIN tiers /\ Foremost(tiers, s) /\ IsFiniteSet(s)
      /\ S(s) # AtMost(U(s), AtLeast(0, Or(budget, 0)))
  BY FS_Subset DEF TiersOK
<1>4. PICK most \in Int : most = Or(budget, 0)
  BY OrIsInt
<1>5. s # {}
  <2> SUFFICES ASSUME s = {} PROVE FALSE
    OBVIOUS
  <2>1. U(s) = 0 /\ S(s) = 0
    BY SumOverNone
  <2>2. AtMost(0, AtLeast(0, most)) = 0
    BY <1>4 DEF AtMost, AtLeast
  <2> QED BY <1>3, <1>4, <2>1, <2>2
<1>6. PICK x \in s : \A k \in s \ {x} : Ahead(tiers, k, x)
  BY <1>3, <1>5, HindmostExists
<1>7. PICK r : r = s \ {x}
  OBVIOUS
<1>8. r \subseteq DOMAIN tiers /\ IsFiniteSet(r) /\ x \in DOMAIN tiers
  BY <1>3, <1>6, <1>7, FS_Subset
<1>9. Foremost(tiers, r)
  <2> SUFFICES ASSUME NEW i \in r, NEW k \in DOMAIN tiers, Ahead(tiers, k, i)
               PROVE  k \in r
    BY DEF Foremost
  <2>1. k \in s
    BY <1>3, <1>7 DEF Foremost
  <2>2. i \in DOMAIN tiers /\ Ahead(tiers, i, x)
    BY <1>6, <1>7, <1>8
  <2>3. k # x
    BY <1>8, <2>2, AheadOrders
  <2> QED BY <1>7, <2>1, <2>3
<1>10. {k \in DOMAIN tiers : Ahead(tiers, k, x)} = r
  <2>1. \A k \in DOMAIN tiers : Ahead(tiers, k, x) => k \in r
    BY <1>3, <1>6, <1>7, <1>8, AheadOrders DEF Foremost
  <2>2. \A k \in r : k \in DOMAIN tiers /\ Ahead(tiers, k, x)
    BY <1>6, <1>7, <1>8
  <2> QED BY <2>1, <2>2
<1>11. \A i \in DOMAIN tiers : us[i] \in Nat /\ sp[i] \in Nat
  BY UsableIsNat, SparedIsNat DEF TiersOK
<1>12. PICK rest \in Nat, here \in Nat : rest = U(r) /\ here = us[x]
  <2>1. U(r) \in Nat
    BY <1>8, <1>11, SumIsNat
  <2> QED BY <1>8, <1>11, <2>1
<1>13. S(r) = AtMost(rest, AtLeast(0, most))
  <2>1. s \ {x} \notin Bad /\ s \ {x} \in SUBSET (DOMAIN tiers)
    BY <1>2, <1>3, <1>6
  <2>2. Foremost(tiers, s \ {x})
    BY <1>7, <1>9
  <2>3. S(s \ {x}) = AtMost(U(s \ {x}), AtLeast(0, Or(budget, 0)))
    <3> HIDE DEF S, U
    <3> QED BY <2>1, <2>2
  <2> HIDE DEF S, U, Bad
  <2> QED BY <1>4, <1>7, <1>12, <2>3, Zenon
<1>14. sp[x] = AtMost(here, AtLeast(0, most - rest))
  <2> PICK f : f = [j \in r |-> Usable(tiers[j])]
    OBVIOUS
  <2>1. SumFunction(f) = rest
    <3>1. SumFunction(f) = SumFunctionOnSet(f, r)
      BY DEF SumFunction
    <3>2. \A j \in r : f[j] = us[j]
      BY <1>8
    <3>3. SumFunctionOnSet(f, r) = SumFunctionOnSet(us, r)
      BY ONLY <1>8, <3>2, SumSame
    <3> QED BY <1>12, <3>1, <3>3
  <2>2. f = [j \in {k \in DOMAIN tiers : Ahead(tiers, k, x)} |-> Usable(tiers[j])]
    BY <1>10
  <2>3. Spared(tiers, budget, x)
          = AtMost(Usable(tiers[x]), AtLeast(0, Or(budget, 0) - SumFunction(f)))
    BY <2>2, Zenon DEF Spared
  <2>4. sp[x] = Spared(tiers, budget, x) /\ us[x] = Usable(tiers[x])
    BY <1>8
  <2> HIDE DEF U, S, Bad
  <2> QED BY <1>4, <1>12, <2>1, <2>3, <2>4, Zenon
<1>15. U(s) = here + rest /\ S(s) = sp[x] + S(r)
  <2>1. (\A i \in s : us[i] \in Nat) /\ (\A i \in s : sp[i] \in Nat)
    BY <1>3, <1>11
  <2>2. SumFunctionOnSet(us, s) = us[x] + SumFunctionOnSet(us, s \ {x})
    BY ONLY <1>3, <2>1, x \in s, SumTakesOut
  <2>3. SumFunctionOnSet(sp, s) = sp[x] + SumFunctionOnSet(sp, s \ {x})
    BY ONLY <1>3, <2>1, x \in s, SumTakesOut
  <2> HIDE DEF Bad
  <2> QED BY <1>7, <1>12, <2>2, <2>3
<1>16. S(s) = AtMost(here, AtLeast(0, most - rest)) + AtMost(rest, AtLeast(0, most))
  <2> HIDE DEF S, U, Bad
  <2> QED BY <1>13, <1>14, <1>15, Zenon
<1>17. AtMost(here, AtLeast(0, most - rest)) + AtMost(rest, AtLeast(0, most))
         = AtMost(here + rest, AtLeast(0, most))
  BY <1>4, <1>12 DEF AtMost, AtLeast
<1> HIDE DEF S, U, Bad
<1> QED BY <1>3, <1>4, <1>15, <1>16, <1>17, Zenon

\* What the tiers that are fast enough have.
FastPart(tiers, floor) ==
    SumFunctionOnSet([i \in DOMAIN tiers |-> Usable(tiers[i])],
                     {i \in DOMAIN tiers : tiers[i].bw >= floor})

\* It is a number.
LEMMA FastPartIsNat ==
    ASSUME NEW tiers, TiersOK(tiers), NEW floor
    PROVE  FastPart(tiers, floor) \in Nat
<1> PICK F : F = {i \in DOMAIN tiers : tiers[i].bw >= floor}
  OBVIOUS
<1> PICK us : us = [i \in DOMAIN tiers |-> Usable(tiers[i])]
  OBVIOUS
<1>1. IsFiniteSet(F) /\ \A i \in F : us[i] \in Nat
  BY UsableIsNat, FS_Subset DEF TiersOK
<1>2. SumFunctionOnSet(us, F) \in Nat
  BY ONLY <1>1, SumIsNat
<1> QED BY <1>2 DEF FastPart

\* The coffers that are fast enough hold all the tiers have, or what the sandbox may have.
LEMMA CofferWeight ==
    ASSUME NEW s, SpecOK(s), NEW d, LossOK(d), NEW floor \in Int,
           NEW cap, cap.coffers = ApplyMemoryDownbin(s, d)
    PROVE  WeightAtLeast(cap, floor)
             = IF d.budget = {} THEN FastPart(Surviving(s, d), floor)
               ELSE AtMost(FastPart(Surviving(s, d), floor), AtLeast(0, Or(d.budget, 0)))
<1> PICK tiers : tiers = Surviving(s, d)
  OBVIOUS
<1> PICK budget : budget = d.budget
  OBVIOUS
<1> PICK us : us = [i \in DOMAIN tiers |-> Usable(tiers[i])]
  OBVIOUS
<1> PICK sp : sp = [i \in DOMAIN tiers |-> Spared(tiers, budget, i)]
  OBVIOUS
<1> PICK F : F = {i \in DOMAIN tiers : tiers[i].bw >= floor}
  OBVIOUS
<1>1. TiersOK(tiers) /\ Figures(budget)
  BY SurvivingOK DEF LossOK
<1>2. \A i \in DOMAIN tiers : tiers[i].bw \in Nat /\ us[i] \in Nat /\ sp[i] \in Nat
  BY <1>1, UsableIsNat, SparedIsNat DEF TiersOK, TierOK
<1>3. F \subseteq DOMAIN tiers /\ IsFiniteSet(F) /\ Foremost(tiers, F)
  <2>1. IsFiniteSet(F)
    BY <1>1, FS_Subset DEF TiersOK
  <2>2. Foremost(tiers, F)
    BY <1>2 DEF Foremost, Ahead
  <2> QED BY <2>1, <2>2
<1> PICK coffers : coffers = cap.coffers
  OBVIOUS
<1>4. coffers = [i \in {j \in DOMAIN tiers : sp[j] > 0} |->
                   [bw |-> tiers[i].bw, size |-> sp[i]]]
  BY DEF ApplyMemoryDownbin
<1> PICK T : T = {j \in DOMAIN coffers : coffers[j].bw >= floor}
  OBVIOUS
<1> PICK g : g = [i \in T |-> coffers[i].size]
  OBVIOUS
<1>5. /\ T \subseteq F
      /\ \A i \in F : (i \in T => sp[i] = g[i]) /\ (i \notin T => sp[i] = 0)
  BY <1>2, <1>4
<1>6. WeightAtLeast(cap, floor) = SumFunctionOnSet(sp, F)
  <2>1. WeightAtLeast(cap, floor) = SumFunction(g) /\ DOMAIN g = T
    BY DEF WeightAtLeast
  <2>2. SumFunction(g) = SumFunctionOnSet(g, T)
    BY <2>1 DEF SumFunction
  <2>3. \A i \in F : sp[i] \in Nat /\ (i \in T => sp[i] = g[i]) /\ (i \notin T => sp[i] = 0)
    BY ONLY <1>2, <1>3, <1>5
  <2>4. SumFunctionOnSet(sp, F) = SumFunctionOnSet(g, T)
    BY ONLY <1>3, <1>5, <2>3, SumPastZeros
  <2> QED BY <2>1, <2>2, <2>4
<1>7. FastPart(tiers, floor) = SumFunctionOnSet(us, F)
  BY DEF FastPart
<1>8. CASE budget = {}
  <2>1. \A i \in DOMAIN tiers : Spared(tiers, budget, i) = Usable(tiers[i])
    BY <1>8, Zenon DEF Spared
  <2>2. \A i \in F : sp[i] = us[i]
    BY <1>3, <2>1
  <2>3. SumFunctionOnSet(sp, F) = SumFunctionOnSet(us, F)
    BY ONLY <1>3, <2>2, SumSame
  <2> QED BY <1>6, <1>7, <1>8, <2>3
<1>9. CASE budget # {}
  <2>1. SumFunctionOnSet(sp, F) = AtMost(SumFunctionOnSet(us, F), AtLeast(0, Or(budget, 0)))
    BY <1>1, <1>3, <1>9, SandboxLeaves
  <2> QED BY <1>6, <1>7, <1>9, <2>1
<1> QED BY <1>8, <1>9

\* Tiers that are no slower and no smaller have no less.
LEMMA MoreIsLeft ==
    ASSUME NEW a, NEW b, TiersOK(a), TiersOK(b), DOMAIN a = DOMAIN b, NEW floor \in Int,
           \A i \in DOMAIN a : a[i].bw <= b[i].bw /\ Usable(a[i]) <= Usable(b[i])
    PROVE  FastPart(a, floor) <= FastPart(b, floor)
<1> PICK A : A = {i \in DOMAIN a : a[i].bw >= floor}
  OBVIOUS
<1> PICK B : B = {i \in DOMAIN b : b[i].bw >= floor}
  OBVIOUS
<1> PICK f : f = [i \in DOMAIN a |-> Usable(a[i])]
  OBVIOUS
<1> PICK g : g = [i \in DOMAIN b |-> Usable(b[i])]
  OBVIOUS
<1>1. \A i \in DOMAIN a : /\ a[i].bw \in Nat /\ b[i].bw \in Nat
                          /\ f[i] \in Nat /\ g[i] \in Nat /\ f[i] <= g[i]
  BY UsableIsNat DEF TiersOK, TierOK
<1>2. A \subseteq B /\ IsFiniteSet(A) /\ IsFiniteSet(B)
  <2>1. A \subseteq B
    BY <1>1
  <2> QED BY <2>1, FS_Subset DEF TiersOK
<1>3. SumFunctionOnSet(f, A) <= SumFunctionOnSet(g, A)
  <2>1. \A i \in A : f[i] \in Nat /\ g[i] \in Nat /\ f[i] <= g[i]
    BY <1>1
  <2> QED BY ONLY <1>2, <2>1, SumAtMost
<1>4. SumFunctionOnSet(g, A) <= SumFunctionOnSet(g, B)
  <2>1. \A i \in B : g[i] \in Nat
    BY <1>1
  <2> QED BY ONLY <1>2, <2>1, SumOfPart
<1>5. PICK x \in Nat, y \in Nat, z \in Nat :
         /\ x = SumFunctionOnSet(f, A) /\ y = SumFunctionOnSet(g, A)
         /\ z = SumFunctionOnSet(g, B)
  <2>1. (\A i \in A : f[i] \in Nat) /\ (\A i \in A : g[i] \in Nat) /\ (\A i \in B : g[i] \in Nat)
    BY <1>1
  <2>2. SumFunctionOnSet(f, A) \in Nat /\ SumFunctionOnSet(g, A) \in Nat
          /\ SumFunctionOnSet(g, B) \in Nat
    BY ONLY <1>2, <2>1, SumIsNat
  <2> QED BY <2>2
<1>6. x <= z
  BY <1>3, <1>4, <1>5
<1>7. FastPart(a, floor) = x /\ FastPart(b, floor) = z
  BY <1>5 DEF FastPart
<1> QED BY <1>6, <1>7

\* What a unit has lost only adds to what its runtime takes.
LEMMA MergeTakes ==
    ASSUME NEW s, SpecOK(s), NEW r, LossOK(r), NEW d, LossOK(d)
    PROVE  \A i \in DOMAIN s.tiers :
             LET a == Surviving(s, Merge(r, d))[i]
                 b == Surviving(s, Merge(r, Pristine))[i]
             IN  a.bw <= b.bw /\ Usable(a) <= Usable(b)
<1> TAKE i \in DOMAIN s.tiers
<1> PICK t : t = s.tiers[i]
  OBVIOUS
<1> PICK n : n = t.name
  OBVIOUS
<1> PICK m : m = Merge(r, d)
  OBVIOUS
<1> PICK p : p = Merge(r, Pristine)
  OBVIOUS
<1>1. LossOK(m) /\ LossOK(p) /\ TierOK(t)
  BY MergeOK, PristineOK DEF SpecOK, TiersOK
<1>2. PICK x \in Nat, y \in Nat : x = Get(r.losses, n, 0) /\ y = Get(d.losses, n, 0)
  BY SMTT(30) DEF LossOK, Get
<1>3. PICK j \in 0..100, k \in 0..100 : j = Get(r.scales, n, 100) /\ k = Get(d.scales, n, 100)
  <2>1. 100 \in 0..100
    OBVIOUS
  <2>2. Get(r.scales, n, 100) \in 0..100
    BY <2>1 DEF LossOK, Get
  <2>3. Get(d.scales, n, 100) \in 0..100
    BY <2>1 DEF LossOK, Get
  <2> QED BY <2>2, <2>3, Zenon
<1>4. Get(Pristine.losses, n, 0) = 0 /\ Get(Pristine.scales, n, 100) = 100
  BY DEF Pristine, Get
<1>5. ASSUME NEW e, LossOK(e)
      PROVE  /\ Get(Merge(r, e).losses, n, 0) = Get(r.losses, n, 0) + Get(e.losses, n, 0)
             /\ Get(Merge(r, e).scales, n, 100)
                  = (Get(r.scales, n, 100) * Get(e.scales, n, 100)) \div 100
  <2> PICK f : f = Merge(r, e).losses
    OBVIOUS
  <2> PICK g : g = Merge(r, e).scales
    OBVIOUS
  <2>1. f = [a \in DOMAIN r.losses \cup DOMAIN e.losses |->
               Get(r.losses, a, 0) + Get(e.losses, a, 0)]
    BY DEF Merge
  <2>2. g = [a \in DOMAIN r.scales \cup DOMAIN e.scales |->
               (Get(r.scales, a, 100) * Get(e.scales, a, 100)) \div 100]
    BY DEF Merge
  <2>3. ASSUME n \in DOMAIN f PROVE Get(f, n, 0) = Get(r.losses, n, 0) + Get(e.losses, n, 0)
    <3>1. f[n] = Get(r.losses, n, 0) + Get(e.losses, n, 0)
      BY <2>1, <2>3
    <3>2. Get(f, n, 0) = f[n]
      BY <2>3 DEF Get
    <3> QED BY <3>1, <3>2
  <2>4. ASSUME n \notin DOMAIN f PROVE Get(f, n, 0) = Get(r.losses, n, 0) + Get(e.losses, n, 0)
    <3>1. n \notin DOMAIN r.losses /\ n \notin DOMAIN e.losses
      BY <2>1, <2>4
    <3>2. Get(r.losses, n, 0) = 0 /\ Get(e.losses, n, 0) = 0 /\ Get(f, n, 0) = 0
      BY <2>4, <3>1 DEF Get
    <3> QED BY <3>2
  <2>5. ASSUME n \in DOMAIN g
      PROVE  Get(g, n, 100) = (Get(r.scales, n, 100) * Get(e.scales, n, 100)) \div 100
    <3>1. g[n] = (Get(r.scales, n, 100) * Get(e.scales, n, 100)) \div 100
      BY <2>2, <2>5
    <3>2. Get(g, n, 100) = g[n]
      BY <2>5 DEF Get
    <3> QED BY <3>1, <3>2
  <2>6. ASSUME n \notin DOMAIN g
      PROVE  Get(g, n, 100) = (Get(r.scales, n, 100) * Get(e.scales, n, 100)) \div 100
    <3>1. n \notin DOMAIN r.scales /\ n \notin DOMAIN e.scales
      BY <2>2, <2>6
    <3>2. Get(r.scales, n, 100) = 100 /\ Get(e.scales, n, 100) = 100 /\ Get(g, n, 100) = 100
      BY <2>6, <3>1 DEF Get
    <3>3. (100 * 100) \div 100 = 100
      OBVIOUS
    <3> QED BY <3>2, <3>3
  <2>7. Get(f, n, 0) = Get(r.losses, n, 0) + Get(e.losses, n, 0)
    BY <2>3, <2>4
  <2>8. Get(g, n, 100) = (Get(r.scales, n, 100) * Get(e.scales, n, 100)) \div 100
    BY <2>5, <2>6
  <2> QED BY <2>7, <2>8
<1>6. Get(m.losses, n, 0) = x + y /\ Get(p.losses, n, 0) = x
  <2>1. Get(p.losses, n, 0) = x + 0
    BY <1>2, <1>4, <1>5, PristineOK
  <2> QED BY <1>2, <1>5, <2>1
<1>7. PICK v \in 0..100 : v = Get(m.scales, n, 100) /\ v <= j
  <2>1. Get(m.scales, n, 100) = (j * k) \div 100
    BY <1>3, <1>5, Zenon
  <2>2. \A a, c \in 0..100 : (a * c) \div 100 \in 0..100 /\ (a * c) \div 100 <= a
    <3> TAKE a, c \in 0..100
    <3>1. a * c <= a * 100 /\ a * c >= 0 /\ a * c \in Int /\ a \in 0..100
      OBVIOUS
    <3> QED BY <3>1
  <2>3. PICK w : w = (j * k) \div 100
    OBVIOUS
  <2>4. w \in 0..100 /\ w <= j
    BY <1>3, <2>2, <2>3, Zenon
  <2> QED BY <2>1, <2>3, <2>4, SMTT(30)
<1>8. Get(p.scales, n, 100) = j
  <2>1. Get(p.scales, n, 100) = (j * 100) \div 100
    BY <1>3, <1>4, <1>5, PristineOK, Zenon
  <2> QED BY <1>3, <2>1
<1>9. PICK total \in Nat, bw \in Nat, reserved \in Nat, weights \in BOOLEAN :
         total = t.total /\ bw = t.bw /\ reserved = t.reserved /\ weights = t.weights
  BY <1>1 DEF TierOK
<1> PICK a : a = Surviving(s, m)[i]
  OBVIOUS
<1> PICK b : b = Surviving(s, p)[i]
  OBVIOUS
<1>10. /\ a.total = AtLeast(0, total - (x + y)) /\ a.bw = (bw * v) \div 100
       /\ a.reserved = AtMost(reserved, AtLeast(0, total - (x + y))) /\ a.weights = weights
  <2>1. /\ a.total = AtLeast(0, t.total - Get(m.losses, t.name, 0))
        /\ a.bw = (t.bw * Get(m.scales, t.name, 100)) \div 100
        /\ a.reserved = AtMost(t.reserved, AtLeast(0, t.total - Get(m.losses, t.name, 0)))
        /\ a.weights = t.weights
    BY <1>1, SurvivingOK
  <2> QED BY <1>6, <1>7, <1>9, <2>1
<1>11. /\ b.total = AtLeast(0, total - x) /\ b.bw = (bw * j) \div 100
       /\ b.reserved = AtMost(reserved, AtLeast(0, total - x)) /\ b.weights = weights
  <2>1. /\ b.total = AtLeast(0, t.total - Get(p.losses, t.name, 0))
        /\ b.bw = (t.bw * Get(p.scales, t.name, 100)) \div 100
        /\ b.reserved = AtMost(t.reserved, AtLeast(0, t.total - Get(p.losses, t.name, 0)))
        /\ b.weights = t.weights
    BY <1>1, SurvivingOK
  <2> QED BY <1>6, <1>8, <1>9, <2>1
<1>12. a.bw <= b.bw
  <2>1. bw * v <= bw * j /\ bw * v \in Nat /\ bw * j \in Nat
    BY <1>3, <1>7, <1>9
  <2>2. (bw * v) \div 100 <= (bw * j) \div 100
    BY <2>1
  <2> QED BY <1>10, <1>11, <2>2
<1>13. Usable(a) <= Usable(b)
  <2>1. Usable(a) = IF weights
                    THEN AtLeast(0, AtLeast(0, total - (x + y))
                                      - AtMost(reserved, AtLeast(0, total - (x + y))))
                    ELSE 0
    BY <1>10 DEF Usable
  <2>2. Usable(b) = IF weights
                    THEN AtLeast(0, AtLeast(0, total - x)
                                      - AtMost(reserved, AtLeast(0, total - x)))
                    ELSE 0
    BY <1>11 DEF Usable
  <2> QED BY <1>2, <1>9, <2>1, <2>2 DEF AtLeast, AtMost
<1> QED BY <1>12, <1>13

\* What a unit can do is what its runtime, and what it has lost, leave of its console.
LEMMA CoffersOf ==
    ASSUME NEW u
    PROVE  Effective(u).coffers = ApplyMemoryDownbin(SkuFor(u.sku), Reductions(u))
<1> PICK spec : spec = SkuFor(u.sku)
  OBVIOUS
<1> PICK total : total = Reductions(u)
  OBVIOUS
<1> PICK coffers : coffers = ApplyMemoryDownbin(spec, total)
  OBVIOUS
<1>1. \E e, f, g, h : Effective(u) = [sku |-> spec.sku, backend |-> e, coffers |-> coffers,
                                      storage |-> f, gflops |-> g, measured |-> h]
  BY ZenonT(40) DEF Effective
<1> QED BY <1>1

\* The part of a sandbox a budget of its own leaves.
LEMMA BudgetTakes ==
    ASSUME NEW r, Figures(r), NEW d, Figures(d), NEW V \in Nat
    PROVE  (IF Tightest(r, d) = {} THEN V ELSE AtMost(V, AtLeast(0, Or(Tightest(r, d), 0))))
             = IF d = {} THEN (IF r = {} THEN V ELSE AtMost(V, AtLeast(0, Or(r, 0))))
               ELSE AtMost(IF r = {} THEN V ELSE AtMost(V, AtLeast(0, Or(r, 0))),
                           AtLeast(0, Or(d, 0)))
<1>1. \A v : Or({v}, 0) = v
  BY DEF Or
<1>2. CASE d = {}
  BY <1>2, TightestIs
<1>3. CASE d # {} /\ r = {}
  <2>1. PICK v \in Int : d = {v}
    <3>1. PICK v \in d : TRUE
      BY <1>3
    <3> QED BY <3>1 DEF Figures
  <2>2. Tightest(r, d) = {v}
    BY <1>3, <2>1, TightestIs
  <2> QED BY <1>1, <1>3, <2>1, <2>2
<1>4. CASE d # {} /\ r # {}
  <2>1. PICK v \in Int, w \in Int : d = {v} /\ r = {w}
    <3>1. PICK v \in d, w \in r : TRUE
      BY <1>4
    <3> QED BY <3>1 DEF Figures
  <2>2. Tightest(r, d) = {AtMost(w, v)}
    BY <2>1, TightestIs
  <2>3. AtMost(V, AtLeast(0, AtMost(w, v)))
          = AtMost(AtMost(V, AtLeast(0, w)), AtLeast(0, v))
    BY <2>1 DEF AtMost, AtLeast
  <2>4. Or(Tightest(r, d), 0) = AtMost(w, v) /\ Or(d, 0) = v /\ Or(r, 0) = w
    BY <1>1, <2>1, <2>2
  <2>5. Tightest(r, d) # {}
    BY <2>2
  <2> QED BY <1>4, <2>3, <2>4, <2>5
<1> QED BY <1>2, <1>3, <1>4

\* The entry of a fleet that has a name.
Named(fleet, id) == fleet[CHOOSE i \in DOMAIN fleet : fleet[i].id = id]

\* What the planner reads of a unit is what its runtime and its losses leave of its console.
CapsInv ==
    \A id \in DOMAIN caps :
       \E u : /\ u = Named(case.fleet, id) /\ ValidEntry(u) /\ ValidDownbin(u.downbin)
              /\ caps[id] = Effective(u)

\* Only the load of the fleet says what units can do.
LEMMA CapsStep ==
    ASSUME BudgetInv, CapsInv, [PlanNext]_planVars
    PROVE  CapsInv'
<1>1. CASE LoadFleet
  <2>1. \A i, j \in DOMAIN case.fleet : i # j => case.fleet[i].id # case.fleet[j].id
    BY <1>1, FleetLoaded
  <2>2. case' = case
    BY <1>1 DEF LoadFleet
  <2> PICK fleet : fleet = case.fleet
    OBVIOUS
  <2> PICK new : new = caps'
    OBVIOUS
  <2>3. ASSUME NEW id \in DOMAIN new
        PROVE  \E u : /\ u = Named(fleet, id) /\ ValidEntry(u) /\ ValidDownbin(u.downbin)
                      /\ new[id] = Effective(u)
    <3>1. id \in Consoles'
      BY <1>1, FleetLoaded
    <3>2. PICK i \in DOMAIN fleet : \E u :
             /\ ValidEntry(u) /\ ValidDownbin(u.downbin)
             /\ u.id = id /\ u = fleet[i] /\ new[id] = Effective(u)
      BY <1>1, <3>1, FleetLoaded
    <3>3. PICK k : k = CHOOSE j \in DOMAIN fleet : fleet[j].id = id
      OBVIOUS
    <3>4. fleet[i].id = id
      BY <3>2
    <3>5. k \in DOMAIN fleet /\ fleet[k].id = id
      BY <3>3, <3>4, Zenon
    <3>6. k = i
      BY <2>1, <3>4, <3>5
    <3>7. PICK u : /\ ValidEntry(u) /\ ValidDownbin(u.downbin)
                   /\ u = fleet[i] /\ new[id] = Effective(u)
      BY <3>2, Zenon
    <3>8. u = Named(fleet, id)
      BY <3>3, <3>6, <3>7, Zenon DEF Named
    <3> QED BY <3>7, <3>8, Zenon
  <2>4. \A id \in DOMAIN caps' :
          \E u : /\ u = Named(case'.fleet, id) /\ ValidEntry(u) /\ ValidDownbin(u.downbin)
                 /\ caps'[id] = Effective(u)
    BY <2>2, <2>3, Zenon
  <2> QED BY <2>4, Zenon DEF CapsInv
<1>2. CASE case' = case /\ caps' = caps
  BY <1>2, Zenon DEF CapsInv
<1>3. CASE PlanNext /\ ~LoadFleet
  <2>1. case' = case /\ caps' = caps
    BY <1>3 DEF PlanNext, RefuseFleet, Shelve, DealLayer, EndDeal, Skip, Unhosted, HostRange,
       EndRanges, PassBy, TakeShard, Turn, NextPass, NextLayer, EndExperts, AssignEmbedding,
       AssignHead, AssignPiece
  <2> QED BY <1>2, <2>1
<1>4. CASE UNCHANGED planVars
  <2>1. case' = case /\ caps' = caps
    BY <1>4 DEF planVars
  <2> QED BY <1>2, <2>1
<1> QED BY <1>1, <1>3, <1>4

\* A unit that lost nothing of its own has the figures its runtime leaves, and one with no
\* budget of its own those and its losses.
LEMMA LossTakes ==
    ASSUME NEW u, ValidEntry(u), ValidDownbin(u.downbin), NEW floor \in Int
    PROVE  LET bare == Effective([u EXCEPT !.downbin = Pristine])
               free == Effective([u EXCEPT !.downbin.budget = {}])
               have == WeightAtLeast(Effective(u), floor)
           IN  /\ have <= WeightAtLeast(bare, floor)
               /\ have = IF u.downbin.budget = {} THEN WeightAtLeast(free, floor)
                         ELSE AtMost(WeightAtLeast(free, floor),
                                     AtLeast(0, Or(u.downbin.budget, 0)))
<1> PICK s : s = SkuFor(u.sku)
  OBVIOUS
<1> PICK d : d = u.downbin
  OBVIOUS
<1> PICK e : e = [d EXCEPT !.budget = {}]
  OBVIOUS
<1> PICK b : b = [u EXCEPT !.downbin = Pristine]
  OBVIOUS
<1> PICK f : f = [u EXCEPT !.downbin = e]
  OBVIOUS
<1> PICK r : r = RuntimeDownbin(u.runtime, s, u.app)
  OBVIOUS
<1>1. /\ DOMAIN u = {"id", "sku", "runtime", "downbin", "backend", "measured", "app", "override"}
      /\ DOMAIN d = {"cus", "cores", "cpu", "gpu", "losses", "scales", "budget"}
  <2> PICK v : v = u
    OBVIOUS
  <2>1. /\ v = [k \in {"id", "sku", "runtime", "downbin"} \cup DOMAIN Optional |-> v[k]]
        /\ d = [k \in DOMAIN Pristine |-> d[k]]
    BY DEF ValidEntry
  <2>2. /\ DOMAIN Optional = {"backend", "measured", "app", "override"}
        /\ DOMAIN Pristine = {"cus", "cores", "cpu", "gpu", "losses", "scales", "budget"}
    BY DEF Optional, Pristine
  <2>3. DOMAIN v = {"id", "sku", "runtime", "downbin"} \cup DOMAIN Optional
          /\ DOMAIN d = DOMAIN Pristine
    BY <2>1
  <2> QED BY <2>2, <2>3
<1>2. /\ b.sku = u.sku /\ b.runtime = u.runtime /\ b.app = u.app /\ b.downbin = Pristine
      /\ f.sku = u.sku /\ f.runtime = u.runtime /\ f.app = u.app /\ f.downbin = e
  BY <1>1
<1>3. [u EXCEPT !.downbin.budget = {}] = f
  BY <1>1
<1>4. SpecOK(s) /\ LossOK(r) /\ LossOK(d) /\ LossOK(Pristine)
  BY SkuFound, ReductionsOK, RuntimeOK, PristineOK
<1>5. /\ e.budget = {} /\ e.losses = d.losses /\ e.scales = d.scales /\ e.cus = d.cus
      /\ e.cores = d.cores /\ e.cpu = d.cpu /\ e.gpu = d.gpu
  BY <1>1
<1>6. LossOK(e) /\ Figures({})
  BY <1>4, <1>5 DEF LossOK, Figures
<1>7. Reductions(u) = Merge(r, d) /\ Reductions(b) = Merge(r, Pristine)
        /\ Reductions(f) = Merge(r, e)
  BY <1>2 DEF Reductions
<1>8. /\ Effective(u).coffers = ApplyMemoryDownbin(s, Merge(r, d))
      /\ Effective(b).coffers = ApplyMemoryDownbin(s, Merge(r, Pristine))
      /\ Effective(f).coffers = ApplyMemoryDownbin(s, Merge(r, e))
  <2>1. SkuFor(u.sku) = s /\ SkuFor(b.sku) = s /\ SkuFor(f.sku) = s
    BY <1>2
  <2>2. Effective(u).coffers = ApplyMemoryDownbin(s, Merge(r, d))
    BY ONLY <1>7, <2>1, CoffersOf, Zenon
  <2>3. Effective(b).coffers = ApplyMemoryDownbin(s, Merge(r, Pristine))
    BY ONLY <1>7, <2>1, CoffersOf, Zenon
  <2>4. Effective(f).coffers = ApplyMemoryDownbin(s, Merge(r, e))
    BY ONLY <1>7, <2>1, CoffersOf, Zenon
  <2> QED BY <2>2, <2>3, <2>4
<1>9. LossOK(Merge(r, d)) /\ LossOK(Merge(r, Pristine)) /\ LossOK(Merge(r, e))
  BY <1>4, <1>6, MergeOK
<1>10. /\ Merge(r, d).budget = Tightest(r.budget, d.budget)
       /\ Merge(r, Pristine).budget = r.budget
       /\ Merge(r, e).budget = r.budget
  <2>1. Pristine.budget = {} /\ Figures(r.budget) /\ Figures(d.budget)
    BY <1>4 DEF Pristine, LossOK
  <2>2. Tightest(r.budget, {}) = r.budget
    BY <1>6, <2>1, TightestIs
  <2> QED BY <1>5, <2>1, <2>2, SMTT(30) DEF Merge
<1>11. Surviving(s, Merge(r, e)) = Surviving(s, Merge(r, d))
  <2>1. Merge(r, e).losses = Merge(r, d).losses /\ Merge(r, e).scales = Merge(r, d).scales
    BY <1>5 DEF Merge
  <2> QED BY <2>1, Zenon DEF Surviving
<1>12. PICK V \in Nat, W \in Nat :
          /\ V = FastPart(Surviving(s, Merge(r, d)), floor)
          /\ W = FastPart(Surviving(s, Merge(r, Pristine)), floor)
  BY <1>4, <1>9, SurvivingOK, FastPartIsNat
<1>13. V <= W
  <2> PICK a : a = Surviving(s, Merge(r, d))
    OBVIOUS
  <2> PICK c : c = Surviving(s, Merge(r, Pristine))
    OBVIOUS
  <2>1. TiersOK(a) /\ TiersOK(c) /\ DOMAIN a = DOMAIN s.tiers /\ DOMAIN c = DOMAIN s.tiers
    BY <1>4, <1>9, SurvivingOK
  <2>2. \A i \in DOMAIN s.tiers : a[i].bw <= c[i].bw /\ Usable(a[i]) <= Usable(c[i])
    BY <1>4, MergeTakes
  <2> QED BY <1>12, <2>1, <2>2, MoreIsLeft
<1> PICK mine : mine = d.budget
  OBVIOUS
<1> PICK its : its = r.budget
  OBVIOUS
<1> PICK both : both = Tightest(its, mine)
  OBVIOUS
<1>14. WeightAtLeast(Effective(u), floor)
         = IF both = {} THEN V ELSE AtMost(V, AtLeast(0, Or(both, 0)))
  BY <1>4, <1>8, <1>9, <1>10, <1>12, CofferWeight
<1>15. WeightAtLeast(Effective(f), floor)
         = IF its = {} THEN V ELSE AtMost(V, AtLeast(0, Or(its, 0)))
  BY <1>4, <1>8, <1>9, <1>10, <1>11, <1>12, CofferWeight
<1>16. WeightAtLeast(Effective(b), floor)
         = IF its = {} THEN W ELSE AtMost(W, AtLeast(0, Or(its, 0)))
  BY <1>4, <1>8, <1>9, <1>10, <1>12, CofferWeight, SMTT(30)
<1>17. Figures(its) /\ Figures(mine)
  BY <1>4 DEF LossOK
<1>18. WeightAtLeast(Effective(u), floor)
         = IF mine = {} THEN WeightAtLeast(Effective(f), floor)
           ELSE AtMost(WeightAtLeast(Effective(f), floor), AtLeast(0, Or(mine, 0)))
  <2>1. (IF both = {} THEN V ELSE AtMost(V, AtLeast(0, Or(both, 0))))
          = IF mine = {} THEN (IF its = {} THEN V ELSE AtMost(V, AtLeast(0, Or(its, 0))))
            ELSE AtMost(IF its = {} THEN V ELSE AtMost(V, AtLeast(0, Or(its, 0))),
                        AtLeast(0, Or(mine, 0)))
    BY <1>17, BudgetTakes
  <2> QED BY <1>14, <1>15, <2>1, Zenon
<1>19. WeightAtLeast(Effective(u), floor) <= WeightAtLeast(Effective(b), floor)
  <2>1. PICK x \in Int, y \in Int : x = Or(its, 0) /\ y = Or(mine, 0)
    BY <1>17, OrIsInt
  <2>2. PICK g \in Nat : g = IF its = {} THEN V ELSE AtMost(V, AtLeast(0, x))
    BY <1>12, <2>1 DEF AtMost, AtLeast
  <2>3. PICK h \in Nat : h = IF its = {} THEN W ELSE AtMost(W, AtLeast(0, x))
    BY <1>12, <2>1 DEF AtMost, AtLeast
  <2>4. g <= h
    BY <1>12, <1>13, <2>1, <2>2, <2>3 DEF AtMost, AtLeast
  <2>5. WeightAtLeast(Effective(f), floor) = g /\ WeightAtLeast(Effective(b), floor) = h
    BY <1>15, <1>16, <2>1, <2>2, <2>3, Zenon
  <2>6. (IF mine = {} THEN g ELSE AtMost(g, AtLeast(0, y))) <= h
    BY <2>1, <2>2, <2>3, <2>4 DEF AtMost, AtLeast
  <2>7. WeightAtLeast(Effective(u), floor) = IF mine = {} THEN g ELSE AtMost(g, AtLeast(0, y))
    BY <1>18, <2>1, <2>5, Zenon
  <2> QED BY <2>5, <2>6, <2>7, Zenon
<1> QED BY <1>3, <1>18, <1>19, Zenon

\* Whatever is recorded of a unit, its losses only take away from what the planner reads of
\* it, and its budget costs the slowest tiers first.
THEOREM LossOnlyTakesAway == PlanSpec => []LossTakesAway
<1>1. PlanInit => CapsInv
  <2> SUFFICES ASSUME PlanInit PROVE CapsInv
    OBVIOUS
  <2>1. DOMAIN caps = {}
    BY DEF PlanInit
  <2> QED BY <2>1 DEF CapsInv
<1>2. BudgetInv /\ CapsInv /\ [PlanNext]_planVars => CapsInv'
  BY CapsStep
<1>3. CapsInv => LossTakesAway
  <2> SUFFICES ASSUME CapsInv, NEW id \in DOMAIN caps,
                      NEW u, u = Named(case.fleet, id),
                      NEW f \in Floors
               PROVE  LET bare == Effective([u EXCEPT !.downbin = Pristine])
                          free == Effective([u EXCEPT !.downbin.budget = {}])
                      IN  /\ WeightAtLeast(caps[id], f) <= WeightAtLeast(bare, f)
                          /\ WeightAtLeast(caps[id], f)
                               = IF u.downbin.budget = {} THEN WeightAtLeast(free, f)
                                 ELSE AtMost(WeightAtLeast(free, f),
                                             AtLeast(0, Or(u.downbin.budget, 0)))
    BY Zenon DEF LossTakesAway, Named
  <2>1. ValidEntry(u) /\ ValidDownbin(u.downbin) /\ caps[id] = Effective(u)
    BY Zenon DEF CapsInv
  <2>2. f \in Int
    BY SMT DEF Floors, Floor
  <2> QED BY <2>1, <2>2, LossTakes
<1> QED BY <1>1, <1>2, <1>3, PlanBudget, PTL DEF PlanSpec

=============================================================================

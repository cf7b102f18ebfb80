----------------------------- MODULE SocialProofs -----------------------------
(***************************************************************************)
(* Proofs about the pacts and about the lists of the app, for any spirits,  *)
(* themes, rows and devices: pacts and their growth events agree            *)
(* (PactsAgree) and an ended pact stays (PactEndsHold); pages add up and a  *)
(* postcard is read once (PagesHold).                                       *)
(*                                                                         *)
(* A mean is a sum over a set and a page is the top of a sorted set, so     *)
(* both need induction over finite sets.  It is done on a set of subsets in *)
(* place of a predicate, from the minimum of a well-founded order           *)
(* (SubsetInduction, NumberInduction).                                      *)
(***************************************************************************)
EXTENDS Pact, Pages, TLAPS, FiniteSetTheorems, SequenceTheorems, WellFoundedInduction

-----------------------------------------------------------------------------
(* Sums. *)

\* The function that SumFunction folds with, on the subsets of D.
Summed(f, D, g) ==
    g = [s \in SUBSET D |-> IF s = {} THEN 0
                            ELSE LET x == CHOOSE x \in s : TRUE IN f[x] + g[s \ {x}]]

SumsOf(f, D) == CHOOSE g : Summed(f, D, g)

\* Induction over finite sets, and over numbers, for sets in place of predicates.
LEMMA SubsetInduction ==
    ASSUME NEW D, IsFiniteSet(D), NEW T, {} \in T,
           \A s \in SUBSET D : s # {} /\ (\A x \in s : s \ {x} \in T) => s \in T
    PROVE  SUBSET D \subseteq T
<1> DEFINE R == StrictSubsetOrdering(D)
           bad == {s \in SUBSET D : s \notin T}
<1>1. IsWellFoundedOn(R, SUBSET D)
  BY FS_StrictSubsetOrderingWellFounded, FS_FiniteSubsetsOfFinite
<1>2. \A s \in SUBSET D : \A x \in s : <<s \ {x}, s>> \in R
  BY DEF StrictSubsetOrdering
<1> HIDE DEF R
<1>3. SUFFICES ASSUME bad # {} PROVE FALSE
  OBVIOUS
<1>4. PICK s \in bad : \A u \in bad : ~(<<u, s>> \in R)
  BY <1>1, <1>3, WFMin
<1>5. \A x \in s : s \ {x} \in T
  BY <1>2, <1>4
<1> QED
  BY <1>4, <1>5

LEMMA NumberInduction ==
    ASSUME NEW T, 0 \in T, \A n \in Nat : n \in T => n + 1 \in T
    PROVE  Nat \subseteq T
<1> DEFINE R == OpToRel(<, Nat)
           bad == {n \in Nat : n \notin T}
<1>1. \A m, n \in Nat : m < n => <<m, n>> \in R
  BY DEF OpToRel
<1>2. IsWellFoundedOn(R, Nat)
  BY NatLessThanWellFounded
<1> HIDE DEF R
<1>3. SUFFICES ASSUME bad # {} PROVE FALSE
  OBVIOUS
<1>4. PICK n \in bad : \A m \in bad : ~(<<m, n>> \in R)
  BY <1>2, <1>3, WFMin
<1>5. n \in Nat /\ n - 1 \in Nat /\ n - 1 < n /\ (n - 1) + 1 = n
  BY <1>4
<1>6. n - 1 \in T
  BY <1>1, <1>4, <1>5
<1>7. n \in T
  BY <1>5, <1>6
<1> QED
  BY <1>4, <1>7

LEMMA WithoutOne ==
    ASSUME NEW D, IsFiniteSet(D), NEW s \in SUBSET D, s # {}
    PROVE  LET x == CHOOSE x \in s : TRUE IN
           /\ x \in s /\ x \in D /\ s \ {x} \in SUBSET D
           /\ Cardinality(s) \in Nat /\ Cardinality(s \ {x}) \in Nat
           /\ Cardinality(s) = Cardinality(s \ {x}) + 1
<1> DEFINE c == CHOOSE x \in s : TRUE
<1>1. c \in s
  OBVIOUS
<1> HIDE DEF c
<1>2. IsFiniteSet(s) /\ Cardinality(s) \in Nat
  BY FS_Subset, FS_CardinalityType
<1>3. ASSUME NEW x \in s
      PROVE  Cardinality(s \ {x}) = Cardinality(s) - 1 /\ Cardinality(s \ {x}) \in Nat
  BY <1>2, FS_RemoveElement, FS_CardinalityType
<1>4. /\ c \in D /\ s \ {c} \in SUBSET D
      /\ Cardinality(s) = Cardinality(s \ {c}) + 1 /\ Cardinality(s \ {c}) \in Nat
  BY <1>1, <1>2, <1>3
<1> QED
  BY <1>1, <1>2, <1>4 DEF c

\* There is such a function: it is built for the sets of at most n elements.
LEMMA SumsExist ==
    ASSUME NEW D, IsFiniteSet(D), NEW f
    PROVE  Summed(f, D, SumsOf(f, D))
<1> DEFINE ch(s) == CHOOSE x \in s : TRUE
           upTo(n) == {s \in SUBSET D : Cardinality(s) <= n}
           Built(n, g) == g = [s \in upTo(n) |-> IF s = {} THEN 0 ELSE f[ch(s)] + g[s \ {ch(s)}]]
           T == {n \in Nat : \E g : Built(n, g)}
<1>1. \A s \in SUBSET D : /\ IsFiniteSet(s) /\ Cardinality(s) \in Nat
                          /\ Cardinality(s) = 0 => s = {}
                          /\ s # {} => /\ ch(s) \in s /\ s \ {ch(s)} \in SUBSET D
                                       /\ Cardinality(s) = Cardinality(s \ {ch(s)}) + 1
                                       /\ Cardinality(s \ {ch(s)}) \in Nat
  BY WithoutOne, FS_Subset, FS_CardinalityType, FS_EmptySet
<1>2. Cardinality({}) = 0
  BY FS_EmptySet
<1> HIDE DEF ch
<1>3. 0 \in T
  <2>1. upTo(0) = {{}}
    <3>1. ASSUME NEW s \in SUBSET D, Cardinality(s) <= 0
          PROVE  s = {}
      <4>1. Cardinality(s) \in Nat /\ (Cardinality(s) = 0 => s = {})
        BY <1>1
      <4> QED
        BY <3>1, <4>1
    <3>2. {} \in upTo(0)
      BY <1>2
    <3> QED
      BY <3>1, <3>2
  <2> DEFINE g == [s \in upTo(0) |-> 0]
  <2>2. \A s \in upTo(0) : (IF s = {} THEN 0 ELSE f[ch(s)] + g[s \ {ch(s)}]) = 0
    BY <2>1
  <2>3. Built(0, g)
    BY <2>2
  <2> QED
    BY <2>3
<1>4. ASSUME NEW n \in Nat, n \in T
      PROVE  n + 1 \in T
  <2>1. PICK g : Built(n, g)
    BY <1>4
  <2> DEFINE h == [s \in upTo(n + 1) |-> IF s \in upTo(n) THEN g[s] ELSE f[ch(s)] + g[s \ {ch(s)}]]
  <2>2. \A s \in upTo(n) : s \in upTo(n + 1) /\ h[s] = g[s]
    BY <1>1
  <2>3. \A s \in upTo(n) : g[s] = IF s = {} THEN 0 ELSE f[ch(s)] + g[s \ {ch(s)}]
    BY <2>1
  <2>4. \A s \in upTo(n + 1) : s # {} => s \ {ch(s)} \in upTo(n)
    BY <1>1
  <2>5. {} \in upTo(n)
    BY <1>2
  <2>6. ASSUME NEW s \in upTo(n + 1)
        PROVE  h[s] = IF s = {} THEN 0 ELSE f[ch(s)] + h[s \ {ch(s)}]
    <3>1. CASE s = {}
      BY <2>2, <2>3, <2>5, <3>1
    <3>2. CASE s # {} /\ s \in upTo(n)
      <4>1. s \ {ch(s)} \in upTo(n)
        BY <2>4, <3>2
      <4>2. h[s] = g[s] /\ h[s \ {ch(s)}] = g[s \ {ch(s)}]
        BY <2>2, <3>2, <4>1
      <4>3. g[s] = f[ch(s)] + g[s \ {ch(s)}]
        BY <2>3, <3>2
      <4> QED
        BY <3>2, <4>2, <4>3
    <3>3. CASE s # {} /\ s \notin upTo(n)
      <4>1. s \ {ch(s)} \in upTo(n)
        BY <2>4, <3>3
      <4>2. h[s \ {ch(s)}] = g[s \ {ch(s)}]
        BY <2>2, <4>1
      <4>3. h[s] = f[ch(s)] + g[s \ {ch(s)}]
        BY <3>3
      <4> QED
        BY <3>3, <4>2, <4>3
    <3> QED
      BY <3>1, <3>2, <3>3
  <2>7. h = [s \in upTo(n + 1) |-> h[s]]
    OBVIOUS
  <2> HIDE DEF h, upTo
  <2>8. h = [s \in upTo(n + 1) |-> IF s = {} THEN 0 ELSE f[ch(s)] + h[s \ {ch(s)}]]
    BY <2>6, <2>7
  <2>9. \E k : Built(n + 1, k)
    BY <2>8
  <2>10. n + 1 \in Nat
    OBVIOUS
  <2> HIDE DEF Built
  <2> QED
    BY <2>9, <2>10
<1>5. Nat \subseteq T
  <2> HIDE DEF T
  <2> QED
    BY <1>3, <1>4, NumberInduction
<1>6. Cardinality(D) \in Nat /\ upTo(Cardinality(D)) = SUBSET D
  BY FS_Subset, FS_CardinalityType
<1>7. PICK g : Built(Cardinality(D), g)
  BY <1>5, <1>6
<1>8. Summed(f, D, g)
  BY <1>6, <1>7 DEF Summed, ch
<1> QED
  BY <1>8 DEF SumsOf

\* The sum over a set is that over the set without any one of its elements, and it.
LEMMA SumsOfSets ==
    ASSUME NEW D, IsFiniteSet(D), NEW f, NEW g, Summed(f, D, g), \A d \in D : f[d] \in Nat
    PROVE  /\ g[{}] = 0
           /\ \A s \in SUBSET D : g[s] \in Nat
           /\ \A s \in SUBSET D : \A x \in s : g[s] = f[x] + g[s \ {x}]
<1> DEFINE ch(s) == CHOOSE x \in s : TRUE
<1>2. \A s \in SUBSET D : s # {} => ch(s) \in s
  OBVIOUS
<1>3. g = [s \in SUBSET D |-> IF s = {} THEN 0 ELSE f[ch(s)] + g[s \ {ch(s)}]]
  BY DEF Summed
<1> HIDE DEF ch
<1>4. /\ g[{}] = 0
      /\ \A s \in SUBSET D : s # {} => g[s] = f[ch(s)] + g[s \ {ch(s)}]
  BY <1>3
<1>5. \A s \in SUBSET D : g[s] \in Nat
  <2> DEFINE T == {s \in SUBSET D : g[s] \in Nat}
  <2>1. {} \in T
    BY <1>4
  <2>2. ASSUME NEW s \in SUBSET D, s # {}, \A x \in s : s \ {x} \in T
        PROVE  s \in T
    <3>1. ch(s) \in s /\ g[s] = f[ch(s)] + g[s \ {ch(s)}] /\ f[ch(s)] \in Nat
      BY <1>2, <1>4, <2>2
    <3>2. g[s \ {ch(s)}] \in Nat
      BY <2>2, <3>1
    <3> QED
      BY <3>1, <3>2
  <2>3. SUBSET D \subseteq T
    <3> HIDE DEF T
    <3> QED
      BY <2>1, <2>2, SubsetInduction
  <2> QED
    BY <2>3
<1>6. \A s \in SUBSET D : \A x \in s : g[s] = f[x] + g[s \ {x}]
  <2> DEFINE T == {s \in SUBSET D : \A x \in s : g[s] = f[x] + g[s \ {x}]}
  <2>1. {} \in T
    OBVIOUS
  <2>2. ASSUME NEW s \in SUBSET D, s # {}, \A x \in s : s \ {x} \in T
        PROVE  s \in T
    <3>1. PICK y : y \in s /\ y \in D /\ g[s] = f[y] + g[s \ {y}]
      BY <1>2, <1>4, <2>2
    <3>2. ASSUME NEW x \in s
          PROVE  g[s] = f[x] + g[s \ {x}]
      <4>1. CASE x = y
        BY <3>1, <4>1
      <4>2. CASE x # y
        <5>1. PICK u : u = s \ {x, y}
          OBVIOUS
        <5>2. /\ u = (s \ {y}) \ {x} /\ u = (s \ {x}) \ {y} /\ u \in SUBSET D
              /\ x \in s \ {y} /\ y \in s \ {x}
          BY <3>1, <4>2, <5>1
        <5>3. g[s \ {y}] = f[x] + g[u]
          BY <2>2, <3>1, <5>2
        <5>4. g[s \ {x}] = f[y] + g[u]
          BY <2>2, <5>2
        <5>5. f[x] \in Nat /\ f[y] \in Nat /\ g[u] \in Nat
          BY <1>5, <3>1, <5>2
        <5> QED
          BY <3>1, <5>3, <5>4, <5>5
      <4> QED
        BY <4>1, <4>2
    <3> QED
      BY <3>2
  <2>3. SUBSET D \subseteq T
    <3> HIDE DEF T
    <3> QED
      BY <2>1, <2>2, SubsetInduction
  <2> QED
    BY <2>3
<1> QED
  BY <1>4, <1>5, <1>6

\* A sum depends on the values only.
LEMMA SumsAgree ==
    ASSUME NEW D, IsFiniteSet(D), NEW E, IsFiniteSet(E), D \subseteq E, NEW f, NEW h,
           \A d \in D : f[d] = h[d], \A d \in E : h[d] \in Nat
    PROVE  \A s \in SUBSET D : SumsOf(f, D)[s] = SumsOf(h, E)[s]
<1>1. PICK g, k : g = SumsOf(f, D) /\ k = SumsOf(h, E)
  OBVIOUS
<1> DEFINE T == {s \in SUBSET D : g[s] = k[s]}
<1>2. Summed(f, D, g) /\ Summed(h, E, k)
  BY <1>1, SumsExist
<1>8. \A d \in D : f[d] \in Nat
  OBVIOUS
<1>3. /\ g[{}] = 0
      /\ \A s \in SUBSET D : \A x \in s : g[s] = f[x] + g[s \ {x}]
  BY <1>2, <1>8, SumsOfSets
<1>4. /\ k[{}] = 0
      /\ \A s \in SUBSET E : \A x \in s : k[s] = h[x] + k[s \ {x}]
  BY <1>2, SumsOfSets
<1>5. {} \in T
  BY <1>3, <1>4
<1>6. ASSUME NEW s \in SUBSET D, s # {}, \A x \in s : s \ {x} \in T
      PROVE  s \in T
  <2>1. PICK x : x \in s
    BY <1>6
  <2>2. g[s] = f[x] + g[s \ {x}] /\ k[s] = h[x] + k[s \ {x}]
    BY <1>3, <1>4, <2>1
  <2> QED
    BY <1>6, <2>1, <2>2
<1>7. SUBSET D \subseteq T
  <2> HIDE DEF T
  <2> QED
    BY <1>5, <1>6, SubsetInduction
<1> QED
  BY <1>1, <1>7

LEMMA SumIs ==
    ASSUME NEW f
    PROVE  SumFunction(f) = SumsOf(f, DOMAIN f)[DOMAIN f]
  BY Zenon DEF SumFunction, SumFunctionOnSet, FoldFunctionOnSet, MapThenFoldSet, Summed, SumsOf

LEMMA SumOfNone ==
    ASSUME NEW f, DOMAIN f = {}
    PROVE  SumFunction(f) = 0
<1>1. Summed(f, {}, SumsOf(f, {}))
  BY FS_EmptySet, SumsExist
<1>2. SumsOf(f, {})[{}] = 0
  BY <1>1, FS_EmptySet, SumsOfSets
<1> QED
  BY <1>2, SumIs

LEMMA SumOfTheOthers ==
    ASSUME NEW E, IsFiniteSet(E), NEW h, \A d \in E : h[d] \in Nat, NEW x \in E
    PROVE  /\ SumsOf(h, E)[E \ {x}] \in Nat
           /\ SumsOf(h, E)[E] = h[x] + SumsOf(h, E)[E \ {x}]
<1>1. PICK g : g = SumsOf(h, E)
  OBVIOUS
<1>2. Summed(h, E, g)
  BY <1>1, SumsExist
<1>3. /\ \A s \in SUBSET E : g[s] \in Nat
      /\ \A s \in SUBSET E : \A y \in s : g[s] = h[y] + g[s \ {y}]
  BY <1>2, SumsOfSets
<1> QED
  BY <1>1, <1>3

\* One more value.
LEMMA SumOfOneMore ==
    ASSUME NEW f, NEW h, IsFiniteSet(DOMAIN f), NEW x, x \notin DOMAIN f,
           DOMAIN h = (DOMAIN f) \cup {x},
           \A d \in DOMAIN f : h[d] = f[d], \A d \in DOMAIN h : h[d] \in Nat
    PROVE  SumFunction(f) \in Nat /\ SumFunction(h) = SumFunction(f) + h[x]
<1>1. PICK D, E : D = DOMAIN f /\ E = DOMAIN h
  OBVIOUS
<1>2. PICK k, g : k = SumsOf(f, D) /\ g = SumsOf(h, E)
  OBVIOUS
<1>3. SumFunction(f) = k[D] /\ SumFunction(h) = g[E]
  BY <1>1, <1>2, SumIs
<1>4. IsFiniteSet(D) /\ IsFiniteSet(E) /\ D \subseteq E /\ x \in E /\ E \ {x} = D
  BY <1>1, FS_AddElement
<1>5. \A d \in D : f[d] = h[d]
  BY <1>1
<1>6. \A d \in E : h[d] \in Nat
  BY <1>1
<1>7. k[D] = g[D]
  BY <1>2, <1>4, <1>5, <1>6, SumsAgree
<1>8. IsFiniteSet(E) /\ x \in E
  BY <1>4
<1>9. SumsOf(h, E)[E \ {x}] \in Nat /\ SumsOf(h, E)[E] = h[x] + SumsOf(h, E)[E \ {x}]
  BY <1>6, <1>8, SumOfTheOthers
<1>10. g[E] = h[x] + g[D] /\ g[D] \in Nat /\ h[x] \in Nat
  BY <1>2, <1>4, <1>6, <1>9
<1> QED
  BY <1>3, <1>7, <1>10

\* The sum of n values between 50 and 100.
LEMMA SumBetween ==
    ASSUME NEW f, IsFiniteSet(DOMAIN f), \A d \in DOMAIN f : f[d] \in 50 .. 100
    PROVE  /\ SumFunction(f) \in Nat /\ Cardinality(DOMAIN f) \in Nat
           /\ SumFunction(f) >= 50 * Cardinality(DOMAIN f)
           /\ SumFunction(f) <= 100 * Cardinality(DOMAIN f)
<1>1. PICK D : D = DOMAIN f
  OBVIOUS
<1>10. PICK g : g = SumsOf(f, D)
  OBVIOUS
<1>11. SumFunction(f) = g[D]
  BY <1>1, <1>10, SumIs
<1>2. IsFiniteSet(D)
  BY <1>1
<1>8. Summed(f, D, g)
  BY <1>2, <1>10, SumsExist
<1>9. /\ \A d \in D : f[d] \in Nat
      /\ \A d \in D : f[d] >= 50 /\ f[d] <= 100
  BY <1>1
<1>3. /\ g[{}] = 0
      /\ \A s \in SUBSET D : g[s] \in Nat
      /\ \A s \in SUBSET D : \A x \in s : g[s] = f[x] + g[s \ {x}]
  BY <1>2, <1>8, <1>9, SumsOfSets
<1> DEFINE T == {s \in SUBSET D : g[s] >= 50 * Cardinality(s) /\ g[s] <= 100 * Cardinality(s)}
<1>4. {} \in T
  BY <1>3, FS_EmptySet
<1>5. ASSUME NEW s \in SUBSET D, s # {}, \A x \in s : s \ {x} \in T
      PROVE  s \in T
  <2>1. PICK x : /\ x \in s /\ x \in D
                 /\ Cardinality(s) \in Nat /\ Cardinality(s \ {x}) \in Nat
                 /\ Cardinality(s) = Cardinality(s \ {x}) + 1
    BY <1>2, <1>5, WithoutOne
  <2>2. /\ g[s] = f[x] + g[s \ {x}] /\ g[s \ {x}] \in Nat
        /\ g[s \ {x}] >= 50 * Cardinality(s \ {x})
        /\ g[s \ {x}] <= 100 * Cardinality(s \ {x})
    BY <1>3, <1>5, <2>1
  <2> QED
    BY <1>9, <2>1, <2>2
<1>6. SUBSET D \subseteq T
  <2> HIDE DEF T
  <2> QED
    BY <1>2, <1>4, <1>5, SubsetInduction
<1>7. Cardinality(D) \in Nat
  BY <1>2, FS_CardinalityType
<1> QED
  BY <1>1, <1>3, <1>6, <1>7, <1>11

-----------------------------------------------------------------------------
(* Pact: what is rounded. *)

LEMMA Times ==
    ASSUME NEW a \in Nat, NEW b \in Nat, NEW n \in Nat, a <= b
    PROVE  a * n \in Nat /\ a * n <= b * n
  OBVIOUS

LEMMA DivMod ==
    ASSUME NEW a \in Nat, NEW b \in Nat \ {0}
    PROVE  /\ a \div b \in Nat /\ a % b \in 0 .. b - 1
           /\ a = (a \div b) * b + (a % b)
  OBVIOUS

LEMMA RoundedNear ==
    ASSUME NEW a \in Nat, NEW b \in Nat \ {0}
    PROVE  /\ Rounded(a, b) \in Nat
           /\ 2 * (Rounded(a, b) * b - a) \in -b .. b
<1>1. PICK q, r : q = a \div b /\ r = a % b
  OBVIOUS
<1>2. q \in Nat /\ r \in 0 .. b - 1 /\ a = q * b + r
  BY <1>1, DivMod
<1>3. PICK n : n = q * b
  OBVIOUS
<1>4. n \in Nat /\ (q + 1) * b = n + b
  BY <1>2, <1>3
<1>5. Rounded(a, b) \in {q, q + 1} /\ (Rounded(a, b) = q => 2 * r <= b)
                                  /\ (Rounded(a, b) # q => 2 * r >= b)
  BY <1>1, <1>2 DEF Rounded
<1>6. CASE Rounded(a, b) = q
  BY <1>2, <1>3, <1>4, <1>5, <1>6
<1>7. CASE Rounded(a, b) # q
  BY <1>2, <1>3, <1>4, <1>5, <1>7
<1> QED
  BY <1>6, <1>7

LEMMA RoundedAtMost ==
    ASSUME NEW a \in Nat, NEW b \in Nat \ {0}, NEW m \in Nat, a <= m * b
    PROVE  Rounded(a, b) \in 0 .. m
<1>1. PICK k : k = Rounded(a, b)
  OBVIOUS
<1>2. k \in Nat /\ 2 * (k * b - a) \in -b .. b
  BY <1>1, RoundedNear
<1>3. SUFFICES ASSUME k > m PROVE FALSE
  BY <1>1, <1>2
<1>4. CASE k >= m + 1 /\ a < m * b
  <2>1. k * b >= (m + 1) * b /\ (m + 1) * b = m * b + b
    BY <1>2, <1>4, Times
  <2> QED
    BY <1>2, <1>4, <2>1
<1>5. CASE a = m * b
  <2>1. a \div b = m /\ a % b = 0
    BY <1>5
  <2>2. Rounded(a, b) = m
    BY <2>1 DEF Rounded
  <2> QED
    BY <1>1, <1>3, <2>2
<1> QED
  BY <1>2, <1>3, <1>4, <1>5

-----------------------------------------------------------------------------
(* Pact: the inductive invariant. *)

PupilRow == [bond: 0 .. 100, marks: Seq(Themes), version: Nat]

PactRow == [status: {"none", "active", "completed"}, theme: Themes, start: Nat, ends: Nat,
            completed: Nat, skipped: Nat, completeness: 0 .. 100]

SessionRow == [status: {"none", "ready", "answered", "skipped"}, answers: Seq(PactScores),
               version: Nat]

PactTyped ==
    /\ pactClock \in 0 .. PactMaxDay
    /\ zone \in {0, 1}
    /\ pupil \in PupilRow
    /\ pacts \in [Pacts -> PactRow]
    /\ sessions \in [Pacts -> [PactDates -> SessionRow]]

\* A pact is there only if its creation is claimed, a session only if its pact
\* is and in the week of it.
RowsFollow ==
    \A p \in Pacts :
        /\ pacts[p].status # "none" => ~NewPactClaim("create", p)
        /\ \A d \in PactDates :
              /\ sessions[p][d].status # "none" =>
                    pacts[p].status # "none" /\ d - pacts[p].start \in 0 .. PactWeek - 1
              /\ Len(sessions[p][d].answers) <= Questions

\* What is in growth_events has happened.
EventsFollow ==
    \A p \in Pacts :
        /\ <<"pact_completed", p>> \in pactEvents => pacts[p].status = "completed"
        /\ \A d \in PactDates :
              <<"pact_answered", p, d>> \in pactEvents => sessions[p][d].status = "answered"

PactIndInv ==
    /\ PactTyped
    /\ OneActivePact
    /\ RowsFollow
    /\ EventsFollow
    /\ SessionsAddUp
    /\ CompletedIsPaid
    /\ CompletenessIsMean

-----------------------------------------------------------------------------
(* Pact: the spirit, and what a session and a pact come to. *)

LEMMA PactConstants ==
    /\ IsFiniteSet(Pacts) /\ IsFiniteSet(Themes) /\ PactScores \subseteq 50 .. 100
    /\ Questions \in Nat \ {0} /\ PactWeek \in Nat \ {0} /\ MinSessions \in Nat \ {0}
    /\ MinSessions \in Nat /\ MinCompleteness \in Nat /\ MinCompleteness \in 51 .. 100
    /\ PactMaxDay \in Nat /\ PactLag \in Nat
  BY PactAssumption DEF PactAssumption

LEMMA Percents == \A n \in 0 .. 100 : n \in Nat
  OBVIOUS

LEMMA DatesAreFinite ==
    /\ PactDates \subseteq Nat
    /\ IsFiniteSet(PactDates)
    /\ \A p, st : PactDated(p, st) \subseteq PactDates /\ IsFiniteSet(PactDated(p, st))
<1>1. 0 \in Int /\ PactMaxDay + 1 \in Int /\ PactDates \subseteq Nat
  BY PactConstants DEF PactDates
<1>2. IsFiniteSet(PactDates)
  BY <1>1, FS_Interval DEF PactDates
<1>3. \A p, st : PactDated(p, st) \subseteq PactDates
  BY DEF PactDated
<1> QED
  BY <1>1, <1>2, <1>3, FS_Subset

LEMMA PupilBumped ==
    ASSUME NEW s \in PupilRow
    PROVE  /\ Bumped(s) \in PupilRow /\ Bumped(s).version = s.version + 1
           /\ Bumped(s).bond = s.bond /\ Bumped(s).marks = s.marks
<1> DEFINE version == s.version + 1
<1>1. version \in Nat /\ Bumped(s) = [s EXCEPT !.version = version]
  BY DEF PupilRow, Bumped
<1> HIDE DEF version
<1>2. /\ Bumped(s) \in PupilRow /\ Bumped(s).version = version
      /\ Bumped(s).bond = s.bond /\ Bumped(s).marks = s.marks
  BY <1>1 DEF PupilRow
<1> QED
  BY <1>2 DEF version

LEMMA PupilTouched ==
    ASSUME NEW s \in PupilRow
    PROVE  LET t == WithGrowth(s, << >>, TRUE)
           IN /\ t \in PupilRow /\ t.version = s.version + 1
              /\ t.bond = s.bond /\ t.marks = s.marks
<1> DEFINE c == Compact(<< >>)
           h == [x \in DOMAIN s |-> IF x \in DOMAIN c THEN Clamp(s[x] + c[x]) ELSE s[x]]
<1>1. WithGrowth(s, << >>, TRUE) = Bumped(h)
  BY DEF WithGrowth
<1>2. DOMAIN c = {}
  BY DEF Compact
<1> HIDE DEF c
<1>3. h = [x \in DOMAIN s |-> s[x]]
  BY <1>2
<1>4. h = s
  BY <1>3 DEF PupilRow
<1> QED
  BY <1>1, <1>4, PupilBumped

LEMMA PupilPaid ==
    ASSUME NEW s \in PupilRow
    PROVE  LET t == WithGrowth(s, [bond |-> 5], TRUE)
           IN /\ t \in PupilRow /\ t.version = s.version + 1
              /\ t.bond = Clamp(s.bond + 5) /\ t.marks = s.marks
<1> DEFINE p == [bond |-> 5]
           c == Compact(p)
           h == [x \in DOMAIN s |-> IF x \in DOMAIN c THEN Clamp(s[x] + c[x]) ELSE s[x]]
           bond == Clamp(s.bond + 5)
<1>1. WithGrowth(s, p, TRUE) = Bumped(h)
  BY DEF WithGrowth
<1>2. DOMAIN c = {"bond"} /\ c["bond"] = 5
  BY DEF Compact
<1>3. DOMAIN s = {"bond", "marks", "version"} /\ s.bond \in 0 .. 100
  BY DEF PupilRow
<1>4. bond \in 0 .. 100
  BY <1>3 DEF Clamp
<1> HIDE DEF c
<1>5. h["bond"] = bond /\ h["marks"] = s.marks /\ h["version"] = s.version /\ DOMAIN h = DOMAIN s
  BY <1>2, <1>3
<1>6. h = [bond |-> h["bond"], marks |-> h["marks"], version |-> h["version"]]
  BY <1>3
<1> HIDE DEF bond, h
<1>7. h \in PupilRow
  BY <1>4, <1>5, <1>6 DEF PupilRow
<1> QED
  BY <1>1, <1>5, <1>7, PupilBumped DEF bond

LEMMA PupilMarked ==
    ASSUME NEW s \in PupilRow, NEW mark \in Themes
    PROVE  LET t == Marked(s, mark)
           IN /\ t \in PupilRow /\ t.version >= s.version /\ t.bond = s.bond
              /\ ToSet(t.marks) = ToSet(s.marks) \cup {mark}
              /\ Len(s.marks) = Cardinality(ToSet(s.marks)) =>
                    Len(t.marks) = Cardinality(ToSet(t.marks))
<1> DEFINE more == Append(s.marks, mark)
           r == [s EXCEPT !.marks = more]
<1>1. s.marks \in Seq(Themes) /\ s.version \in Nat
  BY DEF PupilRow
<1>2. CASE \E i \in DOMAIN s.marks : s.marks[i] = mark
  <2>1. Marked(s, mark) = s
    BY <1>2 DEF Marked
  <2>2. ToSet(s.marks) = ToSet(s.marks) \cup {mark}
    BY <1>2 DEF ToSet
  <2> QED
    BY <1>1, <2>1, <2>2
<1>3. CASE ~\E i \in DOMAIN s.marks : s.marks[i] = mark
  <2>1. Marked(s, mark) = Bumped(r)
    BY <1>3 DEF Marked
  <2>2. /\ more \in Seq(Themes) /\ Len(more) = Len(s.marks) + 1
        /\ \A i \in 1 .. Len(s.marks) : more[i] = s.marks[i]
        /\ more[Len(s.marks) + 1] = mark
    BY <1>1
  <2>3. ToSet(more) = ToSet(s.marks) \cup {mark} /\ mark \notin ToSet(s.marks)
    BY <1>1, <1>3, <2>2 DEF ToSet
  <2>4. IsFiniteSet(ToSet(s.marks))
    <3>1. ToSet(s.marks) \subseteq Themes
      BY <1>1 DEF ToSet
    <3> QED
      BY <3>1, PactConstants, FS_Subset
  <2>5. Cardinality(ToSet(more)) = Cardinality(ToSet(s.marks)) + 1
    BY <2>3, <2>4, FS_AddElement
  <2> HIDE DEF more
  <2>6. r \in PupilRow /\ r.version = s.version /\ r.bond = s.bond /\ r.marks = more
    BY <2>2 DEF PupilRow
  <2> HIDE DEF r
  <2>7. /\ Bumped(r) \in PupilRow /\ Bumped(r).version = s.version + 1
        /\ Bumped(r).bond = s.bond /\ Bumped(r).marks = more
    BY <2>6, PupilBumped
  <2>8. PICK t : t = Marked(s, mark)
    OBVIOUS
  <2>9. /\ t \in PupilRow /\ t.version = s.version + 1 /\ t.bond = s.bond /\ t.marks = more
    BY <2>1, <2>7, <2>8
  <2>10. t.version >= s.version
    BY <1>1, <2>9
  <2>11. ToSet(t.marks) = ToSet(s.marks) \cup {mark}
    BY <2>3, <2>9
  <2>12. Len(s.marks) = Cardinality(ToSet(s.marks)) => Len(t.marks) = Cardinality(ToSet(t.marks))
    BY <2>2, <2>5, <2>9
  <2> QED
    BY <2>8, <2>9, <2>10, <2>11, <2>12
<1> QED
  BY <1>2, <1>3

LEMMA ScoreInRange ==
    ASSUME NEW answers \in Seq(PactScores), answers # << >>
    PROVE  SessionScore(answers) \in 0 .. 100
<1>1. PICK n : n = Len(answers)
  OBVIOUS
<1>2. n \in Nat \ {0} /\ DOMAIN answers = 1 .. n /\ 1 \in Int
  BY <1>1
<1>8. \A i \in DOMAIN answers : answers[i] \in PactScores
  BY <1>2
<1>3. \A i \in DOMAIN answers : answers[i] \in 50 .. 100
  BY <1>8, PactConstants
<1>4. IsFiniteSet(1 .. n) /\ Cardinality(1 .. n) = n
  BY <1>2, FS_Interval
<1>5. IsFiniteSet(DOMAIN answers) /\ Cardinality(DOMAIN answers) = n
  BY <1>2, <1>4
<1>6. SumFunction(answers) \in Nat /\ SumFunction(answers) <= 100 * n
  BY <1>3, <1>5, SumBetween
<1>7. Rounded(SumFunction(answers), n) \in 0 .. 100
  BY <1>2, <1>6, RoundedAtMost
<1> QED
  BY <1>1, <1>7 DEF SessionScore

\* The completeness of n sessions is at most m if that of those before is and
\* the score of the last one.
LEMMA NextAtMost ==
    ASSUME NEW m \in Nat, NEW previous \in 0 .. m, NEW scored \in 0 .. m, NEW n \in Nat
    PROVE  /\ NextCompleteness(previous, n, scored) \in 0 .. m
           /\ 2 * (NextCompleteness(previous, n, scored) * (n + 1) - (previous * n + scored))
                 \in -(n + 1) .. n + 1
<1>1. previous * n \in Nat /\ previous * n <= m * n
  BY Times
<1>2. PICK a, b : a = previous * n + scored /\ b = n + 1
  OBVIOUS
<1>3. a \in Nat /\ b \in Nat \ {0} /\ a <= m * b
  BY <1>1, <1>2
<1>4. Rounded(a, b) \in 0 .. m
  BY <1>3, RoundedAtMost
<1>5. 2 * (Rounded(a, b) * b - a) \in -b .. b
  BY <1>3, RoundedNear
<1> QED
  BY <1>2, <1>4, <1>5 DEF NextCompleteness

-----------------------------------------------------------------------------
(* Pact: one session, or one pact, is written. *)

SessionChanged(p, d, row) ==
    /\ sessions' \in [Pacts -> [PactDates -> SessionRow]]
    /\ sessions'[p][d] = row
    /\ \A e \in PactDates : e # d => sessions'[p][e] = sessions[p][e]
    /\ \A r \in Pacts : r # p => sessions'[r] = sessions[r]

PactChanged(p, pact) ==
    /\ pacts' \in [Pacts -> PactRow]
    /\ pacts'[p] = pact
    /\ \A r \in Pacts : r # p => pacts'[r] = pacts[r]

LEMMA OneSession ==
    ASSUME PactTyped, NEW p \in Pacts, NEW d \in PactDates, NEW row \in SessionRow,
           sessions' = [sessions EXCEPT ![p][d] = row]
    PROVE  SessionChanged(p, d, row)
<1> DEFINE days == [sessions[p] EXCEPT ![d] = row]
<1>1. sessions \in [Pacts -> [PactDates -> SessionRow]] /\ sessions[p] \in [PactDates -> SessionRow]
  BY DEF PactTyped
<1>2. /\ days \in [PactDates -> SessionRow] /\ days[d] = row
      /\ \A e \in PactDates : e # d => days[e] = sessions[p][e]
  BY <1>1
<1>3. sessions' = [sessions EXCEPT ![p] = days]
  OBVIOUS
<1> HIDE DEF days
<1> QED
  BY <1>1, <1>2, <1>3 DEF SessionChanged

LEMMA OnePact ==
    ASSUME PactTyped, NEW p \in Pacts, NEW pact \in PactRow, pacts' = [pacts EXCEPT ![p] = pact]
    PROVE  PactChanged(p, pact)
  BY DEF PactTyped, PactChanged

\* The dates with a status.
LEMMA DatedChanged ==
    ASSUME NEW p \in Pacts, NEW d \in PactDates, NEW row, SessionChanged(p, d, row), NEW st
    PROVE  /\ row.status = st => PactDated(p, st)' = PactDated(p, st) \cup {d}
           /\ row.status # st => PactDated(p, st)' = PactDated(p, st) \ {d}
           /\ \A r \in Pacts : r # p => PactDated(r, st)' = PactDated(r, st)
  BY DEF SessionChanged, PactDated

\* Scores depend on the sessions that are answered.
LEMMA ScoresStay ==
    ASSUME NEW p \in Pacts, PactDated(p, "answered")' = PactDated(p, "answered"),
           \A d \in PactDated(p, "answered") : sessions'[p][d] = sessions[p][d]
    PROVE  SessionScores(p)' = SessionScores(p)
<1>1. SessionScores(p)' = [d \in PactDated(p, "answered") |-> SessionScore(sessions'[p][d].answers)]
  BY DEF SessionScores
<1>2. \A d \in PactDated(p, "answered") :
         SessionScore(sessions'[p][d].answers) = SessionScore(sessions[p][d].answers)
  OBVIOUS
<1> QED
  BY <1>1, <1>2 DEF SessionScores

\* A step that writes neither a pact nor a session, nor pays.
LEMMA PactQuiet ==
    ASSUME PactIndInv, UNCHANGED <<pacts, sessions, pactEvents>>, pactClaims \subseteq pactClaims',
           pactClock' \in 0 .. PactMaxDay, zone' \in {0, 1}, pupil' \in PupilRow,
           pupil'.bond = pupil.bond, pupil'.marks = pupil.marks
    PROVE  PactIndInv' /\ PactEndsStay
<1>1. PactTyped'
  BY DEF PactIndInv, PactTyped
<1>2. OneActivePact'
  BY DEF PactIndInv, OneActivePact
<1>3. RowsFollow'
  BY DEF PactIndInv, RowsFollow, NewPactClaim
<1>4. EventsFollow'
  BY DEF PactIndInv, EventsFollow
<1>5. SessionsAddUp'
  BY DEF PactIndInv, SessionsAddUp, PactDated
<1>6. CompletedIsPaid'
  BY DEF PactIndInv, CompletedIsPaid
<1>7. \A p \in Pacts : SessionScores(p)' = SessionScores(p)
  BY DEF SessionScores, PactDated
<1>8. CompletenessIsMean'
  BY <1>7 DEF PactIndInv, CompletenessIsMean
<1>9. PactEndsStay
  BY DEF PactEndsStay
<1> QED
  BY <1>1, <1>2, <1>3, <1>4, <1>5, <1>6, <1>8, <1>9 DEF PactIndInv

\* create_pact, of a client id that is new when no pact is active.
LEMMA PactCreated ==
    ASSUME PactIndInv, NEW p \in Pacts, NEW start \in Nat, NEW ends \in Nat,
           NewPactClaim("create", p), ActivePacts = {},
           pacts' = [pacts EXCEPT ![p] = NewPact(pacts[p].theme, start, ends)],
           pupil' = Bumped(pupil), pactClaims' = PactClaimed("create", p, pacts[p].theme),
           UNCHANGED <<pactClock, zone, sessions, pactEvents>>
    PROVE  PactIndInv' /\ PactEndsStay /\ pupil'.version > pupil.version
<1> DEFINE pact == NewPact(pacts[p].theme, start, ends)
<1>1. /\ PactTyped /\ pupil \in PupilRow /\ pupil.version \in Nat /\ pacts \in [Pacts -> PactRow]
      /\ pacts[p].theme \in Themes
  BY DEF PactIndInv, PactTyped, PactRow, PupilRow
<1>2. /\ pupil' \in PupilRow /\ pupil'.version > pupil.version
      /\ pupil'.bond = pupil.bond /\ pupil'.marks = pupil.marks
  BY <1>1, PupilBumped
<1>3. /\ pact \in PactRow /\ pact.status = "active" /\ pact.theme = pacts[p].theme
      /\ pact.completed = 0 /\ pact.skipped = 0 /\ pact.completeness = 0
  BY <1>1 DEF NewPact, PactRow
<1> HIDE DEF pact
<1>4. PactChanged(p, pact)
  BY <1>1, <1>3, OnePact DEF pact
<1>5. /\ pacts[p].status = "none"
      /\ \A d \in PactDates : sessions[p][d].status = "none"
  BY DEF PactIndInv, RowsFollow
<1>6. \A r \in Pacts : pacts[r].status # "active"
  BY DEF ActivePacts
<1>7. PactTyped'
  BY <1>2, <1>4 DEF PactIndInv, PactTyped, PactChanged
<1>8. OneActivePact'
  BY <1>4, <1>6 DEF PactChanged, OneActivePact
<1>9. RowsFollow'
  <2>1. PICK c : c = [op |-> "create", cid |-> p, hash |-> pacts[p].theme]
    OBVIOUS
  <2>2. pactClaims' = pactClaims \cup {c} /\ c.op = "create" /\ c.cid = p
    BY <2>1 DEF PactClaimed
  <2>3. ~NewPactClaim("create", p)'
    BY <2>2 DEF NewPactClaim
  <2>4. \A r \in Pacts : ~NewPactClaim("create", r) => ~NewPactClaim("create", r)'
    BY <2>2 DEF NewPactClaim
  <2> QED
    BY <1>4, <1>5, <2>3, <2>4 DEF PactIndInv, RowsFollow, PactChanged
<1>10. EventsFollow'
  BY <1>4, <1>5 DEF PactIndInv, EventsFollow, PactChanged
<1>11. PactDated(p, "answered") = {} /\ PactDated(p, "skipped") = {}
  BY <1>5 DEF PactDated
<1>12. \A r \in Pacts, st \in {"answered", "skipped"} : PactDated(r, st)' = PactDated(r, st)
  BY DEF PactDated
<1>13. SessionsAddUp'
  <2>1. /\ Cardinality(PactDated(p, "answered")') = 0 /\ Cardinality(PactDated(p, "skipped")') = 0
        /\ pacts'[p].completed = 0 /\ pacts'[p].skipped = 0
    BY <1>3, <1>4, <1>11, <1>12, FS_EmptySet DEF PactChanged
  <2>2. \A r \in Pacts : r # p => pacts'[r] = pacts[r]
    BY <1>4 DEF PactChanged
  <2>3. \A r \in Pacts : r # p => /\ pacts'[r].completed = Cardinality(PactDated(r, "answered")')
                                 /\ pacts'[r].skipped = Cardinality(PactDated(r, "skipped")')
    BY <1>12, <2>2 DEF PactIndInv, SessionsAddUp
  <2>4. \A r \in Pacts : \A d \in PactDates :
           sessions'[r][d].status = "answered" <=> Len(sessions'[r][d].answers) = Questions
    BY DEF PactIndInv, SessionsAddUp
  <2> QED
    BY <2>1, <2>3, <2>4 DEF SessionsAddUp
<1>14. CompletedIsPaid'
  <2>1. \A r \in Pacts : pacts'[r].status = "completed" <=> pacts[r].status = "completed"
    BY <1>3, <1>4, <1>5 DEF PactChanged
  <2>2. {r \in Pacts : pacts'[r].status = "completed"} = {r \in Pacts : pacts[r].status = "completed"}
    BY <2>1
  <2>3. \A r \in {s \in Pacts : pacts[s].status = "completed"} : pacts'[r].theme = pacts[r].theme
    BY <1>4, <1>5 DEF PactChanged
  <2>4. \A r \in Pacts : pacts'[r].status = "completed"
                            <=> pacts'[r].completed >= MinSessions /\ pacts'[r].completeness >= MinCompleteness
    BY <1>3, <1>4, PactConstants DEF PactIndInv, CompletedIsPaid, PactChanged
  <2>5. {pacts'[r].theme : r \in {s \in Pacts : pacts'[s].status = "completed"}}
          = {pacts[r].theme : r \in {s \in Pacts : pacts[s].status = "completed"}}
    BY <2>2, <2>3
  <2> QED
    BY <1>2, <2>2, <2>4, <2>5 DEF PactIndInv, CompletedIsPaid
<1>15. CompletenessIsMean'
  <2>1. \A r \in Pacts : SessionScores(r)' = SessionScores(r)
    BY DEF SessionScores, PactDated
  <2>2. SumFunction(SessionScores(p)) = 0
    BY <1>11, SumOfNone DEF SessionScores
  <2>3. ASSUME NEW r \in Pacts, r # p
        PROVE  pacts'[r] = pacts[r]
    BY <1>4, <2>3 DEF PactChanged
  <2>4. pacts'[p] = pact
    BY <1>4 DEF PactChanged
  <2> QED
    BY <1>3, <2>1, <2>2, <2>3, <2>4 DEF PactIndInv, CompletenessIsMean
<1>16. PactEndsStay
  BY <1>4, <1>5 DEF PactChanged, PactEndsStay
<1> QED
  BY <1>2, <1>7, <1>8, <1>9, <1>10, <1>13, <1>14, <1>15, <1>16 DEF PactIndInv

LEMMA AnsweredIsFollowed ==
    ASSUME EventsFollow, NEW p \in Pacts, NEW d \in PactDates, <<"pact_answered", p, d>> \in pactEvents
    PROVE  sessions[p][d].status = "answered"
  BY DEF EventsFollow

\* No event is recorded, and what was answered or completed stays so.
LEMMA EventsStay ==
    ASSUME EventsFollow, pactEvents' = pactEvents,
           \A r \in Pacts : pacts[r].status = "completed" => pacts'[r].status = "completed",
           \A r \in Pacts, e \in PactDates :
              sessions[r][e].status = "answered" => sessions'[r][e].status = "answered"
    PROVE  EventsFollow'
<1>1. ASSUME NEW r \in Pacts, <<"pact_completed", r>> \in pactEvents'
      PROVE  pacts'[r].status = "completed"
  BY <1>1 DEF EventsFollow
<1>2. ASSUME NEW r \in Pacts, NEW e \in PactDates, <<"pact_answered", r, e>> \in pactEvents'
      PROVE  sessions'[r][e].status = "answered"
  <2>1. sessions[r][e].status = "answered"
    BY <1>2 DEF EventsFollow
  <2> QED
    BY <2>1
<1> QED
  BY <1>1, <1>2 DEF EventsFollow

\* A skip never brings a pact to the completeness that completes it.
LEMMA SkipLowers ==
    ASSUME NEW pact \in PactRow
    PROVE  /\ CompletenessAfterSkip(pact) \in 0 .. 100
           /\ pact.completeness < MinCompleteness => CompletenessAfterSkip(pact) < MinCompleteness
<1>1. PICK previous, n : previous = pact.completeness /\ n = pact.completed + pact.skipped
  OBVIOUS
<1>2. previous \in 0 .. 100 /\ n \in Nat
  BY <1>1 DEF PactRow
<1>3. CompletenessAfterSkip(pact) = NextCompleteness(previous, n, 50)
  BY <1>1 DEF CompletenessAfterSkip
<1>8. 100 \in Nat /\ 50 \in 0 .. 100
  OBVIOUS
<1>4. NextCompleteness(previous, n, 50) \in 0 .. 100
  BY <1>2, <1>8, NextAtMost
<1>5. PICK m : m = MinCompleteness - 1
  OBVIOUS
<1>6. m \in Nat /\ 50 \in 0 .. m /\ MinCompleteness = m + 1
  BY <1>5, PactConstants
<1>7. ASSUME previous < MinCompleteness
      PROVE  NextCompleteness(previous, n, 50) < MinCompleteness
  <2>1. previous \in 0 .. m
    BY <1>2, <1>6, <1>7
  <2>2. NextCompleteness(previous, n, 50) \in 0 .. m
    BY <1>2, <1>6, <2>1, NextAtMost
  <2> QED
    BY <1>6, <2>2
<1> QED
  BY <1>1, <1>3, <1>4, <1>7

\* insert_session and save_session_answers: a session that is ready is written.
LEMMA PactSessionSaved ==
    ASSUME PactIndInv, NEW p \in Pacts, NEW d \in PactDates, NEW row \in SessionRow,
           row.status = "ready", Len(row.answers) < Questions,
           sessions[p][d].status \in {"none", "ready"}, pacts[p].status # "none",
           d - pacts[p].start \in 0 .. PactWeek - 1,
           sessions' = [sessions EXCEPT ![p][d] = row],
           pupil' = Bumped(pupil), pactClaims \subseteq pactClaims',
           UNCHANGED <<pactClock, zone, pacts, pactEvents>>
    PROVE  PactIndInv' /\ PactEndsStay
<1>1. /\ PactTyped /\ pupil \in PupilRow
  BY DEF PactIndInv, PactTyped
<1>2. /\ pupil' \in PupilRow /\ pupil'.bond = pupil.bond /\ pupil'.marks = pupil.marks
  BY <1>1, PupilBumped
<1>3. SessionChanged(p, d, row)
  BY <1>1, OneSession
<1>4. \A r \in Pacts, st \in {"answered", "skipped"} : PactDated(r, st)' = PactDated(r, st)
  <2>1. ASSUME NEW st \in {"answered", "skipped"}
        PROVE  PactDated(p, st)' = PactDated(p, st)
    <3>1. d \notin PactDated(p, st) /\ row.status # st
      BY DEF PactDated
    <3>2. PactDated(p, st)' = PactDated(p, st) \ {d}
      BY <1>3, <3>1, DatedChanged
    <3> QED
      BY <3>1, <3>2
  <2>2. \A st \in {"answered", "skipped"} : PactDated(p, st)' = PactDated(p, st)
    BY <2>1
  <2>3. \A r \in Pacts, st \in {"answered", "skipped"} : r # p => PactDated(r, st)' = PactDated(r, st)
    BY <1>3, DatedChanged
  <2> QED
    BY <2>2, <2>3
<1>5. \A r \in Pacts : SessionScores(r)' = SessionScores(r)
  <2>1. ASSUME NEW r \in Pacts
        PROVE  SessionScores(r)' = SessionScores(r)
    <3>1. PactDated(r, "answered")' = PactDated(r, "answered")
      BY <1>4
    <3>2. ASSUME NEW e \in PactDated(r, "answered")
          PROVE  sessions'[r][e] = sessions[r][e]
      <4>1. e \in PactDates /\ sessions[r][e].status = "answered"
        BY DEF PactDated
      <4> QED
        BY <1>3, <4>1 DEF SessionChanged
    <3> QED
      BY <3>1, <3>2, ScoresStay
  <2> QED
    BY <2>1
<1>6. \A r \in Pacts, e \in PactDates : r # p \/ e # d => sessions'[r][e] = sessions[r][e]
  BY <1>3 DEF SessionChanged
<1>7. sessions'[p][d] = row
  BY <1>3 DEF SessionChanged
<1>8. PactTyped'
  BY <1>2, <1>3 DEF PactIndInv, PactTyped, SessionChanged
<1>9. OneActivePact'
  BY DEF PactIndInv, OneActivePact
<1>10. Len(row.answers) \in Nat /\ Questions \in Nat
  BY PactConstants DEF SessionRow
<1>11. RowsFollow'
  <2>1. ASSUME NEW r \in Pacts
        PROVE  pacts'[r].status # "none" => ~NewPactClaim("create", r)'
    BY DEF PactIndInv, RowsFollow, NewPactClaim
  <2>2. ASSUME NEW r \in Pacts, NEW e \in PactDates
        PROVE  /\ sessions'[r][e].status # "none" =>
                    pacts'[r].status # "none" /\ e - pacts'[r].start \in 0 .. PactWeek - 1
               /\ Len(sessions'[r][e].answers) <= Questions
    <3>1. CASE r = p /\ e = d
      BY <1>7, <1>10, <3>1
    <3>2. CASE r # p \/ e # d
      BY <1>6, <3>2 DEF PactIndInv, RowsFollow
    <3> QED
      BY <3>1, <3>2
  <2> QED
    BY <2>1, <2>2 DEF RowsFollow
<1>12. EventsFollow'
  <2>1. \A r \in Pacts, e \in PactDates :
           sessions[r][e].status = "answered" => sessions'[r][e].status = "answered"
    BY <1>6
  <2> QED
    BY <2>1, EventsStay DEF PactIndInv
<1>13. SessionsAddUp'
  <2>1. ASSUME NEW r \in Pacts, NEW e \in PactDates
        PROVE  sessions'[r][e].status = "answered" <=> Len(sessions'[r][e].answers) = Questions
    <3>1. CASE r = p /\ e = d
      BY <1>7, <1>10, <3>1
    <3>2. CASE r # p \/ e # d
      BY <1>6, <3>2 DEF PactIndInv, SessionsAddUp
    <3> QED
      BY <3>1, <3>2
  <2> QED
    BY <1>4, <2>1 DEF PactIndInv, SessionsAddUp
<1>14. CompletedIsPaid'
  BY <1>2 DEF PactIndInv, CompletedIsPaid
<1>15. CompletenessIsMean'
  BY <1>5 DEF PactIndInv, CompletenessIsMean
<1>16. PactEndsStay
  BY <1>6 DEF PactEndsStay
<1> QED
  BY <1>8, <1>9, <1>11, <1>12, <1>13, <1>14, <1>15, <1>16 DEF PactIndInv

\* What is written of a pact that is active by a session that ends.
LEMMA ActiveCounted ==
    ASSUME PactIndInv, NEW p \in Pacts, pacts[p].status = "active",
           NEW pact \in PactRow, pact.status = "active",
           PactChanged(p, pact)
    PROVE  OneActivePact'
  BY DEF PactIndInv, OneActivePact, PactChanged

\* submit_pact_skip.
LEMMA PactSkipped ==
    ASSUME PactIndInv, NEW p \in Pacts, NEW d \in PactDates, NEW row \in SessionRow,
           row.status = "skipped", Len(row.answers) < Questions,
           sessions[p][d].status \in {"none", "ready"}, pacts[p].status = "active",
           d - pacts[p].start \in 0 .. PactWeek - 1,
           sessions' = [sessions EXCEPT ![p][d] = row],
           pacts' = [pacts EXCEPT ![p] = WithSkipped(pacts[p])],
           pupil' = Bumped(pupil), pactClaims \subseteq pactClaims',
           UNCHANGED <<pactClock, zone, pactEvents>>
    PROVE  PactIndInv' /\ PactEndsStay /\ pupil'.version > pupil.version
<1> DEFINE pact == WithSkipped(pacts[p])
           completeness == CompletenessAfterSkip(pacts[p])
           skipped == pacts[p].skipped + 1
<1>1. /\ PactTyped /\ pupil \in PupilRow /\ pupil.version \in Nat /\ pacts \in [Pacts -> PactRow]
      /\ pacts[p] \in PactRow
  BY DEF PactIndInv, PactTyped, PupilRow
<1>2. /\ pupil' \in PupilRow /\ pupil'.version > pupil.version
      /\ pupil'.bond = pupil.bond /\ pupil'.marks = pupil.marks
  BY <1>1, PupilBumped
<1>3. /\ pacts[p].completed \in Nat /\ pacts[p].skipped \in Nat /\ pacts[p].completeness \in 0 .. 100
      /\ pacts[p].completed + pacts[p].skipped \in Nat
  BY <1>1 DEF PactRow
<1>4. completeness \in 0 .. 100
  BY <1>1, SkipLowers
<1>5. pacts[p].completeness < MinCompleteness => completeness < MinCompleteness
  BY <1>1, SkipLowers
<1>6. skipped \in Nat /\ skipped > 0
  BY <1>3
<1>7. pact = [pacts[p] EXCEPT !.skipped = skipped, !.completeness = completeness]
  BY DEF WithSkipped
<1> HIDE DEF pact, completeness, skipped
<1>8. /\ pact \in PactRow /\ pact.status = "active" /\ pact.theme = pacts[p].theme
      /\ pact.start = pacts[p].start /\ pact.completed = pacts[p].completed
      /\ pact.skipped = skipped /\ pact.completeness = completeness
  BY <1>1, <1>4, <1>6, <1>7 DEF PactRow
<1>9. PactChanged(p, pact)
  BY <1>1, <1>8, OnePact DEF pact
<1>10. SessionChanged(p, d, row)
  BY <1>1, OneSession
<1>11. \A r \in Pacts, e \in PactDates : r # p \/ e # d => sessions'[r][e] = sessions[r][e]
  BY <1>10 DEF SessionChanged
<1>12. sessions'[p][d] = row
  BY <1>10 DEF SessionChanged
<1>13. pacts'[p] = pact /\ \A r \in Pacts : r # p => pacts'[r] = pacts[r]
  BY <1>9 DEF PactChanged
<1>14. Len(row.answers) \in Nat /\ Questions \in Nat
  BY PactConstants DEF SessionRow
<1>15. /\ \A r \in Pacts : PactDated(r, "answered")' = PactDated(r, "answered")
       /\ \A r \in Pacts : r # p => PactDated(r, "skipped")' = PactDated(r, "skipped")
       /\ d \notin PactDated(p, "skipped") /\ PactDated(p, "skipped")' = PactDated(p, "skipped") \cup {d}
  <2>1. d \notin PactDated(p, "answered") /\ d \notin PactDated(p, "skipped")
    BY DEF PactDated
  <2>5. row.status # "answered"
    OBVIOUS
  <2>6. PactDated(p, "answered")' = PactDated(p, "answered") \ {d}
    BY <1>10, <2>5, DatedChanged
  <2>2. PactDated(p, "answered")' = PactDated(p, "answered")
    BY <2>1, <2>6
  <2>3. PactDated(p, "skipped")' = PactDated(p, "skipped") \cup {d}
    BY <1>10, DatedChanged
  <2>4. \A r \in Pacts : r # p => /\ PactDated(r, "answered")' = PactDated(r, "answered")
                                 /\ PactDated(r, "skipped")' = PactDated(r, "skipped")
    BY <1>10, DatedChanged
  <2> QED
    BY <2>1, <2>2, <2>3, <2>4
<1>16. PactTyped'
  BY <1>2, <1>9, <1>10 DEF PactIndInv, PactTyped, PactChanged, SessionChanged
<1>17. OneActivePact'
  BY <1>8, <1>9, ActiveCounted
<1>18. RowsFollow'
  <2>1. ASSUME NEW r \in Pacts
        PROVE  pacts'[r].status # "none" => ~NewPactClaim("create", r)'
    BY <1>8, <1>13 DEF PactIndInv, RowsFollow, NewPactClaim
  <2>2. ASSUME NEW r \in Pacts, NEW e \in PactDates
        PROVE  /\ sessions'[r][e].status # "none" =>
                    pacts'[r].status # "none" /\ e - pacts'[r].start \in 0 .. PactWeek - 1
               /\ Len(sessions'[r][e].answers) <= Questions
    <3>1. CASE r = p /\ e = d
      BY <1>8, <1>12, <1>13, <1>14, <3>1
    <3>2. CASE r # p \/ e # d
      BY <1>8, <1>11, <1>13, <3>2 DEF PactIndInv, RowsFollow
    <3> QED
      BY <3>1, <3>2
  <2> QED
    BY <2>1, <2>2 DEF RowsFollow
<1>19. EventsFollow'
  <2>1. \A r \in Pacts, e \in PactDates :
           sessions[r][e].status = "answered" => sessions'[r][e].status = "answered"
    BY <1>11
  <2>2. \A r \in Pacts : pacts[r].status = "completed" => pacts'[r].status = "completed"
    BY <1>13
  <2> QED
    BY <2>1, <2>2, EventsStay DEF PactIndInv
<1>20. SessionsAddUp'
  <2>1. ASSUME NEW r \in Pacts, NEW e \in PactDates
        PROVE  sessions'[r][e].status = "answered" <=> Len(sessions'[r][e].answers) = Questions
    <3>1. CASE r = p /\ e = d
      BY <1>12, <1>14, <3>1
    <3>2. CASE r # p \/ e # d
      BY <1>11, <3>2 DEF PactIndInv, SessionsAddUp
    <3> QED
      BY <3>1, <3>2
  <2>2. Cardinality(PactDated(p, "skipped")') = Cardinality(PactDated(p, "skipped")) + 1
    BY <1>15, DatesAreFinite, FS_AddElement
  <2>3. pacts'[p].skipped = Cardinality(PactDated(p, "skipped")')
    BY <1>8, <1>13, <2>2 DEF PactIndInv, SessionsAddUp, skipped
  <2>4. ASSUME NEW r \in Pacts
        PROVE  pacts'[r].completed = Cardinality(PactDated(r, "answered")')
    BY <1>8, <1>13, <1>15 DEF PactIndInv, SessionsAddUp
  <2>5. ASSUME NEW r \in Pacts, r # p
        PROVE  pacts'[r].skipped = Cardinality(PactDated(r, "skipped")')
    BY <1>13, <1>15, <2>5 DEF PactIndInv, SessionsAddUp
  <2> QED
    BY <2>1, <2>3, <2>4, <2>5 DEF SessionsAddUp
<1>21. CompletedIsPaid'
  <2>1. \A r \in Pacts : /\ pacts'[r].status = "completed" <=> pacts[r].status = "completed"
                         /\ pacts'[r].theme = pacts[r].theme
    BY <1>8, <1>13
  <2>2. {r \in Pacts : pacts'[r].status = "completed"} = {r \in Pacts : pacts[r].status = "completed"}
    BY <2>1
  <2>3. {pacts'[r].theme : r \in {s \in Pacts : pacts'[s].status = "completed"}}
          = {pacts[r].theme : r \in {s \in Pacts : pacts[s].status = "completed"}}
    BY <2>1, <2>2
  <2>4. ~(pacts[p].completed >= MinSessions /\ pacts[p].completeness >= MinCompleteness)
    BY DEF PactIndInv, CompletedIsPaid
  <2>5. ~(pact.completed >= MinSessions /\ pact.completeness >= MinCompleteness)
    <3>1. MinSessions \in Nat /\ MinCompleteness \in Nat
      BY PactConstants
    <3>2. pacts[p].completed \in Nat /\ pacts[p].completeness \in Nat /\ completeness \in Nat
      BY <1>3, <1>4, Percents
    <3>3. pact.completed = pacts[p].completed /\ pact.completeness = completeness
      BY <1>8
    <3> QED
      BY <1>5, <2>4, <3>1, <3>2, <3>3
  <2>6. \A r \in Pacts : pacts'[r].status = "completed"
                            <=> pacts'[r].completed >= MinSessions /\ pacts'[r].completeness >= MinCompleteness
    BY <1>8, <1>13, <2>5 DEF PactIndInv, CompletedIsPaid
  <2> QED
    BY <1>2, <2>2, <2>3, <2>6 DEF PactIndInv, CompletedIsPaid
<1>22. CompletenessIsMean'
  <2>1. \A r \in Pacts : r # p => SessionScores(r)' = SessionScores(r)
    <3>1. ASSUME NEW r \in Pacts, r # p
          PROVE  SessionScores(r)' = SessionScores(r)
      <4>1. PactDated(r, "answered")' = PactDated(r, "answered")
        BY <1>15
      <4>2. \A e \in PactDated(r, "answered") : sessions'[r][e] = sessions[r][e]
        BY <1>11, <3>1 DEF PactDated
      <4> QED
        BY <4>1, <4>2, ScoresStay
    <3> QED
      BY <3>1
  <2>2. pacts'[p].skipped # 0
    BY <1>6, <1>8, <1>13
  <2> QED
    BY <1>13, <2>1, <2>2 DEF PactIndInv, CompletenessIsMean
<1>23. PactEndsStay
  BY <1>11, <1>13 DEF PactEndsStay
<1> QED
  BY <1>2, <1>16, <1>17, <1>18, <1>19, <1>20, <1>21, <1>22, <1>23 DEF PactIndInv

\* What finalizing session d of pact p, now scored so, makes of the pact, the
\* spirit and the growth events.
Finalized(p, d, scored) ==
    LET pact == WithCompleted(pacts[p], scored)
        paid == pacts'[p].status = "completed"
    IN
    /\ paid <=> PactEligible(pact)
    /\ PactChanged(p, IF paid THEN [pact EXCEPT !.status = "completed"] ELSE pact)
    /\ pactEvents' = pactEvents \cup IF paid THEN {<<"pact_answered", p, d>>, <<"pact_completed", p>>}
                                           ELSE {<<"pact_answered", p, d>>}
    /\ pupil' \in PupilRow /\ pupil'.version > pupil.version
    /\ pupil'.bond = IF paid THEN Clamp(pupil.bond + 5) ELSE pupil.bond
    /\ ToSet(pupil'.marks) = ToSet(pupil.marks) \cup IF paid THEN {pacts[p].theme} ELSE {}
    /\ Len(pupil'.marks) = Cardinality(ToSet(pupil'.marks))

LEMMA CompletedRow ==
    ASSUME NEW old \in PactRow, old.status = "active", NEW scored \in 0 .. 100
    PROVE  LET pact == WithCompleted(old, scored)
               next == NextCompleteness(old.completeness, old.completed, scored)
           IN /\ pact \in PactRow /\ [pact EXCEPT !.status = "completed"] \in PactRow
              /\ pact.status = "active" /\ pact.theme = old.theme /\ pact.start = old.start
              /\ pact.completed = old.completed + 1 /\ pact.skipped = old.skipped
              /\ pact.completeness = next /\ next \in 0 .. 100
<1> DEFINE next == NextCompleteness(old.completeness, old.completed, scored)
           completed == old.completed + 1
           pact == WithCompleted(old, scored)
<1>1. old.completeness \in 0 .. 100 /\ old.completed \in Nat /\ 100 \in Nat
  BY DEF PactRow
<1>2. next \in 0 .. 100
  BY <1>1, NextAtMost
<1>3. completed \in Nat
  BY <1>1
<1>4. pact = [old EXCEPT !.completed = completed, !.completeness = next]
  BY DEF WithCompleted, CompletenessAfter
<1> HIDE DEF next, completed, pact
<1>5. /\ pact \in PactRow /\ pact.status = "active" /\ pact.theme = old.theme /\ pact.start = old.start
      /\ pact.completed = completed /\ pact.skipped = old.skipped /\ pact.completeness = next
  BY <1>2, <1>3, <1>4 DEF PactRow
<1>6. [pact EXCEPT !.status = "completed"] \in PactRow
  BY <1>5 DEF PactRow
<1> QED
  BY <1>2, <1>5, <1>6 DEF next, completed, pact

\* _apply_finalize_side_effects: no key of it is there, so it counts and pays.
LEMMA SideEffects ==
    ASSUME PactIndInv, NEW p \in Pacts, NEW d \in PactDates, NEW row,
           pacts[p].status = "active", sessions[p][d].status = "ready",
           SessionScore(row.answers) \in 0 .. 100, FinalizeSideEffects(p, d, row)
    PROVE  Finalized(p, d, SessionScore(row.answers))
<1> DEFINE scored == SessionScore(row.answers)
           pact == WithCompleted(pacts[p], scored)
           answered == <<"pact_answered", p, d>>
           completed == <<"pact_completed", p>>
           touched == Grown(pupil, pactEvents, answered, << >>, TRUE)
           done == [pact EXCEPT !.status = "completed"]
<1>1. /\ PactTyped /\ pupil \in PupilRow /\ pacts[p] \in PactRow /\ pacts[p].theme \in Themes
      /\ pupil.version \in Nat /\ pupil.bond \in 0 .. 100 /\ pacts \in [Pacts -> PactRow]
  BY DEF PactIndInv, PactTyped, PactRow, PupilRow
<1>2. answered \notin pactEvents /\ completed \notin pactEvents
  BY DEF PactIndInv, EventsFollow
<1>3. Len(pupil.marks) = Cardinality(ToSet(pupil.marks))
  BY DEF PactIndInv, CompletedIsPaid
<1>4. /\ touched \in PupilRow /\ touched.version = pupil.version + 1
      /\ touched.bond = pupil.bond /\ touched.marks = pupil.marks
  BY <1>1, <1>2, PupilTouched DEF Grown
<1>5. /\ pact \in PactRow /\ done \in PactRow /\ pact.status = "active" /\ done.status = "completed"
      /\ pact.theme = pacts[p].theme
  <2>1. scored \in 0 .. 100
    OBVIOUS
  <2> HIDE DEF scored
  <2>2. /\ pact \in PactRow /\ done \in PactRow /\ pact.status = "active"
        /\ pact.theme = pacts[p].theme
    BY <1>1, <2>1, CompletedRow
  <2> HIDE DEF pact
  <2>3. done.status = "completed"
    BY <2>2 DEF PactRow
  <2> QED
    BY <2>2, <2>3
<1>6. CASE ~PactEligible(pact)
  <2>1. /\ pacts' = [pacts EXCEPT ![p] = pact]
        /\ pactEvents' = pactEvents \cup {answered} /\ pupil' = touched
    BY <1>6 DEF FinalizeSideEffects, Recorded
  <2> HIDE DEF pact, touched, answered, completed, done
  <2>2. PactChanged(p, pact)
    BY <1>1, <1>5, <2>1, OnePact
  <2>3. pacts'[p].status # "completed"
    BY <1>5, <2>2 DEF PactChanged
  <2>4. pupil' \in PupilRow /\ pupil'.version > pupil.version
    BY <1>1, <1>4, <2>1
  <2> QED
    BY <1>3, <1>4, <1>6, <2>1, <2>2, <2>3, <2>4 DEF Finalized, pact, answered
<1>7. CASE PactEligible(pact)
  <2> DEFINE marked == Marked(touched, pact.theme)
             grown == Grown(marked, pactEvents, completed, [bond |-> 5], TRUE)
  <2>1. PICK steps \in 0 .. 2 :
           /\ pacts' = [pacts EXCEPT ![p] = done]
           /\ pactEvents' = (pactEvents \cup {answered}) \cup {completed}
           /\ pupil' = [grown EXCEPT !.version = @ + steps]
    BY <1>7 DEF FinalizeSideEffects, Recorded
  <2>2. grown = WithGrowth(marked, [bond |-> 5], TRUE)
    BY <1>2 DEF Grown
  <2> HIDE DEF pact, touched, answered, completed, done, grown, marked
  <2>3. /\ marked \in PupilRow /\ marked.version >= touched.version /\ marked.bond = touched.bond
        /\ ToSet(marked.marks) = ToSet(touched.marks) \cup {pact.theme}
        /\ Len(touched.marks) = Cardinality(ToSet(touched.marks)) =>
              Len(marked.marks) = Cardinality(ToSet(marked.marks))
    BY <1>1, <1>4, <1>5, PupilMarked DEF marked
  <2>4. /\ grown \in PupilRow /\ grown.version = marked.version + 1
        /\ grown.bond = Clamp(marked.bond + 5) /\ grown.marks = marked.marks
    BY <2>2, <2>3, PupilPaid
  <2>5. PICK version : version = grown.version + steps
    OBVIOUS
  <2>6. touched.version \in Nat /\ marked.version \in Nat /\ grown.version \in Nat
    BY <1>4, <2>3, <2>4 DEF PupilRow
  <2>7. version \in Nat /\ version > pupil.version
    BY <1>1, <1>4, <2>1, <2>3, <2>4, <2>5, <2>6
  <2>8. pupil' = [grown EXCEPT !.version = version]
    BY <2>1, <2>5
  <2>9. /\ pupil' \in PupilRow /\ pupil'.version = version
        /\ pupil'.bond = grown.bond /\ pupil'.marks = grown.marks
    BY <2>4, <2>7, <2>8 DEF PupilRow
  <2>10. PactChanged(p, done)
    BY <1>1, <1>5, <2>1, OnePact
  <2>11. pacts'[p].status = "completed"
    BY <1>5, <2>10 DEF PactChanged
  <2>12. pactEvents' = pactEvents \cup {answered, completed}
    BY <2>1
  <2>13. pupil'.bond = Clamp(pupil.bond + 5)
    BY <1>4, <2>3, <2>4, <2>9
  <2>14. /\ ToSet(pupil'.marks) = ToSet(pupil.marks) \cup {pacts[p].theme}
         /\ Len(pupil'.marks) = Cardinality(ToSet(pupil'.marks))
    BY <1>3, <1>4, <1>5, <2>3, <2>4, <2>9
  <2> QED
    BY <1>7, <2>7, <2>9, <2>10, <2>11, <2>12, <2>13, <2>14 DEF Finalized, pact, answered, completed, done
<1> QED
  BY <1>6, <1>7

\* The rounding of one session more: half of their number, at most.
LEMMA MeanMoves ==
    ASSUME NEW n \in Nat, NEW c \in Nat, NEW sum \in Nat, NEW scored \in Nat, NEW next \in Nat,
           4 * (c * n - sum) \in -(n * (n + 1)) .. n * (n + 1),
           2 * (next * (n + 1) - (c * n + scored)) \in -(n + 1) .. n + 1
    PROVE  4 * (next * (n + 1) - (sum + scored)) \in -((n + 1) * (n + 2)) .. (n + 1) * (n + 2)
<1>1. PICK x, y, z : x = c * n /\ y = next * (n + 1) /\ z = n * (n + 1)
  OBVIOUS
<1>2. x \in Nat /\ y \in Nat /\ z \in Nat
  BY <1>1
<1>3. (n + 1) * (n + 2) = z + 2 * (n + 1)
  BY <1>1
<1>4. 4 * (x - sum) \in -z .. z /\ 2 * (y - (x + scored)) \in -(n + 1) .. n + 1
  BY <1>1
<1>5. 4 * (y - (sum + scored)) \in -(z + 2 * (n + 1)) .. z + 2 * (n + 1)
  BY <1>2, <1>4
<1> QED
  BY <1>1, <1>3, <1>5

\* save_last_answer_and_finalize, with its side effects.
LEMMA PactFinalized ==
    ASSUME PactIndInv, NEW p \in Pacts, NEW d \in PactDates, NEW row \in SessionRow,
           row.status = "answered", Len(row.answers) = Questions,
           sessions[p][d].status = "ready", pacts[p].status = "active",
           sessions' = [sessions EXCEPT ![p][d] = row],
           Finalized(p, d, SessionScore(row.answers)), pactClaims \subseteq pactClaims',
           UNCHANGED <<pactClock, zone>>
    PROVE  PactIndInv' /\ PactEndsStay /\ pupil'.version > pupil.version
<1>1. PICK scored : scored = SessionScore(row.answers)
  OBVIOUS
<1> DEFINE pact == WithCompleted(pacts[p], scored)
           paid == pacts'[p].status = "completed"
           next == NextCompleteness(pacts[p].completeness, pacts[p].completed, scored)
<1>2. /\ PactTyped /\ pupil \in PupilRow /\ pupil.bond \in 0 .. 100 /\ pacts[p] \in PactRow
      /\ pacts \in [Pacts -> PactRow]
  BY DEF PactIndInv, PactTyped, PupilRow
<1>3. pacts[p].completed \in Nat /\ pacts[p].completeness \in 0 .. 100
  BY <1>2 DEF PactRow
<1>4. scored \in 0 .. 100
  <2>1. row.answers \in Seq(PactScores) /\ row.answers # << >>
    BY PactConstants DEF SessionRow
  <2> QED
    BY <1>1, <2>1, ScoreInRange
<1>5. Finalized(p, d, scored)
  BY <1>1
<1>6. /\ pact \in PactRow /\ [pact EXCEPT !.status = "completed"] \in PactRow
      /\ pact.status = "active" /\ pact.theme = pacts[p].theme /\ pact.start = pacts[p].start
      /\ pact.completed = pacts[p].completed + 1 /\ pact.skipped = pacts[p].skipped
      /\ pact.completeness = next /\ next \in 0 .. 100
  BY <1>2, <1>4, CompletedRow
<1>7. /\ paid <=> PactEligible(pact)
      /\ PactChanged(p, IF paid THEN [pact EXCEPT !.status = "completed"] ELSE pact)
      /\ pactEvents' = pactEvents \cup IF paid THEN {<<"pact_answered", p, d>>, <<"pact_completed", p>>}
                                               ELSE {<<"pact_answered", p, d>>}
      /\ pupil' \in PupilRow /\ pupil'.version > pupil.version
      /\ pupil'.bond = IF paid THEN Clamp(pupil.bond + 5) ELSE pupil.bond
      /\ ToSet(pupil'.marks) = ToSet(pupil.marks) \cup IF paid THEN {pacts[p].theme} ELSE {}
      /\ Len(pupil'.marks) = Cardinality(ToSet(pupil'.marks))
  BY <1>5 DEF Finalized
<1> HIDE DEF pact, next
<1>8. /\ pacts' \in [Pacts -> PactRow]
      /\ \A r \in Pacts : r # p => pacts'[r] = pacts[r]
  BY <1>7 DEF PactChanged
<1>9. /\ pacts'[p].status \in {"active", "completed"} /\ pacts'[p].theme = pacts[p].theme
      /\ pacts'[p].start = pacts[p].start /\ pacts'[p].completed = pacts[p].completed + 1
      /\ pacts'[p].skipped = pacts[p].skipped /\ pacts'[p].completeness = next
  <2>1. CASE paid
    <3>1. pacts'[p] = [pact EXCEPT !.status = "completed"]
      BY <1>7, <2>1 DEF PactChanged
    <3> QED
      BY <1>6, <3>1 DEF PactRow
  <2>2. CASE ~paid
    <3>1. pacts'[p] = pact
      BY <1>7, <2>2 DEF PactChanged
    <3> QED
      BY <1>6, <3>1
  <2> QED
    BY <2>1, <2>2
<1>10. SessionChanged(p, d, row)
  BY <1>2, OneSession
<1>11. \A r \in Pacts, e \in PactDates : r # p \/ e # d => sessions'[r][e] = sessions[r][e]
  BY <1>10 DEF SessionChanged
<1>12. sessions'[p][d] = row
  BY <1>10 DEF SessionChanged
<1>13. /\ \A r \in Pacts : PactDated(r, "skipped")' = PactDated(r, "skipped")
       /\ \A r \in Pacts : r # p => PactDated(r, "answered")' = PactDated(r, "answered")
       /\ d \notin PactDated(p, "answered") /\ PactDated(p, "answered")' = PactDated(p, "answered") \cup {d}
  <2>1. d \notin PactDated(p, "answered") /\ d \notin PactDated(p, "skipped")
    BY DEF PactDated
  <2>2. PactDated(p, "answered")' = PactDated(p, "answered") \cup {d}
    BY <1>10, DatedChanged
  <2>3. row.status # "skipped"
    OBVIOUS
  <2>4. PactDated(p, "skipped")' = PactDated(p, "skipped") \ {d}
    BY <1>10, <2>3, DatedChanged
  <2>5. PactDated(p, "skipped")' = PactDated(p, "skipped")
    BY <2>1, <2>4
  <2>6. \A r \in Pacts : r # p => /\ PactDated(r, "answered")' = PactDated(r, "answered")
                                 /\ PactDated(r, "skipped")' = PactDated(r, "skipped")
    BY <1>10, DatedChanged
  <2> QED
    BY <2>1, <2>2, <2>5, <2>6
<1>14. PactTyped'
  BY <1>7, <1>8, <1>10 DEF PactIndInv, PactTyped, SessionChanged
<1>15. OneActivePact'
  BY <1>8, <1>9 DEF PactIndInv, OneActivePact
<1>16. RowsFollow'
  <2>1. ASSUME NEW r \in Pacts
        PROVE  pacts'[r].status # "none" => ~NewPactClaim("create", r)'
    BY <1>8, <1>9 DEF PactIndInv, RowsFollow, NewPactClaim
  <2>2. d - pacts[p].start \in 0 .. PactWeek - 1
    BY DEF PactIndInv, RowsFollow
  <2>3. Questions \in Nat
    BY PactConstants
  <2>4. ASSUME NEW r \in Pacts, NEW e \in PactDates
        PROVE  /\ sessions'[r][e].status # "none" =>
                    pacts'[r].status # "none" /\ e - pacts'[r].start \in 0 .. PactWeek - 1
               /\ Len(sessions'[r][e].answers) <= Questions
    <3>1. CASE r = p /\ e = d
      BY <1>9, <1>12, <2>2, <2>3, <3>1
    <3>2. CASE r = p /\ e # d
      BY <1>9, <1>11, <3>2 DEF PactIndInv, RowsFollow
    <3>3. CASE r # p
      BY <1>8, <1>11, <3>3 DEF PactIndInv, RowsFollow
    <3> QED
      BY <3>1, <3>2, <3>3
  <2> QED
    BY <2>1, <2>4 DEF RowsFollow
<1>17. EventsFollow'
  <2>1. ASSUME NEW r \in Pacts, <<"pact_completed", r>> \in pactEvents'
        PROVE  pacts'[r].status = "completed"
    <3>1. <<"pact_completed", r>> # <<"pact_answered", p, d>>
      OBVIOUS
    <3>2. CASE <<"pact_completed", r>> \in pactEvents
      <4>1. pacts[r].status = "completed"
        BY <3>2 DEF PactIndInv, EventsFollow
      <4> QED
        BY <1>8, <4>1
    <3>3. CASE <<"pact_completed", r>> \notin pactEvents
      <4>1. paid /\ <<"pact_completed", r>> = <<"pact_completed", p>>
        BY <1>7, <2>1, <3>1, <3>3
      <4> QED
        BY <4>1
    <3> QED
      BY <3>2, <3>3
  <2>2. ASSUME NEW r \in Pacts, NEW e \in PactDates, <<"pact_answered", r, e>> \in pactEvents'
        PROVE  sessions'[r][e].status = "answered"
    <3>1. <<"pact_answered", r, e>> # <<"pact_completed", p>>
      OBVIOUS
    <3>2. CASE <<"pact_answered", r, e>> \in pactEvents
      <4>1. sessions[r][e].status = "answered"
        BY <3>2, AnsweredIsFollowed DEF PactIndInv
      <4> QED
        BY <1>11, <4>1
    <3>3. CASE <<"pact_answered", r, e>> \notin pactEvents
      <4>1. <<"pact_answered", r, e>> = <<"pact_answered", p, d>>
        BY <1>7, <2>2, <3>1, <3>3
      <4> QED
        BY <1>12, <4>1
    <3> QED
      BY <3>2, <3>3
  <2> QED
    BY <2>1, <2>2 DEF EventsFollow
<1>18. SessionsAddUp'
  <2>1. ASSUME NEW r \in Pacts, NEW e \in PactDates
        PROVE  sessions'[r][e].status = "answered" <=> Len(sessions'[r][e].answers) = Questions
    <3>1. CASE r = p /\ e = d
      BY <1>12, <3>1
    <3>2. CASE r # p \/ e # d
      BY <1>11, <3>2 DEF PactIndInv, SessionsAddUp
    <3> QED
      BY <3>1, <3>2
  <2>2. Cardinality(PactDated(p, "answered")') = Cardinality(PactDated(p, "answered")) + 1
    BY <1>13, DatesAreFinite, FS_AddElement
  <2>3. pacts'[p].completed = Cardinality(PactDated(p, "answered")')
    BY <1>9, <2>2 DEF PactIndInv, SessionsAddUp
  <2>4. ASSUME NEW r \in Pacts
        PROVE  pacts'[r].skipped = Cardinality(PactDated(r, "skipped")')
    BY <1>8, <1>9, <1>13 DEF PactIndInv, SessionsAddUp
  <2>5. ASSUME NEW r \in Pacts, r # p
        PROVE  pacts'[r].completed = Cardinality(PactDated(r, "answered")')
    BY <1>8, <1>13, <2>5 DEF PactIndInv, SessionsAddUp
  <2> QED
    BY <2>1, <2>3, <2>4, <2>5 DEF SessionsAddUp
<1>19. CompletedIsPaid'
  <2> DEFINE before == {r \in Pacts : pacts[r].status = "completed"}
             after == {r \in Pacts : pacts'[r].status = "completed"}
  <2>1. after = before \cup IF paid THEN {p} ELSE {}
    BY <1>8
  <2>2. p \notin before /\ IsFiniteSet(before) /\ Cardinality(before) \in Nat
    BY PactConstants, FS_Subset, FS_CardinalityType
  <2>3. paid <=> pacts'[p].completed >= MinSessions /\ pacts'[p].completeness >= MinCompleteness
    BY <1>6, <1>7, <1>9 DEF PactEligible
  <2>4. \A r \in Pacts : pacts'[r].status = "completed"
                            <=> pacts'[r].completed >= MinSessions /\ pacts'[r].completeness >= MinCompleteness
    BY <1>8, <2>3 DEF PactIndInv, CompletedIsPaid
  <2>5. pupil.bond = Clamp(5 * Cardinality(before)) /\ ToSet(pupil.marks) = {pacts[r].theme : r \in before}
    BY DEF PactIndInv, CompletedIsPaid
  <2>6. {pacts'[r].theme : r \in after} = {pacts[r].theme : r \in before}
                                             \cup IF paid THEN {pacts[p].theme} ELSE {}
    <3>1. \A r \in Pacts : pacts'[r].theme = pacts[r].theme
      BY <1>8, <1>9
    <3> QED
      BY <2>1, <3>1
  <2>7. Cardinality(after) = Cardinality(before) + IF paid THEN 1 ELSE 0
    <3>1. Cardinality(before \cup {p}) = Cardinality(before) + 1
      BY <2>2, FS_AddElement
    <3> HIDE DEF before, after
    <3>2. CASE paid
      BY <2>1, <3>1, <3>2
    <3>3. CASE ~paid
      <4>1. after = before
        BY <2>1, <3>3
      <4> QED
        BY <2>2, <3>3, <4>1
    <3> QED
      BY <3>2, <3>3
  <2>8. pupil'.bond = Clamp(5 * Cardinality(after))
    <3> HIDE DEF before, after
    <3>1. PICK n : n = Cardinality(before)
      OBVIOUS
    <3>2. Clamp(Clamp(5 * n) + 5) = Clamp(5 * (n + 1))
      BY <2>2, <3>1 DEF Clamp
    <3> QED
      BY <1>7, <2>2, <2>5, <2>7, <3>1, <3>2
  <2> QED
    BY <1>7, <2>4, <2>5, <2>6, <2>8 DEF CompletedIsPaid
<1>20. CompletenessIsMean'
  <2>1. \A r \in Pacts : r # p => SessionScores(r)' = SessionScores(r)
    <3>1. ASSUME NEW r \in Pacts, r # p
          PROVE  SessionScores(r)' = SessionScores(r)
      <4>1. PactDated(r, "answered")' = PactDated(r, "answered")
        BY <1>13, <3>1
      <4>2. \A e \in PactDated(r, "answered") : sessions'[r][e] = sessions[r][e]
        BY <1>11, <3>1 DEF PactDated
      <4> QED
        BY <4>1, <4>2, ScoresStay
    <3> QED
      BY <3>1
  <2>2. PICK f, h : f = SessionScores(p) /\ h = SessionScores(p)'
    OBVIOUS
  <2>3. DOMAIN f = PactDated(p, "answered") /\ DOMAIN h = PactDated(p, "answered")'
    BY <2>2 DEF SessionScores
  <2>4. /\ \A e \in DOMAIN f : f[e] = SessionScore(sessions[p][e].answers)
        /\ \A e \in DOMAIN h : h[e] = SessionScore(sessions'[p][e].answers)
    BY <2>2 DEF SessionScores
  <2>5. d \notin DOMAIN f /\ DOMAIN h = DOMAIN f \cup {d} /\ IsFiniteSet(DOMAIN f)
    BY <1>13, <2>3, DatesAreFinite
  <2>6. \A e \in DOMAIN f : h[e] = f[e]
    BY <1>11, <2>3, <2>4, <2>5, DatesAreFinite
  <2>7. h[d] = scored
    BY <1>1, <1>12, <2>4, <2>5
  <2>8. \A e \in DOMAIN f : f[e] \in Nat
    <3>1. ASSUME NEW e \in DOMAIN f
          PROVE  f[e] \in Nat
      <4>1. e \in PactDates /\ sessions[p][e].status = "answered"
        BY <2>3, <3>1 DEF PactDated
      <4>2. Len(sessions[p][e].answers) = Questions
        BY <4>1 DEF PactIndInv, SessionsAddUp
      <4>3. sessions[p][e].answers \in Seq(PactScores)
        BY <1>2, <4>1 DEF PactTyped, SessionRow
      <4>4. sessions[p][e].answers # << >>
        BY <4>2, PactConstants
      <4>5. SessionScore(sessions[p][e].answers) \in 0 .. 100
        BY <4>3, <4>4, ScoreInRange
      <4> QED
        BY <2>4, <4>5, Percents
    <3> QED
      BY <3>1
  <2>9. \A e \in DOMAIN h : h[e] \in Nat
    BY <1>4, <2>5, <2>6, <2>7, <2>8, Percents
  <2>10. SumFunction(f) \in Nat /\ SumFunction(h) = SumFunction(f) + scored
    BY <2>5, <2>6, <2>7, <2>9, SumOfOneMore
  <2>11. PICK n, c, sum : n = pacts[p].completed /\ c = pacts[p].completeness /\ sum = SumFunction(f)
    OBVIOUS
  <2>12. ASSUME pacts[p].skipped = 0
         PROVE  4 * (c * n - sum) \in -(n * (n + 1)) .. n * (n + 1)
    BY <2>2, <2>11, <2>12 DEF PactIndInv, CompletenessIsMean
  <2>13. 2 * (next * (n + 1) - (c * n + scored)) \in -(n + 1) .. n + 1
    BY <1>3, <1>4, <2>11, NextAtMost DEF next
  <2>14. n \in Nat /\ c \in Nat /\ sum \in Nat /\ scored \in Nat /\ next \in Nat
    BY <1>3, <1>4, <1>6, <2>10, <2>11, Percents
  <2>15. ASSUME pacts[p].skipped = 0
         PROVE  4 * (next * (n + 1) - (sum + scored)) \in -((n + 1) * (n + 2)) .. (n + 1) * (n + 2)
    <3>1. 4 * (c * n - sum) \in -(n * (n + 1)) .. n * (n + 1)
      BY <2>12, <2>15
    <3> QED
      BY <2>13, <2>14, <3>1, MeanMoves
  <2>16. pacts'[p].skipped = 0 =>
            LET k == pacts'[p].completed
                off == pacts'[p].completeness * k - SumFunction(SessionScores(p)')
            IN 4 * off \in -(k * (k + 1)) .. k * (k + 1)
    <3>1. ASSUME pacts'[p].skipped = 0
          PROVE  4 * (next * (n + 1) - (sum + scored)) \in -((n + 1) * (n + 2)) .. (n + 1) * (n + 2)
      BY <1>9, <2>15, <3>1
    <3>2. /\ pacts'[p].completed = n + 1 /\ pacts'[p].completeness = next
          /\ SumFunction(SessionScores(p)') = sum + scored /\ (n + 1) + 1 = n + 2
      BY <1>9, <2>2, <2>10, <2>11, <2>14
    <3> QED
      BY <3>1, <3>2
  <2>17. \A r \in Pacts : r # p => pacts'[r] = pacts[r]
    BY <1>8
  <2>18. \A r \in Pacts : r # p => (pacts'[r].skipped = 0 =>
            LET k == pacts'[r].completed
                off == pacts'[r].completeness * k - SumFunction(SessionScores(r)')
            IN 4 * off \in -(k * (k + 1)) .. k * (k + 1))
    BY <2>1, <2>17 DEF PactIndInv, CompletenessIsMean
  <2> QED
    BY <2>16, <2>18 DEF CompletenessIsMean
<1>21. PactEndsStay
  BY <1>8, <1>11 DEF PactEndsStay
<1> QED
  BY <1>7, <1>14, <1>15, <1>16, <1>17, <1>18, <1>19, <1>20, <1>21 DEF PactIndInv

-----------------------------------------------------------------------------
(* Pact: every request. *)

\* What a step keeps and shows.
PactKept ==
    /\ PactIndInv' /\ PactEndsStay
    /\ pacts' # pacts => pupil'.version > pupil.version

LEMMA PactEnvelopeTells ==
    ASSUME NEW p \in Pacts, PactKept, PactEnvelope(pupil', p, pacts'[p])
    PROVE  PactIndInv' /\ PactEndsStay /\ VersionTells
<1>1. pactReply' = [version |-> pupil'.version, of |-> {p}, pact |-> {pacts'[p]}]
  BY DEF PactEnvelope
<1>2. VersionTells
  BY <1>1 DEF PactKept, VersionTells
<1> QED
  BY <1>2 DEF PactKept

LEMMA NothingTells ==
    ASSUME PactKept, pactReply' = NoPactReply
    PROVE  PactIndInv' /\ PactEndsStay /\ VersionTells
  BY DEF PactKept, VersionTells, NoPactReply

LEMMA DatesOfRequests ==
    ASSUME PactTyped, NEW moment \in PactNows
    PROVE  moment \in Nat /\ PactDate(moment) \in PactDates /\ PactDate(moment) \in Nat
           /\ moment + PactWeek \in Nat
  BY PactConstants DEF PactTyped, PactNows, PactDate, PactDates

LEMMA PostPactsKeeps ==
    ASSUME PactIndInv, PostPacts
    PROVE  PactIndInv' /\ PactEndsStay /\ VersionTells
<1>1. PICK p \in Pacts, moment \in PactNows : CreatePact(p, moment)
  BY DEF PostPacts, UpToNew
<1>2. UNCHANGED <<pactClock, zone, sessions, pactEvents>>
  BY DEF PostPacts
<1>3. PactTyped /\ pupil \in PupilRow /\ pacts \in [Pacts -> PactRow]
  BY DEF PactIndInv, PactTyped
<1> DEFINE pact == NewPact(pacts[p].theme, PactDate(moment), moment + PactWeek)
<1>4. CASE /\ PactEnvelope(pupil, p, pacts[p])
           /\ UNCHANGED <<pupil, pacts, pactClaims>>
  <2>1. PactIndInv' /\ PactEndsStay
    BY <1>2, <1>3, <1>4, PactQuiet DEF PactIndInv, PactTyped
  <2>2. PactKept
    BY <1>4, <2>1 DEF PactKept
  <2> QED
    BY <1>4, <2>2, PactEnvelopeTells
<1>5. CASE /\ NewPactClaim("create", p) /\ ActivePacts = {}
           /\ pacts' = [pacts EXCEPT ![p] = pact]
           /\ pupil' = Bumped(pupil)
           /\ pactClaims' = PactClaimed("create", p, pacts[p].theme)
           /\ PactEnvelope(pupil', p, pact)
  <2>1. PactDate(moment) \in Nat /\ moment + PactWeek \in Nat
    BY <1>3, DatesOfRequests
  <2>2. PactIndInv' /\ PactEndsStay /\ pupil'.version > pupil.version
    BY <1>2, <1>5, <2>1, PactCreated
  <2>3. PactKept
    BY <2>2 DEF PactKept
  <2>4. pacts'[p] = pact
    BY <1>3, <1>5
  <2> QED
    BY <1>5, <2>3, <2>4, PactEnvelopeTells
<1> QED
  BY <1>1, <1>4, <1>5 DEF CreatePact

LEMMA OpenedRow ==
    /\ OpenSession \in SessionRow /\ OpenSession.status = "ready" /\ Len(OpenSession.answers) < Questions
    /\ InsertedSkipped \in SessionRow /\ InsertedSkipped.status = "skipped"
    /\ Len(InsertedSkipped.answers) < Questions
<1>1. << >> \in Seq(PactScores) /\ Len(<< >>) < Questions
  BY PactConstants
<1>2. OpenSession \in SessionRow /\ OpenSession.status = "ready" /\ OpenSession.answers = << >>
  BY <1>1 DEF OpenSession, SessionRow
<1>3. /\ InsertedSkipped \in SessionRow /\ InsertedSkipped.status = "skipped"
      /\ InsertedSkipped.answers = << >>
  BY <1>2 DEF InsertedSkipped, SessionRow
<1> QED
  BY <1>1, <1>2, <1>3

LEMMA OpenInWeek ==
    ASSUME NEW pact \in PactRow, NEW date \in Nat, NEW moment \in Nat, ~DayClosed(pact, date, moment)
    PROVE  pact.status = "active" /\ date - pact.start \in 0 .. PactWeek - 1
<1>1. pact.status = "active" /\ date - pact.start + 1 \in 1 .. PactWeek
  BY DEF DayClosed, InWeek
<1>2. pact.start \in Nat /\ PactWeek \in Nat
  BY PactConstants DEF PactRow
<1> QED
  BY <1>1, <1>2

LEMMA PostPactSessionKeeps ==
    ASSUME PactIndInv, PostPactSession
    PROVE  PactIndInv' /\ PactEndsStay /\ VersionTells
<1>1. PICK p \in Pacts, cid \in OpenIds, moment \in PactNows : OpenPactSession(p, cid, moment)
  BY DEF PostPactSession, UpToNew
<1>2. UNCHANGED <<pactClock, zone, pacts, pactEvents>>
  BY DEF PostPactSession
<1>3. /\ PactTyped /\ pupil \in PupilRow /\ pacts \in [Pacts -> PactRow]
      /\ pactClock \in 0 .. PactMaxDay /\ zone \in {0, 1}
  BY DEF PactIndInv, PactTyped
<1>4. PICK today : today = PactDate(moment)
  OBVIOUS
<1>5. /\ PactEnvelope(pupil', p, pacts[p]) /\ pacts[p].status # "none"
  BY <1>1 DEF OpenPactSession
<1>6. PactClaimed("session", cid, <<p, today>>) = pactClaims \cup {[op |-> "session", cid |-> cid, hash |-> <<p, today>>]}
  BY DEF PactClaimed
<1>7. CASE UNCHANGED <<pupil, sessions>> /\ pactClaims \subseteq pactClaims'
  <2>1. PactIndInv' /\ PactEndsStay
    BY <1>2, <1>3, <1>7, PactQuiet
  <2>2. PactKept
    BY <1>2, <2>1 DEF PactKept
  <2> QED
    BY <1>2, <1>5, <2>2, PactEnvelopeTells
<1>8. CASE /\ sessions[p][today].status = "none"
           /\ ~DayClosed(pacts[p], today, moment)
           /\ sessions' = [sessions EXCEPT ![p][today] = OpenSession]
           /\ pupil' = Bumped(pupil)
           /\ pactClaims \subseteq pactClaims'
  <2>1. moment \in Nat /\ today \in PactDates /\ today \in Nat /\ pacts[p] \in PactRow
    BY <1>3, <1>4, DatesOfRequests
  <2>2. today - pacts[p].start \in 0 .. PactWeek - 1
    BY <1>8, <2>1, OpenInWeek
  <2>3. sessions[p][today].status \in {"none", "ready"}
    BY <1>8
  <2>4. PactIndInv' /\ PactEndsStay
    BY <1>2, <1>5, <1>8, <2>1, <2>2, <2>3, OpenedRow, PactSessionSaved
  <2>5. PactKept
    BY <1>2, <2>4 DEF PactKept
  <2> QED
    BY <1>2, <1>5, <2>5, PactEnvelopeTells
<1> QED
  BY <1>1, <1>4, <1>6, <1>7, <1>8 DEF OpenPactSession

LEMMA PostPactAnswerKeeps ==
    ASSUME PactIndInv, PostPactAnswer
    PROVE  PactIndInv' /\ PactEndsStay /\ VersionTells
<1>1. PICK p \in Pacts, d \in PactDates, dev \in PactDevices, q \in 1 .. Questions,
           score \in PactScores, expected \in 1 .. Questions :
              SubmitPactAnswer(p, d, dev, q, score, expected)
  BY DEF PostPactAnswer
<1>2. UNCHANGED <<pactClock, zone>>
  BY DEF PostPactAnswer
<1>3. /\ PactTyped /\ pupil \in PupilRow /\ pacts \in [Pacts -> PactRow]
      /\ pactClock \in 0 .. PactMaxDay /\ zone \in {0, 1} /\ sessions[p][d] \in SessionRow
      /\ sessions \in [Pacts -> [PactDates -> SessionRow]]
  BY DEF PactIndInv, PactTyped
<1>4. PICK cid : cid = <<dev, p, d, q>>
  OBVIOUS
<1>5. PactEnvelope(pupil', p, pacts'[p]) /\ sessions[p][d].status # "none"
  BY <1>1 DEF SubmitPactAnswer
<1>6. CASE UNCHANGED <<pupil, pacts, sessions, pactClaims, pactEvents>>
  <2>1. PactIndInv' /\ PactEndsStay
    BY <1>2, <1>3, <1>6, PactQuiet
  <2>2. PactKept
    BY <1>6, <2>1 DEF PactKept
  <2> QED
    BY <1>5, <2>2, PactEnvelopeTells
<1>7. PICK s : s = sessions[p][d]
  OBVIOUS
<1>8. PICK answers, version : answers = Append(s.answers, score) /\ version = s.version + 1
  OBVIOUS
<1>9. /\ s \in SessionRow /\ s.answers \in Seq(PactScores) /\ s.version \in Nat
  BY <1>3, <1>7 DEF SessionRow
<1>10. /\ answers \in Seq(PactScores) /\ version \in Nat /\ Len(answers) = Len(s.answers) + 1
  BY <1>8, <1>9
<1>11. SavedAnswer(s, score) = [s EXCEPT !.answers = answers, !.version = version]
  BY <1>8 DEF SavedAnswer
<1>12. /\ SavedAnswer(s, score) \in SessionRow /\ SavedAnswer(s, score).answers = answers
       /\ SavedAnswer(s, score).status = s.status
  BY <1>9, <1>10, <1>11 DEF SessionRow
<1>13. PICK saved : saved = SavedAnswer(s, score)
  OBVIOUS
<1>14. FinalizedSession(s, score) = [saved EXCEPT !.status = "answered"]
  BY <1>13 DEF FinalizedSession
<1>15. /\ FinalizedSession(s, score) \in SessionRow /\ FinalizedSession(s, score).answers = answers
       /\ FinalizedSession(s, score).status = "answered"
  BY <1>12, <1>13, <1>14 DEF SessionRow
<1>16. pactClaims \subseteq PactClaimed("answer", cid, score)
  BY DEF PactClaimed
<1>17. CASE /\ AnswerTaken(p, d, q, expected) /\ pactClaims' = PactClaimed("answer", cid, score)
            /\ q < Questions /\ sessions' = [sessions EXCEPT ![p][d] = SavedAnswer(@, score)]
            /\ pupil' = Bumped(pupil) /\ UNCHANGED <<pacts, pactEvents>>
  <2>1. /\ s.status = "ready" /\ pacts[p].status = "active" /\ q = Len(s.answers) + 1
    BY <1>7, <1>17 DEF AnswerTaken
  <2>2. sessions' = [sessions EXCEPT ![p][d] = saved]
    BY <1>7, <1>13, <1>17
  <2>3. saved \in SessionRow /\ saved.status = "ready" /\ Len(saved.answers) < Questions
    BY <1>10, <1>12, <1>13, <1>17, <2>1
  <2>4. d - pacts[p].start \in 0 .. PactWeek - 1
    BY <1>5 DEF PactIndInv, RowsFollow
  <2>5. sessions[p][d].status \in {"none", "ready"} /\ pacts[p].status # "none"
    BY <1>7, <2>1
  <2>6. /\ pupil' = Bumped(pupil) /\ pactClaims \subseteq pactClaims'
        /\ UNCHANGED <<pactClock, zone, pacts, pactEvents>>
    BY <1>2, <1>16, <1>17
  <2>7. PactIndInv' /\ PactEndsStay
    BY <2>2, <2>3, <2>4, <2>5, <2>6, PactSessionSaved
  <2>8. PactKept
    BY <2>6, <2>7 DEF PactKept
  <2> QED
    BY <1>5, <2>8, PactEnvelopeTells
<1>18. CASE /\ AnswerTaken(p, d, q, expected) /\ pactClaims' = PactClaimed("answer", cid, score)
            /\ ~(q < Questions) /\ sessions' = [sessions EXCEPT ![p][d] = FinalizedSession(@, score)]
            /\ FinalizeSideEffects(p, d, sessions'[p][d])
  <2>1. /\ s.status = "ready" /\ pacts[p].status = "active" /\ q = Len(s.answers) + 1
    BY <1>7, <1>18 DEF AnswerTaken
  <2>2. PICK row : row = FinalizedSession(s, score)
    OBVIOUS
  <2>3. sessions' = [sessions EXCEPT ![p][d] = row]
    BY <1>7, <1>18, <2>2
  <2>4. row \in SessionRow /\ row.status = "answered" /\ row.answers = answers
    BY <1>15, <2>2
  <2>5. Len(row.answers) = Questions
    BY <1>10, <1>18, <2>1, <2>4, PactConstants
  <2>6. sessions'[p][d] = row
    BY <1>3, <2>3, <2>4, OneSession DEF SessionChanged
  <2>7. SessionScore(row.answers) \in 0 .. 100
    <3>1. row.answers \in Seq(PactScores) /\ row.answers # << >>
      BY <1>10, <2>4, <2>5, PactConstants
    <3> QED
      BY <3>1, ScoreInRange
  <2>8. sessions[p][d].status = "ready"
    BY <1>7, <2>1
  <2>9. FinalizeSideEffects(p, d, row)
    BY <1>18, <2>6
  <2>10. Finalized(p, d, SessionScore(row.answers))
    BY <2>1, <2>7, <2>8, <2>9, SideEffects
  <2>11. pactClaims \subseteq pactClaims'
    BY <1>16, <1>18
  <2>12. PactIndInv' /\ PactEndsStay /\ pupil'.version > pupil.version
    BY <1>2, <2>1, <2>3, <2>4, <2>5, <2>8, <2>10, <2>11, PactFinalized
  <2>13. PactKept
    BY <2>12 DEF PactKept
  <2> QED
    BY <1>5, <2>13, PactEnvelopeTells
<1> QED
  BY <1>1, <1>4, <1>6, <1>17, <1>18 DEF SubmitPactAnswer

LEMMA PostPactSkipKeeps ==
    ASSUME PactIndInv, PostPactSkip
    PROVE  PactIndInv' /\ PactEndsStay /\ VersionTells
<1>1. PICK p \in Pacts, dev \in PactDevices, d \in PactDates, moment \in PactNows :
              SubmitPactSkip(p, dev, d, moment)
  BY DEF PostPactSkip
<1>2. UNCHANGED <<pactClock, zone, pactEvents>>
  BY DEF PostPactSkip
<1>3. /\ PactTyped /\ pupil \in PupilRow /\ pacts \in [Pacts -> PactRow]
      /\ pactClock \in 0 .. PactMaxDay /\ zone \in {0, 1} /\ sessions[p][d] \in SessionRow
  BY DEF PactIndInv, PactTyped
<1>4. PICK cid, hash : cid = <<dev, p, d>> /\ hash = <<p, d>>
  OBVIOUS
<1>5. PactEnvelope(pupil', p, pacts'[p]) /\ ~DayClosed(pacts[p], d, moment)
  BY <1>1 DEF SubmitPactSkip
<1>6. pactClaims \subseteq PactClaimed("skip", cid, hash)
  BY DEF PactClaimed
<1>7. CASE UNCHANGED <<pupil, pacts, sessions>> /\ pactClaims \subseteq pactClaims'
  <2>1. PactIndInv' /\ PactEndsStay
    BY <1>2, <1>3, <1>7, PactQuiet
  <2>2. PactKept
    BY <1>7, <2>1 DEF PactKept
  <2> QED
    BY <1>5, <2>2, PactEnvelopeTells
<1>8. PICK s : s = sessions[p][d]
  OBVIOUS
<1>9. PICK row : row = IF s.status = "none" THEN InsertedSkipped ELSE SkippedReady(s)
  OBVIOUS
<1>10. CASE /\ Skippable(s)
            /\ sessions' = [sessions EXCEPT ![p][d] = row]
            /\ pacts' = [pacts EXCEPT ![p] = WithSkipped(@)]
            /\ pupil' = Bumped(pupil)
            /\ pactClaims \subseteq pactClaims'
  <2>1. moment \in Nat /\ d \in Nat /\ pacts[p] \in PactRow
    BY <1>3, DatesOfRequests, DatesAreFinite
  <2>2. pacts[p].status = "active" /\ d - pacts[p].start \in 0 .. PactWeek - 1
    BY <1>5, <2>1, OpenInWeek
  <2>3. s.status \in {"none", "ready"}
    BY <1>10 DEF Skippable
  <2>4. row \in SessionRow /\ row.status = "skipped" /\ Len(row.answers) < Questions
    <3>1. CASE s.status = "none"
      BY <1>9, <3>1, OpenedRow
    <3>2. CASE s.status # "none"
      <4>1. PICK version : version = s.version + 1
        OBVIOUS
      <4>2. s \in SessionRow /\ version \in Nat
        BY <1>3, <1>8, <4>1 DEF SessionRow
      <4>3. row = [s EXCEPT !.status = "skipped", !.version = version]
        BY <1>9, <3>2, <4>1 DEF SkippedReady
      <4>4. row \in SessionRow /\ row.status = "skipped" /\ row.answers = s.answers
        BY <4>2, <4>3 DEF SessionRow
      <4>5. Len(s.answers) <= Questions /\ Len(s.answers) # Questions
        BY <1>8, <2>3 DEF PactIndInv, RowsFollow, SessionsAddUp
      <4>6. Len(s.answers) \in Nat /\ Questions \in Nat
        BY <4>2, PactConstants DEF SessionRow
      <4> QED
        BY <4>4, <4>5, <4>6
    <3> QED
      BY <3>1, <3>2
  <2>5. sessions[p][d].status \in {"none", "ready"}
    BY <1>8, <2>3
  <2>6. pacts' = [pacts EXCEPT ![p] = WithSkipped(pacts[p])]
    BY <1>10
  <2>7. PactIndInv' /\ PactEndsStay /\ pupil'.version > pupil.version
    BY <1>2, <1>10, <2>2, <2>4, <2>5, <2>6, PactSkipped
  <2>8. PactKept
    BY <2>7 DEF PactKept
  <2> QED
    BY <1>5, <2>8, PactEnvelopeTells
<1>11. \/ UNCHANGED <<pupil, pacts, sessions>> /\ pactClaims \subseteq pactClaims'
       \/ /\ Skippable(s)
          /\ sessions' = [sessions EXCEPT ![p][d] = row]
          /\ pacts' = [pacts EXCEPT ![p] = WithSkipped(@)]
          /\ pupil' = Bumped(pupil)
          /\ pactClaims \subseteq pactClaims'
  BY <1>1, <1>4, <1>6, <1>8, <1>9 DEF SubmitPactSkip
<1> QED
  BY <1>7, <1>10, <1>11

LEMMA PactStepKeeps ==
    ASSUME PactIndInv, [PactNext]_pactVars
    PROVE  PactIndInv' /\ [PactEndsStay /\ VersionTells]_pactVars
<1>1. CASE PostPacts
  BY <1>1, PostPactsKeeps
<1>2. CASE PostPactSession
  BY <1>2, PostPactSessionKeeps
<1>3. CASE PostPactAnswer
  BY <1>3, PostPactAnswerKeeps
<1>4. CASE PostPactSkip
  BY <1>4, PostPactSkipKeeps
<1>5. pupil \in PupilRow /\ pactClock \in 0 .. PactMaxDay /\ zone \in {0, 1}
  BY DEF PactIndInv, PactTyped
<1>6. CASE SetPactZone
  <2>1. zone' \in {0, 1}
    BY <1>5, <1>6 DEF SetPactZone
  <2>2. PactIndInv' /\ PactEndsStay
    BY <1>5, <1>6, <2>1, PactQuiet DEF SetPactZone
  <2>3. PactKept
    BY <1>6, <2>2 DEF PactKept, SetPactZone
  <2> QED
    BY <1>6, <2>3, NothingTells DEF SetPactZone
<1>7. CASE PactDay
  <2>1. pactClock' \in 0 .. PactMaxDay
    BY <1>5, <1>7, PactConstants DEF PactDay
  <2>2. PactIndInv' /\ PactEndsStay
    BY <1>5, <1>7, <2>1, PactQuiet DEF PactDay
  <2>3. PactKept
    BY <1>7, <2>2 DEF PactKept, PactDay
  <2> QED
    BY <1>7, <2>3, NothingTells DEF PactDay
<1>8. CASE UNCHANGED pactVars
  <2>1. PactIndInv'
    BY <1>5, <1>8, PactQuiet DEF pactVars
  <2> QED
    BY <1>8, <2>1
<1> QED
  BY <1>1, <1>2, <1>3, <1>4, <1>6, <1>7, <1>8 DEF PactNext

LEMMA PactStarts == PactInit => PactIndInv
<1> SUFFICES ASSUME PactInit PROVE PactIndInv
  OBVIOUS
<1>1. PICK theme \in [Pacts -> Themes] : pacts = [p \in Pacts |-> NoPact(theme[p])]
  BY DEF PactInit
<1>2. ASSUME NEW p \in Pacts
      PROVE  /\ pacts[p] \in PactRow /\ pacts[p].status = "none" /\ pacts[p].completed = 0
             /\ pacts[p].skipped = 0 /\ pacts[p].completeness = 0
  <2>1. PICK pact : pact = NewPact(theme[p], 0, 0)
    OBVIOUS
  <2>2. /\ pact \in PactRow /\ pact.completed = 0 /\ pact.skipped = 0 /\ pact.completeness = 0
    BY <2>1 DEF NewPact, PactRow
  <2>3. pacts[p] = [pact EXCEPT !.status = "none"]
    BY <1>1, <2>1 DEF NoPact
  <2> QED
    BY <2>2, <2>3 DEF PactRow
<1>3. << >> \in Seq(PactScores) /\ << >> \in Seq(Themes) /\ Len(<< >>) = 0
  OBVIOUS
<1>4. NoSession \in SessionRow /\ NoSession.status = "none" /\ NoSession.answers = << >>
  BY <1>3 DEF NoSession, SessionRow
<1>5. \A p \in Pacts, d \in PactDates : sessions[p][d] = NoSession
  BY DEF PactInit
<1>6. PactTyped
  <2>1. pupil \in PupilRow
    BY <1>3 DEF PactInit, PupilRow
  <2>2. pacts \in [Pacts -> PactRow]
    BY <1>1, <1>2
  <2>3. sessions \in [Pacts -> [PactDates -> SessionRow]]
    BY <1>4 DEF PactInit
  <2>4. pactClock \in 0 .. PactMaxDay /\ zone \in {0, 1}
    BY PactConstants DEF PactInit
  <2> QED
    BY <2>1, <2>2, <2>3, <2>4 DEF PactTyped
<1>7. OneActivePact
  BY <1>2 DEF OneActivePact
<1>8. RowsFollow
  BY <1>2, <1>3, <1>4, <1>5, PactConstants DEF RowsFollow
<1>9. EventsFollow
  BY DEF PactInit, EventsFollow
<1>10. \A p \in Pacts : PactDated(p, "answered") = {} /\ PactDated(p, "skipped") = {}
  BY <1>4, <1>5 DEF PactDated
<1>11. SessionsAddUp
  <2>1. Cardinality({}) = 0
    BY FS_EmptySet
  <2> QED
    BY <1>2, <1>3, <1>4, <1>5, <1>10, <2>1, PactConstants DEF SessionsAddUp
<1>12. CompletedIsPaid
  <2>1. {p \in Pacts : pacts[p].status = "completed"} = {}
    BY <1>2
  <2>2. pupil.bond = 0 /\ pupil.marks = << >> /\ ToSet(<< >>) = {}
    BY DEF PactInit, ToSet
  <2>3. Cardinality({}) = 0 /\ Clamp(5 * 0) = 0
    BY FS_EmptySet DEF Clamp
  <2>4. \A p \in Pacts : pacts[p].status # "completed" /\ ~(pacts[p].completed >= MinSessions)
    BY <1>2, PactConstants
  <2>5. {pacts[p].theme : p \in {}} = {}
    OBVIOUS
  <2> QED
    BY <1>3, <2>1, <2>2, <2>3, <2>4, <2>5 DEF CompletedIsPaid
<1>13. CompletenessIsMean
  <2>1. ASSUME NEW p \in Pacts
        PROVE  SumFunction(SessionScores(p)) = 0
    BY <1>10, SumOfNone DEF SessionScores
  <2> QED
    BY <1>2, <2>1 DEF CompletenessIsMean
<1> QED
  BY <1>6, <1>7, <1>8, <1>9, <1>11, <1>12, <1>13 DEF PactIndInv

LEMMA PactInvHolds == PactIndInv => PactInv
<1> SUFFICES ASSUME PactIndInv PROVE PactTypeOK
  BY DEF PactIndInv, PactInv
<1>1. pupil.bond \in 0 .. 100 /\ pupil.marks \in Seq(Themes)
  BY DEF PactIndInv, PactTyped, PupilRow
<1>2. pupil.marks \in SeqOf(Themes, Cardinality(Themes))
  <2>1. ToSet(pupil.marks) \subseteq Themes
    BY <1>1 DEF ToSet
  <2>2. Len(pupil.marks) <= Cardinality(Themes) /\ Cardinality(Themes) \in Nat
    BY <2>1, PactConstants, FS_Subset, FS_CardinalityType DEF PactIndInv, CompletedIsPaid
  <2>3. Len(pupil.marks) \in 0 .. Cardinality(Themes) /\ pupil.marks \in [1 .. Len(pupil.marks) -> Themes]
    BY <1>1, <2>2
  <2> QED
    BY <2>3 DEF SeqOf
<1>3. \A p \in Pacts :
         /\ pacts[p].status \in {"none", "active", "completed"}
         /\ pacts[p].completeness \in 0 .. 100
  BY DEF PactIndInv, PactTyped, PactRow
<1>4. \A p \in Pacts, d \in PactDates :
         /\ sessions[p][d].status \in {"none", "ready", "answered", "skipped"}
         /\ Len(sessions[p][d].answers) <= Questions
         /\ sessions[p][d].status # "none" => d - pacts[p].start \in 0 .. PactWeek - 1
  BY DEF PactIndInv, PactTyped, SessionRow, RowsFollow
<1> QED
  BY <1>1, <1>2, <1>3, <1>4 DEF PactIndInv, PactTyped, PactTypeOK

LEMMA PactInvariant == PactSpec => []PactIndInv
<1>1. PactIndInv /\ [PactNext]_pactVars => PactIndInv'
  BY PactStepKeeps
<1> QED
  BY <1>1, PactStarts, PTL DEF PactSpec

\* PactInv: at most one pact is active, every counter of a pact is that of its
\* sessions, a pact is completed exactly when it is enough of them and is then
\* paid for once, and its completeness stays by the mean of its scores, for any
\* pacts, client ids, devices, themes, scores, questions, days and lag.
THEOREM PactsAgree == PactSpec => []PactInv
  BY PactInvariant, PactInvHolds, PTL

\* PactSteps: an ended session or pact is not written again, and a reply shows
\* its pact as it is at the version it says.
THEOREM PactEndsHold == PactSpec => PactSteps
<1>1. PactIndInv /\ [PactNext]_pactVars => [PactEndsStay /\ VersionTells]_pactVars
  BY PactStepKeeps
<1> QED
  BY <1>1, PactInvariant, PTL DEF PactSpec, PactSteps

-----------------------------------------------------------------------------
(* Pages: the inductive invariant. *)

ListedRow == [kind: RowKinds \cup {"none"}, at: 0 .. MaxTime,
              status: {"none", "open", "live", "gone"}, to: Ids \cup {0}, readAt: 0 .. MaxTime]

\* The rows that somebody has begun to write.
Written == {r \in Ids : rows[r].kind # "none"}

InGot(r) == \E i \in 1 .. Len(pager.got) : pager.got[i] = r

\* A turn is two messages, and a message is not taken back; what is begun has
\* its time by now.
RowsTyped ==
    /\ now \in 1 .. MaxTime
    /\ rows \in [Ids -> ListedRow]
    /\ \A r \in Ids :
          /\ rows[r].at <= now
          /\ rows[r].kind = "none" => rows[r] = NoListed
          /\ rows[r].kind # "none" => rows[r].status # "none"
          /\ rows[r].kind = "message" => rows[r].status # "gone"
          /\ rows[r].to # 0 => rows[r].kind = "message" /\ rows[rows[r].to].kind = "message"

PagerTyped ==
    /\ pager.filter \in Filters \cup {"none"} /\ pager.got \in Seq(Ids) /\ pager.due \subseteq Ids
    /\ pager.filter = "none" => pager.cursor = <<>>
    /\ \A i \in 1 .. Len(pager.got) : pager.got[i] \in Written

\* What was there at the first page is older than the snapshot, and has been
\* shown or is below the cursor, if it is there still; and the cursor is that of
\* the last row that was shown.
PagesGoOn ==
    /\ \A i, j \in 1 .. Len(pager.got) : i < j => Above(pager.got[i], pager.got[j])
    /\ pager.cursor # <<>> =>
          /\ Len(pager.got) > 0
          /\ pager.cursor = <<rows[pager.got[Len(pager.got)]].at, pager.got[Len(pager.got)]>>
    /\ \A r \in pager.due :
          /\ rows[r].status \in {"live", "gone"} /\ InSnapshot(r, pager.snapshot)
          /\ pager.filter # "none" /\ r \in Listed(pager.filter) =>
                \/ InGot(r)
                \/ pager.cursor # <<>> /\ Below(r, pager.cursor)

ReadRows == {r \in Ids : rows[r].readAt > 0}

ReadsCount ==
    /\ readKeys \in [ReadIds -> Ids \cup {0}]
    /\ bumps = Cardinality(ReadRows)
    /\ \A c \in ReadIds : readKeys[c] # 0 => rows[readKeys[c]].readAt > 0

PagesIndInv == RowsTyped /\ PagerTyped /\ PagesGoOn /\ ReadsCount

-----------------------------------------------------------------------------
(* Pages: the order of a list, and a page of it. *)

LEMMA PagesConstants ==
    /\ Ids \subseteq Nat /\ 0 \notin Ids /\ IsFiniteSet(Ids) /\ 0 \notin ReadIds
    /\ PageLimit \in Nat \ {0} /\ MaxTime \in Nat \ {0}
  BY PagesAssumption DEF PagesAssumption

\* Rows that have times.
Timed == \A r \in Ids : rows[r].at \in Nat

LEMMA RowsAreTimed ==
    ASSUME RowsTyped
    PROVE  Timed /\ now \in Nat
  BY PagesConstants DEF RowsTyped, ListedRow, Timed

LEMMA AboveOrders ==
    ASSUME Timed
    PROVE  /\ \A r \in Ids : ~Above(r, r)
           /\ \A r, s \in Ids : r # s => Above(r, s) \/ Above(s, r)
           /\ \A r, s, t \in Ids : Above(r, s) /\ Above(s, t) => Above(r, t)
<1>1. \A r \in Ids : r \in Nat /\ rows[r].at \in Nat
  BY PagesConstants DEF Timed
<1>2. \A r \in Ids : ~Above(r, r)
  BY <1>1 DEF Above
<1>3. \A r, s \in Ids : r # s => Above(r, s) \/ Above(s, r)
  BY <1>1 DEF Above
<1>4. \A r, s, t \in Ids : Above(r, s) /\ Above(s, t) => Above(r, t)
  BY <1>1 DEF Above
<1> QED
  BY <1>2, <1>3, <1>4

LEMMA Topmost ==
    ASSUME Timed, NEW S \in SUBSET Ids, S # {}
    PROVE  \E t \in S : \A r \in S : r # t => Above(t, r)
<1> DEFINE T == {s \in SUBSET Ids : s # {} => \E t \in s : \A r \in s : r # t => Above(t, r)}
<1>1. {} \in T
  OBVIOUS
<1>2. ASSUME NEW s \in SUBSET Ids, s # {}, \A x \in s : s \ {x} \in T
      PROVE  s \in T
  <2>1. PICK x : x \in s
    BY <1>2
  <2>2. s \ {x} \in T
    BY <1>2, <2>1
  <2>3. CASE s \ {x} = {}
    BY <2>1, <2>3
  <2>4. CASE s \ {x} # {}
    <3>1. PICK t \in s \ {x} : \A r \in s \ {x} : r # t => Above(t, r)
      BY <2>2, <2>4
    <3>2. Above(x, t) \/ Above(t, x)
      BY <2>1, <3>1, AboveOrders
    <3>3. CASE Above(t, x)
      BY <3>1, <3>3
    <3>4. CASE Above(x, t)
      <4>1. \A r \in s : r # x => Above(x, r)
        BY <2>1, <3>1, <3>4, AboveOrders
      <4> QED
        BY <2>1, <4>1
    <3> QED
      BY <3>2, <3>3, <3>4
  <2> QED
    BY <2>3, <2>4
<1>3. SUBSET Ids \subseteq T
  <2> HIDE DEF T
  <2> QED
    BY <1>1, <1>2, PagesConstants, SubsetInduction
<1> QED
  BY <1>3

\* The first n of the rows of S.
FirstRows(page, n, S) ==
    /\ page \in [1 .. n -> S]
    /\ \A i, j \in 1 .. n : i < j => Above(page[i], page[j])
    /\ \A r \in S : (\E i \in 1 .. n : page[i] = r) \/ \A i \in 1 .. n : Above(page[i], r)

LEMMA FirstRowsExist ==
    ASSUME Timed, NEW S \in SUBSET Ids, NEW n \in Nat, n <= Cardinality(S)
    PROVE  \E page : FirstRows(page, n, S)
<1> DEFINE T == {m \in Nat : m <= Cardinality(S) => \E page : FirstRows(page, m, S)}
<1>1. IsFiniteSet(S) /\ Cardinality(S) \in Nat
  BY PagesConstants, FS_Subset, FS_CardinalityType
<1>2. 0 \in T
  <2>1. FirstRows(<< >>, 0, S)
    BY DEF FirstRows
  <2> QED
    BY <2>1
<1>3. ASSUME NEW m \in Nat, m \in T
      PROVE  m + 1 \in T
  <2>1. SUFFICES ASSUME m + 1 <= Cardinality(S)
                 PROVE  \E page : FirstRows(page, m + 1, S)
    OBVIOUS
  <2>2. m <= Cardinality(S)
    BY <1>1, <2>1
  <2>3. PICK page : FirstRows(page, m, S)
    BY <1>3, <2>2
  <2> DEFINE rest == {r \in S : \A i \in 1 .. m : page[i] # r}
  <2>4. rest # {}
    <3>1. SUFFICES ASSUME rest = {} PROVE FALSE
      OBVIOUS
    <3>2. page \in Surjection(1 .. m, S)
      BY <2>3, <3>1 DEF FirstRows, Surjection
    <3>3. IsFiniteSet(1 .. m) /\ Cardinality(1 .. m) = m
      <4>1. 1 \in Int /\ m \in Int
        OBVIOUS
      <4> QED
        BY <4>1, FS_Interval
    <3>4. Cardinality(S) <= Cardinality(1 .. m)
      BY <3>2, <3>3, FS_Surjection
    <3> QED
      BY <1>1, <2>1, <3>3, <3>4
  <2>5. PICK t \in rest : \A r \in rest : r # t => Above(t, r)
    <3>1. rest \in SUBSET Ids
      OBVIOUS
    <3> HIDE DEF rest
    <3> QED
      BY <2>4, <3>1, Topmost
  <2> DEFINE next == [i \in 1 .. m + 1 |-> IF i = m + 1 THEN t ELSE page[i]]
  <2>6. next \in [1 .. m + 1 -> S]
    BY <2>3 DEF FirstRows
  <2>7. ASSUME NEW i \in 1 .. m + 1, NEW j \in 1 .. m + 1, i < j
        PROVE  Above(next[i], next[j])
    <3>1. i \in 1 .. m /\ next[i] = page[i]
      BY <2>7
    <3>2. CASE j = m + 1
      <4>1. next[j] = t /\ t \in S /\ \A k \in 1 .. m : page[k] # t
        BY <3>2
      <4>2. Above(page[i], t)
        BY <2>3, <3>1, <4>1 DEF FirstRows
      <4> QED
        BY <3>1, <4>1, <4>2
    <3>3. CASE j # m + 1
      <4>1. j \in 1 .. m /\ next[j] = page[j]
        BY <3>3
      <4> QED
        BY <2>3, <2>7, <3>1, <4>1 DEF FirstRows
    <3> QED
      BY <3>2, <3>3
  <2>8. ASSUME NEW r \in S
        PROVE  (\E i \in 1 .. m + 1 : next[i] = r) \/ \A i \in 1 .. m + 1 : Above(next[i], r)
    <3>1. CASE \E i \in 1 .. m : page[i] = r
      <4>1. PICK i \in 1 .. m : page[i] = r
        BY <3>1
      <4>2. i \in 1 .. m + 1 /\ next[i] = page[i]
        BY <4>1
      <4> QED
        BY <4>1, <4>2
    <3>2. CASE r = t
      <4>1. m + 1 \in 1 .. m + 1 /\ next[m + 1] = t
        OBVIOUS
      <4> QED
        BY <3>2, <4>1
    <3>3. CASE r # t /\ ~\E i \in 1 .. m : page[i] = r
      <4>1. r \in rest /\ Above(t, r)
        BY <2>5, <3>3
      <4>2. \A i \in 1 .. m : Above(page[i], r)
        BY <2>3, <3>3 DEF FirstRows
      <4>3. ASSUME NEW i \in 1 .. m + 1
            PROVE  Above(next[i], r)
        <5>1. CASE i = m + 1
          BY <4>1, <5>1
        <5>2. CASE i # m + 1
          <6>1. i \in 1 .. m /\ next[i] = page[i]
            BY <5>2
          <6> QED
            BY <4>2, <6>1
        <5> QED
          BY <5>1, <5>2
      <4> QED
        BY <4>3
    <3> QED
      BY <3>1, <3>2, <3>3
  <2> HIDE DEF next
  <2>9. FirstRows(next, m + 1, S)
    BY <2>6, <2>7, <2>8 DEF FirstRows
  <2> QED
    BY <2>9
<1>4. Nat \subseteq T
  <2> HIDE DEF T
  <2> QED
    BY <1>2, <1>3, NumberInduction
<1> QED
  BY <1>4

PageLength(S) == IF Cardinality(S) > PageLimit THEN PageLimit ELSE Cardinality(S)

LEMMA PageIsFirst ==
    ASSUME Timed, NEW S \in SUBSET Ids
    PROVE  LET page == PageRows(S)
               n == PageLength(S)
           IN /\ n \in Nat /\ FirstRows(page, n, S) /\ Len(page) = n /\ page \in Seq(Ids)
              /\ Cardinality(S) > PageLimit => n > 0
              /\ ~(Cardinality(S) > PageLimit) => \A r \in S : \E i \in 1 .. n : page[i] = r
<1> DEFINE n == PageLength(S)
           Right(page) ==
              /\ Len(page) = IF Cardinality(S) > PageLimit THEN PageLimit ELSE Cardinality(S)
              /\ \A i, j \in 1 .. Len(page) : i < j => Above(page[i], page[j])
              /\ \A r \in S : (\E i \in 1 .. Len(page) : page[i] = r)
                              \/ \A i \in 1 .. Len(page) : Above(page[i], r)
           Pages == UNION {[1 .. m -> S] : m \in 0 .. PageLimit}
<1>11. IsFiniteSet(S)
  BY PagesConstants, FS_Subset
<1>12. Cardinality(S) \in Nat /\ PageLimit \in Nat \ {0}
  BY <1>11, PagesConstants, FS_CardinalityType
<1>1. /\ IsFiniteSet(S) /\ Cardinality(S) \in Nat /\ PageLimit \in Nat \ {0}
      /\ n \in 0 .. PageLimit /\ n \in Nat /\ n <= Cardinality(S)
      /\ Cardinality(S) > PageLimit => n > 0
  BY <1>11, <1>12 DEF PageLength
<1>2. PICK page : FirstRows(page, n, S)
  BY <1>1, FirstRowsExist
<1>3. \A m \in Nat : \A p \in [1 .. m -> S] : Len(p) = m /\ p \in Seq(Ids)
  OBVIOUS
<1>4. page \in Pages /\ Right(page)
  <2>1. page \in Pages
    BY <1>1, <1>2 DEF FirstRows
  <2>2. Len(page) = n
    BY <1>1, <1>2, <1>3 DEF FirstRows
  <2> HIDE DEF Pages
  <2> QED
    BY <1>2, <2>1, <2>2 DEF FirstRows, PageLength
<1>5. PICK p : p = PageRows(S)
  OBVIOUS
<1>6. p \in Pages /\ Right(p)
  <2>1. p = CHOOSE q \in Pages : Right(q)
    BY <1>5 DEF PageRows
  <2> HIDE DEF Pages, Right
  <2> QED
    BY <1>4, <2>1
<1>7. PICK m \in 0 .. PageLimit : p \in [1 .. m -> S]
  BY <1>6
<1>8. Len(p) = m /\ m = n /\ p \in Seq(Ids)
  BY <1>1, <1>3, <1>6, <1>7 DEF PageLength
<1>9. FirstRows(p, n, S)
  BY <1>6, <1>7, <1>8 DEF FirstRows
<1>10. ASSUME ~(Cardinality(S) > PageLimit)
       PROVE  \A r \in S : \E i \in 1 .. n : p[i] = r
  <2>1. n = Cardinality(S)
    BY <1>10 DEF PageLength
  <2>2. IsFiniteSet(1 .. n) /\ Cardinality(1 .. n) = n
    <3>1. 1 \in Int /\ n \in Int
      BY <1>1
    <3> QED
      BY <1>1, <3>1, FS_Interval
  <2>3. p \in Injection(1 .. n, S)
    <3>1. ASSUME NEW i \in 1 .. n, NEW j \in 1 .. n, p[i] = p[j]
          PROVE  i = j
      <4>1. p[i] \in Ids /\ ~Above(p[i], p[i])
        BY <1>9, AboveOrders DEF FirstRows
      <4>2. ~(i < j) /\ ~(j < i)
        BY <1>9, <3>1, <4>1 DEF FirstRows
      <4> QED
        BY <1>1, <4>2
    <3> QED
      BY <1>9, <3>1 DEF FirstRows, Injection, IsInjective
  <2>4. p \in Surjection(1 .. n, S)
    BY <1>1, <2>1, <2>2, <2>3, FS_Injection
  <2> QED
    BY <2>4 DEF Surjection
<1> HIDE DEF n
<1> QED
  BY <1>1, <1>5, <1>8, <1>9, <1>10 DEF n

-----------------------------------------------------------------------------
(* Pages: a page is turned. *)

LEMMA BelowIsUnder ==
    ASSUME NEW last \in Ids, NEW r \in Ids, NEW cursor, cursor = <<rows[last].at, last>>
    PROVE  cursor # <<>> /\ (Below(r, cursor) <=> Above(last, r))
  BY DEF Below, Above

\* What a list is of: the live rows of a kind, the unread ones if asked for.
KindListed(filter) ==
    IF filter = "messages" THEN "message"
    ELSE IF filter = "memories" THEN "memory"
    ELSE IF filter = "friends" THEN "friend" ELSE "postcard"

LEMMA ListedAre ==
    ASSUME NEW filter \in Filters
    PROVE  Listed(filter) = {r \in Ids : /\ rows[r].kind = KindListed(filter)
                                         /\ rows[r].status = "live"
                                         /\ filter = "unread" => rows[r].readAt = 0}
<1> DEFINE L == {r \in Ids : /\ rows[r].kind = KindListed(filter)
                             /\ rows[r].status = "live"
                             /\ filter = "unread" => rows[r].readAt = 0}
<1>1. CASE filter = "messages"
  <2>1. Listed(filter) = Live("message")
    BY <1>1 DEF Listed, ListedMessages
  <2> QED
    BY <1>1, <2>1 DEF Live, KindListed
<1>2. CASE filter = "memories"
  <2>1. Listed(filter) = Live("memory")
    BY <1>2 DEF Listed, ListedMemories
  <2> QED
    BY <1>2, <2>1 DEF Live, KindListed
<1>3. CASE filter = "friends"
  <2>1. Listed(filter) = Live("friend")
    BY <1>3 DEF Listed, ListedFriends
  <2> QED
    BY <1>3, <2>1 DEF Live, KindListed
<1>4. CASE filter = "postcards"
  <2>1. Listed(filter) = Live("postcard")
    BY <1>4 DEF Listed, ListedPostcards, Live
  <2> QED
    BY <1>4, <2>1 DEF Live, KindListed
<1>5. CASE filter = "unread"
  <2>1. Listed(filter) = {r \in Live("postcard") : rows[r].readAt = 0}
    BY <1>5 DEF Listed, ListedPostcards
  <2> QED
    BY <1>5, <2>1 DEF Live, KindListed
<1> QED
  BY <1>1, <1>2, <1>3, <1>4, <1>5 DEF Filters

LEMMA ListedPrimed ==
    ASSUME NEW filter \in Filters
    PROVE  Listed(filter)' = {r \in Ids : /\ rows'[r].kind = KindListed(filter)
                                          /\ rows'[r].status = "live"
                                          /\ filter = "unread" => rows'[r].readAt = 0}
<1>1. (Listed(filter) = {r \in Ids : /\ rows[r].kind = KindListed(filter)
                                     /\ rows[r].status = "live"
                                     /\ filter = "unread" => rows[r].readAt = 0})'
  BY ListedAre, PTL
<1> QED
  BY <1>1 DEF KindListed

LEMMA ListedAreWritten ==
    ASSUME NEW filter \in Filters
    PROVE  /\ Listed(filter) \subseteq Written
           /\ \A r \in Listed(filter) : rows[r].status = "live"
<1>1. KindListed(filter) # "none"
  BY DEF KindListed
<1> QED
  BY <1>1, ListedAre DEF Written

LEMMA Joined ==
    ASSUME NEW got \in Seq(Ids), NEW page \in Seq(Ids), NEW m, m = Len(got), NEW n, n = Len(page)
    PROVE  /\ m \in Nat /\ n \in Nat /\ got \o page \in Seq(Ids) /\ Len(got \o page) = m + n
           /\ \A i \in 1 .. m : (got \o page)[i] = got[i]
           /\ \A i \in 1 .. n : (got \o page)[m + i] = page[i]
  OBVIOUS

LEMMA Parted ==
    ASSUME NEW m \in Nat, NEW n \in Nat
    PROVE  \A k \in 1 .. m + n : k \in 1 .. m \/ (k - m \in 1 .. n /\ k = m + (k - m) /\ k > m)
  OBVIOUS

\* Of a list that goes on below the rows shown so far, or has none: what it was
\* to show is shown or is below its new cursor.
LEMMA PageTurned ==
    ASSUME PagesIndInv, NEW filter \in Filters, NEW snapshot, NEW cursor, NEW got \in Seq(Ids),
           NEW due \in SUBSET Ids, UNCHANGED rows,
           pager' = Turned(filter, snapshot, cursor, got, due),
           \A i \in 1 .. Len(got) : got[i] \in Written,
           \A i, j \in 1 .. Len(got) : i < j => Above(got[i], got[j]),
           \/ cursor = <<>> /\ Len(got) = 0
           \/ Len(got) > 0 /\ cursor = <<rows[got[Len(got)]].at, got[Len(got)]>>,
           \A r \in due : /\ rows[r].status \in {"live", "gone"} /\ InSnapshot(r, snapshot)
                          /\ r \in Listed(filter) =>
                                (\E i \in 1 .. Len(got) : got[i] = r) \/ Below(r, cursor)
    PROVE  PagerTyped' /\ PagesGoOn'
<1>1. PICK found : found = Fetched(filter, snapshot, cursor)
  OBVIOUS
<1>2. PICK page, n : page = PageRows(found) /\ n = PageLength(found)
  OBVIOUS
<1>3. PICK m, all : m = Len(got) /\ all = got \o page
  OBVIOUS
<1>4. Timed
  BY RowsAreTimed DEF PagesIndInv
<1>5. /\ Listed(filter) \subseteq Written
      /\ \A r \in Listed(filter) : rows[r].status = "live"
  BY ListedAreWritten
<1>6. /\ found \in SUBSET Ids /\ found \subseteq Written
      /\ \A r : r \in found <=> r \in Listed(filter) /\ InSnapshot(r, snapshot) /\ Below(r, cursor)
  BY <1>1, <1>5 DEF Fetched, Written
<1>7. /\ n \in Nat /\ FirstRows(page, n, found) /\ Len(page) = n /\ page \in Seq(Ids)
      /\ Cardinality(found) > PageLimit => n > 0
      /\ ~(Cardinality(found) > PageLimit) => \A r \in found : \E i \in 1 .. n : page[i] = r
  BY <1>2, <1>4, <1>6, PageIsFirst
<1>8. /\ m \in Nat /\ all \in Seq(Ids) /\ Len(all) = m + n
      /\ \A i \in 1 .. m : all[i] = got[i]
      /\ \A i \in 1 .. n : all[m + i] = page[i]
  <2>1. page \in Seq(Ids) /\ n = Len(page) /\ m = Len(got)
    BY <1>3, <1>7
  <2>2. /\ m \in Nat /\ n \in Nat /\ got \o page \in Seq(Ids) /\ Len(got \o page) = m + n
        /\ \A i \in 1 .. m : (got \o page)[i] = got[i]
        /\ \A i \in 1 .. n : (got \o page)[m + i] = page[i]
    BY <2>1, Joined
  <2> QED
    BY <1>3, <2>2
<1>9. \A k \in 1 .. Len(all) : k \in 1 .. m \/ (k - m \in 1 .. n /\ k = m + (k - m) /\ k > m)
  <2>1. m \in Nat /\ n \in Nat /\ Len(all) = m + n
    BY <1>7, <1>8
  <2> QED
    BY <2>1, Parted
<1>10. \A i \in 1 .. n : page[i] \in found
  BY <1>7 DEF FirstRows
<1>11. \A i, j \in 1 .. Len(all) : i < j => Above(all[i], all[j])
  <2>1. ASSUME NEW i \in 1 .. m, NEW k \in 1 .. n
        PROVE  Above(got[i], page[k])
    <3>1. m > 0 /\ cursor = <<rows[got[m]].at, got[m]>> /\ m \in 1 .. m
      BY <1>3, <1>8
    <3>6. got[m] \in Ids /\ got[i] \in Ids
      BY <1>3, <3>1
    <3>7. page[k] \in found
      BY <1>10
    <3>2. got[m] \in Ids /\ got[i] \in Ids /\ page[k] \in Ids /\ Below(page[k], cursor)
      BY <1>6, <3>6, <3>7
    <3>3. Above(got[m], page[k])
      BY <3>1, <3>2, BelowIsUnder
    <3>4. CASE i = m
      BY <3>3, <3>4
    <3>5. CASE i < m
      <4>1. Above(got[i], got[m])
        BY <1>3, <3>1, <3>5
      <4> QED
        BY <1>4, <3>2, <3>3, <4>1, AboveOrders
    <3> QED
      BY <1>8, <3>4, <3>5
  <2>2. ASSUME NEW i \in 1 .. Len(all), NEW j \in 1 .. Len(all), i < j
        PROVE  Above(all[i], all[j])
    <3>1. CASE i \in 1 .. m /\ j \in 1 .. m
      BY <1>3, <1>8, <2>2, <3>1
    <3>2. CASE i \in 1 .. m /\ j \notin 1 .. m
      <4>1. j - m \in 1 .. n /\ j = m + (j - m)
        BY <1>9, <3>2
      <4>2. all[i] = got[i] /\ all[j] = page[j - m]
        BY <1>8, <3>2, <4>1
      <4> QED
        BY <2>1, <3>2, <4>1, <4>2
    <3>3. CASE i \notin 1 .. m
      <4>3. /\ i - m \in 1 .. n /\ i = m + (i - m) /\ i > m
            /\ m \in Nat /\ i \in Nat /\ j \in Nat
        BY <1>8, <1>9, <3>3
      <4>4. j > m /\ i - m < j - m
        BY <2>2, <4>3
      <4>5. j - m \in 1 .. n /\ j = m + (j - m)
        <5>1. j \notin 1 .. m
          BY <4>3, <4>4
        <5> QED
          BY <1>9, <5>1
      <4>1. /\ i - m \in 1 .. n /\ i = m + (i - m) /\ j - m \in 1 .. n /\ j = m + (j - m)
            /\ i - m < j - m
        BY <4>3, <4>4, <4>5
      <4>2. all[i] = page[i - m] /\ all[j] = page[j - m]
        BY <1>8, <4>1
      <4> QED
        BY <1>7, <4>1, <4>2 DEF FirstRows
    <3> QED
      BY <3>1, <3>2, <3>3
  <2> QED
    BY <2>2
<1>12. \A i \in 1 .. Len(all) : all[i] \in Written
  <2>1. ASSUME NEW i \in 1 .. Len(all)
        PROVE  all[i] \in Written
    <3>1. CASE i \in 1 .. m
      BY <1>3, <1>8, <3>1
    <3>2. CASE i \notin 1 .. m
      <4>1. all[i] = page[i - m] /\ i - m \in 1 .. n
        BY <1>8, <1>9, <3>2
      <4> QED
        BY <1>6, <1>10, <4>1
    <3> QED
      BY <3>1, <3>2
  <2> QED
    BY <2>1
<1>13. PICK next : next = PageCursor(found, page)
  OBVIOUS
<1>14. next # <<>> => /\ Cardinality(found) > PageLimit /\ n > 0
                      /\ next = <<rows[page[n]].at, page[n]>>
  BY <1>7, <1>13 DEF PageCursor
<1>15. next = <<>> => ~(Cardinality(found) > PageLimit)
  BY <1>13 DEF PageCursor
<1>16. pager' = [filter |-> filter, snapshot |-> snapshot, cursor |-> next, got |-> all, due |-> due]
  BY <1>1, <1>2, <1>3, <1>13 DEF Turned
<1>17. /\ pager'.filter = filter /\ pager'.snapshot = snapshot /\ pager'.cursor = next
       /\ pager'.got = all /\ pager'.due = due
  BY <1>16
<1>18. filter # "none" /\ filter \in Filters \cup {"none"}
  BY DEF Filters
<1>19. PagerTyped'
  BY <1>8, <1>12, <1>17, <1>18 DEF PagerTyped, Written
<1>20. next # <<>> => Len(all) > 0 /\ next = <<rows[all[Len(all)]].at, all[Len(all)]>>
  <2>1. ASSUME next # <<>>
        PROVE  Len(all) > 0 /\ all[Len(all)] = page[n]
    <3>1. n \in 1 .. n /\ Len(all) = m + n /\ m + n > 0
      BY <1>7, <1>8, <1>14, <2>1
    <3> QED
      BY <1>8, <3>1
  <2> QED
    BY <1>14, <2>1
<1>21. ASSUME NEW r \in due, r \in Listed(filter)
       PROVE  \/ \E i \in 1 .. Len(all) : all[i] = r
              \/ next # <<>> /\ Below(r, next)
  <2>1. CASE \E i \in 1 .. Len(got) : got[i] = r
    <3>1. PICK i \in 1 .. m : got[i] = r
      BY <1>3, <2>1
    <3>2. i \in 1 .. Len(all) /\ all[i] = r
      BY <1>7, <1>8, <3>1
    <3> QED
      BY <3>2
  <2>2. CASE Below(r, cursor)
    <3>1. r \in found
      BY <1>6, <1>21, <2>2
    <3>2. CASE \E i \in 1 .. n : page[i] = r
      <4>1. PICK i \in 1 .. n : page[i] = r
        BY <3>2
      <4>2. m + i \in 1 .. Len(all) /\ all[m + i] = r
        BY <1>7, <1>8, <4>1
      <4> QED
        BY <4>2
    <3>3. CASE ~\E i \in 1 .. n : page[i] = r
      <4>1. next # <<>>
        BY <1>7, <1>15, <3>1, <3>3
      <4>2. n \in 1 .. n /\ next = <<rows[page[n]].at, page[n]>>
        BY <1>7, <1>14, <4>1
      <4>3. Above(page[n], r) /\ page[n] \in Ids /\ r \in Ids
        BY <1>6, <1>7, <1>10, <3>1, <3>3, <4>2 DEF FirstRows
      <4> QED
        BY <4>1, <4>2, <4>3, BelowIsUnder
    <3> QED
      BY <3>2, <3>3
  <2> QED
    BY <1>21, <2>1, <2>2
<1>22. /\ Listed(filter)' = Listed(filter)
       /\ \A r, s : Above(r, s)' = Above(r, s)
  BY DEF Listed, Live, ListedMessages, ListedMemories, ListedFriends, ListedPostcards, Above
<1>23. PagesGoOn'
  <2>1. \A i, j \in 1 .. Len(all) : i < j => Above(all[i], all[j])'
    BY <1>11 DEF Above
  <2>2. \A i, j \in 1 .. Len(pager'.got) : i < j => Above(pager.got[i], pager.got[j])'
    BY <1>11, <1>17 DEF Above
  <2>3. pager'.cursor # <<>> =>
          /\ Len(pager'.got) > 0
          /\ pager'.cursor = <<rows'[pager'.got[Len(pager'.got)]].at, pager'.got[Len(pager'.got)]>>
    BY <1>17, <1>20
  <2>4. ASSUME NEW r \in pager'.due
        PROVE  /\ rows'[r].status \in {"live", "gone"} /\ InSnapshot(r, pager.snapshot)'
               /\ pager'.filter # "none" /\ r \in Listed(pager.filter)' =>
                     InGot(r)' \/ (pager'.cursor # <<>> /\ Below(r, pager.cursor)')
    <3>1. r \in due /\ rows'[r].status \in {"live", "gone"} /\ InSnapshot(r, pager.snapshot)'
      BY <1>17, <2>4 DEF InSnapshot
    <3>2. ASSUME r \in Listed(pager.filter)'
          PROVE  InGot(r)' \/ (pager'.cursor # <<>> /\ Below(r, pager.cursor)')
      <4>1. r \in Listed(filter)
        BY <1>17, <3>2 DEF Listed, Live, ListedMessages, ListedMemories, ListedFriends, ListedPostcards
      <4>2. (\E i \in 1 .. Len(all) : all[i] = r) \/ (next # <<>> /\ Below(r, next))
        BY <1>21, <3>1, <4>1
      <4> QED
        BY <1>17, <4>2 DEF InGot, Below
    <3> QED
      BY <3>1, <3>2
  <2> QED
    BY <2>2, <2>3, <2>4 DEF PagesGoOn
<1> QED
  BY <1>19, <1>23

-----------------------------------------------------------------------------
(* Pages: the rows change under a list. *)

\* A row that has been shown, or was to be, keeps its place; what leaves a list
\* is not listed again.
RowsGoOn ==
    /\ RowsTyped'
    /\ \A r \in Written : rows'[r].at = rows[r].at /\ rows'[r].kind = rows[r].kind
    /\ \A r \in Ids : rows[r].status \in {"live", "gone"} =>
          /\ rows'[r].status \in {"live", "gone"}
          /\ rows'[r].status = "live" => rows[r].status = "live"
          /\ rows'[r].readAt = 0 => rows[r].readAt = 0

LEMMA ListKept ==
    ASSUME PagesIndInv, RowsGoOn, pager' = pager
    PROVE  PagerTyped' /\ PagesGoOn'
<1>1. /\ RowsTyped /\ PagerTyped /\ PagesGoOn
      /\ pager.filter \in Filters \cup {"none"} /\ pager.got \in Seq(Ids) /\ pager.due \subseteq Ids
  BY DEF PagesIndInv, PagerTyped
<1>2. \A r \in Written : rows'[r].at = rows[r].at /\ rows'[r].kind = rows[r].kind /\ r \in Ids
  BY DEF RowsGoOn, Written
<1>3. PagerTyped'
  <2>1. \A r \in Written : r \in Written'
    BY <1>2 DEF Written
  <2> QED
    BY <1>1, <2>1 DEF PagerTyped
<1>4. \A r, s \in Written : Above(r, s) => Above(r, s)'
  BY <1>2 DEF Above
<1>5. \A r \in Ids : rows[r].status \in {"live", "gone"} => r \in Written
  <2>1. NoListed.status = "none"
    BY DEF NoListed
  <2> QED
    BY <1>1, <2>1 DEF RowsTyped, Written
<1>6. ASSUME NEW r \in pager.due
      PROVE  /\ r \in Written /\ rows'[r].status \in {"live", "gone"} /\ InSnapshot(r, pager.snapshot)'
             /\ pager.filter # "none" /\ r \in Listed(pager.filter)' => r \in Listed(pager.filter)
  <2>1. r \in Ids /\ rows[r].status \in {"live", "gone"} /\ InSnapshot(r, pager.snapshot)
    BY <1>1, <1>6 DEF PagesGoOn
  <2>2. r \in Written /\ rows'[r].status \in {"live", "gone"}
    BY <1>5, <2>1 DEF RowsGoOn
  <2>3. InSnapshot(r, pager.snapshot)'
    BY <1>2, <2>1, <2>2 DEF InSnapshot
  <2>4. ASSUME pager.filter # "none", r \in Listed(pager.filter)'
        PROVE  r \in Listed(pager.filter)
    <3>1. PICK filter : filter = pager.filter
      OBVIOUS
    <3>2. filter \in Filters
      BY <1>1, <2>4, <3>1
    <3>3. Listed(filter)' = {x \in Ids : /\ rows'[x].kind = KindListed(filter)
                                         /\ rows'[x].status = "live"
                                         /\ filter = "unread" => rows'[x].readAt = 0}
      BY <3>2, ListedPrimed
    <3>4. Listed(pager.filter)' = Listed(filter)'
      BY <3>1 DEF Listed, Live, ListedMessages, ListedMemories, ListedFriends, ListedPostcards
    <3>5. /\ rows[r].kind = KindListed(filter) /\ rows[r].status = "live"
          /\ filter = "unread" => rows[r].readAt = 0
      BY <1>2, <2>1, <2>2, <2>4, <3>3, <3>4 DEF RowsGoOn
    <3>6. r \in Listed(filter)
      BY <2>1, <3>2, <3>5, ListedAre
    <3> QED
      BY <3>1, <3>6
  <2> QED
    BY <2>2, <2>3, <2>4
<1>7. PagesGoOn'
  <2>1. \A i \in 1 .. Len(pager.got) : pager.got[i] \in Written
    BY <1>1 DEF PagerTyped
  <2>2. \A i, j \in 1 .. Len(pager'.got) : i < j => Above(pager.got[i], pager.got[j])'
    <3>1. ASSUME NEW i \in 1 .. Len(pager.got), NEW j \in 1 .. Len(pager.got), i < j
          PROVE  Above(pager.got[i], pager.got[j])'
      <4>1. PICK r, s : r = pager.got[i] /\ s = pager.got[j]
        OBVIOUS
      <4>2. r \in Written /\ s \in Written /\ Above(r, s)
        BY <1>1, <2>1, <3>1, <4>1 DEF PagesGoOn
      <4>3. Above(r, s)'
        BY <1>4, <4>2
      <4> QED
        BY <4>1, <4>3 DEF Above
    <3> QED
      BY <3>1
  <2>3. pager'.cursor # <<>> =>
          /\ Len(pager'.got) > 0
          /\ pager'.cursor = <<rows'[pager'.got[Len(pager'.got)]].at, pager'.got[Len(pager'.got)]>>
    <3>1. ASSUME pager.cursor # <<>>
          PROVE  /\ Len(pager.got) > 0
                 /\ pager.cursor = <<rows'[pager.got[Len(pager.got)]].at, pager.got[Len(pager.got)]>>
      <4>1. /\ Len(pager.got) > 0
            /\ pager.cursor = <<rows[pager.got[Len(pager.got)]].at, pager.got[Len(pager.got)]>>
        BY <1>1, <3>1 DEF PagesGoOn
      <4>2. Len(pager.got) \in 1 .. Len(pager.got)
        BY <1>1, <4>1
      <4>3. rows'[pager.got[Len(pager.got)]].at = rows[pager.got[Len(pager.got)]].at
        BY <1>2, <2>1, <4>2
      <4> QED
        BY <4>1, <4>3
    <3> QED
      BY <3>1
  <2>4. ASSUME NEW r \in pager'.due
        PROVE  /\ rows'[r].status \in {"live", "gone"} /\ InSnapshot(r, pager.snapshot)'
               /\ pager'.filter # "none" /\ r \in Listed(pager.filter)' =>
                     InGot(r)' \/ (pager'.cursor # <<>> /\ Below(r, pager.cursor)')
    <3>1. ASSUME pager.filter # "none", r \in Listed(pager.filter)'
          PROVE  InGot(r)' \/ (pager'.cursor # <<>> /\ Below(r, pager.cursor)')
      <4>1. r \in Listed(pager.filter) /\ r \in Written
        BY <1>6, <2>4, <3>1
      <4>2. InGot(r) \/ (pager.cursor # <<>> /\ Below(r, pager.cursor))
        BY <1>1, <2>4, <3>1, <4>1 DEF PagesGoOn
      <4> QED
        BY <1>2, <4>1, <4>2 DEF InGot, Below
    <3> QED
      BY <1>6, <2>4, <3>1
  <2> QED
    BY <2>2, <2>3, <2>4 DEF PagesGoOn
<1> QED
  BY <1>3, <1>7

\* No postcard is read.
LEMMA NothingRead ==
    ASSUME PagesIndInv, UNCHANGED <<readKeys, bumps>>, \A r \in Ids : rows'[r].readAt = rows[r].readAt
    PROVE  ReadsCount'
<1>1. ReadRows' = ReadRows
  BY DEF ReadRows
<1>2. 0 \notin Ids
  BY PagesConstants
<1>3. \A c \in ReadIds : readKeys[c] # 0 => readKeys[c] \in Ids
  BY DEF PagesIndInv, ReadsCount
<1> QED
  BY <1>1, <1>2, <1>3 DEF PagesIndInv, ReadsCount

-----------------------------------------------------------------------------
(* Pages: every step. *)

LEMMA BegunIs ==
    ASSUME NEW kind, NEW to
    PROVE  Begun(kind, to) =
             [kind |-> kind, at |-> now, status |-> "open", to |-> to, readAt |-> 0]
<1>1. PICK none : none = [kind |-> "none", at |-> 0, status |-> "none", to |-> 0, readAt |-> 0]
  OBVIOUS
<1>2. Begun(kind, to) =
        [none EXCEPT !.kind = kind, !.at = now, !.status = "open", !.to = to]
  BY <1>1 DEF Begun, NoListed
<1>3. PICK a : a = [none EXCEPT !.kind = kind]
  OBVIOUS
<1>4. PICK b : b = [a EXCEPT !.at = now]
  OBVIOUS
<1>5. PICK c : c = [b EXCEPT !.status = "open"]
  OBVIOUS
<1>6. PICK d : d = [c EXCEPT !.to = to]
  OBVIOUS
<1>7. a = [kind |-> kind, at |-> 0, status |-> "none", to |-> 0, readAt |-> 0]
  BY <1>1, <1>3
<1>8. b = [kind |-> kind, at |-> now, status |-> "none", to |-> 0, readAt |-> 0]
  BY <1>4, <1>7
<1>9. c = [kind |-> kind, at |-> now, status |-> "open", to |-> 0, readAt |-> 0]
  BY <1>5, <1>8
<1>10. d = [kind |-> kind, at |-> now, status |-> "open", to |-> to, readAt |-> 0]
  BY <1>6, <1>9
<1>11. d = Begun(kind, to)
  BY <1>2, <1>3, <1>4, <1>5, <1>6
<1> QED
  BY <1>10, <1>11

LEMMA NoListedIs ==
    /\ NoListed.kind = "none" /\ NoListed.status = "none"
    /\ NoListed.to = 0 /\ NoListed.readAt = 0
  BY DEF NoListed

\* Rows are begun: nobody has shown them or refers to them.
LEMMA RowsBegun ==
    ASSUME PagesIndInv, UNCHANGED <<now, pager, readKeys, bumps>>,
           NEW new \in SUBSET Unused, rows' \in [Ids -> ListedRow],
           \A r \in Ids : r \notin new => rows'[r] = rows[r],
           \A r \in new :
              /\ rows'[r].kind \in RowKinds /\ rows'[r].at = now
              /\ rows'[r].status = "open" /\ rows'[r].readAt = 0
              /\ rows'[r].to # 0 =>
                    rows'[r].kind = "message" /\ rows'[rows'[r].to].kind = "message"
    PROVE  PagesIndInv'
<1>1. RowsTyped /\ now \in 1 .. MaxTime /\ rows \in [Ids -> ListedRow]
  BY DEF PagesIndInv, RowsTyped
<1>2. \A r \in new : r \in Ids /\ rows[r] = NoListed
  BY DEF Unused
<1>3. \A r \in new : /\ rows[r].kind = "none" /\ rows[r].status = "none"
                     /\ rows[r].to = 0 /\ rows[r].readAt = 0
  BY <1>2, NoListedIs
<1>4. now \in Nat /\ "none" \notin RowKinds
  BY <1>1, RowsAreTimed DEF RowKinds
<1>5. ASSUME NEW r \in Ids
      PROVE  /\ rows'[r].at <= now
             /\ rows'[r].kind = "none" => rows'[r] = NoListed
             /\ rows'[r].kind # "none" => rows'[r].status # "none"
             /\ rows'[r].kind = "message" => rows'[r].status # "gone"
             /\ rows'[r].to # 0 =>
                   rows'[r].kind = "message" /\ rows'[rows'[r].to].kind = "message"
  <2>1. CASE r \in new
    BY <1>4, <2>1
  <2>2. CASE r \notin new
    <3>1. rows'[r] = rows[r]
      BY <2>2
    <3>2. rows[r].to # 0 => rows'[rows[r].to].kind = "message"
      <4>1. SUFFICES ASSUME rows[r].to # 0 PROVE rows'[rows[r].to].kind = "message"
        OBVIOUS
      <4>2. rows[r].to \in Ids /\ rows[rows[r].to].kind = "message"
        BY <1>1, <4>1 DEF RowsTyped, ListedRow
      <4>3. rows[r].to \notin new
        BY <1>3, <4>2
      <4> QED
        BY <4>2, <4>3
    <3> QED
      BY <1>1, <3>1, <3>2 DEF RowsTyped
  <2> QED
    BY <2>1, <2>2
<1>6. RowsTyped'
  BY <1>1, <1>5 DEF RowsTyped
<1>7. RowsGoOn
  <2>1. \A r \in Written : r \in Ids /\ r \notin new
    BY <1>3 DEF Written
  <2>2. \A r \in Ids : rows[r].status \in {"live", "gone"} => r \notin new
    BY <1>3
  <2> QED
    BY <1>6, <2>1, <2>2 DEF RowsGoOn
<1>8. \A r \in Ids : rows'[r].readAt = rows[r].readAt
  BY <1>3
<1>9. PagerTyped' /\ PagesGoOn'
  BY <1>7, ListKept
<1>10. ReadsCount'
  BY <1>8, NothingRead
<1> QED
  BY <1>6, <1>9, <1>10 DEF PagesIndInv

LEMMA InsertTurnStep ==
    ASSUME PagesIndInv, NEW user \in Ids, NEW reply \in Ids, InsertTurn(user, reply)
    PROVE  PagesIndInv'
<1>1. /\ rows \in [Ids -> ListedRow] /\ now \in 1 .. MaxTime
      /\ user \in Unused /\ reply \in Unused /\ user # reply
      /\ UNCHANGED <<now, pager, readKeys, bumps>>
  BY DEF PagesIndInv, RowsTyped, InsertTurn
<1>2. rows' = [rows EXCEPT ![user] = Begun("message", 0), ![reply] = Begun("message", user)]
  BY DEF InsertTurn
<1>3. PICK one, two : one = Begun("message", 0) /\ two = Begun("message", user)
  OBVIOUS
<1>4. now \in 0 .. MaxTime /\ 0 \in 0 .. MaxTime
  BY <1>1, PagesConstants
<1>5. /\ one = [kind |-> "message", at |-> now, status |-> "open", to |-> 0, readAt |-> 0]
      /\ two = [kind |-> "message", at |-> now, status |-> "open", to |-> user, readAt |-> 0]
  BY <1>3, BegunIs
<1>6. one \in ListedRow /\ two \in ListedRow
  BY <1>4, <1>5 DEF ListedRow, RowKinds
<1>7. /\ rows' \in [Ids -> ListedRow] /\ rows'[user] = one /\ rows'[reply] = two
      /\ \A r \in Ids : r \notin {user, reply} => rows'[r] = rows[r]
  BY <1>1, <1>2, <1>3, <1>6
<1>8. \A r \in {user, reply} :
         /\ rows'[r].kind \in RowKinds /\ rows'[r].at = now
         /\ rows'[r].status = "open" /\ rows'[r].readAt = 0
         /\ rows'[r].to # 0 =>
               rows'[r].kind = "message" /\ rows'[rows'[r].to].kind = "message"
  BY <1>5, <1>7 DEF RowKinds
<1>9. {user, reply} \in SUBSET Unused
  BY <1>1
<1> QED
  BY <1>1, <1>7, <1>8, <1>9, RowsBegun

LEMMA InsertRowStep ==
    ASSUME PagesIndInv, NEW kind \in RowKinds, NEW r \in Ids, InsertRow(kind, r)
    PROVE  PagesIndInv'
<1>1. /\ rows \in [Ids -> ListedRow] /\ now \in 1 .. MaxTime /\ r \in Unused
      /\ UNCHANGED <<now, pager, readKeys, bumps>> /\ rows' = [rows EXCEPT ![r] = Begun(kind, 0)]
  BY DEF PagesIndInv, RowsTyped, InsertRow
<1>2. PICK one : one = Begun(kind, 0)
  OBVIOUS
<1>3. now \in 0 .. MaxTime /\ 0 \in 0 .. MaxTime
  BY <1>1, PagesConstants
<1>4. one = [kind |-> kind, at |-> now, status |-> "open", to |-> 0, readAt |-> 0]
  BY <1>2, BegunIs
<1>5. one \in ListedRow
  BY <1>3, <1>4 DEF ListedRow
<1>6. /\ rows' \in [Ids -> ListedRow] /\ rows'[r] = one
      /\ \A s \in Ids : s \notin {r} => rows'[s] = rows[s]
  BY <1>1, <1>2, <1>5
<1>7. \A s \in {r} :
         /\ rows'[s].kind \in RowKinds /\ rows'[s].at = now
         /\ rows'[s].status = "open" /\ rows'[s].readAt = 0
         /\ rows'[s].to # 0 =>
               rows'[s].kind = "message" /\ rows'[rows'[s].to].kind = "message"
  BY <1>4, <1>6
<1>8. {r} \in SUBSET Unused
  BY <1>1
<1> QED
  BY <1>1, <1>6, <1>7, <1>8, RowsBegun

\* Only the status changes, and what has left a list stays away from it.
LEMMA StatusMoves ==
    ASSUME PagesIndInv, UNCHANGED <<now, pager, readKeys, bumps>>,
           rows' \in [Ids -> ListedRow],
           \A r \in Ids :
              \/ rows'[r] = rows[r]
              \/ /\ rows'[r].kind = rows[r].kind /\ rows'[r].at = rows[r].at
                 /\ rows'[r].to = rows[r].to /\ rows'[r].readAt = rows[r].readAt
                 /\ rows[r].kind # "none"
                 /\ \/ rows[r].status # "gone" /\ rows'[r].status = "live"
                    \/ /\ rows[r].status = "live" /\ rows'[r].status = "gone"
                       /\ rows[r].kind # "message"
    PROVE  PagesIndInv'
<1>1. RowsTyped /\ now \in 1 .. MaxTime /\ rows \in [Ids -> ListedRow]
  BY DEF PagesIndInv, RowsTyped
<1>2. \A r \in Ids : /\ rows'[r].kind = rows[r].kind /\ rows'[r].at = rows[r].at
                     /\ rows'[r].to = rows[r].to /\ rows'[r].readAt = rows[r].readAt
  OBVIOUS
<1>3. ASSUME NEW r \in Ids
      PROVE  /\ rows'[r].at <= now
             /\ rows'[r].kind = "none" => rows'[r] = NoListed
             /\ rows'[r].kind # "none" => rows'[r].status # "none"
             /\ rows'[r].kind = "message" => rows'[r].status # "gone"
             /\ rows'[r].to # 0 =>
                   rows'[r].kind = "message" /\ rows'[rows'[r].to].kind = "message"
  <2>1. /\ rows[r].at <= now
        /\ rows[r].kind = "none" => rows[r] = NoListed
        /\ rows[r].kind # "none" => rows[r].status # "none"
        /\ rows[r].kind = "message" => rows[r].status # "gone"
        /\ rows[r].to # 0 => rows[r].kind = "message" /\ rows[rows[r].to].kind = "message"
    BY <1>1 DEF RowsTyped
  <2>2. rows[r].to # 0 => rows[r].to \in Ids
    BY <1>1 DEF ListedRow
  <2>3. rows'[r].to # 0 => rows'[r].kind = "message" /\ rows'[rows'[r].to].kind = "message"
    BY <1>2, <2>1, <2>2
  <2>4. rows'[r].kind = "none" => rows'[r] = NoListed
    BY <1>2, <2>1
  <2> QED
    BY <1>2, <2>1, <2>3, <2>4
<1>4. RowsTyped'
  BY <1>1, <1>3 DEF RowsTyped
<1>5. RowsGoOn
  <2>1. \A r \in Ids : rows[r].status \in {"live", "gone"} =>
          /\ rows'[r].status \in {"live", "gone"}
          /\ rows'[r].status = "live" => rows[r].status = "live"
          /\ rows'[r].readAt = 0 => rows[r].readAt = 0
    BY <1>2
  <2> QED
    BY <1>2, <1>4, <2>1 DEF RowsGoOn, Written
<1>6. PagerTyped' /\ PagesGoOn'
  BY <1>5, ListKept
<1>7. ReadsCount'
  BY <1>2, NothingRead
<1> QED
  BY <1>4, <1>6, <1>7 DEF PagesIndInv

\* What is committed together is written, and none of it has left a list.
LEMMA TogetherAre ==
    ASSUME RowsTyped, NEW r \in Ids, rows[r].status = "open", NEW s \in Together(r)
    PROVE  s \in Ids /\ rows[s].kind # "none" /\ rows[s].status # "gone"
<1>1. /\ s \in Ids /\ rows \in [Ids -> ListedRow]
      /\ \/ s = r \/ rows[s].to = r \/ rows[r].to = s
         \/ rows[s].kind = "memory" /\ rows[s].status = "open"
  BY DEF Together, RowsTyped
<1>2. 0 \notin Ids
  BY PagesConstants
<1>3. CASE s = r
  <2>1. rows[r].kind = "none" => rows[r].status = "none"
    BY NoListedIs DEF RowsTyped
  <2> QED
    BY <1>3, <2>1
<1>4. CASE rows[s].to = r \/ rows[r].to = s
  BY <1>1, <1>2, <1>4 DEF RowsTyped
<1> QED
  BY <1>1, <1>3, <1>4

LEMMA CommitStep ==
    ASSUME PagesIndInv, NEW r \in Ids, Commit(r)
    PROVE  PagesIndInv'
<1>1. /\ RowsTyped /\ rows \in [Ids -> ListedRow] /\ rows[r].status = "open"
      /\ UNCHANGED <<now, pager, readKeys, bumps>>
  BY DEF PagesIndInv, RowsTyped, Commit
<1>2. rows' = [s \in Ids |->
                 IF s \in Together(r) THEN [rows[s] EXCEPT !.status = "live"] ELSE rows[s]]
  BY DEF Commit
<1>3. \A s \in Together(r) : s \in Ids /\ rows[s].kind # "none" /\ rows[s].status # "gone"
  BY <1>1, TogetherAre
<1>4. \A s \in Ids : /\ s \in Together(r) => rows'[s] = [rows[s] EXCEPT !.status = "live"]
                     /\ s \notin Together(r) => rows'[s] = rows[s]
  BY <1>2
<1>5. \A s \in Ids : [rows[s] EXCEPT !.status = "live"] \in ListedRow
  BY <1>1 DEF ListedRow
<1>6. rows' \in [Ids -> ListedRow]
  BY <1>1, <1>2, <1>5
<1>7. \A s \in Ids :
         \/ rows'[s] = rows[s]
         \/ /\ rows'[s].kind = rows[s].kind /\ rows'[s].at = rows[s].at
            /\ rows'[s].to = rows[s].to /\ rows'[s].readAt = rows[s].readAt
            /\ rows[s].kind # "none"
            /\ \/ rows[s].status # "gone" /\ rows'[s].status = "live"
               \/ /\ rows[s].status = "live" /\ rows'[s].status = "gone"
                  /\ rows[s].kind # "message"
  <2>1. SUFFICES ASSUME NEW s \in Together(r)
                 PROVE  /\ rows'[s].kind = rows[s].kind /\ rows'[s].at = rows[s].at
                        /\ rows'[s].to = rows[s].to /\ rows'[s].readAt = rows[s].readAt
                        /\ rows[s].kind # "none" /\ rows[s].status # "gone"
                        /\ rows'[s].status = "live"
    BY <1>4
  <2>2. s \in Ids /\ rows[s].kind # "none" /\ rows[s].status # "gone"
    BY <1>3
  <2>3. rows'[s] = [rows[s] EXCEPT !.status = "live"] /\ rows[s] \in ListedRow
    BY <1>1, <1>4, <2>2
  <2> QED
    BY <2>2, <2>3 DEF ListedRow
<1> QED
  BY <1>1, <1>6, <1>7, StatusMoves

LEMMA LeaveStep ==
    ASSUME PagesIndInv, NEW r \in Ids, Leave(r)
    PROVE  PagesIndInv'
<1>1. /\ rows \in [Ids -> ListedRow] /\ rows[r].status = "live"
      /\ rows[r].kind \in {"memory", "friend"}
      /\ UNCHANGED <<now, pager, readKeys, bumps>>
  BY DEF PagesIndInv, RowsTyped, Leave
<1>2. rows' = [rows EXCEPT ![r] = [@ EXCEPT !.status = "gone"]]
  BY DEF Leave
<1>3. PICK one : one = [rows[r] EXCEPT !.status = "gone"]
  OBVIOUS
<1>4. one \in ListedRow
  BY <1>1, <1>3 DEF ListedRow
<1>5. /\ one.kind = rows[r].kind /\ one.at = rows[r].at /\ one.to = rows[r].to
      /\ one.readAt = rows[r].readAt /\ one.status = "gone"
  BY <1>1, <1>3 DEF ListedRow
<1>6. /\ rows' \in [Ids -> ListedRow] /\ rows'[r] = one
      /\ \A s \in Ids : s # r => rows'[s] = rows[s]
  BY <1>1, <1>2, <1>3, <1>4
<1>7. \A s \in Ids :
         \/ rows'[s] = rows[s]
         \/ /\ rows'[s].kind = rows[s].kind /\ rows'[s].at = rows[s].at
            /\ rows'[s].to = rows[s].to /\ rows'[s].readAt = rows[s].readAt
            /\ rows[s].kind # "none"
            /\ \/ rows[s].status # "gone" /\ rows'[s].status = "live"
               \/ /\ rows[s].status = "live" /\ rows'[s].status = "gone"
                  /\ rows[s].kind # "message"
  BY <1>1, <1>5, <1>6
<1> QED
  BY <1>1, <1>6, <1>7, StatusMoves

LEMMA TickStep ==
    ASSUME PagesIndInv, Tick
    PROVE  PagesIndInv'
<1>1. /\ RowsTyped /\ now \in 1 .. MaxTime /\ rows \in [Ids -> ListedRow]
      /\ now < MaxTime /\ now' = now + 1 /\ UNCHANGED <<rows, pager, readKeys, bumps>>
  BY DEF PagesIndInv, RowsTyped, Tick
<1>2. now' \in 1 .. MaxTime /\ now \in Nat
  BY <1>1, PagesConstants
<1>3. \A r \in Ids : rows[r].at <= now'
  BY <1>1, <1>2, RowsAreTimed DEF RowsTyped, Timed
<1>4. RowsTyped'
  BY <1>1, <1>2, <1>3 DEF RowsTyped
<1>5. RowsGoOn
  BY <1>1, <1>4 DEF RowsGoOn
<1>6. PagerTyped' /\ PagesGoOn'
  BY <1>1, <1>5, ListKept
<1>7. ReadsCount'
  BY <1>1, NothingRead
<1> QED
  BY <1>4, <1>6, <1>7 DEF PagesIndInv

LEMMA PageOnly ==
    ASSUME PagesIndInv, UNCHANGED <<rows, now, readKeys, bumps>>
    PROVE  RowsTyped' /\ ReadsCount'
<1>1. RowsTyped'
  BY DEF PagesIndInv, RowsTyped
<1> QED
  BY <1>1, NothingRead

LEMMA FirstPageStep ==
    ASSUME PagesIndInv, NEW filter \in Filters, FirstPage(filter)
    PROVE  PagesIndInv'
<1>1. /\ pager' = Turned(filter, now, <<>>, <<>>, Listed(filter))
      /\ UNCHANGED <<rows, now, readKeys, bumps>>
  BY DEF FirstPage
<1>2. RowsTyped' /\ ReadsCount'
  BY <1>1, PageOnly
<1>3. PICK due : due = Listed(filter)
  OBVIOUS
<1>4. \A r \in due : r \in Ids /\ rows[r].status = "live" /\ rows[r].at <= now
  BY <1>3, ListedAreWritten DEF Written, PagesIndInv, RowsTyped
<1>5. due \in SUBSET Ids
  BY <1>4
<1>6. \A r \in due : /\ rows[r].status \in {"live", "gone"} /\ InSnapshot(r, now)
                     /\ r \in Listed(filter) =>
                           (\E i \in 1 .. Len(<<>>) : <<>>[i] = r) \/ Below(r, <<>>)
  BY <1>4 DEF InSnapshot, Below
<1>7. /\ <<>> \in Seq(Ids) /\ Len(<<>>) = 0
      /\ \A i \in 1 .. Len(<<>>) : <<>>[i] \in Written
      /\ \A i, j \in 1 .. Len(<<>>) : i < j => Above(<<>>[i], <<>>[j])
  OBVIOUS
<1>8. pager' = Turned(filter, now, <<>>, <<>>, due)
  BY <1>1, <1>3
<1>9. PagerTyped' /\ PagesGoOn'
  BY <1>1, <1>5, <1>6, <1>7, <1>8, PageTurned
<1> QED
  BY <1>2, <1>9 DEF PagesIndInv

LEMMA NextPageStep ==
    ASSUME PagesIndInv, NEW filter \in Filters, NextPage(filter)
    PROVE  PagesIndInv'
<1>1. /\ filter = pager.filter /\ pager.cursor # <<>>
      /\ UNCHANGED <<rows, now, readKeys, bumps>>
  BY DEF NextPage, CursorFits
<1>2. pager' = Turned(filter, pager.snapshot, pager.cursor, pager.got, pager.due)
  BY <1>1 DEF NextPage
<1>3. RowsTyped' /\ ReadsCount'
  BY <1>1, PageOnly
<1>4. PICK got, due, cursor, snapshot :
         /\ got = pager.got /\ due = pager.due /\ cursor = pager.cursor
         /\ snapshot = pager.snapshot
  OBVIOUS
<1>5. /\ got \in Seq(Ids) /\ due \in SUBSET Ids
      /\ \A i \in 1 .. Len(got) : got[i] \in Written
  BY <1>4 DEF PagesIndInv, PagerTyped
<1>6. /\ \A i, j \in 1 .. Len(got) : i < j => Above(got[i], got[j])
      /\ Len(got) > 0 /\ cursor = <<rows[got[Len(got)]].at, got[Len(got)]>>
  BY <1>1, <1>4 DEF PagesIndInv, PagesGoOn
<1>7. filter # "none"
  BY DEF Filters
<1>8. \A r \in due : /\ rows[r].status \in {"live", "gone"} /\ InSnapshot(r, snapshot)
                     /\ r \in Listed(filter) =>
                           (\E i \in 1 .. Len(got) : got[i] = r) \/ Below(r, cursor)
  BY <1>1, <1>4, <1>7 DEF PagesIndInv, PagesGoOn, InGot
<1>9. pager' = Turned(filter, snapshot, cursor, got, due)
  BY <1>2, <1>4
<1>10. UNCHANGED rows
  BY <1>1
<1>11. PagerTyped' /\ PagesGoOn'
  BY <1>5, <1>6, <1>8, <1>9, <1>10, PageTurned
<1> QED
  BY <1>3, <1>11 DEF PagesIndInv

LEMMA ReadPostcardStep ==
    ASSUME PagesIndInv, NEW c \in ReadIds, NEW r \in Ids, ReadPostcard(c, r)
    PROVE  PagesIndInv'
<1>1. /\ RowsTyped /\ now \in 1 .. MaxTime /\ rows \in [Ids -> ListedRow]
      /\ readKeys \in [ReadIds -> Ids \cup {0}] /\ bumps = Cardinality(ReadRows)
      /\ \A k \in ReadIds : readKeys[k] # 0 => rows[readKeys[k]].readAt > 0
  BY DEF PagesIndInv, RowsTyped, ReadsCount
<1>2. /\ rows[r].kind = "postcard" /\ readKeys' = [readKeys EXCEPT ![c] = r]
      /\ UNCHANGED <<now, pager>>
  BY DEF ReadPostcard, Live
<1>3. now \in Nat /\ now > 0 /\ now \in 0 .. MaxTime /\ \A s \in Ids : rows[s].readAt \in Nat
  BY <1>1, PagesConstants DEF ListedRow
<1>4. 0 \notin Ids /\ IsFiniteSet(Ids)
  BY PagesConstants
<1>5. /\ readKeys' \in [ReadIds -> Ids \cup {0}]
      /\ \A k \in ReadIds : readKeys'[k] = IF k = c THEN r ELSE readKeys[k]
  BY <1>1, <1>2
<1>6. CASE Unread(r)
  <2>1. /\ rows' = [rows EXCEPT ![r] = [@ EXCEPT !.readAt = now]] /\ bumps' = bumps + 1
        /\ rows[r].readAt = 0
    BY <1>6 DEF ReadPostcard, Unread
  <2>2. PICK one : one = [rows[r] EXCEPT !.readAt = now]
    OBVIOUS
  <2>3. one \in ListedRow
    BY <1>1, <1>3, <2>2 DEF ListedRow
  <2>4. /\ one.kind = rows[r].kind /\ one.at = rows[r].at /\ one.to = rows[r].to
        /\ one.status = rows[r].status /\ one.readAt = now
    BY <1>1, <2>2 DEF ListedRow
  <2>5. /\ rows' \in [Ids -> ListedRow] /\ rows'[r] = one
        /\ \A s \in Ids : s # r => rows'[s] = rows[s]
    BY <1>1, <2>1, <2>2, <2>3
  <2>6. \A s \in Ids : /\ rows'[s].kind = rows[s].kind /\ rows'[s].at = rows[s].at
                       /\ rows'[s].to = rows[s].to /\ rows'[s].status = rows[s].status
    BY <2>4, <2>5
  <2>7. ASSUME NEW s \in Ids
        PROVE  /\ rows'[s].at <= now
               /\ rows'[s].kind = "none" => rows'[s] = NoListed
               /\ rows'[s].kind # "none" => rows'[s].status # "none"
               /\ rows'[s].kind = "message" => rows'[s].status # "gone"
               /\ rows'[s].to # 0 =>
                     rows'[s].kind = "message" /\ rows'[rows'[s].to].kind = "message"
    <3>1. /\ rows[s].at <= now
          /\ rows[s].kind = "none" => rows[s] = NoListed
          /\ rows[s].kind # "none" => rows[s].status # "none"
          /\ rows[s].kind = "message" => rows[s].status # "gone"
          /\ rows[s].to # 0 => rows[s].kind = "message" /\ rows[rows[s].to].kind = "message"
      BY <1>1 DEF RowsTyped
    <3>2. rows[s].to # 0 => rows[s].to \in Ids
      BY <1>1 DEF ListedRow
    <3>3. rows'[s].to # 0 => rows'[s].kind = "message" /\ rows'[rows'[s].to].kind = "message"
      BY <2>6, <3>1, <3>2
    <3>4. rows'[s].kind = "none" => rows'[s] = NoListed
      BY <1>2, <2>5, <2>6, <3>1
    <3> QED
      BY <2>6, <3>1, <3>3, <3>4
  <2>8. RowsTyped'
    BY <1>1, <1>2, <2>5, <2>7 DEF RowsTyped
  <2>9. \A s \in Ids : rows'[s].readAt = 0 => rows[s].readAt = 0
    BY <1>3, <2>4, <2>5
  <2>10. RowsGoOn
    BY <2>6, <2>8, <2>9 DEF RowsGoOn, Written
  <2>11. PagerTyped' /\ PagesGoOn'
    BY <1>2, <2>10, ListKept
  <2>12. ReadRows' = ReadRows \cup {r} /\ r \notin ReadRows
    BY <1>3, <2>1, <2>4, <2>5 DEF ReadRows
  <2>13. IsFiniteSet(ReadRows)
    BY <1>4, FS_Subset DEF ReadRows
  <2>14. Cardinality(ReadRows') = Cardinality(ReadRows) + 1
    BY <2>12, <2>13, FS_AddElement
  <2>15. \A k \in ReadIds : readKeys'[k] # 0 => rows'[readKeys'[k]].readAt > 0
    BY <1>1, <1>3, <1>5, <2>4, <2>5
  <2>16. ReadsCount'
    BY <1>1, <1>5, <2>1, <2>14, <2>15 DEF ReadsCount
  <2> QED
    BY <2>8, <2>11, <2>16 DEF PagesIndInv
<1>7. CASE ~Unread(r)
  <2>1. UNCHANGED <<rows, bumps>> /\ rows[r].readAt # 0
    BY <1>2, <1>7 DEF ReadPostcard, Unread
  <2>2. RowsTyped'
    BY <1>1, <1>2, <2>1 DEF RowsTyped
  <2>3. RowsGoOn
    BY <2>1, <2>2 DEF RowsGoOn
  <2>4. PagerTyped' /\ PagesGoOn'
    BY <1>2, <2>3, ListKept
  <2>5. ReadRows' = ReadRows
    BY <2>1 DEF ReadRows
  <2>6. rows[r].readAt > 0
    BY <1>3, <2>1
  <2>7. \A k \in ReadIds : readKeys'[k] # 0 => rows'[readKeys'[k]].readAt > 0
    BY <1>1, <1>5, <2>1, <2>6
  <2>8. ReadsCount'
    BY <1>1, <1>5, <2>1, <2>5, <2>7 DEF ReadsCount
  <2> QED
    BY <2>2, <2>4, <2>8 DEF PagesIndInv
<1> QED
  BY <1>6, <1>7

-----------------------------------------------------------------------------
(* Pages: the theorem. *)

LEMMA PagesStart == PagesInit => PagesIndInv
<1> SUFFICES ASSUME PagesInit PROVE PagesIndInv
  OBVIOUS
<1>1. /\ rows = [r \in Ids |-> NoListed] /\ now = 1 /\ pager = NoPage
      /\ readKeys = [c \in ReadIds |-> 0] /\ bumps = 0
  BY DEF PagesInit
<1>2. NoListed \in ListedRow
  BY PagesConstants DEF NoListed, ListedRow
<1>3. RowsTyped
  <2>1. now \in 1 .. MaxTime /\ rows \in [Ids -> ListedRow]
    BY <1>1, <1>2, PagesConstants
  <2>2. \A r \in Ids : rows[r] = NoListed
    BY <1>1
  <2>3. NoListed.at = 0 /\ 0 <= now
    BY <1>1 DEF NoListed
  <2> QED
    BY <2>1, <2>2, <2>3, NoListedIs DEF RowsTyped
<1>4. PagerTyped /\ PagesGoOn
  BY <1>1 DEF PagerTyped, PagesGoOn, NoPage
<1>5. ReadRows = {}
  BY <1>1, NoListedIs DEF ReadRows
<1>6. Cardinality(ReadRows) = 0
  BY <1>5, FS_EmptySet
<1>7. ReadsCount
  BY <1>1, <1>6 DEF ReadsCount
<1> QED
  BY <1>3, <1>4, <1>7 DEF PagesIndInv

LEMMA PagesStep == PagesIndInv /\ [PagesNext]_pageVars => PagesIndInv'
<1> SUFFICES ASSUME PagesIndInv, [PagesNext]_pageVars PROVE PagesIndInv'
  OBVIOUS
<1>1. CASE \E user, reply \in Ids : InsertTurn(user, reply)
  BY <1>1, InsertTurnStep
<1>2. CASE \E kind \in RowKinds, r \in Ids : InsertRow(kind, r)
  BY <1>2, InsertRowStep
<1>3. CASE \E r \in Ids : Commit(r) \/ Leave(r)
  BY <1>3, CommitStep, LeaveStep
<1>4. CASE Tick
  BY <1>4, TickStep
<1>5. CASE MessagePage \/ MemoryPage \/ FriendPage \/ PostcardPage
  <2>1. \E filter \in Filters : FirstPage(filter) \/ NextPage(filter)
    BY <1>5 DEF MessagePage, MemoryPage, FriendPage, PostcardPage, Filters
  <2> QED
    BY <2>1, FirstPageStep, NextPageStep
<1>6. CASE \E c \in FirstNew(ReadIds, NewReadKey), r \in Ids : ReadPostcard(c, r)
  <2>1. \E c \in ReadIds, r \in Ids : ReadPostcard(c, r)
    BY <1>6 DEF FirstNew
  <2> QED
    BY <2>1, ReadPostcardStep
<1>7. CASE UNCHANGED pageVars
  <2>1. UNCHANGED <<rows, now, pager, readKeys, bumps>>
    BY <1>7 DEF pageVars
  <2>2. RowsTyped' /\ ReadsCount'
    BY <2>1, PageOnly
  <2>3. RowsGoOn
    BY <2>1, <2>2 DEF RowsGoOn
  <2>4. PagerTyped' /\ PagesGoOn'
    BY <2>1, <2>3, ListKept
  <2> QED
    BY <2>2, <2>4 DEF PagesIndInv
<1> QED
  BY <1>1, <1>2, <1>3, <1>4, <1>5, <1>6, <1>7 DEF PagesNext

LEMMA PagesInvHolds == PagesIndInv => PagesInv
<1> SUFFICES ASSUME PagesIndInv PROVE PagesInv
  OBVIOUS
<1>1. PagesTypeOK
  BY DEF PagesIndInv, RowsTyped, PagerTyped, ReadsCount, PagesTypeOK, ListedRow
<1>2. PagesAddUp
  BY DEF PagesIndInv, PagesGoOn, PagesAddUp, InGot
<1>3. ReadOnce
  BY DEF PagesIndInv, ReadsCount, ReadOnce, ReadRows
<1> QED
  BY <1>1, <1>2, <1>3 DEF PagesInv

\* In every state, what the pages of a list have shown is sorted and without
\* repetition, a list at its end has shown whatever was there at its first page
\* and is there still, and a postcard is read and counted once: for any rows,
\* devices, page limit and interleaving of commits with pages.
THEOREM PagesHold == PagesSpec => []PagesInv
<1>1. PagesSpec => []PagesIndInv
  BY PagesStart, PagesStep, PTL DEF PagesSpec
<1> QED
  BY <1>1, PagesInvHolds, PTL
=============================================================================

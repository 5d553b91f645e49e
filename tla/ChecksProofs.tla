---------------------------- MODULE ChecksProofs ----------------------------
(***************************************************************************)
(* Theorems about the model calls of a workspace and its FAQ drafts        *)
(* (AiJobs), and about what orders are held against (OrderChecks), for any *)
(* callers, budgets, uses, tickets, workers, reviewers, lines, quantities, *)
(* prices, units, terms and bounds.  Both rest on sums over finite sets.   *)
(***************************************************************************)
EXTENDS AiJobs, OrderChecks, FiniteSetTheorems, TLAPS

-----------------------------------------------------------------------------
(* Finite sets and their sums *)

\* Induction over the numbers, for a set instead of a predicate.
LEMMA EveryNumber ==
  ASSUME NEW S, 0 \in S, \A n \in Nat : n \in S => n + 1 \in S
  PROVE  Nat \subseteq S
<1> SUFFICES ASSUME ~(Nat \subseteq S) PROVE FALSE
  OBVIOUS
<1> DEFINE T == Nat \ S
<1>1. T \subseteq Nat /\ T # {}
  OBVIOUS
<1>2. \E x \in T : \A y \in T : ~ (<<y, x>> \in OpToRel(<, Nat))
  <2> HIDE DEF T
  <2> QED BY <1>1, NatLessThanWellFounded, WFMin
<1>3. PICK x \in T : \A y \in T : ~ (y < x)
  BY <1>1, <1>2 DEF OpToRel
<1>4. x \in Nat /\ x # 0 /\ x \notin S
  OBVIOUS
<1>5. x - 1 \in Nat /\ x - 1 < x /\ (x - 1) + 1 = x
  BY <1>4
<1>6. x - 1 \in S
  BY <1>3, <1>5
<1>7. x \in S
  BY <1>5, <1>6
<1> QED BY <1>4, <1>7

\* What holds of a set when it holds of the set without any one of its elements holds of
\* every finite set.
LEMMA EveryFiniteSet ==
  ASSUME NEW S, IsFiniteSet(S), NEW Q,
         \A T \in SUBSET S : (\A x \in T : T \ {x} \in Q) => T \in Q
  PROVE  SUBSET S \subseteq Q
<1> DEFINE N == {n \in Nat : \A T \in SUBSET S : Cardinality(T) = n => T \in Q}
<1>1. \A T \in SUBSET S : IsFiniteSet(T) /\ Cardinality(T) \in Nat
  BY FS_Subset, FS_CardinalityType
<1>2. 0 \in N
  <2>1. ASSUME NEW T \in SUBSET S, Cardinality(T) = 0 PROVE T \in Q
    <3>1. T = {}
      BY <1>1, <2>1, FS_EmptySet
    <3> QED BY <3>1
  <2> QED BY <2>1
<1>3. ASSUME NEW n \in Nat, n \in N PROVE n + 1 \in N
  <2>1. ASSUME NEW T \in SUBSET S, Cardinality(T) = n + 1 PROVE T \in Q
    <3>1. ASSUME NEW x \in T PROVE T \ {x} \in Q
      <4>1. Cardinality(T \ {x}) = Cardinality(T) - 1
        BY <1>1, FS_RemoveElement
      <4>2. Cardinality(T \ {x}) = n /\ T \ {x} \in SUBSET S
        BY <2>1, <4>1
      <4> QED BY <1>3, <4>2
    <3> QED BY <3>1
  <2> QED BY <1>3, <2>1
<1>4. Nat \subseteq N
  <2> HIDE DEF N
  <2> QED BY <1>2, <1>3, EveryNumber
<1> QED BY <1>1, <1>4

Pick(s) == CHOOSE x \in s : TRUE

\* The recursion of MapThenFoldSet, for sums of f over the subsets of S.
SumFrom(f, g, s) == IF s = {} THEN 0 ELSE f[Pick(s)] + g[s \ {Pick(s)}]
Sums(f, S) == CHOOSE g : g = [s \in SUBSET S |-> SumFrom(f, g, s)]

LEMMA SumsAreFolds == \A f, S : SumFunctionOnSet(f, S) = Sums(f, S)[S]
BY DEF SumFunctionOnSet, FoldFunctionOnSet, MapThenFoldSet, Sums, SumFrom, Pick

LEMMA PickWithin ==
  ASSUME NEW S, IsFiniteSet(S), NEW s \in SUBSET S, s # {}
  PROVE  /\ Pick(s) \in s /\ s \ {Pick(s)} \in SUBSET S
         /\ Cardinality(s) \in Nat /\ Cardinality(s \ {Pick(s)}) \in Nat
         /\ Cardinality(s \ {Pick(s)}) + 1 = Cardinality(s)
<1>1. Pick(s) \in s
  BY DEF Pick
<1>2. IsFiniteSet(s) /\ Cardinality(s) \in Nat
  BY FS_Subset, FS_CardinalityType
<1>3. IsFiniteSet(s \ {Pick(s)}) /\ Cardinality(s \ {Pick(s)}) = Cardinality(s) - 1
  BY <1>1, <1>2, FS_RemoveElement
<1>4. Cardinality(s \ {Pick(s)}) \in Nat
  BY <1>3, FS_CardinalityType
<1> QED BY <1>1, <1>2, <1>3, <1>4

\* The recursion has a solution on the subsets of a finite set.
LEMMA SumsExist ==
  ASSUME NEW f, NEW S, IsFiniteSet(S)
  PROVE  \A s \in SUBSET S : Sums(f, S)[s] = SumFrom(f, Sums(f, S), s)
<1> DEFINE Step(g) == [s \in SUBSET S |-> SumFrom(f, g, s)]
           Solves(g, n) == \A s \in SUBSET S : Cardinality(s) <= n => g[s] = SumFrom(f, g, s)
           N == {n \in Nat : \E g : Solves(g, n)}
<1>1. ASSUME NEW g, NEW n \in Nat, Solves(g, n)
      PROVE  \A s \in SUBSET S : Cardinality(s) <= n + 1 => Step(g)[s] = SumFrom(f, Step(g), s)
  <2> SUFFICES ASSUME NEW s \in SUBSET S, Cardinality(s) <= n + 1
               PROVE  Step(g)[s] = SumFrom(f, Step(g), s)
    OBVIOUS
  <2>1. Step(g)[s] = SumFrom(f, g, s)
    OBVIOUS
  <2>2. CASE s = {}
    BY <2>1, <2>2 DEF SumFrom
  <2>3. CASE s # {}
    <3>1. s \ {Pick(s)} \in SUBSET S /\ Cardinality(s \ {Pick(s)}) <= n
      BY <2>3, PickWithin
    <3>2. Step(g)[s \ {Pick(s)}] = g[s \ {Pick(s)}]
      BY <1>1, <3>1
    <3> QED BY <2>1, <2>3, <3>2 DEF SumFrom
  <2> QED BY <2>2, <2>3
<1>2. 0 \in N
  <2> DEFINE g == [s \in SUBSET S |-> 0]
  <2>1. Solves(g, 0)
    <3>1. ASSUME NEW s \in SUBSET S, Cardinality(s) <= 0 PROVE s = {}
      <4> HIDE DEF Solves, Step, N
      <4>1. s # {} => Cardinality(s) \in Nat /\ Cardinality(s \ {Pick(s)}) \in Nat
                      /\ Cardinality(s \ {Pick(s)}) + 1 = Cardinality(s)
        BY PickWithin
      <4> QED BY <3>1, <4>1
    <3> QED BY <3>1 DEF SumFrom
  <2> QED BY <2>1
<1>3. \A n \in Nat : n \in N => n + 1 \in N
  <2> SUFFICES ASSUME NEW n \in Nat, n \in N PROVE n + 1 \in N
    OBVIOUS
  <2>1. PICK g : Solves(g, n)
    OBVIOUS
  <2>2. Solves(Step(g), n + 1)
    BY <1>1, <2>1
  <2> HIDE DEF Solves, Step
  <2> QED BY <2>2
<1>4. Cardinality(S) \in Nat /\ \A s \in SUBSET S : Cardinality(s) <= Cardinality(S)
  BY FS_Subset, FS_CardinalityType
<1>5. \E g : Solves(g, Cardinality(S))
  <2>1. Nat \subseteq N
    <3> HIDE DEF N
    <3> QED BY <1>2, <1>3, EveryNumber
  <2> QED BY <1>4, <2>1
<1>6. PICK g : \A s \in SUBSET S : g[s] = SumFrom(f, g, s)
  BY <1>4, <1>5
<1>7. Step(g) = Step(Step(g))
  <2>1. \A s \in SUBSET S : SumFrom(f, g, s) = SumFrom(f, Step(g), s)
    <3> SUFFICES ASSUME NEW s \in SUBSET S PROVE SumFrom(f, g, s) = SumFrom(f, Step(g), s)
      OBVIOUS
    <3>1. s # {} => s \ {Pick(s)} \in SUBSET S
      OBVIOUS
    <3> QED BY <1>6, <3>1 DEF SumFrom
  <2> QED BY <2>1
<1>8. \E h : h = [s \in SUBSET S |-> SumFrom(f, h, s)]
  BY <1>7
<1>9. Sums(f, S) = [s \in SUBSET S |-> SumFrom(f, Sums(f, S), s)]
  BY <1>8 DEF Sums
<1> QED BY <1>9

\* The solutions for two sets agree on their common subsets, and for two functions that
\* agree.
LEMMA SumsAgree ==
  ASSUME NEW f, NEW g, NEW S, NEW T, IsFiniteSet(S), T \subseteq S, \A x \in T : f[x] = g[x]
  PROVE  Sums(f, S)[T] = Sums(g, T)[T]
<1> DEFINE Q == {s \in SUBSET T : Sums(f, S)[s] = Sums(g, T)[s]}
<1>1. IsFiniteSet(T)
  BY FS_Subset
<1>2. ASSUME NEW s \in SUBSET T, \A x \in s : s \ {x} \in Q
      PROVE  s \in Q
  <2>1. Sums(f, S)[s] = SumFrom(f, Sums(f, S), s) /\ Sums(g, T)[s] = SumFrom(g, Sums(g, T), s)
    BY <1>1, SumsExist
  <2>2. CASE s = {}
    BY <2>1, <2>2 DEF SumFrom
  <2>3. CASE s # {}
    <3>1. Pick(s) \in s
      BY <2>3 DEF Pick
    <3>2. Sums(f, S)[s \ {Pick(s)}] = Sums(g, T)[s \ {Pick(s)}] /\ f[Pick(s)] = g[Pick(s)]
      BY <1>2, <3>1
    <3> QED BY <2>1, <2>3, <3>2 DEF SumFrom
  <2> QED BY <2>2, <2>3
<1>3. SUBSET T \subseteq Q
  <2> HIDE DEF Q
  <2> QED BY <1>1, <1>2, EveryFiniteSet
<1> QED BY <1>3

LEMMA SumStep ==
  ASSUME NEW f, NEW S, IsFiniteSet(S)
  PROVE  SumFunctionOnSet(f, S) =
           IF S = {} THEN 0 ELSE f[Pick(S)] + SumFunctionOnSet(f, S \ {Pick(S)})
<1>1. Sums(f, S)[S] = SumFrom(f, Sums(f, S), S)
  BY SumsExist
<1>2. S # {} => Sums(f, S)[S \ {Pick(S)}] = Sums(f, S \ {Pick(S)})[S \ {Pick(S)}]
  <2> PICK T : T = S \ {Pick(S)}
    OBVIOUS
  <2>1. T \subseteq S /\ \A x \in T : f[x] = f[x]
    OBVIOUS
  <2>2. Sums(f, S)[T] = Sums(f, T)[T]
    BY <2>1, SumsAgree
  <2> QED BY <2>2
<1> QED BY <1>1, <1>2, SumsAreFolds DEF SumFrom

\* A sum of integers is one, and takes its terms in any order.
LEMMA SumTakes ==
  ASSUME NEW S, IsFiniteSet(S), NEW f, \A x \in S : f[x] \in Int
  PROVE  /\ SumFunctionOnSet(f, {}) = 0
         /\ \A T \in SUBSET S : SumFunctionOnSet(f, T) \in Int
         /\ \A T \in SUBSET S : \A x \in T :
              SumFunctionOnSet(f, T) = f[x] + SumFunctionOnSet(f, T \ {x})
<1> DEFINE Of(T) == SumFunctionOnSet(f, T)
           P == {T \in SUBSET S : Of(T) \in Int}
           Q == {T \in SUBSET S : \A x \in T : Of(T) = f[x] + Of(T \ {x})}
<1>1. IsFiniteSet({}) /\ \A T \in SUBSET S : IsFiniteSet(T)
  BY FS_EmptySet, FS_Subset
<1>2. Of({}) = 0
  BY <1>1, SumStep
<1>3. ASSUME NEW T \in SUBSET S, T # {} PROVE Pick(T) \in T /\ Of(T) = f[Pick(T)] + Of(T \ {Pick(T)})
  BY <1>1, <1>3, SumStep DEF Pick
<1> HIDE DEF Of
<1>4. ASSUME NEW T \in SUBSET S, \A x \in T : T \ {x} \in P
      PROVE  T \in P
  <2>1. CASE T = {}
    BY <1>2, <2>1
  <2>2. CASE T # {}
    <3>1. f[Pick(T)] \in Int /\ Of(T \ {Pick(T)}) \in Int
      BY <1>3, <1>4, <2>2
    <3> QED BY <1>3, <2>2, <3>1
  <2> QED BY <2>1, <2>2
<1>5. SUBSET S \subseteq P
  <2> HIDE DEF P
  <2> QED BY <1>4, EveryFiniteSet
<1>6. ASSUME NEW T \in SUBSET S, \A x \in T : T \ {x} \in Q, NEW x \in T
      PROVE  Of(T) = f[x] + Of(T \ {x})
  <2> PICK y : y = Pick(T)
    OBVIOUS
  <2>1. y \in T /\ Of(T) = f[y] + Of(T \ {y})
    BY <1>3
  <2>2. CASE x = y
    BY <2>1, <2>2
  <2>3. CASE x # y
    <3>1. x \in T \ {y} /\ y \in T \ {x} /\ (T \ {y}) \ {x} = (T \ {x}) \ {y}
      BY <2>1, <2>3
    <3> PICK r : r = Of((T \ {y}) \ {x})
      OBVIOUS
    <3>2. Of(T \ {y}) = f[x] + r
      BY <1>6, <2>1, <3>1
    <3>3. Of(T \ {x}) = f[y] + r
      BY <1>6, <2>1, <3>1
    <3>4. f[x] \in Int /\ f[y] \in Int /\ r \in Int
      BY <1>5, <2>1
    <3> QED BY <2>1, <3>2, <3>3, <3>4
  <2> QED BY <2>2, <2>3
<1>7. SUBSET S \subseteq Q
  <2>1. \A T \in SUBSET S : (\A x \in T : T \ {x} \in Q) => T \in Q
    BY <1>6
  <2> HIDE DEF Q
  <2> QED BY <2>1, EveryFiniteSet
<1> QED BY <1>2, <1>5, <1>7 DEF Of

LEMMA SumMinus ==
  ASSUME NEW S, IsFiniteSet(S), NEW f, \A y \in S : f[y] \in Int, NEW x \in S
  PROVE  /\ SumFunctionOnSet(f, S \ {x}) \in Int
         /\ SumFunctionOnSet(f, S) = f[x] + SumFunctionOnSet(f, S \ {x})
<1>1. S \in SUBSET S /\ S \ {x} \in SUBSET S
  OBVIOUS
<1> QED BY <1>1, SumTakes

\* Functions that agree have the same sum.
LEMMA SumsSame ==
  ASSUME NEW S, IsFiniteSet(S), NEW f, NEW g, \A x \in S : f[x] = g[x]
  PROVE  SumFunctionOnSet(f, S) = SumFunctionOnSet(g, S)
BY SumsAreFolds, SumsAgree

\* A common factor can be taken out.
LEMMA SumScales ==
  ASSUME NEW S, IsFiniteSet(S), NEW f, NEW g, NEW p \in Int,
         \A x \in S : f[x] \in Int /\ g[x] = f[x] * p
  PROVE  SumFunctionOnSet(g, S) = SumFunctionOnSet(f, S) * p
<1> DEFINE Q == {T \in SUBSET S : SumFunctionOnSet(g, T) = SumFunctionOnSet(f, T) * p}
<1>1. \A x \in S : f[x] \in Int /\ g[x] \in Int
  OBVIOUS
<1>2. ASSUME NEW T \in SUBSET S, \A x \in T : T \ {x} \in Q
      PROVE  T \in Q
  <2>1. CASE T = {}
    BY <1>1, <2>1, SumTakes
  <2>2. CASE T # {}
    <3> PICK x \in T : TRUE
      BY <2>2
    <3> PICK a : a = SumFunctionOnSet(f, T \ {x})
      OBVIOUS
    <3>1. a \in Int /\ SumFunctionOnSet(f, T) = f[x] + a
      BY <1>1, SumTakes
    <3>2. SumFunctionOnSet(g, T) = f[x] * p + SumFunctionOnSet(g, T \ {x})
      BY <1>1, SumTakes
    <3>3. SumFunctionOnSet(g, T \ {x}) = a * p
      BY <1>2
    <3>4. f[x] \in Int
      OBVIOUS
    <3>5. (f[x] + a) * p = f[x] * p + a * p
      BY <3>1, <3>4
    <3> QED BY <3>1, <3>2, <3>3, <3>5
  <2> QED BY <2>1, <2>2
<1>3. SUBSET S \subseteq Q
  <2> HIDE DEF Q
  <2> QED BY <1>2, EveryFiniteSet
<1> QED BY <1>3

\* A finite nonempty set of integers has a least and a greatest.
LEMMA FiniteEnds ==
  ASSUME NEW S, S \subseteq Int, S # {}, IsFiniteSet(S)
  PROVE  (\E x \in S : \A y \in S : x <= y) /\ (\E x \in S : \A y \in S : x >= y)
<1> DEFINE Q == {T \in SUBSET S : T # {} =>
                   (\E x \in T : \A y \in T : x <= y) /\ (\E x \in T : \A y \in T : x >= y)}
<1>1. ASSUME NEW T \in SUBSET S, \A x \in T : T \ {x} \in Q, T # {}
      PROVE  (\E x \in T : \A y \in T : x <= y) /\ (\E x \in T : \A y \in T : x >= y)
  <2> PICK z \in T : TRUE
    BY <1>1
  <2>1. CASE T \ {z} = {}
    <3>1. T = {z} /\ z \in Int
      BY <2>1
    <3> QED BY <3>1
  <2>2. CASE T \ {z} # {}
    <3>1. PICK a \in T \ {z} : \A y \in T \ {z} : a <= y
      BY <1>1, <2>2
    <3>2. PICK b \in T \ {z} : \A y \in T \ {z} : b >= y
      BY <1>1, <2>2
    <3>3. a \in Int /\ b \in Int /\ z \in Int /\ \A y \in T : y \in Int
      OBVIOUS
    <3>4. \E x \in T : \A y \in T : x <= y
      <4>1. CASE a <= z
        BY <3>1, <3>3, <4>1
      <4>2. CASE ~(a <= z)
        <5>1. \A y \in T : z <= y
          BY <3>1, <3>3, <4>2
        <5> QED BY <5>1
      <4> QED BY <4>1, <4>2
    <3>5. \E x \in T : \A y \in T : x >= y
      <4>1. CASE b >= z
        BY <3>2, <3>3, <4>1
      <4>2. CASE ~(b >= z)
        <5>1. \A y \in T : z >= y
          BY <3>2, <3>3, <4>2
        <5> QED BY <5>1
      <4> QED BY <4>1, <4>2
    <3> QED BY <3>4, <3>5
  <2> QED BY <2>1, <2>2
<1>2. SUBSET S \subseteq Q
  <2>1. \A T \in SUBSET S : (\A x \in T : T \ {x} \in Q) => T \in Q
    BY <1>1
  <2> HIDE DEF Q
  <2> QED BY <2>1, EveryFiniteSet
<1> QED BY <1>2

LEMMA ImageFinite ==
  ASSUME NEW S, IsFiniteSet(S), NEW f
  PROVE  IsFiniteSet({f[x] : x \in S})
<1> DEFINE g == [x \in S |-> f[x]]
           T == {f[x] : x \in S}
<1>1. g \in Surjection(S, T)
  BY DEF Surjection
<1> HIDE DEF g, T
<1>2. IsFiniteSet(T)
  BY <1>1, FS_Surjection
<1> QED BY <1>2 DEF T

LEMMA SumOfNone ==
  ASSUME NEW S, IsFiniteSet(S), NEW f, \A x \in S : f[x] = 0
  PROVE  SumFunctionOnSet(f, S) = 0
<1> DEFINE Q == {T \in SUBSET S : SumFunctionOnSet(f, T) = 0}
<1>1. \A x \in S : f[x] \in Int
  OBVIOUS
<1>2. ASSUME NEW T \in SUBSET S, \A x \in T : T \ {x} \in Q
      PROVE  T \in Q
  <2>1. CASE T = {}
    BY <1>1, <2>1, SumTakes
  <2>2. CASE T # {}
    <3> PICK x \in T : TRUE
      BY <2>2
    <3>1. SumFunctionOnSet(f, T) = f[x] + SumFunctionOnSet(f, T \ {x})
      BY <1>1, SumTakes
    <3>2. f[x] = 0 /\ SumFunctionOnSet(f, T \ {x}) = 0
      BY <1>2
    <3> QED BY <3>1, <3>2
  <2> QED BY <2>1, <2>2
<1>3. SUBSET S \subseteq Q
  <2> HIDE DEF Q
  <2> QED BY <1>2, EveryFiniteSet
<1> QED BY <1>3

-----------------------------------------------------------------------------
(* The budget *)

\* What one call uses at most.
Top == Max(Uses)

\* Calls that have passed the check of the cap and have no row yet.
Admitted == {c \in Callers : call[c].pc \in {"redis", "run", "tokens", "ledger", "answered"}}

\* The rows of this month and the most that the calls admitted may add stay below the cap
\* and what all callers may use; past months are over, later ones empty.
Covered == enforced =>
  /\ cost[month] + Top * Cardinality(Admitted) < Cap + Reach
  /\ \A m \in Months : m < month => cost[m] < Cap + Reach
  /\ \A m \in Months : m > month => cost[m] = 0

BudgetInv == TypeOK /\ Covered

Meter == [pc : {"idle", "cap", "redis", "run", "tokens", "ledger", "answered", "estimate"},
          kind : Kinds, used : {0} \union Uses]

-----------------------------------------------------------------------------
(* Arithmetic *)

LEMMA Products ==
  ASSUME NEW t \in Nat, NEW j \in Nat, NEW k \in Nat
  PROVE  /\ t * k \in Nat
         /\ t * (k + 1) = t * k + t
         /\ j <= k => t * j <= t * k
<1>1. t * k \in Nat /\ t * j \in Nat
  OBVIOUS
<1>2. t * (k + 1) = t * k + t
  OBVIOUS
<1>3. ASSUME j <= k PROVE t * j <= t * k
  <2>1. PICK d \in Nat : k = j + d
    <3>1. k - j \in Nat /\ k = j + (k - j)
      BY <1>3
    <3> QED BY <3>1
  <2>2. t * k = t * j + t * d /\ t * d \in Nat
    BY <2>1
  <2> QED BY <1>1, <2>2
<1> QED BY <1>1, <1>2, <1>3

\* No call uses more than Top.
LEMMA TopBounds == Top \in Nat /\ \A n \in {0} \union Uses : n \in Nat /\ n <= Top
<1>1. Uses \subseteq Nat
  BY BoundsNatural
<1>2. Uses \subseteq Int /\ Uses # {} /\ IsFiniteSet(Uses)
  BY <1>1, FinitelyMany
<1>3. \E x \in Uses : \A y \in Uses : x >= y
  BY <1>2, FiniteEnds, Zenon
<1>4. Top \in Uses /\ \A y \in Uses : Top >= y
  BY <1>3, Zenon DEF Top, Max
<1> QED BY <1>1, <1>4

\* At most Reach is used between a check and a charge.
LEMMA AdmittedBounds ==
  /\ IsFiniteSet(Admitted) /\ Cardinality(Admitted) \in Nat /\ Cardinality(Callers) \in Nat
  /\ Cardinality(Admitted) <= Cardinality(Callers)
  /\ \A c \in Callers \ Admitted : Cardinality(Admitted) + 1 <= Cardinality(Callers)
<1>1. IsFiniteSet(Callers) /\ Cardinality(Callers) \in Nat /\ Admitted \in SUBSET Callers
  BY FinitelyMany, FS_CardinalityType DEF Admitted
<1>2. IsFiniteSet(Admitted) /\ Cardinality(Admitted) <= Cardinality(Callers)
  BY <1>1, FS_Subset
<1>3. Cardinality(Admitted) \in Nat
  BY <1>2, FS_CardinalityType
<1>4. ASSUME NEW c \in Callers \ Admitted PROVE Cardinality(Admitted) + 1 <= Cardinality(Callers)
  <2>1. Admitted # Callers
    BY <1>4
  <2>2. Cardinality(Callers) # Cardinality(Admitted)
    BY <1>1, <2>1, FS_Subset, Zenon
  <2> QED BY <1>1, <1>2, <1>3, <2>2
<1> QED BY <1>1, <1>2, <1>3, <1>4

\* A caller that is admitted, or is so no longer, counts for one.
LEMMA AdmittedMoves ==
  ASSUME NEW c \in Callers,
         \A d \in Callers \ {c} : call'[d] = call[d]
  PROVE  /\ Admitted' \subseteq Admitted =>
              Cardinality(Admitted)' \in Nat /\ Cardinality(Admitted)' <= Cardinality(Admitted)
         /\ c \in Admitted /\ c \notin Admitted' =>
              Cardinality(Admitted) = Cardinality(Admitted)' + 1
         /\ c \notin Admitted /\ c \in Admitted' =>
              Cardinality(Admitted)' = Cardinality(Admitted) + 1
<1>1. IsFiniteSet(Admitted)
  BY AdmittedBounds
<1>2. \A d \in Callers \ {c} : d \in Admitted' <=> d \in Admitted
  BY DEF Admitted
<1>3. Admitted \subseteq Callers /\ Admitted' \subseteq Callers
  BY DEF Admitted
<1>4. ASSUME Admitted' \subseteq Admitted
      PROVE  Cardinality(Admitted)' \in Nat /\ Cardinality(Admitted)' <= Cardinality(Admitted)
  <2>1. Admitted' \in SUBSET Admitted
    BY <1>4
  <2>2. IsFiniteSet(Admitted') /\ Cardinality(Admitted') <= Cardinality(Admitted)
    BY <1>1, <2>1, FS_Subset
  <2> QED BY <2>2, FS_CardinalityType
<1>5. ASSUME c \in Admitted, c \notin Admitted'
      PROVE  Cardinality(Admitted) = Cardinality(Admitted)' + 1
  <2>1. Admitted' = Admitted \ {c}
    BY <1>2, <1>3, <1>5
  <2>2. Cardinality(Admitted') = Cardinality(Admitted) - 1
    BY <1>1, <1>5, <2>1, FS_RemoveElement
  <2> QED BY <2>2, AdmittedBounds
<1>6. ASSUME c \notin Admitted, c \in Admitted'
      PROVE  Cardinality(Admitted)' = Cardinality(Admitted) + 1
  <2>1. Admitted' = Admitted \cup {c}
    BY <1>2, <1>3, <1>6
  <2> QED BY <1>1, <1>6, <2>1, FS_AddElement
<1> QED BY <1>4, <1>5, <1>6

-----------------------------------------------------------------------------
(* Typing *)

LEMMA TypingInit == Init => TypeOK
<1> SUFFICES ASSUME Init PROVE TypeOK
  OBVIOUS
<1>1. 1 \in Months /\ MaxCalls \in Nat /\ MaxFaults \in Nat
  BY BoundsNatural DEF Months
<1>2. Zero \in [Months -> Nat]
  BY DEF Zero
<1>3. Idle \in Meter
  BY DEF Idle, Meter, Kinds
<1>4. 0 \in 0..MaxCalls /\ 0 \in 0..MaxFaults /\ 0 \in Nat
  BY <1>1
<1>5. [c \in Callers |-> Idle] \in [Callers -> Meter]
  BY <1>3
<1> QED BY <1>1, <1>2, <1>4, <1>5, Zenon DEF Init, TypeOK, Meter

\* A caller moves: what its meter holds keeps its type.
LEMMA MeterMoves ==
  ASSUME TypeOK, NEW c \in Callers, NEW x \in Meter, call' = [call EXCEPT ![c] = x]
  PROVE  call' \in [Callers -> Meter] /\ call'[c] = x /\ \A d \in Callers \ {c} : call'[d] = call[d]
BY DEF TypeOK, Meter

LEMMA TypingStep == TypeOK /\ [Next]_vars => TypeOK'
<1> SUFFICES ASSUME TypeOK, [Next]_vars PROVE TypeOK'
  OBVIOUS
<1>1. /\ enforced \in BOOLEAN /\ month \in Months
      /\ tokens \in [Months -> Nat] /\ cost \in [Months -> Nat]
      /\ call \in [Callers -> Meter]
      /\ calls \in 0..MaxCalls /\ faults \in 0..MaxFaults /\ spent \in Nat /\ lost \in Nat
  BY DEF TypeOK, Meter
<1>2. \A c \in Callers : call[c] \in Meter /\ call[c].used \in Nat /\ call[c].used \in {0} \union Uses
                         /\ call[c].kind \in Kinds
  BY <1>1, TopBounds DEF Meter
<1>3. \A c \in Callers, pc \in {"idle", "cap", "redis", "run", "tokens", "ledger", "answered", "estimate"} :
        [call[c] EXCEPT !.pc = pc] \in Meter
  BY <1>2 DEF Meter
<1>4. Idle \in Meter
  BY DEF Idle, Meter, Kinds
<1>5. MaxCalls \in Nat /\ MaxFaults \in Nat /\ MaxMonth \in Nat /\ Uses \subseteq Nat
  BY BoundsNatural
<1>6. ASSUME Fault PROVE faults' \in 0..MaxFaults
  BY <1>1, <1>5, <1>6 DEF Fault
<1>7. ASSUME NEW c \in Callers, NEW x \in Meter, call' = [call EXCEPT ![c] = x]
      PROVE  call' \in [Callers -> Meter]
  BY <1>1, <1>7
<1>8. ASSUME NEW c \in Callers, NEW pc \in {"idle", "cap", "redis", "run", "tokens", "ledger", "answered", "estimate"}, Goto(c, pc)
      PROVE  call' \in [Callers -> Meter]
  <2>1. call' = [call EXCEPT ![c] = [call[c] EXCEPT !.pc = pc]]
    BY <1>8 DEF Goto
  <2> QED BY <1>3, <1>7, <2>1
<1> DEFINE Typed ==
  /\ enforced \in BOOLEAN /\ month \in Months
  /\ tokens \in [Months -> Nat] /\ cost \in [Months -> Nat]
  /\ call \in [Callers -> Meter]
  /\ calls \in 0..MaxCalls /\ faults \in 0..MaxFaults /\ spent \in Nat /\ lost \in Nat
<1> SUFFICES Typed'
  BY DEF TypeOK, Meter
<1>10. CASE NewMonth
  BY <1>1, <1>5, <1>10 DEF NewMonth, Months
<1>11. ASSUME NEW c \in Callers, NEW k \in Kinds, Start(c, k)
       PROVE  call' \in [Callers -> Meter] /\ calls' \in 0..MaxCalls
  <2> DEFINE x == [pc |-> IF enforced THEN "cap" ELSE IF k = "ledgerOnly" THEN "run" ELSE "redis",
                   kind |-> k, used |-> 0]
  <2>1. x \in Meter
    BY DEF Meter
  <2>2. call' = [call EXCEPT ![c] = x] /\ calls < MaxCalls /\ calls' = calls + 1
    BY <1>11 DEF Start
  <2>3. call' \in [Callers -> Meter]
    <3> HIDE DEF x
    <3> QED BY <1>7, <2>1, <2>2
  <2> QED BY <1>1, <1>5, <2>2, <2>3
<1>12. ASSUME NEW c \in Callers, CheckCap(c)
       PROVE  call' \in [Callers -> Meter] /\ faults' \in 0..MaxFaults
  BY <1>1, <1>6, <1>8, <1>12, Zenon DEF CheckCap
<1>13. ASSUME NEW c \in Callers, CheckTokens(c)
       PROVE  call' \in [Callers -> Meter] /\ faults' \in 0..MaxFaults
  BY <1>1, <1>6, <1>8, <1>13, Zenon DEF CheckTokens
<1>14. ASSUME NEW c \in Callers, NEW n \in Uses, Use(c, n)
       PROVE  call' \in [Callers -> Meter] /\ spent' \in Nat
  <2>1. [call[c] EXCEPT !.used = n] \in Meter
    BY <1>2 DEF Meter
  <2>2. call' = [call EXCEPT ![c] = [call[c] EXCEPT !.used = n]] /\ spent' = spent + n
    BY <1>14 DEF Use
  <2> QED BY <1>1, <1>5, <1>7, <2>1, <2>2
<1>15. ASSUME NEW c \in Callers, NEW ends \in BOOLEAN, End(c, ends)
       PROVE  call' \in [Callers -> Meter]
  <2>1. PICK pc \in {"idle", "cap", "redis", "run", "tokens", "ledger", "answered", "estimate"} : Goto(c, pc)
    BY <1>15 DEF End
  <2> QED BY <1>8, <2>1
<1>16. ASSUME NEW c \in Callers, AddUsage(c)
       PROVE  tokens' \in [Months -> Nat] /\ call' \in [Callers -> Meter] /\ faults' \in 0..MaxFaults
  <2>1. tokens[month] + call[c].used \in Nat
    BY <1>1, <1>2
  <2>2. [tokens EXCEPT ![month] = @ + call[c].used] \in [Months -> Nat]
    BY <1>1, <2>1
  <2>3. PICK x \in Meter : call' = [call EXCEPT ![c] = x]
    BY <1>3, <1>4, <1>16 DEF AddUsage
  <2>4. call' \in [Callers -> Meter]
    BY <1>7, <2>3
  <2> QED BY <1>1, <1>6, <1>16, <2>2, <2>4, Zenon DEF AddUsage
<1>17. ASSUME NEW c \in Callers, Record(c)
       PROVE  /\ cost' \in [Months -> Nat] /\ call' \in [Callers -> Meter]
              /\ faults' \in 0..MaxFaults /\ lost' \in Nat
  <2>1. cost[month] + call[c].used \in Nat /\ lost + call[c].used \in Nat
    BY <1>1, <1>2
  <2>2. [cost EXCEPT ![month] = @ + call[c].used] \in [Months -> Nat]
    BY <1>1, <2>1
  <2>3. PICK x \in Meter : call' = [call EXCEPT ![c] = x]
    BY <1>3, <1>4, <1>17 DEF Record
  <2>4. call' \in [Callers -> Meter]
    BY <1>7, <2>3
  <2>5. cost' \in [Months -> Nat] /\ faults' \in 0..MaxFaults /\ lost' \in Nat
    BY <1>1, <1>6, <1>17, <2>1, <2>2, Zenon DEF Record
  <2> QED BY <2>4, <2>5
<1>18. ASSUME NEW c \in Callers, Crash(c)
       PROVE  call' \in [Callers -> Meter] /\ faults' \in 0..MaxFaults /\ lost' \in Nat
  <2>1. lost + call[c].used \in Nat
    BY <1>1, <1>2
  <2>2. faults' \in 0..MaxFaults
    BY <1>6, <1>18, Zenon DEF Crash
  <2>3. call' = [call EXCEPT ![c] = Idle] /\ lost' = lost + call[c].used
    BY <1>18 DEF Crash
  <2> QED BY <1>4, <1>7, <2>1, <2>2, <2>3
<1>20. ASSUME NEW c \in Callers, NEW k \in Kinds, Start(c, k) PROVE Typed'
  BY <1>1, <1>11, <1>20, Zenon DEF Start
<1>21. ASSUME NEW c \in Callers, CheckCap(c) PROVE Typed'
  BY <1>1, <1>12, <1>21, Zenon DEF CheckCap
<1>22. ASSUME NEW c \in Callers, CheckTokens(c) PROVE Typed'
  BY <1>1, <1>13, <1>22, Zenon DEF CheckTokens
<1>23. ASSUME NEW c \in Callers, NEW n \in Uses, Use(c, n) PROVE Typed'
  BY <1>1, <1>14, <1>23, Zenon DEF Use
<1>24. ASSUME NEW c \in Callers, NEW ends \in BOOLEAN, End(c, ends) PROVE Typed'
  BY <1>1, <1>15, <1>24, Zenon DEF End
<1>25. ASSUME NEW c \in Callers, AddUsage(c) PROVE Typed'
  BY <1>1, <1>16, <1>25, Zenon DEF AddUsage
<1>26. ASSUME NEW c \in Callers, Record(c) PROVE Typed'
  BY <1>1, <1>17, <1>26, Zenon DEF Record
<1>27. ASSUME NEW c \in Callers, Crash(c) PROVE Typed'
  BY <1>1, <1>18, <1>27, Zenon DEF Crash
<1>28. CASE UNCHANGED vars
  BY <1>1, <1>28 DEF vars
<1> QED BY <1>10, <1>20, <1>21, <1>22, <1>23, <1>24, <1>25, <1>26, <1>27, <1>28, Zenon DEF Next

-----------------------------------------------------------------------------
(* The cap *)

\* No row is written, and no caller is newly admitted.
LEMMA Quiet ==
  ASSUME TypeOK, Covered, enforced' = enforced, cost' = cost, month' = month,
         enforced => Cardinality(Admitted)' \in Nat /\ Cardinality(Admitted)' <= Cardinality(Admitted)
  PROVE  Covered'
<1> SUFFICES ASSUME enforced PROVE Covered'
  BY DEF Covered
<1>1. Top * Cardinality(Admitted)' \in Nat /\ Top * Cardinality(Admitted) \in Nat
      /\ Top * Cardinality(Admitted)' <= Top * Cardinality(Admitted)
  BY TopBounds, AdmittedBounds, Products
<1>2. month \in Months /\ cost[month] \in Nat
  BY DEF TypeOK
<1>3. Reach \in Nat /\ Cap \in Nat
  BY TopBounds, AdmittedBounds, Products, BoundsNatural DEF Reach, Top
<1> QED BY <1>1, <1>2, <1>3 DEF Covered, Reach, Top

LEMMA ReachBounds ==
  /\ Reach \in Nat /\ Reach = Top * Cardinality(Callers) /\ Cap \in Nat /\ Cap > 0
  /\ Top * Cardinality(Admitted) \in Nat /\ Top * Cardinality(Admitted) <= Reach
<1>1. Top \in Nat /\ Cardinality(Callers) \in Nat /\ Cardinality(Admitted) \in Nat
      /\ Cardinality(Admitted) <= Cardinality(Callers)
  BY TopBounds, AdmittedBounds
<1>2. Reach = Top * Cardinality(Callers)
  BY <1>1 DEF Reach, Top
<1> HIDE DEF Reach
<1>3. Top * Cardinality(Callers) \in Nat /\ Top * Cardinality(Admitted) \in Nat
      /\ Top * Cardinality(Admitted) <= Top * Cardinality(Callers)
  BY <1>1, Products
<1> QED BY <1>2, <1>3, BoundsNatural

LEMMA CoveredInit == Init => Covered
<1> SUFFICES ASSUME Init PROVE Covered
  OBVIOUS
<1>1. month = 1 /\ 1 \in Months /\ \A m \in Months : cost[m] = 0
  BY BoundsNatural DEF Init, Months, Zero
<1>2. Admitted = {}
  BY DEF Init, Admitted, Idle
<1>3. Top * Cardinality(Admitted) = 0
  BY <1>2, FS_EmptySet, TopBounds
<1> QED BY <1>1, <1>3, ReachBounds DEF Covered, Months

\* A new month starts with what the callers admitted in the last one may still use.
LEMMA MonthKeepsCover == TypeOK /\ Covered /\ NewMonth => Covered'
<1> SUFFICES ASSUME TypeOK, Covered, NewMonth, enforced PROVE Covered'
  BY DEF Covered, NewMonth
<1>1. /\ month \in Nat /\ month' = month + 1 /\ month + 1 \in Months /\ month \in Months
      /\ cost' = cost /\ \A m \in Months : m \in Nat /\ cost[m] \in Nat
  BY BoundsNatural DEF NewMonth, TypeOK, Months
<1>2. Admitted' = Admitted
  BY DEF NewMonth, Admitted
<1>3. cost[month + 1] = 0 /\ cost[month] < Cap + Reach
  BY <1>1, ReachBounds DEF Covered
<1>4. cost'[month'] + Top * Cardinality(Admitted)' < Cap + Reach
  BY <1>1, <1>2, <1>3, ReachBounds
<1>5. ASSUME NEW m \in Months, m < month + 1 PROVE cost[m] < Cap + Reach
  BY <1>1, <1>3, <1>5 DEF Covered
<1>6. ASSUME NEW m \in Months, m > month + 1 PROVE cost[m] = 0
  BY <1>1, <1>6 DEF Covered
<1> QED BY <1>1, <1>4, <1>5, <1>6 DEF Covered, Reach

\* A caller is admitted only below the cap.
LEMMA CheckKeepsCover ==
  ASSUME TypeOK, Covered, NEW c \in Callers, CheckCap(c)
  PROVE  Covered'
<1>1. /\ call \in [Callers -> Meter] /\ enforced' = enforced /\ cost' = cost /\ month' = month
      /\ call[c].pc = "cap" /\ c \notin Admitted
  BY DEF CheckCap, TypeOK, Meter, Admitted
<1>2. \A d \in Callers \ {c} : call'[d] = call[d]
  BY <1>1 DEF CheckCap, Goto
<1>3. CASE c \notin Admitted'
  <2>1. Admitted' \subseteq Admitted
    BY <1>2, <1>3 DEF Admitted
  <2> QED BY <1>1, <1>2, <2>1, AdmittedMoves, Quiet
<1>4. CASE c \in Admitted'
  <2> SUFFICES ASSUME enforced PROVE Covered'
    BY <1>1 DEF Covered
  <2>1. Cardinality(Admitted)' = Cardinality(Admitted) + 1
    BY <1>1, <1>2, <1>4, AdmittedMoves
  <2>2. Cardinality(Admitted) + 1 <= Cardinality(Callers) /\ Cardinality(Admitted) \in Nat
    BY <1>1, AdmittedBounds
  <2>3. call'[c].pc # "idle"
    BY <1>4 DEF Admitted
  <2>4. ~Goto(c, "idle")
    BY <1>1, <2>3 DEF Goto, Meter
  <2>5. ~Spent(cost[month], Cap)
    BY <2>4 DEF CheckCap
  <2>6. month \in Months /\ cost[month] \in Nat /\ cost[month] < Cap
    BY <2>5, ReachBounds DEF Spent, TypeOK
  <2>7. Top * (Cardinality(Admitted) + 1) <= Reach /\ Top * (Cardinality(Admitted) + 1) \in Nat
    BY <2>2, TopBounds, AdmittedBounds, Products, ReachBounds
  <2>8. cost'[month'] + Top * Cardinality(Admitted)' < Cap + Reach
    BY <1>1, <2>1, <2>6, <2>7, ReachBounds
  <2> QED BY <1>1, <2>8 DEF Covered, Reach
<1> QED BY <1>3, <1>4

\* A row holds no more than was kept for its call.
LEMMA RecordKeepsCover ==
  ASSUME TypeOK, TypeOK', Covered, NEW c \in Callers, Record(c)
  PROVE  Covered'
<1>1. /\ call \in [Callers -> Meter] /\ enforced' = enforced /\ month' = month
      /\ c \in Admitted /\ month \in Months
      /\ cost \in [Months -> Nat]
  BY DEF Record, TypeOK, Meter, Admitted
<1>2. (\A d \in Callers \ {c} : call'[d] = call[d]) /\ call'[c].pc \in {"estimate", "idle"}
  BY <1>1 DEF Record, Idle, Meter
<1>3. c \notin Admitted'
  BY <1>2 DEF Admitted
<1>4. Cardinality(Admitted) = Cardinality(Admitted)' + 1 /\ Cardinality(Admitted)' \in Nat
  <2>1. Admitted' \subseteq Admitted
    BY <1>2, <1>3 DEF Admitted
  <2> QED BY <1>1, <1>2, <1>3, <2>1, AdmittedMoves
<1>5. call[c].used \in Nat /\ call[c].used <= Top
  BY <1>1, TopBounds DEF Meter
<1> SUFFICES ASSUME enforced PROVE Covered'
  BY <1>1 DEF Covered
<1>6. Top * Cardinality(Admitted) = Top * Cardinality(Admitted)' + Top /\ Top * Cardinality(Admitted)' \in Nat
  BY <1>4, TopBounds, Products
<1>7. (\A m \in Months \ {month} : cost'[m] = cost[m]) /\ cost'[month] <= cost[month] + Top
  <2>1. CASE cost' = cost
    BY <1>1, <2>1, TopBounds
  <2>2. CASE cost' = [cost EXCEPT ![month] = @ + call[c].used]
    BY <1>1, <1>5, <2>2, TopBounds
  <2> QED BY <2>1, <2>2 DEF Record
<1>8. cost'[month'] \in Nat /\ cost[month] \in Nat
  BY <1>1 DEF TypeOK
<1>9. cost[month] + Top * Cardinality(Admitted) < Cap + Reach
  BY DEF Covered
<1>10. cost'[month'] + Top * Cardinality(Admitted)' < Cap + Reach
  BY <1>1, <1>6, <1>7, <1>8, <1>9, TopBounds, ReachBounds
<1>11. \A m \in Months : m < month \/ m > month => m # month
  BY DEF Months
<1> QED BY <1>1, <1>7, <1>10, <1>11 DEF Covered, Reach

LEMMA CoveredStep == TypeOK /\ TypeOK' /\ Covered /\ [Next]_vars => Covered'
<1> SUFFICES ASSUME TypeOK, TypeOK', Covered, [Next]_vars PROVE Covered'
  OBVIOUS
<1>1. call \in [Callers -> Meter]
  BY DEF TypeOK, Meter
<1>2. ASSUME NEW c \in Callers, \A d \in Callers \ {c} : call'[d] = call[d],
             enforced => (c \in Admitted' => c \in Admitted),
             enforced' = enforced, cost' = cost, month' = month
      PROVE  Covered'
  <2>1. ASSUME enforced
        PROVE  Cardinality(Admitted)' \in Nat /\ Cardinality(Admitted)' <= Cardinality(Admitted)
    <3>1. Admitted' \subseteq Admitted
      BY <1>2, <2>1 DEF Admitted
    <3> QED BY <1>2, <3>1, AdmittedMoves
  <2> QED BY <1>2, <2>1, Quiet
<1>3. ASSUME NEW c \in Callers, NEW k \in Kinds, Start(c, k) PROVE Covered'
  <2>1. enforced => call'[c].pc = "cap"
    BY <1>1, <1>3 DEF Start
  <2> QED BY <1>1, <1>2, <1>3, <2>1 DEF Start, Admitted
<1>4. ASSUME NEW c \in Callers, CheckTokens(c) PROVE Covered'
  <2>1. call[c].pc = "redis" /\ c \in Admitted
    BY <1>4 DEF CheckTokens, Admitted
  <2> QED BY <1>1, <1>2, <1>4, <2>1 DEF CheckTokens, Goto
<1>5. ASSUME NEW c \in Callers, NEW n \in Uses, Use(c, n) PROVE Covered'
  <2>1. c \in Admitted
    BY <1>5 DEF Use, Admitted
  <2> QED BY <1>1, <1>2, <1>5, <2>1 DEF Use
<1>6. ASSUME NEW c \in Callers, NEW ends \in BOOLEAN, End(c, ends) PROVE Covered'
  <2>1. c \in Admitted
    BY <1>6 DEF End, Admitted
  <2> QED BY <1>1, <1>2, <1>6, <2>1 DEF End, Goto
<1>7. ASSUME NEW c \in Callers, AddUsage(c) PROVE Covered'
  <2>1. c \in Admitted' => c \in Admitted
    <3>1. CASE call[c].pc = "tokens"
      BY <3>1 DEF Admitted
    <3>2. CASE call[c].pc # "tokens"
      <4>1. call'[c] = Idle
        BY <1>1, <1>7, <3>2 DEF AddUsage
      <4> QED BY <4>1 DEF Admitted, Idle
    <3> QED BY <3>1, <3>2
  <2> QED BY <1>1, <1>2, <1>7, <2>1 DEF AddUsage
<1>8. ASSUME NEW c \in Callers, Crash(c) PROVE Covered'
  <2>1. c \in Admitted
    BY <1>8 DEF Crash, Admitted
  <2> QED BY <1>1, <1>2, <1>8, <2>1 DEF Crash
<1>9. CASE UNCHANGED vars
  <2>1. Admitted' = Admitted /\ enforced' = enforced /\ cost' = cost /\ month' = month
    BY <1>9 DEF vars, Admitted
  <2> QED BY <2>1, Quiet, AdmittedBounds
<1> QED BY <1>3, <1>4, <1>5, <1>6, <1>7, <1>8, <1>9, MonthKeepsCover, CheckKeepsCover, RecordKeepsCover,
           Zenon DEF Next

LEMMA CoverHolds == TypeOK /\ Covered => CapHolds
<1> SUFFICES ASSUME TypeOK, Covered, enforced, NEW m \in Months PROVE cost[m] < Cap + Reach
  BY DEF CapHolds
<1>1. month \in Nat /\ m \in Nat /\ month \in Months /\ cost[month] \in Nat
  BY DEF TypeOK, Months
<1>2. CASE m = month
  BY <1>1, <1>2, ReachBounds DEF Covered
<1>3. CASE m < month
  BY <1>3 DEF Covered
<1>4. CASE m > month
  BY <1>4, ReachBounds DEF Covered
<1> QED BY <1>1, <1>2, <1>3, <1>4

LEMMA BudgetStep == BudgetInv /\ [AiJobsNext]_<<vars, faqVars, focus>> => BudgetInv'
<1> SUFFICES ASSUME TypeOK, Covered, [AiJobsNext]_<<vars, faqVars, focus>> PROVE TypeOK' /\ Covered'
  BY DEF BudgetInv
<1>1. [Next]_vars
  BY DEF AiJobsNext
<1> QED BY <1>1, TypingStep, CoveredStep

\* Budgets, rows and meters keep their types.
THEOREM BudgetTyping == AiJobsSpec => []TypeOK
<1>1. AiJobsInit => BudgetInv
  BY TypingInit, CoveredInit DEF AiJobsInit, BudgetInv
<1>2. BudgetInv => TypeOK
  BY DEF BudgetInv
<1> QED BY <1>1, <1>2, BudgetStep, PTL DEF AiJobsSpec

\* While billing is enforced the rows of a month stay below the cap of the plan and one
\* call of every caller: a caller that has passed assertAiBudget() adds one row before it
\* is checked again, and one that runs into the next month is among that month's callers.
THEOREM CapKept == AiJobsSpec => []CapHolds
<1>1. AiJobsInit => BudgetInv
  BY TypingInit, CoveredInit DEF AiJobsInit, BudgetInv
<1>2. BudgetInv => CapHolds
  BY CoverHolds DEF BudgetInv
<1> QED BY <1>1, <1>2, BudgetStep, PTL DEF AiJobsSpec

-----------------------------------------------------------------------------
(* What was spent, lost and recorded *)

\* What the meters k of the callers hold that no row was written for yet.
Due(m) == IF m.pc = "estimate" THEN 0 ELSE m.used
Unrecorded(k) == {c \in Callers : k[c].pc # "estimate"}
Held(k) == SumFunctionOnSet([c \in Unrecorded(k) |-> k[c].used], Unrecorded(k))
Rows(rows) == SumFunctionOnSet(rows, Months)

\* A caller that has not reached the model has used nothing.
Unused == \A c \in Callers : call[c].pc \in {"idle", "cap", "redis"} => call[c].used = 0
Balanced == spent = lost + Rows(cost) + Held(call)

LEMMA MeterFields ==
  ASSUME NEW m \in Meter
  PROVE  m.used \in Nat /\ Due(m) \in Nat
<1>1. m.used \in Nat
  BY TopBounds DEF Meter
<1> QED BY <1>1 DEF Due

\* One caller and the others.
LEMMA HeldSplits ==
  ASSUME NEW k \in [Callers -> Meter], NEW c \in Callers,
         NEW others, others = {d \in Callers \ {c} : k[d].pc # "estimate"},
         NEW f, \A d \in others : f[d] = k[d].used
  PROVE  /\ SumFunctionOnSet(f, others) \in Int
         /\ Held(k) = SumFunctionOnSet(f, others) + Due(k[c])
<1> DEFINE g == [d \in Unrecorded(k) |-> k[d].used]
<1>1. IsFiniteSet(Callers) /\ IsFiniteSet(Unrecorded(k)) /\ IsFiniteSet(others) /\ others \in SUBSET Unrecorded(k)
  BY FinitelyMany, FS_Subset DEF Unrecorded
<1>2. \A d \in Unrecorded(k) : g[d] = k[d].used /\ g[d] \in Int
  <2>1. \A d \in Callers : k[d].used \in Nat
    BY MeterFields
  <2> QED BY <2>1 DEF Unrecorded
<1>3. \A d \in others : f[d] = g[d]
  BY <1>1, <1>2
<1>4. Held(k) = SumFunctionOnSet(g, Unrecorded(k))
  BY DEF Held
<1> HIDE DEF g
<1>5. SumFunctionOnSet(f, others) = SumFunctionOnSet(g, others)
  BY <1>1, <1>3, SumsSame
<1>6. /\ \A T \in SUBSET Unrecorded(k) : SumFunctionOnSet(g, T) \in Int
      /\ \A T \in SUBSET Unrecorded(k) : \A x \in T :
           SumFunctionOnSet(g, T) = g[x] + SumFunctionOnSet(g, T \ {x})
  <2>1. IsFiniteSet(Unrecorded(k)) /\ \A x \in Unrecorded(k) : g[x] \in Int
    BY <1>1, <1>2
  <2> QED BY <2>1, SumTakes
<1>7. Held(k) = SumFunctionOnSet(g, others) + Due(k[c])
  <2>1. CASE c \in Unrecorded(k)
    <3>1. others = Unrecorded(k) \ {c}
      BY <2>1 DEF Unrecorded
    <3>2. SumFunctionOnSet(g, Unrecorded(k)) = g[c] + SumFunctionOnSet(g, others)
      BY <1>6, <2>1, <3>1
    <3>3. Due(k[c]) = g[c] /\ g[c] \in Int
      BY <1>2, <2>1 DEF Due, Unrecorded
    <3>4. SumFunctionOnSet(g, others) \in Int
      BY <1>1, <1>6
    <3> QED BY <1>4, <3>2, <3>3, <3>4
  <2>2. CASE c \notin Unrecorded(k)
    <3>1. others = Unrecorded(k)
      BY <2>2 DEF Unrecorded
    <3>2. Due(k[c]) = 0
      BY <2>2 DEF Unrecorded, Due
    <3>3. SumFunctionOnSet(g, others) \in Int
      BY <1>1, <1>6
    <3>4. Held(k) = SumFunctionOnSet(g, others)
      BY <1>4, <3>1
    <3> QED BY <3>2, <3>3, <3>4
  <2> QED BY <2>1, <2>2
<1> QED BY <1>1, <1>5, <1>6, <1>7

\* One caller moves: what is held changes by what is due from it.
LEMMA HeldMoves ==
  ASSUME NEW k \in [Callers -> Meter], NEW l \in [Callers -> Meter], NEW c \in Callers,
         \A d \in Callers \ {c} : l[d] = k[d]
  PROVE  \E r \in Int : Held(k) = r + Due(k[c]) /\ Held(l) = r + Due(l[c])
<1> PICK others : others = {d \in Callers \ {c} : k[d].pc # "estimate"}
  OBVIOUS
<1> PICK f : f = [d \in others |-> k[d].used]
  OBVIOUS
<1>1. \A d \in others : f[d] = k[d].used
  OBVIOUS
<1>2. SumFunctionOnSet(f, others) \in Int /\ Held(k) = SumFunctionOnSet(f, others) + Due(k[c])
  BY <1>1, HeldSplits
<1>3. others = {d \in Callers \ {c} : l[d].pc # "estimate"} /\ \A d \in others : f[d] = l[d].used
  BY <1>1
<1>4. Held(l) = SumFunctionOnSet(f, others) + Due(l[c])
  BY <1>3, HeldSplits
<1> QED BY <1>2, <1>4

LEMMA RowsMove ==
  ASSUME NEW rows \in [Months -> Nat], NEW m \in Months, NEW n \in Nat
  PROVE  /\ Rows(rows) \in Int
         /\ Rows([rows EXCEPT ![m] = @ + n]) = Rows(rows) + n
<1> PICK more : more = [rows EXCEPT ![m] = @ + n]
  OBVIOUS
<1>1. /\ more[m] = rows[m] + n /\ (\A x \in Months : more[x] \in Int /\ rows[x] \in Int)
      /\ \A x \in Months \ {m} : more[x] = rows[x]
  OBVIOUS
<1>2. IsFiniteSet(Months) /\ IsFiniteSet(Months \ {m})
  <2>1. 1 \in Int /\ MaxMonth \in Int
    BY BoundsNatural
  <2> QED BY <2>1, FS_Interval, FS_Subset DEF Months
<1>3. /\ SumFunctionOnSet(rows, Months \ {m}) \in Int
      /\ SumFunctionOnSet(rows, Months) = rows[m] + SumFunctionOnSet(rows, Months \ {m})
  BY <1>1, <1>2, SumMinus
<1>4. SumFunctionOnSet(more, Months) = more[m] + SumFunctionOnSet(more, Months \ {m})
  BY <1>1, <1>2, SumMinus
<1>5. SumFunctionOnSet(more, Months \ {m}) = SumFunctionOnSet(rows, Months \ {m})
  BY <1>1, <1>2, SumsSame
<1> PICK r : r = SumFunctionOnSet(rows, Months \ {m})
  OBVIOUS
<1>6. Rows(rows) = rows[m] + r /\ Rows(more) = more[m] + r /\ r \in Int
  BY <1>3, <1>4, <1>5 DEF Rows
<1>7. rows[m] \in Int /\ more[m] = rows[m] + n
  BY <1>1
<1>8. Rows(more) = Rows(rows) + n /\ Rows(rows) \in Int
  BY <1>6, <1>7
<1> QED BY <1>8

LEMMA BalanceBegins == Init => Unused /\ Balanced
<1> SUFFICES ASSUME Init PROVE Unused /\ Balanced
  OBVIOUS
<1>1. cost = Zero /\ call = [c \in Callers |-> Idle] /\ spent = 0 /\ lost = 0
  BY DEF Init
<1>2. \A c \in Callers : call[c].used = 0 /\ call[c].pc = "idle"
  BY <1>1 DEF Idle
<1>3. IsFiniteSet(Callers) /\ IsFiniteSet(Months)
  <2>1. 1 \in Int /\ MaxMonth \in Int
    BY BoundsNatural
  <2> QED BY <2>1, FS_Interval, FinitelyMany DEF Months
<1>4. \A m \in Months : cost[m] = 0
  BY <1>1 DEF Zero
<1>5. Rows(cost) = 0
  BY <1>3, <1>4, SumOfNone DEF Rows
<1>6. Held(call) = 0
  <2> PICK f : f = [c \in Unrecorded(call) |-> call[c].used]
    OBVIOUS
  <2>1. \A c \in Unrecorded(call) : f[c] = 0
    BY <1>2 DEF Unrecorded
  <2>2. IsFiniteSet(Unrecorded(call))
    BY <1>3, FS_Subset DEF Unrecorded
  <2>3. SumFunctionOnSet(f, Unrecorded(call)) = 0
    BY <2>1, <2>2, SumOfNone
  <2> QED BY <2>3 DEF Held
<1> QED BY <1>1, <1>2, <1>5, <1>6 DEF Unused, Balanced

\* One caller moves, and what it used is spent, lost or in a row: the balance holds.
LEMMA BalanceMoves ==
  ASSUME TypeOK, TypeOK', Unused, Balanced, NEW c \in Callers, NEW x \in Meter,
         call' = [call EXCEPT ![c] = x],
         x.pc \in {"idle", "cap", "redis"} => x.used = 0,
         NEW more \in Nat, NEW gone \in Nat, NEW row \in Nat,
         spent' = spent + more, lost' = lost + gone, Rows(cost') = Rows(cost) + row,
         Due(call[c]) + more = Due(x) + gone + row
  PROVE  Unused' /\ Balanced'
<1>1. call \in [Callers -> Meter] /\ call' \in [Callers -> Meter] /\ spent \in Nat /\ lost \in Nat
      /\ cost \in [Months -> Nat] /\ month \in Months
  BY DEF TypeOK, Meter
<1>2. call'[c] = x /\ \A d \in Callers \ {c} : call'[d] = call[d]
  BY <1>1
<1>3. PICK r \in Int : Held(call) = r + Due(call[c]) /\ Held(call') = r + Due(call'[c])
  BY <1>1, <1>2, HeldMoves
<1>4. Due(call[c]) \in Nat /\ Due(x) \in Nat
  BY <1>1, MeterFields
<1>5. Rows(cost) \in Int
  BY <1>1, RowsMove
<1>6. Unused'
  BY <1>2 DEF Unused
<1>7. spent' = lost' + Rows(cost') + Held(call')
  <2> PICK s, t, u, v : s = Rows(cost) /\ t = Rows(cost') /\ u = Due(call[c]) /\ v = Due(x)
    OBVIOUS
  <2>1. spent = lost + s + (r + u)
    BY <1>3 DEF Balanced
  <2>2. Held(call') = r + v
    BY <1>2, <1>3
  <2>3. s \in Int /\ u \in Nat /\ v \in Nat /\ t = s + row /\ u + more = v + gone + row
    BY <1>4, <1>5
  <2>4. spent' = lost' + t + (r + v)
    BY <1>1, <2>1, <2>3
  <2> QED BY <2>2, <2>4
<1> QED BY <1>6, <1>7 DEF Balanced

LEMMA BalanceStep == TypeOK /\ TypeOK' /\ Unused /\ Balanced /\ [Next]_vars => Unused' /\ Balanced'
<1> SUFFICES ASSUME TypeOK, TypeOK', Unused, Balanced, [Next]_vars PROVE Unused' /\ Balanced'
  OBVIOUS
<1> DEFINE Goal == Unused' /\ Balanced'
<1>1. call \in [Callers -> Meter] /\ spent \in Nat /\ lost \in Nat /\ cost \in [Months -> Nat] /\ month \in Months
  BY DEF TypeOK, Meter
<1>2. Rows(cost) \in Int
  BY <1>1, RowsMove
<1>3. ASSUME NEW c \in Callers
      PROVE  /\ call[c] \in Meter /\ call[c].used \in Nat /\ Idle \in Meter /\ Idle.used = 0 /\ Idle.pc = "idle"
             /\ \A pc \in {"idle", "cap", "redis", "run", "tokens", "ledger", "answered", "estimate"} :
                  /\ [call[c] EXCEPT !.pc = pc] \in Meter
                  /\ [call[c] EXCEPT !.pc = pc].pc = pc
                  /\ [call[c] EXCEPT !.pc = pc].used = call[c].used
  <2>1. call[c] \in Meter
    BY <1>1
  <2>2. call[c].used \in Nat
    BY <2>1, MeterFields
  <2> QED BY <2>1, <2>2 DEF Meter, Idle, Kinds
<1>4. ASSUME call' = call, spent' = spent, lost' = lost, cost' = cost PROVE Goal
  BY <1>4 DEF Unused, Balanced
\* A step that only moves a caller on, which keeps what is due from it.
<1>5. ASSUME NEW c \in Callers, NEW pc \in {"idle", "cap", "redis", "run", "tokens", "ledger", "answered"},
             call' = [call EXCEPT ![c] = [call[c] EXCEPT !.pc = pc]],
             call[c].pc # "estimate", pc \in {"idle", "cap", "redis"} => call[c].used = 0,
             spent' = spent, lost' = lost, cost' = cost
      PROVE  Goal
  <2> PICK x : x = [call[c] EXCEPT !.pc = pc]
    OBVIOUS
  <2>1. x \in Meter /\ x.pc = pc /\ x.used = call[c].used /\ call[c].used \in Nat
    <3>1. pc \in {"idle", "cap", "redis", "run", "tokens", "ledger", "answered", "estimate"}
      OBVIOUS
    <3>2. /\ [call[c] EXCEPT !.pc = pc] \in Meter
          /\ [call[c] EXCEPT !.pc = pc].pc = pc
          /\ [call[c] EXCEPT !.pc = pc].used = call[c].used
          /\ call[c].used \in Nat
      BY <1>3, <3>1, Zenon
    <3> QED BY <3>2, Zenon
  <2>2. Due(call[c]) = call[c].used /\ Due(x) = call[c].used
    BY <1>5, <2>1 DEF Due
  <2>3. call' = [call EXCEPT ![c] = x] /\ (x.pc \in {"idle", "cap", "redis"} => x.used = 0)
    BY <1>5, <2>1
  <2>4. spent' = spent + 0 /\ lost' = lost + 0 /\ Rows(cost') = Rows(cost) + 0
    BY <1>1, <1>2, <1>5
  <2>5. Due(call[c]) + 0 = Due(x) + 0 + 0 /\ 0 \in Nat
    BY <2>1, <2>2
  <2> QED BY <2>1, <2>3, <2>4, <2>5, BalanceMoves
<1>6. CASE NewMonth
  BY <1>4, <1>6 DEF NewMonth
<1>7. ASSUME NEW c \in Callers, NEW k \in Kinds, Start(c, k) PROVE Goal
  <2> PICK x : x = [pc |-> IF enforced THEN "cap" ELSE IF k = "ledgerOnly" THEN "run" ELSE "redis",
                    kind |-> k, used |-> 0]
    OBVIOUS
  <2>1. x \in Meter /\ x.used = 0
    BY DEF Meter
  <2>2. call' = [call EXCEPT ![c] = x] /\ call[c].pc = "idle" /\ spent' = spent /\ lost' = lost /\ cost' = cost
    BY <1>7 DEF Start
  <2>3. Due(call[c]) = 0 /\ Due(x) = 0
    BY <2>1, <2>2 DEF Due, Unused
  <2>4. spent' = spent + 0 /\ lost' = lost + 0 /\ Rows(cost') = Rows(cost) + 0
    BY <1>1, <1>2, <2>2
  <2>5. Due(call[c]) + 0 = Due(x) + 0 + 0 /\ 0 \in Nat
    BY <2>3
  <2> QED BY <2>1, <2>2, <2>4, <2>5, BalanceMoves
<1>8. ASSUME NEW c \in Callers, CheckCap(c) PROVE Goal
  <2>1. PICK pc \in {"idle", "redis", "run"} : Goto(c, pc)
    BY <1>8 DEF CheckCap
  <2>2. call[c].pc = "cap" /\ call[c].used = 0 /\ spent' = spent /\ lost' = lost /\ cost' = cost
    BY <1>8 DEF CheckCap, Unused
  <2> QED BY <1>5, <2>1, <2>2 DEF Goto
<1>9. ASSUME NEW c \in Callers, CheckTokens(c) PROVE Goal
  <2>1. PICK pc \in {"idle", "run"} : Goto(c, pc)
    BY <1>9 DEF CheckTokens
  <2>2. call[c].pc = "redis" /\ call[c].used = 0 /\ spent' = spent /\ lost' = lost /\ cost' = cost
    BY <1>9 DEF CheckTokens, Unused
  <2> QED BY <1>5, <2>1, <2>2 DEF Goto
<1>10. ASSUME NEW c \in Callers, NEW n \in Uses, Use(c, n) PROVE Goal
  <2> PICK x : x = [call[c] EXCEPT !.used = n]
    OBVIOUS
  <2>1. call[c].pc = "run" /\ call[c].used = 0 /\ call' = [call EXCEPT ![c] = x] /\ spent' = spent + n
        /\ lost' = lost /\ cost' = cost
    BY <1>10 DEF Use
  <2>2. x \in Meter /\ x.pc = "run" /\ x.used = n /\ n \in Nat
    BY <1>3, <2>1, BoundsNatural DEF Meter
  <2>3. Due(call[c]) = 0 /\ Due(x) = n
    BY <2>1, <2>2 DEF Due
  <2>4. lost' = lost + 0 /\ Rows(cost') = Rows(cost) + 0 /\ Due(call[c]) + n = Due(x) + 0 + 0 /\ 0 \in Nat
    BY <1>1, <1>2, <2>1, <2>2, <2>3
  <2> QED BY <2>1, <2>2, <2>4, BalanceMoves
<1>11. ASSUME NEW c \in Callers, NEW ends \in BOOLEAN, End(c, ends) PROVE Goal
  <2>1. PICK pc \in {"idle", "tokens", "answered", "ledger"} :
          Goto(c, pc) /\ (pc = "idle" => ~Charged(c, ends))
    BY <1>11 DEF End
  <2>2. call[c].pc = "run" /\ spent' = spent /\ lost' = lost /\ cost' = cost
    BY <1>11 DEF End
  <2>3. pc = "idle" => call[c].used = 0
    <3>1. call[c].used \in Nat
      BY <1>3
    <3> QED BY <2>1, <3>1 DEF Charged
  <2> QED BY <1>5, <2>1, <2>2, <2>3 DEF Goto
<1>12. ASSUME NEW c \in Callers, AddUsage(c) PROVE Goal
  <2>1. /\ call[c].pc \in {"tokens", "estimate"} /\ spent' = spent /\ lost' = lost /\ cost' = cost
        /\ call' = [call EXCEPT ![c] = IF call[c].pc = "tokens" THEN [call[c] EXCEPT !.pc = "ledger"] ELSE Idle]
    BY <1>12 DEF AddUsage
  <2>2. CASE call[c].pc = "tokens"
    <3>1. call' = [call EXCEPT ![c] = [call[c] EXCEPT !.pc = "ledger"]]
      BY <2>1, <2>2
    <3> QED BY <1>5, <2>1, <2>2, <3>1
  <2>3. CASE call[c].pc = "estimate"
    <3> PICK x : x = Idle
      OBVIOUS
    <3>1. call' = [call EXCEPT ![c] = x] /\ x \in Meter /\ x.used = 0 /\ x.pc = "idle"
      BY <1>3, <2>1, <2>3
    <3>2. Due(call[c]) = 0 /\ Due(x) = 0
      BY <2>3, <3>1 DEF Due
    <3>3. spent' = spent + 0 /\ lost' = lost + 0 /\ Rows(cost') = Rows(cost) + 0 /\ 0 \in Nat
          /\ Due(call[c]) + 0 = Due(x) + 0 + 0
      BY <1>1, <1>2, <2>1, <3>2
    <3> QED BY <3>1, <3>3, BalanceMoves
  <2> QED BY <2>1, <2>2, <2>3
<1>13. ASSUME NEW c \in Callers, Record(c) PROVE Goal
  <2> PICK n : n = call[c].used
    OBVIOUS
  <2> PICK x : x = IF call[c].pc = "answered" THEN [call[c] EXCEPT !.pc = "estimate"] ELSE Idle
    OBVIOUS
  <2>1. /\ call[c].pc \in {"ledger", "answered"} /\ spent' = spent
        /\ call' = [call EXCEPT ![c] = x]
        /\ \/ cost' = [cost EXCEPT ![month] = @ + n] /\ lost' = lost
           \/ cost' = cost /\ lost' = lost + n
    BY <1>13 DEF Record
  <2>2. n \in Nat /\ x \in Meter /\ (x.pc = "estimate" \/ (x.pc = "idle" /\ x.used = 0))
    BY <1>3
  <2>3. Due(call[c]) = n /\ Due(x) = 0
    BY <2>1, <2>2 DEF Due
  <2>4. spent' = spent + 0 /\ 0 \in Nat /\ (x.pc \in {"idle", "cap", "redis"} => x.used = 0)
        /\ Due(call[c]) + 0 = Due(x) + 0 + n /\ Due(call[c]) + 0 = Due(x) + n + 0
    BY <1>1, <2>1, <2>2, <2>3
  <2>5. CASE cost' = [cost EXCEPT ![month] = @ + n] /\ lost' = lost
    <3>1. Rows([cost EXCEPT ![month] = @ + n]) = Rows(cost) + n
      BY <1>1, <2>2, RowsMove
    <3>2. Rows(cost') = Rows(cost) + n /\ lost' = lost + 0
      BY <1>1, <2>5, <3>1
    <3> QED BY <2>1, <2>2, <2>4, <3>2, BalanceMoves
  <2>6. CASE cost' = cost /\ lost' = lost + n
    <3>1. Rows(cost') = Rows(cost) + 0
      BY <1>2, <2>6
    <3> QED BY <2>1, <2>2, <2>4, <2>6, <3>1, BalanceMoves
  <2> QED BY <2>1, <2>5, <2>6
<1>14. ASSUME NEW c \in Callers, Crash(c) PROVE Goal
  <2> PICK n, x : n = call[c].used /\ x = Idle
    OBVIOUS
  <2>1. /\ call[c].pc \in {"run", "tokens", "ledger", "answered"} /\ spent' = spent /\ cost' = cost
        /\ lost' = lost + n /\ call' = [call EXCEPT ![c] = x]
    BY <1>14 DEF Crash
  <2>2. n \in Nat /\ x \in Meter /\ x.used = 0 /\ x.pc = "idle"
    BY <1>3
  <2>3. Due(call[c]) = n /\ Due(x) = 0
    BY <2>1, <2>2 DEF Due
  <2>4. spent' = spent + 0 /\ Rows(cost') = Rows(cost) + 0 /\ 0 \in Nat /\ Due(call[c]) + 0 = Due(x) + n + 0
    BY <1>1, <1>2, <2>1, <2>2, <2>3
  <2> QED BY <2>1, <2>2, <2>4, BalanceMoves
<1>15. CASE UNCHANGED vars
  BY <1>4, <1>15 DEF vars
<1> QED
  BY <1>6, <1>7, <1>8, <1>9, <1>10, <1>11, <1>12, <1>13, <1>14, <1>15, Zenon DEF Next

LEMMA BalancePrices == TypeOK /\ Balanced => Priced
<1> SUFFICES ASSUME TypeOK, Balanced PROVE Priced
  OBVIOUS
<1>1. DOMAIN cost = Months
  BY DEF TypeOK
<1>2. SumFunction(cost) = Rows(cost)
  BY <1>1 DEF SumFunction, Rows
<1>3. SumFunction([c \in Unrecorded(call) |-> call[c].used]) = Held(call)
  BY DEF SumFunction, Held
<1>4. spent = lost + SumFunction(cost) + SumFunction([c \in Unrecorded(call) |-> call[c].used])
  BY <1>2, <1>3 DEF Balanced
<1> QED BY <1>4 DEF Priced, Unrecorded

\* Every unit that was spent on a priced call is accounted for: it is in the one row of its
\* call, was lost with a failed write or a dead process, or is still in the meter of a call
\* under way (metered(), recordLlmCost()).
THEOREM PricedOnce == AiJobsSpec => []Priced
<1> DEFINE Inv == BudgetInv /\ Unused /\ Balanced
<1>1. AiJobsInit => Inv
  BY TypingInit, CoveredInit, BalanceBegins DEF AiJobsInit, BudgetInv
<1>2. Inv /\ [AiJobsNext]_<<vars, faqVars, focus>> => Inv'
  <2> SUFFICES ASSUME Inv, [AiJobsNext]_<<vars, faqVars, focus>> PROVE Inv'
    OBVIOUS
  <2>1. BudgetInv'
    BY BudgetStep
  <2>2. [Next]_vars
    BY DEF AiJobsNext
  <2>3. TypeOK /\ TypeOK'
    BY <2>1 DEF BudgetInv
  <2> QED BY <2>1, <2>2, <2>3, BalanceStep
<1>3. Inv => Priced
  BY BalancePrices DEF BudgetInv
<1> QED BY <1>1, <1>2, <1>3, PTL DEF AiJobsSpec

-----------------------------------------------------------------------------
(* The drafts: what holds of them between two steps *)

JobRecord == [state : {"waiting", "active", "done", "failed"}, tries : Nat]
RunRecord == [pc : {"idle", "run"}, job : Nat, todo : SUBSET SUBSET Tickets]
DraftRecord == [tickets : SUBSET Tickets, status : {"pending", "approved", "rejected"}, documents : Nat]
ReviewRecord == [pc : {"idle", "read", "stored"}, draft : Nat]

FaqTyped ==
  /\ jobs \in Seq(JobRecord) /\ worker \in [Workers -> RunRecord]
  /\ drafts \in Seq(DraftRecord) /\ review \in [Reviewers -> ReviewRecord]
  /\ arrived \subseteq Tickets /\ overlapped \in BOOLEAN /\ crossed \subseteq DOMAIN drafts

Running(w) == worker[w].pc = "run"
Kept(d) == drafts[d].status # "rejected"

\* One run at a time, or runs overlapped.
Alone == \A v, w \in Workers : Running(v) /\ Running(w) => v = w \/ overlapped

\* What is drafted, and what the run still has to draft, is apart.
Apart == overlapped \/ crossed # {} \/
  /\ \A d, e \in DOMAIN drafts :
       d # e /\ Kept(d) /\ Kept(e) => drafts[d].tickets \intersect drafts[e].tickets = {}
  /\ \A w \in Workers : Running(w) => \A a \in worker[w].todo :
       /\ \A b \in worker[w].todo : a # b => a \intersect b = {}
       /\ \A d \in DOMAIN drafts : Kept(d) => a \intersect drafts[d].tickets = {}

\* A review is of a draft that is pending, by one reviewer, or the draft is in crossed.
Busy(r, d) == review[r].pc # "idle" /\ review[r].draft = d
Reviewed ==
  /\ \A r \in Reviewers : review[r].pc # "idle" =>
       /\ review[r].draft \in DOMAIN drafts
       /\ drafts[review[r].draft].status = "pending" \/ review[r].draft \in crossed
  /\ \A r, s \in Reviewers, d \in crossed \union DOMAIN drafts :
       Busy(r, d) /\ Busy(s, d) => r = s \/ d \in crossed

\* Whether the document of a draft is stored and the draft not marked yet.
Stored(d) == \E r \in Reviewers : review[r].pc = "stored" /\ review[r].draft = d

Counted == \A d \in DOMAIN drafts \ crossed :
  /\ drafts[d].status = "approved" => drafts[d].documents = 1
  /\ drafts[d].status = "rejected" => drafts[d].documents = 0
  /\ drafts[d].status = "pending" => drafts[d].documents = IF Stored(d) THEN 1 ELSE 0

FaqInv == FaqTyped /\ Alone /\ Apart /\ Reviewed /\ Counted

LEMMA FaqInit == Faq!Init => FaqInv
<1> SUFFICES ASSUME Faq!Init PROVE FaqInv
  OBVIOUS
<1>1. /\ arrived = {} /\ jobs = <<>> /\ worker = [w \in Workers |-> Faq!NoRun]
      /\ drafts = <<>> /\ review = [r \in Reviewers |-> Faq!NoReview]
      /\ overlapped = FALSE /\ crossed = {}
  BY DEF Faq!Init
<1>2. Faq!NoRun \in RunRecord /\ Faq!NoRun.pc = "idle"
  BY DEF Faq!NoRun, RunRecord
<1>3. Faq!NoReview \in ReviewRecord /\ Faq!NoReview.pc = "idle"
  BY DEF Faq!NoReview, ReviewRecord
<1>4. drafts \in Seq(DraftRecord) /\ jobs \in Seq(JobRecord) /\ DOMAIN drafts = {}
  BY <1>1
<1>5. worker \in [Workers -> RunRecord] /\ review \in [Reviewers -> ReviewRecord]
      /\ (\A w \in Workers : worker[w].pc = "idle") /\ (\A r \in Reviewers : review[r].pc = "idle")
  BY <1>1, <1>2, <1>3
<1> QED BY <1>1, <1>4, <1>5 DEF FaqInv, FaqTyped, Alone, Apart, Reviewed, Counted, Running, Kept, Busy

\* A draft is changed in place.
LEMMA DraftEdits ==
  ASSUME FaqTyped, NEW d \in DOMAIN drafts, NEW x \in DraftRecord, drafts' = [drafts EXCEPT ![d] = x]
  PROVE  /\ drafts' \in Seq(DraftRecord) /\ DOMAIN drafts' = DOMAIN drafts
         /\ drafts'[d] = x /\ \A e \in DOMAIN drafts \ {d} : drafts'[e] = drafts[e]
<1>1. drafts \in Seq(DraftRecord)
  BY DEF FaqTyped
<1>2. PICK n \in Nat : drafts \in [1..n -> DraftRecord]
  BY <1>1
<1>3. drafts' \in [1..n -> DraftRecord]
  BY <1>2
<1> QED BY <1>2, <1>3

LEMMA DraftTyped ==
  ASSUME FaqTyped, NEW d \in DOMAIN drafts
  PROVE  drafts[d] \in DraftRecord
BY DEF FaqTyped

\* A run, or a reviewer, moves on.
LEMMA RunMoves ==
  ASSUME FaqTyped, NEW w \in Workers, NEW x \in RunRecord, worker' = [worker EXCEPT ![w] = x]
  PROVE  worker' \in [Workers -> RunRecord] /\ worker'[w] = x
         /\ \A v \in Workers \ {w} : worker'[v] = worker[v]
BY DEF FaqTyped

LEMMA ReviewMoves ==
  ASSUME FaqTyped, NEW r \in Reviewers, NEW x \in ReviewRecord, review' = [review EXCEPT ![r] = x]
  PROVE  review' \in [Reviewers -> ReviewRecord] /\ review'[r] = x
         /\ \A s \in Reviewers \ {r} : review'[s] = review[s]
BY DEF FaqTyped

LEMMA NoWork == Faq!NoRun \in RunRecord /\ Faq!NoRun.pc = "idle" /\ Faq!NoRun.todo = {}
                /\ Faq!NoReview \in ReviewRecord /\ Faq!NoReview.pc = "idle"
BY DEF Faq!NoRun, Faq!NoReview, RunRecord, ReviewRecord

-----------------------------------------------------------------------------
(* The drafts: the steps of the weekly job *)

LEMMA SequenceOf ==
  ASSUME NEW S, NEW n \in Nat, NEW f \in [1..n -> S]
  PROVE  f \in Seq(S)
OBVIOUS

\* A job changes its state.
LEMMA JobMoves ==
  ASSUME FaqTyped, NEW j, NEW s \in {"waiting", "active", "done", "failed"}
  PROVE  [jobs EXCEPT ![j].state = s] \in Seq(JobRecord)
<1>1. PICK n \in Nat : jobs \in [1..n -> JobRecord]
  BY DEF FaqTyped
<1>2. CASE j \in 1..n
  <2>1. jobs[j] \in JobRecord
    BY <1>1, <1>2
  <2>2. [jobs[j] EXCEPT !.state = s] \in JobRecord
    BY <2>1 DEF JobRecord
  <2>3. [jobs EXCEPT ![j] = [jobs[j] EXCEPT !.state = s]] \in [1..n -> JobRecord]
    BY <1>1, <1>2, <2>2
  <2>4. [jobs EXCEPT ![j].state = s] = [jobs EXCEPT ![j] = [jobs[j] EXCEPT !.state = s]]
    BY <1>1, <1>2
  <2> QED BY <2>3, <2>4, SequenceOf, Zenon
<1>3. CASE j \notin 1..n
  <2>1. [jobs EXCEPT ![j].state = s] = jobs
    BY <1>1, <1>3
  <2> QED BY <2>1, Zenon DEF FaqTyped
<1> QED BY <1>2, <1>3

\* The clusters of a run are apart from each other, and from what has a draft.
LEMMA ClustersApart ==
  ASSUME FaqTyped, NEW S \in SUBSET Tickets
  PROVE  /\ Faq!Clusters(S) \in SUBSET SUBSET Tickets
         /\ \A a \in Faq!Clusters(S) : a \subseteq S
         /\ \A a, b \in Faq!Clusters(S) : a # b => a \intersect b = {}
<1>1. \A a \in Faq!Clusters(S) : \E p \in Topics : a = {t \in S : TopicOf[t] = p}
  BY Zenon DEF Faq!Clusters
<1>2. \A a \in Faq!Clusters(S) : a \subseteq S
  BY <1>1
<1>3. ASSUME NEW a \in Faq!Clusters(S), NEW b \in Faq!Clusters(S), a # b PROVE a \intersect b = {}
  <2>1. PICK p \in Topics : a = {t \in S : TopicOf[t] = p}
    BY <1>1
  <2>2. PICK q \in Topics : b = {t \in S : TopicOf[t] = q}
    BY <1>1
  <2> QED BY <1>3, <2>1, <2>2
<1>4. Faq!Clusters(S) \in SUBSET SUBSET Tickets
  BY <1>2
<1> QED BY <1>2, <1>3, <1>4, Zenon

LEMMA DraftedTickets ==
  ASSUME FaqTyped, NEW d \in DOMAIN drafts, Kept(d)
  PROVE  drafts[d].tickets \subseteq Faq!Drafted
<1>1. d \in {e \in DOMAIN drafts : drafts[e].status # "rejected"}
  BY DEF Kept
<1> QED BY <1>1 DEF Faq!Drafted

\* A step of a run that writes no draft: it begins, or what it has to draft shrinks.
LEMMA RunKeeps ==
  ASSUME FaqInv, NEW w \in Workers,
         worker' \in [Workers -> RunRecord], \A v \in Workers \ {w} : worker'[v] = worker[v],
         worker'[w].pc = "run" => Running(w), worker'[w].todo \subseteq worker[w].todo,
         jobs' \in Seq(JobRecord), arrived' = arrived, drafts' = drafts, review' = review,
         overlapped' = overlapped, crossed' = crossed
  PROVE  FaqInv'
<1>1. FaqTyped'
  BY DEF FaqInv, FaqTyped
<1>2. Alone'
  BY DEF FaqInv, Alone, Running
<1>3. Apart'
  BY DEF FaqInv, Apart, Running, Kept
<1>4. Reviewed' /\ Counted'
  BY DEF FaqInv, Reviewed, Counted, Busy, Stored
<1> QED BY <1>1, <1>2, <1>3, <1>4 DEF FaqInv

LEMMA ReadStep ==
  ASSUME FaqInv, NEW w \in Workers, NEW j \in DOMAIN jobs, Faq!Read(w, j)
  PROVE  FaqInv'
<1> DEFINE todo == Faq!Clusters(arrived \ Faq!Drafted)
           x == [pc |-> "run", job |-> j, todo |-> todo]
           y == [state |-> "active", tries |-> jobs[j].tries + 1]
<1>1. FaqTyped
  BY DEF FaqInv
<1>2. /\ worker[w].pc = "idle" /\ jobs' = [jobs EXCEPT ![j] = y] /\ worker' = [worker EXCEPT ![w] = x]
      /\ overlapped' = (overlapped \/ \E v \in Workers : Running(v))
      /\ arrived' = arrived /\ drafts' = drafts /\ review' = review /\ crossed' = crossed
  BY DEF Faq!Read, Running
<1>3. arrived \ Faq!Drafted \in SUBSET Tickets
  BY <1>1 DEF FaqTyped
<1>4. /\ todo \in SUBSET SUBSET Tickets /\ \A a \in todo : a \intersect Faq!Drafted = {}
      /\ \A a, b \in todo : a # b => a \intersect b = {}
  BY <1>1, <1>3, ClustersApart
<1>5. PICK n \in Nat : jobs \in [1..n -> JobRecord]
  BY <1>1 DEF FaqTyped
<1>6. jobs[j].tries \in Nat /\ j \in Nat
  BY <1>5 DEF JobRecord
<1>7. jobs[j].tries + 1 \in Nat
  BY <1>6
<1>8. y \in JobRecord
  BY <1>7 DEF JobRecord
<1>9. x \in RunRecord /\ x.pc = "run" /\ x.todo = todo
  BY <1>4, <1>6 DEF RunRecord
<1> HIDE DEF x, y, todo
<1>10. jobs' \in Seq(JobRecord)
  <2>1. jobs' \in [1..n -> JobRecord]
    BY <1>2, <1>5, <1>8
  <2> QED BY <2>1
<1>11. worker' \in [Workers -> RunRecord] /\ worker'[w] = x /\ \A v \in Workers \ {w} : worker'[v] = worker[v]
  BY <1>1, <1>2, <1>9, RunMoves
<1>12. overlapped' \in BOOLEAN /\ (overlapped => overlapped')
       /\ (~overlapped' => \A v \in Workers : ~Running(v))
  BY <1>2
<1>13. FaqTyped'
  BY <1>1, <1>2, <1>10, <1>11, <1>12 DEF FaqTyped
<1>14. Alone'
  BY <1>11, <1>12 DEF Alone, Running
<1>15. Apart'
  <2> SUFFICES ASSUME ~overlapped', crossed' = {} PROVE Apart'
    BY DEF Apart
  <2>1. \A v \in Workers \ {w} : worker'[v].pc # "run"
    BY <1>11, <1>12 DEF Running
  <2>2. \A d, e \in DOMAIN drafts :
          d # e /\ Kept(d) /\ Kept(e) => drafts[d].tickets \intersect drafts[e].tickets = {}
    BY <1>2, <1>12 DEF FaqInv, Apart
  <2>3. \A d \in DOMAIN drafts : Kept(d) => drafts[d].tickets \subseteq Faq!Drafted
    BY <1>1, DraftedTickets
  <2>4. ASSUME NEW a \in todo, NEW d \in DOMAIN drafts, Kept(d) PROVE a \intersect drafts[d].tickets = {}
    BY <1>4, <2>3, <2>4
  <2>5. worker'[w].todo = todo
    BY <1>9, <1>11
  <2>6. \A v \in Workers : worker'[v].pc = "run" => worker'[v].todo = todo
    BY <2>1, <2>5
  <2> QED BY <1>2, <1>4, <2>2, <2>4, <2>6 DEF Apart, Running, Kept
<1>16. Reviewed' /\ Counted'
  BY <1>2 DEF FaqInv, Reviewed, Counted, Busy, Stored
<1> QED BY <1>13, <1>14, <1>15, <1>16 DEF FaqInv

\* A draft is appended.
LEMMA Appended ==
  ASSUME FaqTyped, NEW x \in DraftRecord, drafts' = Append(drafts, x)
  PROVE  /\ drafts' \in Seq(DraftRecord) /\ DOMAIN drafts' = DOMAIN drafts \union {Len(drafts) + 1}
         /\ Len(drafts) + 1 \notin DOMAIN drafts /\ drafts'[Len(drafts) + 1] = x
         /\ \A d \in DOMAIN drafts : drafts'[d] = drafts[d]
<1>1. drafts \in Seq(DraftRecord) /\ DOMAIN drafts = 1..Len(drafts) /\ Len(drafts) \in Nat
  BY DEF FaqTyped
<1>2. drafts' \in Seq(DraftRecord) /\ DOMAIN drafts' = 1..(Len(drafts) + 1)
      /\ drafts'[Len(drafts) + 1] = x /\ \A d \in 1..Len(drafts) : drafts'[d] = drafts[d]
  BY <1>1
<1> QED BY <1>1, <1>2

LEMMA DraftStep ==
  ASSUME FaqInv, NEW w \in Workers, NEW c \in worker[w].todo, Faq!Draft(w, c)
  PROVE  FaqInv'
<1> PICK n : n = Len(drafts) + 1
  OBVIOUS
<1> DEFINE x == [tickets |-> c, status |-> "pending", documents |-> 0]
           y == [worker[w] EXCEPT !.todo = @ \ {c}]
<1>1. FaqTyped
  BY DEF FaqInv
<1>2. /\ Running(w) /\ drafts' = Append(drafts, x) /\ worker' = [worker EXCEPT ![w] = y]
      /\ arrived' = arrived /\ jobs' = jobs /\ review' = review
      /\ overlapped' = overlapped /\ crossed' = crossed
  BY DEF Faq!Draft, Running
<1>3. worker[w] \in RunRecord /\ worker[w].todo \in SUBSET SUBSET Tickets
  BY <1>1 DEF FaqTyped, RunRecord
<1>4. y \in RunRecord /\ y.todo = worker[w].todo \ {c} /\ y.pc = worker[w].pc
  BY <1>3 DEF RunRecord
<1>5. x \in DraftRecord /\ x.tickets = c /\ x.status = "pending" /\ x.documents = 0
  BY <1>3 DEF DraftRecord
<1> HIDE DEF x, y
<1>6. /\ drafts' \in Seq(DraftRecord) /\ DOMAIN drafts' = DOMAIN drafts \union {n}
      /\ n \notin DOMAIN drafts /\ drafts'[n] = x
      /\ \A d \in DOMAIN drafts : drafts'[d] = drafts[d]
  BY <1>1, <1>2, <1>5, Appended
<1>7. worker' \in [Workers -> RunRecord] /\ worker'[w] = y /\ \A v \in Workers \ {w} : worker'[v] = worker[v]
  BY <1>1, <1>2, <1>4, RunMoves
<1>8. FaqTyped'
  BY <1>1, <1>2, <1>6, <1>7 DEF FaqTyped
<1>9. Alone'
  BY <1>2, <1>4, <1>7 DEF FaqInv, Alone, Running
<1>10. Apart'
  <2> SUFFICES ASSUME ~overlapped, crossed = {} PROVE Apart'
    BY <1>2 DEF Apart
  <2>1. \A d, e \in DOMAIN drafts :
          d # e /\ Kept(d) /\ Kept(e) => drafts[d].tickets \intersect drafts[e].tickets = {}
    BY DEF FaqInv, Apart
  <2>2. \A a \in worker[w].todo :
          /\ \A b \in worker[w].todo : a # b => a \intersect b = {}
          /\ \A d \in DOMAIN drafts : Kept(d) => a \intersect drafts[d].tickets = {}
    BY <1>2 DEF FaqInv, Apart
  <2>3. \A v \in Workers : worker'[v].pc = "run" => v = w
    BY <1>2, <1>4, <1>7 DEF FaqInv, Alone, Running
  <2>4. \A d \in DOMAIN drafts : drafts'[d].tickets = drafts[d].tickets
          /\ (drafts'[d].status # "rejected" <=> Kept(d))
    BY <1>6 DEF Kept
  <2>5. ASSUME NEW d \in DOMAIN drafts', NEW e \in DOMAIN drafts', d # e,
               drafts'[d].status # "rejected", drafts'[e].status # "rejected"
        PROVE  drafts'[d].tickets \intersect drafts'[e].tickets = {}
    <3>1. CASE d \in DOMAIN drafts /\ e \in DOMAIN drafts
      BY <2>1, <2>4, <2>5, <3>1
    <3>2. CASE d = n /\ e \in DOMAIN drafts
      <4>1. c \intersect drafts[e].tickets = {}
        BY <2>2, <2>4, <2>5, <3>2
      <4> QED BY <1>5, <1>6, <2>4, <3>2, <4>1
    <3>3. CASE e = n /\ d \in DOMAIN drafts
      <4>1. c \intersect drafts[d].tickets = {}
        BY <2>2, <2>4, <2>5, <3>3
      <4> QED BY <1>5, <1>6, <2>4, <3>3, <4>1
    <3> QED BY <1>6, <2>5, <3>1, <3>2, <3>3
  <2>6. ASSUME NEW a \in worker'[w].todo, NEW d \in DOMAIN drafts', drafts'[d].status # "rejected"
        PROVE  a \intersect drafts'[d].tickets = {}
    <3>1. a \in worker[w].todo /\ a # c
      BY <1>4, <1>7, <2>6
    <3>2. CASE d \in DOMAIN drafts
      BY <2>2, <2>4, <2>6, <3>1, <3>2
    <3>3. CASE d = n
      BY <1>5, <1>6, <2>2, <3>1, <3>3
    <3> QED BY <1>6, <3>2, <3>3
  <2>7. \A a, b \in worker'[w].todo : a # b => a \intersect b = {}
    BY <1>4, <1>7, <2>2
  <2> QED BY <2>3, <2>5, <2>6, <2>7 DEF Apart, Running, Kept
<1>11. Reviewed'
  <2>1. \A d \in crossed \union DOMAIN drafts : d \in DOMAIN drafts
    BY <1>1 DEF FaqTyped
  <2>2. \A r \in Reviewers : review[r].pc # "idle" => review[r].draft \in DOMAIN drafts /\ review[r].draft # n
    BY <1>6 DEF FaqInv, Reviewed
  <2> QED BY <1>2, <1>6, <2>1, <2>2 DEF FaqInv, Reviewed, Busy
<1>12. Counted'
  <2>1. \A r \in Reviewers : review[r].pc # "idle" => review[r].draft # n
    BY <1>6 DEF FaqInv, Reviewed
  <2>2. ~Stored(n) /\ \A d : Stored(d)' <=> Stored(d)
    BY <1>2, <2>1 DEF Stored
  <2>3. \A d \in DOMAIN drafts' \ crossed' : d = n \/ d \in DOMAIN drafts \ crossed
    BY <1>2, <1>6
  <2>4. ASSUME NEW d \in DOMAIN drafts' \ crossed', d # n
        PROVE  /\ drafts'[d].status = "approved" => drafts'[d].documents = 1
               /\ drafts'[d].status = "rejected" => drafts'[d].documents = 0
               /\ drafts'[d].status = "pending" => drafts'[d].documents = IF Stored(d)' THEN 1 ELSE 0
    <3>1. d \in DOMAIN drafts \ crossed /\ drafts'[d] = drafts[d]
      BY <1>6, <2>3, <2>4
    <3> QED BY <2>2, <3>1 DEF FaqInv, Counted
  <2>5. drafts'[n].status = "pending" /\ drafts'[n].documents = 0 /\ ~Stored(n)'
    BY <1>5, <1>6, <2>2
  <2> QED BY <2>4, <2>5 DEF Counted
<1> QED BY <1>8, <1>9, <1>10, <1>11, <1>12 DEF FaqInv

\* A run ends, or loses its job.
LEMMA RunEnds ==
  ASSUME FaqInv, NEW w \in Workers,
         \/ Faq!Succeed(w) \/ Faq!FailRun(w) \/ \E late \in BOOLEAN : Faq!Redeliver(w, late)
  PROVE  FaqInv'
<1>1. FaqTyped
  BY DEF FaqInv
<1>2. worker[w] \in RunRecord
  BY <1>1 DEF FaqTyped
<1>3. [worker[w] EXCEPT !.job = 0] \in RunRecord
  BY <1>2 DEF RunRecord
<1>4. PICK x \in {Faq!NoRun, [worker[w] EXCEPT !.job = 0]} : worker' = [worker EXCEPT ![w] = x]
  BY Zenon DEF Faq!Succeed, Faq!FailRun, Faq!Redeliver, Faq!Release
<1>5. x \in RunRecord /\ x.todo \subseteq worker[w].todo /\ (x.pc = "run" => Running(w))
  BY <1>2, <1>3, NoWork DEF RunRecord, Running
<1>6. /\ worker' \in [Workers -> RunRecord] /\ worker'[w] = x
      /\ \A v \in Workers \ {w} : worker'[v] = worker[v]
  BY <1>1, <1>4, <1>5, RunMoves
<1>7. jobs' \in Seq(JobRecord)
  <2>1. \A s \in {"waiting", "active", "done", "failed"} : [jobs EXCEPT ![worker[w].job].state = s] \in Seq(JobRecord)
    BY <1>1, JobMoves
  <2>2. jobs \in Seq(JobRecord)
    BY <1>1 DEF FaqTyped
  <2>3. ASSUME NEW s \in {"waiting", "active", "done", "failed"}, Faq!Release(w, s)
        PROVE  jobs' \in Seq(JobRecord)
    BY <2>1, <2>2, <2>3, Zenon DEF Faq!Release
  <2>4. CASE Faq!Succeed(w)
    BY <2>3, <2>4, Zenon DEF Faq!Succeed
  <2>5. CASE Faq!FailRun(w)
    <3>1. PICK s \in {"waiting", "failed"} : Faq!Release(w, s)
      BY <2>5, Zenon DEF Faq!FailRun
    <3> QED BY <2>3, <3>1
  <2>6. CASE \E late \in BOOLEAN : Faq!Redeliver(w, late)
    BY <2>1, <2>6, Zenon DEF Faq!Redeliver
  <2> QED BY <2>4, <2>5, <2>6
<1>8. /\ arrived' = arrived /\ drafts' = drafts /\ review' = review
      /\ overlapped' = overlapped /\ crossed' = crossed
  BY DEF Faq!Succeed, Faq!FailRun, Faq!Redeliver
<1>9. (worker'[w].pc = "run" => Running(w)) /\ worker'[w].todo \subseteq worker[w].todo
  BY <1>5, <1>6
<1> QED BY <1>6, <1>7, <1>8, <1>9, RunKeeps

\* A ticket, or a job, is added.
LEMMA AddStep ==
  ASSUME FaqInv, Faq!Tick \/ \E t \in Tickets : Faq!Arrive(t)
  PROVE  FaqInv'
<1>1. /\ worker' = worker /\ drafts' = drafts /\ review' = review
      /\ overlapped' = overlapped /\ crossed' = crossed
  BY DEF Faq!Tick, Faq!Arrive
<1>2. arrived' \subseteq Tickets
  BY DEF Faq!Tick, Faq!Arrive, FaqInv, FaqTyped
<1>3. jobs' \in Seq(JobRecord)
  <2>1. jobs \in Seq(JobRecord)
    BY DEF FaqInv, FaqTyped
  <2>2. CASE Faq!Tick
    <3>1. [state |-> "waiting", tries |-> 0] \in JobRecord
      BY DEF JobRecord
    <3> QED BY <2>1, <2>2, <3>1 DEF Faq!Tick
  <2>3. CASE \E t \in Tickets : Faq!Arrive(t)
    BY <2>1, <2>3 DEF Faq!Arrive
  <2> QED BY <2>2, <2>3
<1>4. FaqTyped'
  BY <1>1, <1>2, <1>3 DEF FaqInv, FaqTyped
<1>5. Alone' /\ Apart' /\ Reviewed' /\ Counted'
  BY <1>1 DEF FaqInv, Alone, Apart, Reviewed, Counted, Running, Kept, Busy, Stored
<1> QED BY <1>4, <1>5 DEF FaqInv

-----------------------------------------------------------------------------
(* The drafts: the steps of the reviewers *)

\* What a step of a reviewer leaves alone.
LEMMA ReviewKeeps ==
  ASSUME FaqInv, NEW d \in DOMAIN drafts, DOMAIN drafts' = DOMAIN drafts,
         drafts' \in Seq(DraftRecord), review' \in [Reviewers -> ReviewRecord],
         \A e \in DOMAIN drafts \ {d} : drafts'[e] = drafts[e],
         drafts'[d].tickets = drafts[d].tickets,
         Kept(d)' => Kept(d) \/ crossed' # {},
         crossed \subseteq crossed', crossed' \subseteq DOMAIN drafts,
         jobs' = jobs, worker' = worker, arrived' = arrived, overlapped' = overlapped
  PROVE  FaqTyped' /\ Alone' /\ Apart'
<1>1. FaqTyped' /\ Alone'
  BY DEF FaqInv, FaqTyped, Alone, Running
<1>2. Apart'
  <2> SUFFICES ASSUME ~overlapped, crossed' = {} PROVE Apart'
    BY DEF Apart
  <2>1. crossed = {}
    OBVIOUS
  <2>2. \A e \in DOMAIN drafts : drafts'[e].tickets = drafts[e].tickets /\ (Kept(e)' => Kept(e))
    BY DEF Kept
  <2>3. /\ \A e, f \in DOMAIN drafts :
             e # f /\ Kept(e) /\ Kept(f) => drafts[e].tickets \intersect drafts[f].tickets = {}
        /\ \A w \in Workers : Running(w) => \A a \in worker[w].todo :
             /\ \A b \in worker[w].todo : a # b => a \intersect b = {}
             /\ \A e \in DOMAIN drafts : Kept(e) => a \intersect drafts[e].tickets = {}
    BY <2>1 DEF FaqInv, Apart
  <2>4. \A w \in Workers : Running(w)' = Running(w)
    BY DEF Running
  <2>5. \A e, f \in DOMAIN drafts' :
          e # f /\ Kept(e)' /\ Kept(f)' => drafts'[e].tickets \intersect drafts'[f].tickets = {}
    BY <2>2, <2>3
  <2>6. \A w \in Workers : Running(w)' => \A a \in worker'[w].todo :
          /\ \A b \in worker'[w].todo : a # b => a \intersect b = {}
          /\ \A e \in DOMAIN drafts' : Kept(e)' => a \intersect drafts'[e].tickets = {}
    BY <2>2, <2>3, <2>4
  <2> QED BY <2>5, <2>6 DEF Apart
<1> QED BY <1>1, <1>2

LEMMA RejectStep ==
  ASSUME FaqInv, NEW d \in DOMAIN drafts, Faq!Reject(d)
  PROVE  FaqInv'
<1> DEFINE x == [drafts[d] EXCEPT !.status = "rejected"]
<1>1. FaqTyped
  BY DEF FaqInv
<1>2. /\ drafts[d].status = "pending" /\ drafts' = [drafts EXCEPT ![d] = x]
      /\ crossed' = (IF \E r \in Reviewers : Busy(r, d) THEN crossed \union {d} ELSE crossed)
      /\ arrived' = arrived /\ jobs' = jobs /\ worker' = worker /\ review' = review
      /\ overlapped' = overlapped
  BY DEF Faq!Reject, Faq!Open, Faq!Cross, Faq!Approving, Busy
<1>3. drafts[d] \in DraftRecord
  BY <1>1, DraftTyped
<1>4. x \in DraftRecord /\ x.status = "rejected" /\ x.documents = drafts[d].documents /\ x.tickets = drafts[d].tickets
  BY <1>3 DEF DraftRecord
<1> HIDE DEF x
<1>5. /\ drafts' \in Seq(DraftRecord) /\ DOMAIN drafts' = DOMAIN drafts
      /\ drafts'[d] = x /\ \A e \in DOMAIN drafts \ {d} : drafts'[e] = drafts[e]
  BY <1>1, <1>2, <1>4, DraftEdits
<1>6. crossed \subseteq crossed' /\ crossed' \subseteq DOMAIN drafts /\ crossed' \subseteq crossed \union {d}
      /\ (d \notin crossed' => \A r \in Reviewers : ~Busy(r, d))
  BY <1>1, <1>2 DEF FaqTyped
<1>7. Kept(d)' => Kept(d)
  BY <1>2 DEF Kept
<1>8. FaqTyped' /\ Alone' /\ Apart'
  <2>1. review' \in [Reviewers -> ReviewRecord]
    BY <1>1, <1>2 DEF FaqTyped
  <2> QED BY <1>2, <1>4, <1>5, <1>6, <1>7, <2>1, ReviewKeeps
<1>9. Reviewed'
  <2>1. ASSUME NEW r \in Reviewers, review[r].pc # "idle"
        PROVE  /\ review[r].draft \in DOMAIN drafts'
               /\ drafts'[review[r].draft].status = "pending" \/ review[r].draft \in crossed'
    <3>1. /\ review[r].draft \in DOMAIN drafts
          /\ drafts[review[r].draft].status = "pending" \/ review[r].draft \in crossed
      BY <2>1 DEF FaqInv, Reviewed
    <3>2. CASE review[r].draft = d
      <4>1. Busy(r, d)
        BY <2>1, <3>2 DEF Busy
      <4> QED BY <1>5, <1>6, <3>1, <3>2, <4>1
    <3> QED BY <1>5, <1>6, <3>1, <3>2
  <2>2. \A r, s \in Reviewers, e \in crossed' \union DOMAIN drafts' :
          Busy(r, e) /\ Busy(s, e) => r = s \/ e \in crossed'
    BY <1>1, <1>5, <1>6 DEF FaqInv, FaqTyped, Reviewed
  <2>3. \A r \in Reviewers : \A e : Busy(r, e)' <=> Busy(r, e)
    BY <1>2 DEF Busy
  <2> QED BY <1>2, <2>1, <2>2, <2>3 DEF Reviewed
<1>10. Counted'
  <2>1. \A e : Stored(e)' <=> Stored(e)
    BY <1>2 DEF Stored
  <2>2. ASSUME d \notin crossed' PROVE drafts'[d].documents = 0
    <3>1. ~Stored(d)
      BY <1>6, <2>2 DEF Stored, Busy
    <3>2. d \notin crossed
      BY <1>6, <2>2
    <3> QED BY <1>2, <1>4, <1>5, <3>1, <3>2 DEF FaqInv, Counted
  <2>3. ASSUME NEW e \in DOMAIN drafts' \ crossed', e # d
        PROVE  /\ drafts'[e].status = "approved" => drafts'[e].documents = 1
               /\ drafts'[e].status = "rejected" => drafts'[e].documents = 0
               /\ drafts'[e].status = "pending" => drafts'[e].documents = IF Stored(e)' THEN 1 ELSE 0
    <3>1. e \in DOMAIN drafts \ crossed /\ drafts'[e] = drafts[e]
      BY <1>5, <1>6, <2>3
    <3> QED BY <2>1, <3>1 DEF FaqInv, Counted
  <2> QED BY <1>4, <1>5, <2>2, <2>3 DEF Counted
<1> QED BY <1>8, <1>9, <1>10 DEF FaqInv

LEMMA ApproveStep ==
  ASSUME FaqInv, NEW r \in Reviewers, NEW d \in DOMAIN drafts, Faq!Approve(r, d)
  PROVE  FaqInv'
<1> DEFINE x == [pc |-> "read", draft |-> d]
<1>1. FaqTyped
  BY DEF FaqInv
<1>2. /\ review[r].pc = "idle" /\ drafts[d].status = "pending" /\ review' = [review EXCEPT ![r] = x]
      /\ crossed' = (IF \E s \in Reviewers : Busy(s, d) THEN crossed \union {d} ELSE crossed)
      /\ arrived' = arrived /\ jobs' = jobs /\ worker' = worker /\ drafts' = drafts
      /\ overlapped' = overlapped
  BY DEF Faq!Approve, Faq!Open, Faq!Cross, Faq!Approving, Busy
<1>3. d \in Nat
  BY <1>1 DEF FaqTyped
<1>4. x \in ReviewRecord /\ x.pc = "read" /\ x.draft = d
  BY <1>3 DEF ReviewRecord
<1> HIDE DEF x
<1>5. review' \in [Reviewers -> ReviewRecord] /\ review'[r] = x /\ \A s \in Reviewers \ {r} : review'[s] = review[s]
  BY <1>1, <1>2, <1>4, ReviewMoves
<1>6. crossed \subseteq crossed' /\ crossed' \subseteq DOMAIN drafts
      /\ (d \notin crossed' => \A s \in Reviewers : ~Busy(s, d))
  BY <1>1, <1>2 DEF FaqTyped
<1>7. FaqTyped' /\ Alone' /\ Apart'
  <2>1. drafts' \in Seq(DraftRecord) /\ DOMAIN drafts' = DOMAIN drafts /\ drafts'[d].tickets = drafts[d].tickets
        /\ (Kept(d)' => Kept(d)) /\ \A e \in DOMAIN drafts \ {d} : drafts'[e] = drafts[e]
    BY <1>1, <1>2 DEF FaqTyped, Kept
  <2> QED BY <1>2, <1>5, <1>6, <2>1, ReviewKeeps
<1>8. \A s \in Reviewers : \A e : Busy(s, e)' <=> (s # r /\ Busy(s, e)) \/ (s = r /\ e = d)
  BY <1>4, <1>5, <1>2 DEF Busy
<1>9. Reviewed'
  <2>1. ASSUME NEW s \in Reviewers, review'[s].pc # "idle"
        PROVE  /\ review'[s].draft \in DOMAIN drafts'
               /\ drafts'[review'[s].draft].status = "pending" \/ review'[s].draft \in crossed'
    <3>1. CASE s = r
      BY <1>2, <1>4, <1>5, <3>1
    <3>2. CASE s # r
      BY <1>2, <1>5, <1>6, <2>1, <3>2 DEF FaqInv, Reviewed
    <3> QED BY <3>1, <3>2
  <2>2. ASSUME NEW s \in Reviewers, NEW u \in Reviewers, NEW e \in crossed' \union DOMAIN drafts', Busy(s, e)', Busy(u, e)'
        PROVE  s = u \/ e \in crossed'
    <3>1. CASE s # r /\ u # r
      <4>1. Busy(s, e) /\ Busy(u, e) /\ e \in crossed \union DOMAIN drafts
        BY <1>2, <1>6, <1>8, <2>2, <3>1
      <4> QED BY <1>6, <4>1 DEF FaqInv, Reviewed
    <3>2. CASE s = r \/ u = r
      BY <1>6, <1>8, <2>2, <3>2
    <3> QED BY <3>1, <3>2
  <2> QED BY <2>1, <2>2 DEF Reviewed
<1>10. Counted'
  <2>1. \A e : Stored(e)' <=> Stored(e)
    BY <1>2, <1>4, <1>5 DEF Stored
  <2>2. \A e \in DOMAIN drafts' \ crossed' : e \in DOMAIN drafts \ crossed /\ drafts'[e] = drafts[e]
    BY <1>2, <1>6
  <2> QED BY <2>1, <2>2 DEF FaqInv, Counted
<1> QED BY <1>7, <1>9, <1>10 DEF FaqInv

\* The review of a draft that is not in crossed is the only one.
LEMMA OnlyReview ==
  ASSUME FaqInv, NEW r \in Reviewers, review[r].pc # "idle"
  PROVE  /\ review[r].draft \in DOMAIN drafts
         /\ review[r].draft \notin crossed =>
              /\ drafts[review[r].draft].status = "pending"
              /\ drafts[review[r].draft].documents = IF review[r].pc = "stored" THEN 1 ELSE 0
              /\ \A s \in Reviewers : Busy(s, review[r].draft) => s = r
<1>1. /\ review[r].draft \in DOMAIN drafts
      /\ drafts[review[r].draft].status = "pending" \/ review[r].draft \in crossed
  BY DEF FaqInv, Reviewed
<1>2. ASSUME review[r].draft \notin crossed
      PROVE  \A s \in Reviewers : Busy(s, review[r].draft) => s = r
  BY <1>1, <1>2 DEF FaqInv, Reviewed, Busy
<1>3. ASSUME review[r].draft \notin crossed
      PROVE  Stored(review[r].draft) <=> review[r].pc = "stored"
  BY <1>2, <1>3 DEF Stored, Busy
<1> QED BY <1>1, <1>2, <1>3 DEF FaqInv, Counted

LEMMA MaterialiseStep ==
  ASSUME FaqInv, NEW r \in Reviewers, Faq!Materialise(r)
  PROVE  FaqInv'
<1> PICK d : d = review[r].draft
  OBVIOUS
<1> DEFINE x == [drafts[d] EXCEPT !.documents = @ + 1]
           stored == [review[r] EXCEPT !.pc = "stored"]
<1>1. FaqTyped /\ review[r].pc = "read" /\ Busy(r, d)
  BY DEF FaqInv, Faq!Materialise, Busy
<1>2. /\ drafts' = [drafts EXCEPT ![d] = x]
      /\ \/ review' = [review EXCEPT ![r] = stored] /\ crossed' = crossed
         \/ review' = [review EXCEPT ![r] = Faq!NoReview] /\ crossed' = crossed \union {d}
      /\ arrived' = arrived /\ jobs' = jobs /\ worker' = worker /\ overlapped' = overlapped
  BY DEF Faq!Materialise
<1>3. d \in DOMAIN drafts /\ (d \notin crossed =>
        drafts[d].status = "pending" /\ drafts[d].documents = 0 /\ \A s \in Reviewers : Busy(s, d) => s = r)
  BY <1>1, OnlyReview
<1>4. drafts[d] \in DraftRecord /\ drafts[d].documents \in Nat
  BY <1>1, <1>3, DraftTyped DEF DraftRecord
<1>5. drafts[d].documents + 1 \in Nat
  BY <1>4
<1>6. x \in DraftRecord /\ x.status = drafts[d].status /\ x.documents = drafts[d].documents + 1
      /\ x.tickets = drafts[d].tickets
  BY <1>4, <1>5 DEF DraftRecord
<1>7. stored \in ReviewRecord /\ stored.pc = "stored" /\ stored.draft = d
  BY <1>1 DEF FaqTyped, ReviewRecord, Busy
<1> HIDE DEF x, stored
<1>8. /\ drafts' \in Seq(DraftRecord) /\ DOMAIN drafts' = DOMAIN drafts
      /\ drafts'[d] = x /\ \A e \in DOMAIN drafts \ {d} : drafts'[e] = drafts[e]
  BY <1>1, <1>2, <1>3, <1>6, DraftEdits
<1>9. PICK y \in {stored, Faq!NoReview} : review' = [review EXCEPT ![r] = y] /\ (y.pc # "stored" => d \in crossed')
      /\ (y.pc = "stored" \/ y.pc = "idle") /\ (y.pc = "stored" => y = stored)
  BY <1>2, <1>7, NoWork
<1>10. y \in ReviewRecord /\ (y.pc # "idle" => y.pc = "stored" /\ y.draft = d)
  BY <1>7, <1>9, NoWork
<1>11. review' \in [Reviewers -> ReviewRecord] /\ review'[r] = y /\ \A s \in Reviewers \ {r} : review'[s] = review[s]
  BY <1>1, <1>9, <1>10, ReviewMoves
<1>12. crossed \subseteq crossed' /\ crossed' \subseteq DOMAIN drafts /\ crossed' \subseteq crossed \union {d}
  BY <1>1, <1>2, <1>3 DEF FaqTyped
<1>13. FaqTyped' /\ Alone' /\ Apart'
  <2>1. Kept(d)' => Kept(d)
    BY <1>6, <1>8 DEF Kept
  <2> QED BY <1>2, <1>3, <1>6, <1>8, <1>11, <1>12, <2>1, ReviewKeeps
<1>14. \A s \in Reviewers : \A e : Busy(s, e)' => Busy(s, e)
  BY <1>1, <1>10, <1>11 DEF Busy
<1>15. Reviewed'
  <2>1. ASSUME NEW s \in Reviewers, review'[s].pc # "idle"
        PROVE  /\ review'[s].draft \in DOMAIN drafts'
               /\ drafts'[review'[s].draft].status = "pending" \/ review'[s].draft \in crossed'
    <3>1. review[s].pc # "idle" /\ review'[s].draft = review[s].draft
      BY <1>1, <1>10, <1>11, <2>1 DEF Busy
    <3>2. /\ review[s].draft \in DOMAIN drafts
          /\ drafts[review[s].draft].status = "pending" \/ review[s].draft \in crossed
      BY <3>1 DEF FaqInv, Reviewed
    <3>3. drafts'[review[s].draft].status = drafts[review[s].draft].status
      BY <1>6, <1>8, <3>2
    <3> QED BY <1>8, <1>12, <3>1, <3>2, <3>3
  <2>2. ASSUME NEW s \in Reviewers, NEW u \in Reviewers, NEW e \in crossed' \union DOMAIN drafts', Busy(s, e)', Busy(u, e)'
        PROVE  s = u \/ e \in crossed'
    <3>1. Busy(s, e) /\ Busy(u, e) /\ e \in crossed \union DOMAIN drafts
      BY <1>8, <1>12, <1>14, <2>2
    <3> QED BY <1>12, <3>1 DEF FaqInv, Reviewed
  <2> QED BY <2>1, <2>2 DEF Reviewed
<1>16. Counted'
  <2>1. ASSUME d \notin crossed'
        PROVE  drafts'[d].status = "pending" /\ drafts'[d].documents = 1 /\ Stored(d)'
    <3>1. d \notin crossed
      BY <1>12, <2>1
    <3>2. review'[r].pc = "stored" /\ review'[r].draft = d
      BY <1>9, <1>10, <1>11, <2>1
    <3>3. Stored(d)'
      BY <3>2 DEF Stored
    <3> QED BY <1>3, <1>6, <1>8, <3>1, <3>3
  <2>2. ASSUME NEW e \in DOMAIN drafts' \ crossed', e # d
        PROVE  /\ drafts'[e].status = "approved" => drafts'[e].documents = 1
               /\ drafts'[e].status = "rejected" => drafts'[e].documents = 0
               /\ drafts'[e].status = "pending" => drafts'[e].documents = IF Stored(e)' THEN 1 ELSE 0
    <3>1. e \in DOMAIN drafts \ crossed /\ drafts'[e] = drafts[e]
      BY <1>8, <1>12, <2>2
    <3>2. Stored(e)' <=> Stored(e)
      BY <1>1, <1>9, <1>10, <1>11, <2>2, NoWork DEF Stored, Busy
    <3> QED BY <3>1, <3>2 DEF FaqInv, Counted
  <2> QED BY <2>1, <2>2 DEF Counted
<1> QED BY <1>13, <1>15, <1>16 DEF FaqInv

LEMMA MarkStep ==
  ASSUME FaqInv, NEW r \in Reviewers, Faq!Mark(r)
  PROVE  FaqInv'
<1> PICK d : d = review[r].draft
  OBVIOUS
<1> DEFINE x == [drafts[d] EXCEPT !.status = "approved"]
<1>1. FaqTyped /\ review[r].pc = "stored" /\ Busy(r, d)
  BY DEF FaqInv, Faq!Mark, Busy
<1>2. /\ drafts' = [drafts EXCEPT ![d] = x] /\ review' = [review EXCEPT ![r] = Faq!NoReview]
      /\ arrived' = arrived /\ jobs' = jobs /\ worker' = worker /\ overlapped' = overlapped
      /\ crossed' = crossed
  BY DEF Faq!Mark
<1>3. d \in DOMAIN drafts /\ (d \notin crossed =>
        drafts[d].status = "pending" /\ drafts[d].documents = 1 /\ \A s \in Reviewers : Busy(s, d) => s = r)
  BY <1>1, OnlyReview
<1>4. drafts[d] \in DraftRecord
  BY <1>1, <1>3, DraftTyped
<1>5. x \in DraftRecord /\ x.status = "approved" /\ x.documents = drafts[d].documents /\ x.tickets = drafts[d].tickets
  BY <1>4 DEF DraftRecord
<1> HIDE DEF x
<1>6. /\ drafts' \in Seq(DraftRecord) /\ DOMAIN drafts' = DOMAIN drafts
      /\ drafts'[d] = x /\ \A e \in DOMAIN drafts \ {d} : drafts'[e] = drafts[e]
  BY <1>1, <1>2, <1>3, <1>5, DraftEdits
<1>7. review' \in [Reviewers -> ReviewRecord] /\ review'[r].pc = "idle" /\ \A s \in Reviewers \ {r} : review'[s] = review[s]
  <2>1. review'[r] = Faq!NoReview
    BY <1>1, <1>2, NoWork, ReviewMoves
  <2> QED BY <1>1, <1>2, <2>1, NoWork, ReviewMoves
<1>8. FaqTyped' /\ Alone' /\ Apart'
  <2>1. Kept(d)' => Kept(d) \/ crossed' # {}
    BY <1>2, <1>3 DEF Kept
  <2>2. crossed \subseteq crossed' /\ crossed' \subseteq DOMAIN drafts
    BY <1>1, <1>2 DEF FaqTyped
  <2> QED BY <1>2, <1>3, <1>5, <1>6, <1>7, <2>1, <2>2, ReviewKeeps
<1>9. \A s \in Reviewers : \A e : Busy(s, e)' => Busy(s, e) /\ s # r
  BY <1>7 DEF Busy
<1>10. Reviewed'
  <2>1. ASSUME NEW s \in Reviewers, review'[s].pc # "idle"
        PROVE  /\ review'[s].draft \in DOMAIN drafts'
               /\ drafts'[review'[s].draft].status = "pending" \/ review'[s].draft \in crossed'
    <3>1. s # r /\ review'[s] = review[s]
      BY <1>7, <2>1
    <3>2. /\ review[s].draft \in DOMAIN drafts
          /\ drafts[review[s].draft].status = "pending" \/ review[s].draft \in crossed
      BY <2>1, <3>1 DEF FaqInv, Reviewed
    <3>3. review[s].draft = d => d \in crossed
      BY <1>3, <2>1, <3>1 DEF Busy
    <3> QED BY <1>2, <1>6, <3>1, <3>2, <3>3
  <2>2. \A s, u \in Reviewers, e \in crossed' \union DOMAIN drafts' :
          Busy(s, e)' /\ Busy(u, e)' => s = u \/ e \in crossed'
    <3>1. \A s, u \in Reviewers, e \in crossed \union DOMAIN drafts :
            Busy(s, e) /\ Busy(u, e) => s = u \/ e \in crossed
      BY DEF FaqInv, Reviewed
    <3> QED BY <1>2, <1>6, <1>9, <3>1
  <2> QED BY <2>1, <2>2 DEF Reviewed
<1>11. Counted'
  <2>1. ASSUME d \notin crossed' PROVE drafts'[d].status = "approved" /\ drafts'[d].documents = 1
    BY <1>2, <1>3, <1>5, <1>6, <2>1
  <2>2. ASSUME NEW e \in DOMAIN drafts' \ crossed', e # d
        PROVE  /\ drafts'[e].status = "approved" => drafts'[e].documents = 1
               /\ drafts'[e].status = "rejected" => drafts'[e].documents = 0
               /\ drafts'[e].status = "pending" => drafts'[e].documents = IF Stored(e)' THEN 1 ELSE 0
    <3>1. e \in DOMAIN drafts \ crossed /\ drafts'[e] = drafts[e]
      BY <1>2, <1>6, <2>2
    <3>2. Stored(e)' <=> Stored(e)
      BY <1>1, <1>7, <2>2 DEF Stored, Busy
    <3> QED BY <3>1, <3>2 DEF FaqInv, Counted
  <2> QED BY <2>1, <2>2 DEF Counted
<1> QED BY <1>8, <1>10, <1>11 DEF FaqInv

-----------------------------------------------------------------------------
(* The drafts: the theorem *)

LEMMA FaqStep == FaqInv /\ [Faq!Next]_faqVars => FaqInv'
<1> SUFFICES ASSUME FaqInv, [Faq!Next]_faqVars PROVE FaqInv'
  OBVIOUS
<1>1. CASE UNCHANGED faqVars
  <2>1. /\ arrived' = arrived /\ jobs' = jobs /\ worker' = worker /\ drafts' = drafts
        /\ review' = review /\ overlapped' = overlapped /\ crossed' = crossed
    BY <1>1 DEF faqVars
  <2> QED BY <2>1 DEF FaqInv, FaqTyped, Alone, Apart, Reviewed, Counted, Running, Kept, Busy, Stored
<1>2. CASE Faq!Next
  BY <1>2, AddStep, ReadStep, DraftStep, RunEnds, RejectStep, ApproveStep, MaterialiseStep, MarkStep,
     Zenon DEF Faq!Next
<1> QED BY <1>1, <1>2

LEMMA DraftsOfInv == FaqInv => DraftsExact
<1> SUFFICES ASSUME FaqInv PROVE Faq!DraftedOnce /\ Faq!DecidedOnce
  BY DEF DraftsExact
<1>1. Faq!DraftedOnce
  BY DEF FaqInv, Apart, Kept, Faq!DraftedOnce
<1>2. Faq!DecidedOnce
  BY DEF FaqInv, Counted, Faq!DecidedOnce
<1> QED BY <1>1, <1>2

\* A ticket is in one draft that was not rejected, and a draft decided once has its document
\* exactly when it was approved, unless two runs of the weekly job overlapped, or a draft was
\* reviewed while an approval of it was under way: however often jobs are redelivered, runs
\* fail part of the way and approvals fail after their document was stored.
THEOREM DraftsSafe == AiJobsSpec => []DraftsExact
<1>1. AiJobsInit => FaqInv
  BY FaqInit DEF AiJobsInit
<1>2. FaqInv /\ [AiJobsNext]_<<vars, faqVars, focus>> => FaqInv'
  <2> SUFFICES ASSUME FaqInv, [AiJobsNext]_<<vars, faqVars, focus>> PROVE FaqInv'
    OBVIOUS
  <2>1. [Faq!Next]_faqVars
    BY DEF AiJobsNext
  <2> QED BY <2>1, FaqStep
<1> QED BY <1>1, <1>2, DraftsOfInv, PTL DEF AiJobsSpec

-----------------------------------------------------------------------------
(* A comparison *)

\* A comparison reads documents, and at its end has the flags of what it read.
EngineInv ==
  /\ po \in Seq(Engine!Line) /\ inv \in Seq(Engine!Line) /\ grn \in Seq(Engine!ReceiptLine)
  /\ Engine!Done => flags = Engine!ItemFlags(grn)

LEMMA EngineInit == Engine!Init => EngineInv
BY DEF Engine!Init, EngineInv, Engine!Done

LEMMA EngineStep == EngineInv /\ [Engine!Next]_engineVars => EngineInv'
<1> SUFFICES ASSUME EngineInv, [Engine!Next]_engineVars PROVE EngineInv'
  OBVIOUS
<1>1. CASE UNCHANGED engineVars
  <2>1. po' = po /\ inv' = inv /\ grn' = grn /\ flags' = flags /\ stage' = stage
    BY <1>1 DEF engineVars
  <2> QED BY <2>1 DEF EngineInv, Engine!Done, Engine!ItemFlags, Engine!Disputed, Engine!Joined,
                      Engine!ToFlagValues
<1>2. CASE Engine!ReadOrder
  <2>1. stage' = "invoice" /\ inv' = inv /\ grn' = grn
        /\ \E n \in 1..MaxLines - 1 : po' \in [1..n -> Engine!Line]
    BY <1>2 DEF Engine!ReadOrder
  <2>2. po' \in Seq(Engine!Line)
    BY <2>1
  <2> QED BY <2>1, <2>2 DEF EngineInv, Engine!Done
<1>3. CASE Engine!ReadInvoice
  <2>1. stage' = "receipts" /\ po' = po /\ grn' = grn
        /\ \E n \in 1..MaxLines - Len(po) : inv' \in [1..n -> Engine!Line]
    BY <1>3 DEF Engine!ReadInvoice
  <2>2. inv' \in Seq(Engine!Line)
    BY <2>1
  <2> QED BY <2>1, <2>2 DEF EngineInv, Engine!Done
<1>4. CASE Engine!ReadReceipts
  <2>1. stage' = "engine" /\ po' = po /\ inv' = inv
        /\ \E n \in 0..MaxLines - Len(po) - Len(inv) : grn' \in [1..n -> Engine!ReceiptLine]
    BY <1>4 DEF Engine!ReadReceipts
  <2>2. grn' \in Seq(Engine!ReceiptLine)
    BY <2>1
  <2> QED BY <2>1, <2>2 DEF EngineInv, Engine!Done
<1>5. CASE Engine!Compare
  <2>1. flags' = Engine!ItemFlags(grn) /\ po' = po /\ inv' = inv /\ grn' = grn
    BY <1>5 DEF Engine!Compare
  <2> QED BY <2>1 DEF EngineInv, Engine!Done, Engine!ItemFlags, Engine!Disputed, Engine!Joined,
                      Engine!ToFlagValues
<1> QED BY <1>1, <1>2, <1>3, <1>4, <1>5 DEF Engine!Next

-----------------------------------------------------------------------------
(* Items and their sums *)

LEMMA LineFields ==
  ASSUME NEW doc \in Seq(Engine!Line), NEW n \in DOMAIN doc
  PROVE  /\ doc[n].qty # None => doc[n].qty \in Int
         /\ doc[n].price # None => doc[n].price \in Int
<1>1. doc[n] \in Engine!Line
  OBVIOUS
<1>2. Quantities \subseteq Int /\ Prices \subseteq Int
  BY ChecksConstants DEF Engine!ConstantsTyped
<1> QED BY <1>1, <1>2 DEF Engine!Line

LEMMA GroupOfLines ==
  ASSUME NEW doc \in Seq(Engine!Line), NEW side, NEW k
  PROVE  IsFiniteSet(Engine!Group(side, doc, k)) /\ Engine!Group(side, doc, k) \subseteq DOMAIN doc
<1>1. DOMAIN doc = 1..Len(doc) /\ Len(doc) \in Nat
  OBVIOUS
<1>2. IsFiniteSet(1..Len(doc))
  BY <1>1, FS_Interval
<1> QED BY <1>1, <1>2, FS_Subset DEF Engine!Group

\* The instance's sums are those of Functions.
LEMMA EngineSums ==
  ASSUME NEW doc, NEW group
  PROVE  /\ Engine!Sum(doc, group) = SumFunctionOnSet([n \in group |-> doc[n].qty], group)
         /\ Engine!Cost(doc, group) = SumFunctionOnSet([n \in group |-> doc[n].qty * doc[n].price], group)
<1>1. \A f : Engine!SumFunction(f) = SumFunctionOnSet(f, DOMAIN f)
  BY DEF Engine!SumFunction, Engine!SumFunctionOnSet, Engine!FoldFunctionOnSet, Engine!MapThenFoldSet,
         SumFunctionOnSet, FoldFunctionOnSet, MapThenFoldSet
<1> QED BY <1>1 DEF Engine!Sum, Engine!Cost

LEMMA SumOfStated ==
  ASSUME NEW doc \in Seq(Engine!Line), NEW group, IsFiniteSet(group), group \subseteq DOMAIN doc,
         Engine!AllState(doc, group)
  PROVE  Engine!Sum(doc, group) \in Int
<1> DEFINE f == [n \in group |-> doc[n].qty]
<1>1. \A n \in group : f[n] \in Int
  BY LineFields DEF Engine!AllState
<1> HIDE DEF f
<1>2. SumFunctionOnSet(f, group) \in Int
  BY <1>1, SumTakes
<1> QED BY <1>2, EngineSums DEF f

\* The sum of an item is stated when there is a line of it and each states its own.
LEMMA TotalStated ==
  ASSUME NEW doc \in Seq(Engine!Line), NEW side, NEW k
  PROVE  LET group == Engine!Group(side, doc, k)
             total == Engine!Total(doc, group)
             stated == group # {} /\ Engine!AllState(doc, group)
         IN  /\ stated => total = Engine!Sum(doc, group) /\ total \in Int
             /\ ~stated => total = None
             /\ None \notin Int
<1> PICK group : group = Engine!Group(side, doc, k)
  OBVIOUS
<1>1. IsFiniteSet(group) /\ group \subseteq DOMAIN doc
  BY GroupOfLines
<1>2. Engine!AllState(doc, group) => Engine!Sum(doc, group) \in Int
  BY <1>1, SumOfStated
<1>3. None \notin Int
  BY ChecksConstants DEF Engine!ConstantsTyped
<1> QED BY <1>2, <1>3 DEF Engine!Total, Engine!AllState

LEMMA SideFields ==
  ASSUME NEW doc, NEW side, NEW k
  PROVE  LET s == Engine!Side(side, doc, k)
             group == Engine!Group(side, doc, k)
         IN  /\ s.lines = group /\ s.qty = Engine!Total(doc, group)
             /\ s.min = Engine!Least(doc, group) /\ s.max = Engine!Greatest(doc, group)
             /\ s.units = Engine!UnitsOf(doc, group)
BY DEF Engine!Side

-----------------------------------------------------------------------------
(* Flags *)

\* The three sides of an item.
Ordered(k) == Engine!Side("po", po, k)
Invoiced(k) == Engine!Side("inv", inv, k)
Received(k) == Engine!Side("grn", grn, k)
Verdict(k) == Engine!FlagType(Ordered(k), Invoiced(k), Received(k))

\* What a verdict says of the sides.
LEMMA Verdicts ==
  ASSUME NEW p, NEW i, NEW g, NEW type, type = Engine!FlagType(p, i, g)
  PROVE  /\ type = "match" <=>
              /\ p.lines # {} /\ i.lines # {} /\ ~Engine!UnitsClash(p, i, g)
              /\ ~Engine!Exceeds(i.qty, g.qty) /\ ~Engine!Exceeds(p.qty, g.qty)
              /\ p.qty = i.qty /\ ~Engine!PricesDiffer(p, i)
         /\ type = "invoice_exceeds_received" => Engine!Exceeds(i.qty, g.qty)
         /\ type = "short_receipt" => Engine!Exceeds(p.qty, g.qty)
         /\ type \notin {"match", "missing_on_po", "missing_on_invoice", "uom_mismatch"} =>
              ~Engine!UnitsClash(p, i, g)
BY DEF Engine!FlagType

LEMMA FlagOfItem ==
  ASSUME EngineInv, Engine!Done, NEW f \in flags
  PROVE  /\ f.type = Verdict(f.item)
         /\ f.type # "match"
         /\ f.type = "uom_mismatch" => f.delta = None
<1>1. flags = Engine!ItemFlags(grn)
  BY DEF EngineInv
<1>2. PICK r \in Engine!Disputed(grn) :
        f = Engine!ToFlagValues(r.item, Engine!FlagType(r.po, r.inv, r.grn), r.po, r.inv, r.grn)
  BY <1>1 DEF Engine!ItemFlags
<1>3. /\ r.po = Ordered(r.item) /\ r.inv = Invoiced(r.item) /\ r.grn = Received(r.item)
      /\ Engine!FlagType(r.po, r.inv, r.grn) # "match"
  BY DEF Engine!Disputed, Engine!Joined, Ordered, Invoiced, Received
<1>4. /\ f.item = r.item /\ f.type = Engine!FlagType(r.po, r.inv, r.grn)
      /\ f.delta = Engine!Delta(f.type, r.po, r.inv, r.grn)
  BY <1>2 DEF Engine!ToFlagValues
<1>5. f.type = "uom_mismatch" => f.delta = None
  BY <1>4 DEF Engine!Delta
<1> QED BY <1>3, <1>4, <1>5 DEF Verdict

LEMMA ItemWithoutFlag ==
  ASSUME EngineInv, Engine!Done,
         NEW k \in Engine!Keys("po", po) \cup Engine!Keys("inv", inv), Engine!FlagsOf(k) = {}
  PROVE  Verdict(k) = "match"
<1> SUFFICES ASSUME Verdict(k) # "match" PROVE FALSE
  OBVIOUS
<1> DEFINE r == [item |-> k, po |-> Ordered(k), inv |-> Invoiced(k), grn |-> Received(k)]
           f == Engine!ToFlagValues(r.item, Engine!FlagType(r.po, r.inv, r.grn), r.po, r.inv, r.grn)
<1>1. r \in Engine!Joined(grn)
  BY DEF Engine!Joined, Ordered, Invoiced, Received
<1>2. Engine!FlagType(r.po, r.inv, r.grn) # "match" /\ r.item = k
  BY DEF Verdict
<1>3. r \in Engine!Disputed(grn)
  <2> HIDE DEF r
  <2> QED BY <1>1, <1>2 DEF Engine!Disputed
<1>4. f \in Engine!ItemFlags(grn)
  <2> HIDE DEF r
  <2> QED BY <1>3 DEF Engine!ItemFlags
<1>5. f.item = k
  <2>1. f.item = r.item
    <3> HIDE DEF r
    <3> QED BY DEF Engine!ToFlagValues
  <2> QED BY <2>1, <1>2
<1>6. f \in flags
  BY <1>4 DEF EngineInv
<1> HIDE DEF f
<1> QED BY <1>5, <1>6 DEF Engine!FlagsOf

\* What an engine says of an item rests on documents.
LEMMA EngineDocuments ==
  ASSUME EngineInv
  PROVE  po \in Seq(Engine!Line) /\ inv \in Seq(Engine!Line) /\ grn \in Seq(Engine!Line)
<1>1. Engine!ReceiptLine \subseteq Engine!Line
  BY DEF Engine!ReceiptLine
<1> QED BY <1>1 DEF EngineInv

\* An excess is one of stated sums.
LEMMA ExcessOfSums ==
  ASSUME NEW doc \in Seq(Engine!Line), NEW received \in Seq(Engine!Line), NEW side, NEW k,
         Engine!Exceeds(Engine!Side(side, doc, k).qty, Engine!Side("grn", received, k).qty)
  PROVE  LET lines == Engine!Group(side, doc, k)
             accepted == Engine!Group("grn", received, k)
         IN  /\ accepted # {} /\ Engine!AllState(received, accepted) /\ Engine!AllState(doc, lines)
             /\ Engine!Sum(received, accepted) < Engine!Sum(doc, lines)
<1> PICK lines, accepted : /\ lines = Engine!Group(side, doc, k)
                           /\ accepted = Engine!Group("grn", received, k)
  OBVIOUS
<1> PICK a, b : a = Engine!Total(doc, lines) /\ b = Engine!Total(received, accepted)
  OBVIOUS
<1>1. a # None /\ b # None /\ a > b
  BY SideFields DEF Engine!Exceeds
<1>2. /\ lines # {} /\ Engine!AllState(doc, lines)
      /\ a = Engine!Sum(doc, lines) /\ a \in Int
  BY <1>1, TotalStated
<1>3. /\ accepted # {} /\ Engine!AllState(received, accepted)
      /\ b = Engine!Sum(received, accepted) /\ b \in Int
  BY <1>1, TotalStated
<1> QED BY <1>1, <1>2, <1>3

LEMMA EngineAccuses == EngineInv => Engine!NoFalseAccusation
<1> SUFFICES ASSUME EngineInv, Engine!Done, NEW f \in flags,
                    f.type \in {"short_receipt", "invoice_exceeds_received"}
             PROVE  LET received == Engine!Group("grn", grn, f.item)
                        claimed == IF f.type = "short_receipt" THEN po ELSE inv
                        lines == Engine!Group(IF f.type = "short_receipt" THEN "po" ELSE "inv", claimed, f.item)
                    IN  /\ received # {} /\ Engine!AllState(grn, received) /\ Engine!AllState(claimed, lines)
                        /\ Engine!Sum(grn, received) < Engine!Sum(claimed, lines)
  BY DEF Engine!NoFalseAccusation
<1>1. f.type = Engine!FlagType(Ordered(f.item), Invoiced(f.item), Received(f.item))
  BY FlagOfItem DEF Verdict
<1>2. CASE f.type = "short_receipt"
  <2>1. Engine!Exceeds(Ordered(f.item).qty, Received(f.item).qty)
    BY <1>1, <1>2, Verdicts
  <2> QED BY <1>2, <2>1, EngineDocuments, ExcessOfSums DEF Ordered, Received
<1>3. CASE f.type = "invoice_exceeds_received"
  <2>1. Engine!Exceeds(Invoiced(f.item).qty, Received(f.item).qty)
    BY <1>1, <1>3, Verdicts
  <2> QED BY <1>3, <2>1, EngineDocuments, ExcessOfSums DEF Invoiced, Received
<1> QED BY <1>2, <1>3

\* The units of an item that does not clash are one at most.
LEMMA UnitsOfItem ==
  ASSUME NEW doc \in Seq(Engine!Line), NEW side, NEW k
  PROVE  IsFiniteSet(Engine!Side(side, doc, k).units)
<1> PICK group : group = Engine!Group(side, doc, k)
  OBVIOUS
<1>1. IsFiniteSet(group)
  BY GroupOfLines
<1>2. IsFiniteSet({doc[n].uom : n \in group})
  <2> DEFINE f == [n \in group |-> doc[n].uom]
  <2>1. {f[n] : n \in group} = {doc[n].uom : n \in group}
    OBVIOUS
  <2> HIDE DEF f
  <2>2. IsFiniteSet({f[n] : n \in group})
    BY <1>1, ImageFinite
  <2> QED BY <2>1, <2>2
<1>3. IsFiniteSet({doc[n].uom : n \in group} \ {None})
  BY <1>2, FS_Subset
<1>4. Engine!Side(side, doc, k).units = {doc[n].uom : n \in group} \ {None}
  BY SideFields DEF Engine!UnitsOf
<1> QED BY <1>3, <1>4

LEMMA EngineCardinality == \A S : Engine!Cardinality(S) = Cardinality(S)
BY DEF Engine!Cardinality, Cardinality

\* A set of at most one element, by its cardinality.
LEMMA AtMostOne ==
  ASSUME NEW S, IsFiniteSet(S), ~(Cardinality(S) > 1)
  PROVE  S = {} \/ (Cardinality(S) = 1 /\ \E x : S = {x})
<1>1. Cardinality(S) \in Nat
  BY FS_CardinalityType
<1>2. Cardinality(S) = 0 \/ Cardinality(S) = 1
  BY <1>1
<1> QED BY <1>2, FS_EmptySet, FS_Singleton

LEMMA OneUnit ==
  ASSUME NEW p, NEW i, NEW g, ~Engine!UnitsClash(p, i, g),
         IsFiniteSet(p.units), IsFiniteSet(i.units), IsFiniteSet(g.units)
  PROVE  Cardinality(UNION {p.units, i.units, g.units}) <= 1
<1>1. \A s \in {p, i, g} : ~(Cardinality(s.units) > 1)
  BY EngineCardinality DEF Engine!UnitsClash
<1>2. \A s, t \in {p, i, g} : Cardinality(s.units) = 1 /\ Cardinality(t.units) = 1 => s.units = t.units
  BY EngineCardinality DEF Engine!UnitsClash
<1>3. \A s \in {p, i, g} : s.units = {} \/ (Cardinality(s.units) = 1 /\ \E x : s.units = {x})
  BY <1>1, AtMostOne
<1>4. UNION {p.units, i.units, g.units} = p.units \cup i.units \cup g.units
  OBVIOUS
<1>5. p.units \cup i.units \cup g.units = {} \/ \E x : p.units \cup i.units \cup g.units = {x}
  BY <1>2, <1>3
<1>6. Cardinality({}) = 0 /\ \A x : Cardinality({x}) = 1
  BY FS_EmptySet, FS_Singleton
<1> QED BY <1>4, <1>5, <1>6

LEMMA EngineUnits == EngineInv => Engine!NoArithmeticAcrossUnits
<1> SUFFICES ASSUME EngineInv, Engine!Done, NEW f \in flags, f.delta # None,
                    f.type \notin {"missing_on_po", "missing_on_invoice"}
             PROVE  Engine!Cardinality(UNION {Engine!UnitsOf(po, Engine!Group("po", po, f.item)),
                                       Engine!UnitsOf(inv, Engine!Group("inv", inv, f.item)),
                                       Engine!UnitsOf(grn, Engine!Group("grn", grn, f.item))}) <= 1
  BY DEF Engine!NoArithmeticAcrossUnits
<1> PICK p, i, g : p = Ordered(f.item) /\ i = Invoiced(f.item) /\ g = Received(f.item)
  OBVIOUS
<1>1. f.type = Engine!FlagType(p, i, g) /\ f.type \notin {"match", "uom_mismatch"}
  BY FlagOfItem DEF Verdict
<1>2. ~Engine!UnitsClash(p, i, g)
  BY <1>1, Verdicts
<1>3. IsFiniteSet(p.units) /\ IsFiniteSet(i.units) /\ IsFiniteSet(g.units)
  BY EngineDocuments, UnitsOfItem DEF Ordered, Invoiced, Received
<1>4. Cardinality(UNION {p.units, i.units, g.units}) <= 1
  BY <1>2, <1>3, OneUnit
<1>5. /\ p.units = Engine!UnitsOf(po, Engine!Group("po", po, f.item))
      /\ i.units = Engine!UnitsOf(inv, Engine!Group("inv", inv, f.item))
      /\ g.units = Engine!UnitsOf(grn, Engine!Group("grn", grn, f.item))
  BY SideFields DEF Ordered, Invoiced, Received
<1> QED BY <1>4, <1>5, EngineCardinality

-----------------------------------------------------------------------------
(* Receipts add questions *)

\* No receipt: nothing is stated.
LEMMA NoReceipt ==
  ASSUME NEW k
  PROVE  /\ Engine!Keys("grn", <<>>) = {}
         /\ Engine!Side("grn", <<>>, k).qty = None /\ Engine!Side("grn", <<>>, k).units = {}
<1>1. Engine!Keys("grn", <<>>) = {}
  BY DEF Engine!Keys
<1>2. Engine!Group("grn", <<>>, k) = {}
  BY DEF Engine!Group
<1> QED BY <1>1, <1>2, SideFields DEF Engine!Total, Engine!UnitsOf

LEMMA EngineReceipts == EngineInv => Engine!ReceiptNeverClears
<1> SUFFICES ASSUME EngineInv, Engine!Done, NEW r \in Engine!Disputed(<<>>), Engine!FlagsOf(r.item) = {}
             PROVE  FALSE
  BY DEF Engine!ReceiptNeverClears
<1> PICK k, p, i, e, g : /\ k = r.item /\ p = Ordered(k) /\ i = Invoiced(k)
                         /\ e = Engine!Side("grn", <<>>, k) /\ g = Received(k)
  OBVIOUS
<1>1. /\ k \in Engine!Keys("po", po) \cup Engine!Keys("inv", inv)
      /\ Engine!FlagType(p, i, e) # "match"
  BY NoReceipt DEF Engine!Disputed, Engine!Joined, Ordered, Invoiced
<1>2. Engine!FlagType(p, i, g) = "match"
  BY <1>1, ItemWithoutFlag DEF Verdict
<1>3. /\ p.lines # {} /\ i.lines # {} /\ ~Engine!UnitsClash(p, i, g)
      /\ p.qty = i.qty /\ ~Engine!PricesDiffer(p, i)
  BY <1>2, Verdicts
<1>4. e.qty = None /\ e.units = {}
  BY NoReceipt
<1>5. ~Engine!Exceeds(i.qty, e.qty) /\ ~Engine!Exceeds(p.qty, e.qty)
  BY <1>4 DEF Engine!Exceeds
<1>6. ~Engine!UnitsClash(p, i, e)
  <2>1. Engine!Cardinality({}) = 0
    BY EngineCardinality, FS_EmptySet
  <2>2. \A s \in {p, i} : ~(Engine!Cardinality(s.units) > 1)
    BY <1>3 DEF Engine!UnitsClash
  <2>3. \A s, t \in {p, i} :
          Engine!Cardinality(s.units) = 1 /\ Engine!Cardinality(t.units) = 1 => s.units = t.units
    BY <1>3 DEF Engine!UnitsClash
  <2>4. Engine!Cardinality(e.units) = 0
    BY <1>4, <2>1
  <2>5. ~(Engine!Cardinality(e.units) > 1) /\ Engine!Cardinality(e.units) # 1
    BY <2>4
  <2> QED BY <2>2, <2>3, <2>5 DEF Engine!UnitsClash
<1>7. Engine!FlagType(p, i, e) = "match"
  BY <1>3, <1>5, <1>6, Verdicts
<1> QED BY <1>1, <1>7

-----------------------------------------------------------------------------
(* Silence *)

\* Prices whose least is their greatest are one price.
LEMMA OnePrice ==
  ASSUME NEW doc \in Seq(Engine!Line), NEW group, IsFiniteSet(group), group \subseteq DOMAIN doc,
         group # {}, Engine!Stated(doc, group), Engine!Least(doc, group) = Engine!Greatest(doc, group)
  PROVE  /\ Engine!Least(doc, group) \in Int
         /\ \A n \in group : doc[n].price = Engine!Least(doc, group)
<1> DEFINE P == {doc[n].price : n \in group}
<1>1. P \subseteq Int /\ P # {} /\ IsFiniteSet(P)
  <2>1. \A n \in group : doc[n].price \in Int
    BY LineFields DEF Engine!Stated
  <2> DEFINE f == [n \in group |-> doc[n].price]
  <2>2. {f[n] : n \in group} = P
    OBVIOUS
  <2>3. IsFiniteSet({f[n] : n \in group})
    <3> HIDE DEF f
    <3> QED BY ImageFinite
  <2> QED BY <2>1, <2>2, <2>3
<1>2. Engine!Least(doc, group) = Engine!Min(P) /\ Engine!Greatest(doc, group) = Engine!Max(P)
  BY DEF Engine!Least, Engine!Greatest, Engine!Stated
<1> HIDE DEF P
<1>3. (\E x \in P : \A y \in P : x <= y) /\ (\E x \in P : \A y \in P : x >= y)
  BY <1>1, FiniteEnds
<1>4. Engine!Min(P) \in P /\ \A y \in P : Engine!Min(P) <= y
  BY <1>3, Zenon DEF Engine!Min
<1>5. Engine!Max(P) \in P /\ \A y \in P : Engine!Max(P) >= y
  BY <1>3, Zenon DEF Engine!Max
<1>6. \A y \in P : y = Engine!Min(P)
  <2>1. Engine!Min(P) = Engine!Max(P)
    BY <1>2
  <2> SUFFICES ASSUME NEW y \in P PROVE y = Engine!Min(P)
    OBVIOUS
  <2>2. y \in Int /\ Engine!Min(P) \in Int /\ Engine!Min(P) <= y /\ y <= Engine!Min(P)
    <3>1. Engine!Max(P) >= y
      BY <1>5
    <3> QED BY <1>1, <1>4, <2>1, <3>1
  <2> QED BY <2>2
<1> QED BY <1>1, <1>2, <1>4, <1>6 DEF P

\* At one price an item costs the sum of its quantities times the price.
LEMMA CostAtOnePrice ==
  ASSUME NEW doc \in Seq(Engine!Line), NEW group, IsFiniteSet(group), group \subseteq DOMAIN doc,
         Engine!AllState(doc, group), NEW price \in Int, \A n \in group : doc[n].price = price
  PROVE  Engine!Cost(doc, group) = Engine!Sum(doc, group) * price
<1> DEFINE f == [n \in group |-> doc[n].qty]
           g == [n \in group |-> doc[n].qty * doc[n].price]
<1>1. \A n \in group : f[n] \in Int /\ g[n] = f[n] * price
  BY LineFields DEF Engine!AllState
<1> HIDE DEF f, g
<1>2. SumFunctionOnSet(g, group) = SumFunctionOnSet(f, group) * price
  BY <1>1, SumScales
<1> QED BY <1>2, EngineSums DEF f, g

LEMMA EngineSilence == EngineInv => Engine!SilenceAgrees
<1> SUFFICES ASSUME EngineInv, Engine!Done,
                    NEW k \in Engine!Keys("po", po) \cup Engine!Keys("inv", inv), Engine!FlagsOf(k) = {}
             PROVE  LET p == Engine!Group("po", po, k)
                        i == Engine!Group("inv", inv, k)
                        g == Engine!Group("grn", grn, k)
                    IN  /\ Engine!Stated(po, p) /\ Engine!Stated(inv, i) =>
                             Engine!Cost(po, p) = Engine!Cost(inv, i)
                        /\ g # {} /\ Engine!AllState(grn, g) /\ Engine!AllState(inv, i) =>
                             Engine!Sum(inv, i) <= Engine!Sum(grn, g)
  BY DEF Engine!SilenceAgrees
<1> PICK p, i, g : /\ p = Engine!Group("po", po, k) /\ i = Engine!Group("inv", inv, k)
                   /\ g = Engine!Group("grn", grn, k)
  OBVIOUS
<1>1. Engine!FlagType(Ordered(k), Invoiced(k), Received(k)) = "match"
  BY ItemWithoutFlag DEF Verdict
<1>2. /\ Ordered(k).lines # {} /\ Invoiced(k).lines # {}
      /\ ~Engine!Exceeds(Invoiced(k).qty, Received(k).qty)
      /\ Ordered(k).qty = Invoiced(k).qty /\ ~Engine!PricesDiffer(Ordered(k), Invoiced(k))
  BY <1>1, Verdicts
<1>3. /\ p # {} /\ i # {} /\ Engine!Total(po, p) = Engine!Total(inv, i)
      /\ ~Engine!Exceeds(Engine!Total(inv, i), Engine!Total(grn, g))
      /\ Engine!Least(po, p) = Engine!Greatest(po, p) /\ Engine!Least(inv, i) = Engine!Greatest(inv, i)
      /\ Engine!Least(po, p) = Engine!Least(inv, i)
  BY <1>2, SideFields DEF Ordered, Invoiced, Received, Engine!PricesDiffer
<1>4. /\ IsFiniteSet(p) /\ p \subseteq DOMAIN po /\ po \in Seq(Engine!Line)
      /\ IsFiniteSet(i) /\ i \subseteq DOMAIN inv /\ inv \in Seq(Engine!Line)
      /\ grn \in Seq(Engine!Line)
  BY EngineDocuments, GroupOfLines
<1>5. ASSUME Engine!Stated(po, p), Engine!Stated(inv, i)
      PROVE  Engine!Cost(po, p) = Engine!Cost(inv, i)
  <2> PICK price : price = Engine!Least(po, p)
    OBVIOUS
  <2>1. price \in Int /\ \A n \in p : po[n].price = price
    BY <1>3, <1>4, <1>5, OnePrice
  <2>2. \A n \in i : inv[n].price = price
    BY <1>3, <1>4, <1>5, OnePrice
  <2>3. Engine!AllState(po, p) /\ Engine!AllState(inv, i)
    BY <1>5 DEF Engine!Stated
  <2>4. Engine!Sum(po, p) = Engine!Sum(inv, i)
    BY <1>3, <1>4, <2>3, TotalStated
  <2>5. Engine!Cost(po, p) = Engine!Sum(po, p) * price /\ Engine!Cost(inv, i) = Engine!Sum(inv, i) * price
    BY <1>4, <2>1, <2>2, <2>3, CostAtOnePrice
  <2> QED BY <2>4, <2>5
<1>6. ASSUME g # {}, Engine!AllState(grn, g), Engine!AllState(inv, i)
      PROVE  Engine!Sum(inv, i) <= Engine!Sum(grn, g)
  <2> PICK a, b : a = Engine!Total(inv, i) /\ b = Engine!Total(grn, g)
    OBVIOUS
  <2>1. /\ a = Engine!Sum(inv, i) /\ a \in Int /\ a # None
        /\ b = Engine!Sum(grn, g) /\ b \in Int /\ b # None
    BY <1>3, <1>4, <1>6, TotalStated
  <2>2. ~(a > b)
    BY <1>3, <2>1 DEF Engine!Exceeds
  <2> QED BY <2>1, <2>2
<1> QED BY <1>5, <1>6

-----------------------------------------------------------------------------
(* The terms of a vendor *)

Of(t) == Terms!Of(t)

\* A call that is about to write.
Writing(h) == termsPc[h] = "write"

TermsTyped ==
  /\ terms \in Seq(Terms!Term)
  /\ termsPc \in [Handlers -> {"idle", "write"}]
  /\ input \in [Handlers -> Terms!Term \cup {Terms!NoTerm}]
  /\ open \in [Handlers -> Nat]
  /\ \A n \in DOMAIN terms : terms[n].to # None => terms[n].from < terms[n].to

\* What a call is about to write is a term that begins after the open one it read.
Pending == \A h \in Handlers : Writing(h) =>
  /\ input[h] \in Terms!Term /\ input[h].to = None /\ open[h] \in 0..Len(terms)
  /\ open[h] # 0 => /\ Of(terms[open[h]]) = Of(input[h])
                    /\ terms[open[h]].from < input[h].from

\* Calls that record an agreement at once are told of.
Sole == \A g, h \in Handlers :
  Writing(g) /\ Writing(h) /\ Of(input[g]) = Of(input[h]) => g = h \/ Of(input[h]) \in recordedAtOnce

\* A call that records its agreement alone has read it as it is.
Current == \A h \in Handlers : Writing(h) /\ Of(input[h]) \notin recordedAtOnce =>
  /\ open[h] = 0 => \A n \in DOMAIN terms : Of(terms[n]) # Of(input[h])
  /\ open[h] # 0 => terms[open[h]].to = None

\* The terms of an agreement follow each other without a gap, and the last one is open.
Tiled == \A n \in DOMAIN terms : Of(terms[n]) \notin recordedAtOnce =>
  /\ \A m \in DOMAIN terms : n < m /\ Of(terms[m]) = Of(terms[n]) =>
       terms[n].to # None /\ terms[n].to <= terms[m].from
  /\ terms[n].to # None =>
       \E m \in DOMAIN terms : n < m /\ Of(terms[m]) = Of(terms[n]) /\ terms[m].from = terms[n].to
  /\ \E m \in DOMAIN terms : Of(terms[m]) = Of(terms[n]) /\ terms[m].to = None

TermsInv == TermsTyped /\ Pending /\ Sole /\ Current /\ Tiled

LEMMA TermsInit == Terms!Init => TermsInv
<1> SUFFICES ASSUME Terms!Init PROVE TermsInv
  OBVIOUS
<1>1. /\ terms = <<>> /\ termsPc = [h \in Handlers |-> "idle"]
      /\ input = [h \in Handlers |-> Terms!NoTerm] /\ open = [h \in Handlers |-> 0]
  BY DEF Terms!Init
<1>2. TermsTyped
  BY <1>1 DEF TermsTyped
<1>3. \A h \in Handlers : ~Writing(h)
  BY <1>1 DEF Writing
<1>4. DOMAIN terms = {}
  BY <1>1
<1> QED BY <1>2, <1>3, <1>4 DEF TermsInv, Pending, Sole, Current, Tiled

LEMMA TermFields ==
  ASSUME NEW t \in Terms!Term
  PROVE  /\ t.from \in Int /\ (t.to # None => t.to \in Int) /\ None \notin Int
         /\ Of(t) \in Terms!Agreement
<1>1. None \notin Int /\ LastDay \in Nat
  BY ChecksConstants DEF Terms!ConstantsTyped
<1>2. Of(t) \in Terms!Agreement
  BY DEF Of, Terms!Of, Terms!Term, Terms!Agreement
<1> QED BY <1>1, <1>2 DEF Terms!Term, Terms!Days

LEMMA ReadOpenStep ==
  ASSUME TermsInv, NEW h \in Handlers, Terms!ReadOpen(h)
  PROVE  TermsInv'
<1>1. PICK t \in Terms!Term :
        /\ termsPc[h] = "idle" /\ t.to = None
        /\ \/ Terms!OpenTerms(Of(t)) = {} /\ open' = [open EXCEPT ![h] = 0]
           \/ \E n \in Terms!OpenTerms(Of(t)) : ~Terms!Backdated(n, t.from) /\ open' = [open EXCEPT ![h] = n]
        /\ termsPc' = [termsPc EXCEPT ![h] = "write"]
        /\ input' = [input EXCEPT ![h] = t]
        /\ recordedAtOnce' = (IF Terms!Recording(Of(t)) THEN recordedAtOnce \cup {Of(t)} ELSE recordedAtOnce)
        /\ terms' = terms
  BY DEF Terms!ReadOpen, Of
<1>2. PICK k \in 0..Len(terms) :
        /\ open' = [open EXCEPT ![h] = k]
        /\ k = 0 => \A n \in DOMAIN terms : Of(terms[n]) # Of(t) \/ terms[n].to # None
        /\ k # 0 => /\ k \in DOMAIN terms /\ Of(terms[k]) = Of(t) /\ terms[k].to = None
                    /\ terms[k].from < t.from
  <2>1. terms \in Seq(Terms!Term) /\ DOMAIN terms = 1..Len(terms) /\ Len(terms) \in Nat
    BY DEF TermsInv, TermsTyped
  <2>2. CASE Terms!OpenTerms(Of(t)) = {} /\ open' = [open EXCEPT ![h] = 0]
    <3>1. \A n \in DOMAIN terms : Of(terms[n]) # Of(t) \/ terms[n].to # None
      BY <2>2 DEF Terms!OpenTerms, Of
    <3>2. 0 \in 0..Len(terms)
      BY <2>1
    <3> QED BY <2>2, <3>1, <3>2
  <2>3. ASSUME NEW n \in Terms!OpenTerms(Of(t)), ~Terms!Backdated(n, t.from), open' = [open EXCEPT ![h] = n]
        PROVE  \E k \in 0..Len(terms) :
                 /\ open' = [open EXCEPT ![h] = k]
                 /\ k = 0 => \A m \in DOMAIN terms : Of(terms[m]) # Of(t) \/ terms[m].to # None
                 /\ k # 0 => /\ k \in DOMAIN terms /\ Of(terms[k]) = Of(t) /\ terms[k].to = None
                             /\ terms[k].from < t.from
    <3>1. n \in DOMAIN terms /\ Of(terms[n]) = Of(t) /\ terms[n].to = None /\ ~(terms[n].from >= t.from)
      BY <2>3 DEF Terms!OpenTerms, Terms!Backdated, Of
    <3>2. terms[n] \in Terms!Term
      BY <2>1, <3>1
    <3>3. terms[n].from \in Int /\ t.from \in Int
      BY <3>2, TermFields
    <3>4. n \in 0..Len(terms) /\ n # 0 /\ terms[n].from < t.from
      BY <2>1, <3>1, <3>3
    <3> QED BY <2>3, <3>1, <3>4
  <2> QED BY <1>1, <2>2, <2>3
<1>3. /\ termsPc' \in [Handlers -> {"idle", "write"}] /\ input' \in [Handlers -> Terms!Term \cup {Terms!NoTerm}]
      /\ open' \in [Handlers -> Nat]
      /\ termsPc'[h] = "write" /\ input'[h] = t /\ open'[h] = k
      /\ \A g \in Handlers \ {h} : termsPc'[g] = termsPc[g] /\ input'[g] = input[g] /\ open'[g] = open[g]
  BY <1>1, <1>2 DEF TermsInv, TermsTyped
<1>4. \A g \in Handlers : Writing(g)' <=> (g = h \/ Writing(g))
  BY <1>1, <1>3 DEF Writing
<1>5. ~Writing(h)
  BY <1>1 DEF Writing
<1>6. recordedAtOnce \subseteq recordedAtOnce'
  BY <1>1
<1>7. \A g \in Handlers : Writing(g) /\ Of(input[g]) = Of(t) => Of(t) \in recordedAtOnce'
  BY <1>1 DEF Terms!Recording, Writing, Of
<1>8. TermsTyped'
  BY <1>1, <1>3 DEF TermsInv, TermsTyped
<1>9. Pending'
  BY <1>1, <1>2, <1>3, <1>4 DEF TermsInv, Pending
<1>10. Sole'
  BY <1>3, <1>4, <1>6, <1>7 DEF TermsInv, Sole
<1>11. Tiled'
  BY <1>1, <1>6 DEF TermsInv, Tiled
<1>12. Current'
  <2>1. ASSUME k = 0, Of(t) \notin recordedAtOnce PROVE \A n \in DOMAIN terms : Of(terms[n]) # Of(t)
    BY <1>2, <2>1 DEF TermsInv, Tiled
  <2>2. ASSUME NEW g \in Handlers, Writing(g)', Of(input'[g]) \notin recordedAtOnce'
        PROVE  /\ open'[g] = 0 => \A n \in DOMAIN terms' : Of(terms'[n]) # Of(input'[g])
               /\ open'[g] # 0 => terms'[open'[g]].to = None
    <3>1. CASE g = h
      BY <1>1, <1>2, <1>3, <1>6, <2>1, <2>2, <3>1
    <3>2. CASE g # h
      BY <1>1, <1>3, <1>4, <1>6, <2>2, <3>2 DEF TermsInv, Current
    <3> QED BY <3>1, <3>2
  <2> QED BY <2>2 DEF Current
<1> QED BY <1>8, <1>9, <1>10, <1>11, <1>12 DEF TermsInv

LEMMA AbortStep ==
  ASSUME TermsInv, NEW h \in Handlers, Terms!Abort(h)
  PROVE  TermsInv'
<1>1. /\ termsPc' = [termsPc EXCEPT ![h] = "idle"] /\ input' = [input EXCEPT ![h] = Terms!NoTerm]
      /\ open' = [open EXCEPT ![h] = 0] /\ terms' = terms /\ recordedAtOnce' = recordedAtOnce
  BY DEF Terms!Abort, Terms!Answer
<1>2. /\ termsPc' \in [Handlers -> {"idle", "write"}] /\ input' \in [Handlers -> Terms!Term \cup {Terms!NoTerm}]
      /\ open' \in [Handlers -> Nat] /\ termsPc'[h] = "idle"
      /\ \A g \in Handlers \ {h} : termsPc'[g] = termsPc[g] /\ input'[g] = input[g] /\ open'[g] = open[g]
  BY <1>1 DEF TermsInv, TermsTyped
<1>3. \A g \in Handlers : Writing(g)' => g # h /\ Writing(g)
  BY <1>2 DEF Writing
<1>4. TermsTyped' /\ Tiled'
  BY <1>1, <1>2 DEF TermsInv, TermsTyped, Tiled
<1>5. Pending'
  BY <1>1, <1>2, <1>3 DEF TermsInv, Pending
<1>6. Sole'
  BY <1>1, <1>2, <1>3 DEF TermsInv, Sole
<1>7. Current'
  BY <1>1, <1>2, <1>3 DEF TermsInv, Current
<1> QED BY <1>4, <1>5, <1>6, <1>7 DEF TermsInv

\* What a write leaves: the term it read ends where the new one begins, the others stay.
LEMMA WriteEdits ==
  ASSUME TermsInv, NEW h \in Handlers, Terms!Write(h)
  PROVE  /\ Writing(h) /\ input[h] \in Terms!Term /\ input[h].to = None
         /\ open[h] = 0 \/ open[h] \in DOMAIN terms
         /\ terms' \in Seq(Terms!Term) /\ Len(terms) \in Nat /\ Len(terms') = Len(terms) + 1
         /\ terms'[Len(terms) + 1] = input[h]
         /\ DOMAIN terms = 1..Len(terms) /\ DOMAIN terms' = 1..(Len(terms) + 1)
         /\ \A n \in DOMAIN terms :
              /\ n # open[h] => terms'[n] = terms[n]
              /\ terms'[n].from = terms[n].from /\ Of(terms'[n]) = Of(terms[n])
              /\ n = open[h] => terms'[n].to = input[h].from
<1> PICK t, k : t = input[h] /\ k = open[h]
  OBVIOUS
<1>1. Writing(h) /\ terms' = Append(Terms!Closed(k, t.from), t)
  BY DEF Terms!Write, Writing
<1>2. t \in Terms!Term /\ t.to = None /\ k \in 0..Len(terms)
  BY <1>1 DEF TermsInv, Pending
<1>3. terms \in Seq(Terms!Term) /\ DOMAIN terms = 1..Len(terms) /\ Len(terms) \in Nat
  BY DEF TermsInv, TermsTyped
<1>4. k = 0 \/ k \in DOMAIN terms
  BY <1>2, <1>3
<1>5. PICK closed : closed = Terms!Closed(k, t.from)
  OBVIOUS
<1>6. /\ closed \in Seq(Terms!Term) /\ Len(closed) = Len(terms) /\ DOMAIN closed = DOMAIN terms
      /\ \A n \in DOMAIN terms :
           /\ n # k => closed[n] = terms[n]
           /\ closed[n].from = terms[n].from /\ Of(closed[n]) = Of(terms[n])
           /\ n = k => closed[n].to = t.from
  <2>1. CASE k = 0
    BY <1>3, <1>5, <2>1 DEF Terms!Closed
  <2>2. CASE k \in DOMAIN terms
    <3> DEFINE x == [terms[k] EXCEPT !.to = t.from]
    <3>1. k # 0 /\ terms[k] \in Terms!Term /\ t.from \in Terms!Days
      <4>1. k # 0 /\ terms[k] \in Terms!Term
        BY <1>3, <2>2
      <4> QED BY <1>2, <4>1 DEF Terms!Term
    <3>2. x \in Terms!Term /\ x.from = terms[k].from /\ Of(x) = Of(terms[k]) /\ x.to = t.from
      BY <3>1 DEF Terms!Term, Of, Terms!Of
    <3>3. closed = [terms EXCEPT ![k] = x]
      BY <1>5, <3>1 DEF Terms!Closed
    <3> HIDE DEF x
    <3> QED BY <1>3, <2>2, <3>2, <3>3
  <2> QED BY <1>4, <2>1, <2>2
<1>7. terms' = Append(closed, t)
  BY <1>1, <1>5
<1>8. /\ terms' \in Seq(Terms!Term) /\ Len(terms') = Len(terms) + 1 /\ terms'[Len(terms) + 1] = t
      /\ DOMAIN terms' = 1..(Len(terms) + 1) /\ \A n \in DOMAIN terms : terms'[n] = closed[n]
  BY <1>2, <1>3, <1>6, <1>7
<1> QED BY <1>1, <1>2, <1>3, <1>4, <1>6, <1>8

LEMMA WriteStep ==
  ASSUME TermsInv, NEW h \in Handlers, Terms!Write(h)
  PROVE  TermsInv'
<1> PICK t, k, N : t = input[h] /\ k = open[h] /\ N = Len(terms) + 1
  OBVIOUS
<1>1. /\ Writing(h) /\ t \in Terms!Term /\ t.to = None /\ k \in DOMAIN terms \cup {0} /\ 0 \notin DOMAIN terms
      /\ terms' \in Seq(Terms!Term) /\ Len(terms) \in Nat /\ Len(terms') = N
      /\ terms'[N] = t
      /\ DOMAIN terms' = DOMAIN terms \cup {N} /\ \A n \in DOMAIN terms : n \in Nat /\ n < N
      /\ N \in Nat
  <2>1. /\ Writing(h) /\ t \in Terms!Term /\ t.to = None
        /\ terms' \in Seq(Terms!Term) /\ Len(terms) \in Nat /\ Len(terms') = N /\ terms'[N] = t
        /\ k = 0 \/ k \in DOMAIN terms
        /\ DOMAIN terms = 1..Len(terms) /\ DOMAIN terms' = 1..(Len(terms) + 1)
    BY WriteEdits
  <2> QED BY <2>1
<1>2. \A n \in DOMAIN terms :
        /\ n # k => terms'[n] = terms[n]
        /\ terms'[n].from = terms[n].from /\ Of(terms'[n]) = Of(terms[n])
        /\ n = k => terms'[n].to = t.from
  BY WriteEdits
<1>3. \A n \in DOMAIN terms :
        /\ terms[n] \in Terms!Term /\ terms[n].from \in Int /\ (terms[n].to # None => terms[n].to \in Int)
        /\ None \notin Int
  BY TermFields DEF TermsInv, TermsTyped
<1>4. t.from \in Int /\ None \notin Int
  BY <1>1, TermFields
<1>5. k # 0 => Of(terms[k]) = Of(t) /\ terms[k].from < t.from
  BY <1>1 DEF TermsInv, Pending
<1>6. /\ termsPc' = [termsPc EXCEPT ![h] = "idle"] /\ input' = [input EXCEPT ![h] = Terms!NoTerm]
      /\ open' = [open EXCEPT ![h] = 0] /\ recordedAtOnce' = recordedAtOnce
  BY DEF Terms!Write, Terms!Answer
<1>7. /\ termsPc' \in [Handlers -> {"idle", "write"}] /\ input' \in [Handlers -> Terms!Term \cup {Terms!NoTerm}]
      /\ open' \in [Handlers -> Nat] /\ termsPc'[h] = "idle"
      /\ \A g \in Handlers \ {h} : termsPc'[g] = termsPc[g] /\ input'[g] = input[g] /\ open'[g] = open[g]
  BY <1>6 DEF TermsInv, TermsTyped
<1>8. \A g \in Handlers : Writing(g)' => g # h /\ Writing(g) /\ input'[g] = input[g] /\ open'[g] = open[g]
  BY <1>7 DEF Writing
<1>9. TermsTyped'
  <2>1. ASSUME NEW n \in DOMAIN terms', terms'[n].to # None PROVE terms'[n].from < terms'[n].to
    <3>1. n \in DOMAIN terms
      BY <1>1, <2>1
    <3>2. CASE n = k
      BY <1>1, <1>2, <1>5, <3>1, <3>2
    <3>3. CASE n # k
      BY <1>2, <2>1, <3>1, <3>3 DEF TermsInv, TermsTyped
    <3> QED BY <3>2, <3>3
  <2> QED BY <1>1, <1>7, <2>1 DEF TermsTyped
<1>10. Pending'
  <2> SUFFICES ASSUME NEW g \in Handlers, Writing(g)'
               PROVE  /\ input'[g] \in Terms!Term /\ input'[g].to = None /\ open'[g] \in 0..Len(terms')
                      /\ open'[g] # 0 => /\ Of(terms'[open'[g]]) = Of(input'[g])
                                         /\ terms'[open'[g]].from < input'[g].from
    BY DEF Pending
  <2>1. Writing(g) /\ input'[g] = input[g] /\ open'[g] = open[g]
    BY <1>8
  <2>2. /\ input[g] \in Terms!Term /\ input[g].to = None /\ open[g] \in 0..Len(terms)
        /\ open[g] # 0 => Of(terms[open[g]]) = Of(input[g]) /\ terms[open[g]].from < input[g].from
    BY <2>1 DEF TermsInv, Pending
  <2>3. open[g] \in 0..Len(terms') /\ (open[g] # 0 => open[g] \in DOMAIN terms)
    <3>1. terms \in Seq(Terms!Term)
      BY DEF TermsInv, TermsTyped
    <3> QED BY <1>1, <2>2, <3>1
  <2> QED BY <1>2, <2>1, <2>2, <2>3
<1>11. Sole'
  BY <1>6, <1>8 DEF TermsInv, Sole
<1>12. Current'
  <2> SUFFICES ASSUME NEW g \in Handlers, Writing(g)', Of(input'[g]) \notin recordedAtOnce'
               PROVE  /\ open'[g] = 0 => \A n \in DOMAIN terms' : Of(terms'[n]) # Of(input'[g])
                      /\ open'[g] # 0 => terms'[open'[g]].to = None
    BY DEF Current
  <2>1. g # h /\ Writing(g) /\ input'[g] = input[g] /\ open'[g] = open[g]
    BY <1>8
  <2>2. Of(input[g]) \notin recordedAtOnce /\ Of(input[g]) # Of(t)
    BY <1>1, <1>6, <2>1 DEF TermsInv, Sole
  <2>3. /\ open[g] = 0 => \A n \in DOMAIN terms : Of(terms[n]) # Of(input[g])
        /\ open[g] # 0 => terms[open[g]].to = None
    BY <2>1, <2>2 DEF TermsInv, Current
  <2>4. ASSUME open[g] = 0 PROVE \A n \in DOMAIN terms' : Of(terms'[n]) # Of(input[g])
    BY <1>1, <1>2, <2>2, <2>3, <2>4
  <2>5. ASSUME open[g] # 0 PROVE terms'[open[g]].to = None
    <3>1. open[g] \in DOMAIN terms /\ Of(terms[open[g]]) = Of(input[g])
      <4>1. terms \in Seq(Terms!Term)
        BY DEF TermsInv, TermsTyped
      <4> QED BY <2>1, <2>5, <4>1 DEF TermsInv, Pending
    <3>2. open[g] # k
      BY <1>5, <2>2, <2>5, <3>1
    <3> QED BY <1>2, <2>3, <2>5, <3>1, <3>2
  <2> QED BY <2>1, <2>4, <2>5
<1>13. Tiled'
  <2> SUFFICES ASSUME NEW n \in DOMAIN terms', Of(terms'[n]) \notin recordedAtOnce'
               PROVE  /\ \A m \in DOMAIN terms' : n < m /\ Of(terms'[m]) = Of(terms'[n]) =>
                           terms'[n].to # None /\ terms'[n].to <= terms'[m].from
                      /\ terms'[n].to # None =>
                           \E m \in DOMAIN terms' :
                             n < m /\ Of(terms'[m]) = Of(terms'[n]) /\ terms'[m].from = terms'[n].to
                      /\ \E m \in DOMAIN terms' : Of(terms'[m]) = Of(terms'[n]) /\ terms'[m].to = None
    BY DEF Tiled
  <2>1. CASE n = N
    BY <1>1, <2>1
  <2>2. CASE n \in DOMAIN terms /\ Of(terms[n]) # Of(t)
    <3>1. Of(terms[n]) \notin recordedAtOnce
      BY <1>2, <1>6, <2>2
    <3>2. \A m \in DOMAIN terms : Of(terms[m]) = Of(terms[n]) => m # k /\ terms'[m] = terms[m]
      BY <1>2, <1>5, <1>1, <2>2
    <3>3. \A m \in DOMAIN terms' : Of(terms'[m]) = Of(terms'[n]) => m \in DOMAIN terms /\ Of(terms[m]) = Of(terms[n])
      BY <1>1, <1>2, <2>2
    <3>4. \A m \in DOMAIN terms : n < m /\ Of(terms[m]) = Of(terms[n]) =>
            terms[n].to # None /\ terms[n].to <= terms[m].from
      BY <2>2, <3>1 DEF TermsInv, Tiled
    <3>5. terms[n].to # None =>
            \E m \in DOMAIN terms : n < m /\ Of(terms[m]) = Of(terms[n]) /\ terms[m].from = terms[n].to
      BY <2>2, <3>1 DEF TermsInv, Tiled
    <3>6. \E m \in DOMAIN terms : Of(terms[m]) = Of(terms[n]) /\ terms[m].to = None
      BY <2>2, <3>1 DEF TermsInv, Tiled
    <3>7. terms'[n] = terms[n] /\ DOMAIN terms \subseteq DOMAIN terms'
      BY <1>1, <2>2, <3>2
    <3>8. \A m \in DOMAIN terms' : n < m /\ Of(terms'[m]) = Of(terms'[n]) =>
            terms'[n].to # None /\ terms'[n].to <= terms'[m].from
      BY <3>2, <3>3, <3>4, <3>7
    <3>9. terms'[n].to # None => \E m \in DOMAIN terms' :
            n < m /\ Of(terms'[m]) = Of(terms'[n]) /\ terms'[m].from = terms'[n].to
      BY <3>2, <3>5, <3>7
    <3>10. \E m \in DOMAIN terms' : Of(terms'[m]) = Of(terms'[n]) /\ terms'[m].to = None
      BY <3>2, <3>6, <3>7
    <3> QED BY <3>8, <3>9, <3>10
  <2>3. CASE n \in DOMAIN terms /\ Of(terms[n]) = Of(t)
    <3>1. Of(t) \notin recordedAtOnce
      BY <1>2, <1>6, <2>3
    <3>2. k \in DOMAIN terms /\ terms[k].to = None
      BY <1>1, <2>3, <3>1 DEF TermsInv, Current
    <3>3. \A i, m \in DOMAIN terms : i < m /\ Of(terms[i]) = Of(t) /\ Of(terms[m]) = Of(t) =>
            terms[i].to # None /\ terms[i].to <= terms[m].from
      BY <3>1 DEF TermsInv, Tiled
    <3>4. ~(k < n)
      BY <1>1, <1>5, <2>3, <3>2, <3>3
    <3>5. terms'[N].from = t.from /\ Of(terms'[N]) = Of(t) /\ terms'[N].to = None /\ N \in DOMAIN terms' /\ n < N
      BY <1>1, <2>3
    <3>6. CASE n = k
      <4>1. terms'[n].to = t.from /\ Of(terms'[n]) = Of(t)
        BY <1>2, <2>3, <3>6
      <4>2. \A m \in DOMAIN terms' : n < m /\ Of(terms'[m]) = Of(t) => m = N
        BY <1>1, <1>2, <1>5, <2>3, <3>2, <3>3, <3>6
      <4>3. terms'[n].to # None /\ terms'[n].to <= terms'[N].from
        BY <1>4, <3>5, <4>1
      <4> QED BY <3>5, <4>1, <4>2, <4>3
    <3>7. CASE n # k
      <4>1. n < k
        <5>1. n \in Nat /\ k \in Nat
          BY <1>1, <2>3, <3>2
        <5> QED BY <3>4, <3>7, <5>1
      <4>2. terms[n].to # None /\ terms[n].to <= terms[k].from /\ terms'[n] = terms[n] /\ Of(terms'[n]) = Of(t)
        BY <1>2, <1>5, <1>1, <2>3, <3>2, <3>3, <3>7, <4>1
      <4>3. terms[n].to \in Int /\ terms[k].from \in Int /\ terms[k].from < t.from
        BY <1>1, <1>3, <1>5, <2>3, <3>2, <4>2
      <4>4. terms[n].to <= t.from
        BY <1>4, <4>2, <4>3
      <4>5. ASSUME NEW m \in DOMAIN terms', n < m, Of(terms'[m]) = Of(t)
            PROVE  terms'[n].to # None /\ terms'[n].to <= terms'[m].from
        <5>1. CASE m = N
          BY <3>5, <4>2, <4>4, <5>1
        <5>2. CASE m \in DOMAIN terms
          BY <1>2, <2>3, <3>3, <4>2, <4>5, <5>2
        <5> QED BY <1>1, <4>5, <5>1, <5>2
      <4>6. PICK m \in DOMAIN terms : n < m /\ Of(terms[m]) = Of(terms[n]) /\ terms[m].from = terms[n].to
        BY <1>6, <2>3, <3>1, <4>2 DEF TermsInv, Tiled
      <4>7. m \in DOMAIN terms' /\ Of(terms'[m]) = Of(t) /\ terms'[m].from = terms'[n].to
        BY <1>1, <1>2, <2>3, <4>2, <4>6
      <4> QED BY <3>5, <4>2, <4>5, <4>6, <4>7
    <3> QED BY <3>6, <3>7
  <2> QED BY <1>1, <2>1, <2>2, <2>3
<1> QED BY <1>9, <1>10, <1>11, <1>12, <1>13 DEF TermsInv

LEMMA TermsStep == TermsInv /\ [Terms!Next]_termVars => TermsInv'
<1> SUFFICES ASSUME TermsInv, [Terms!Next]_termVars PROVE TermsInv'
  OBVIOUS
<1>1. CASE UNCHANGED termVars
  <2>1. terms' = terms /\ termsPc' = termsPc /\ input' = input /\ open' = open /\ recordedAtOnce' = recordedAtOnce
    BY <1>1 DEF termVars
  <2> QED BY <2>1 DEF TermsInv, TermsTyped, Pending, Sole, Current, Tiled, Writing
<1>2. CASE Terms!Next
  BY <1>2, ReadOpenStep, WriteStep, AbortStep DEF Terms!Next
<1> QED BY <1>1, <1>2

-----------------------------------------------------------------------------
(* What is live on a day *)

LEMMA TermsCardinality == \A S : Terms!Cardinality(S) = Cardinality(S)
BY DEF Terms!Cardinality, Cardinality

LEMMA LiveFields ==
  ASSUME TermsInv, NEW a, NEW day \in Terms!Days
  PROVE  /\ day \in Int
         /\ \A n : n \in Terms!LiveOf(a, day) <=>
              /\ n \in DOMAIN terms /\ Of(terms[n]) = a
              /\ terms[n].from <= day /\ (terms[n].to = None \/ terms[n].to > day)
         /\ \A n \in DOMAIN terms : /\ n \in Nat /\ terms[n].from \in Int
                                    /\ terms[n].to # None => terms[n].to \in Int
<1>1. LastDay \in Nat
  BY ChecksConstants DEF Terms!ConstantsTyped
<1>2. \A n \in DOMAIN terms : /\ n \in Nat /\ terms[n] \in Terms!Term
  BY DEF TermsInv, TermsTyped
<1>3. \A n \in DOMAIN terms : terms[n].from \in Int /\ (terms[n].to # None => terms[n].to \in Int)
  BY <1>2, TermFields
<1>4. \A n : n \in Terms!LiveOf(a, day) <=>
              /\ n \in DOMAIN terms /\ Of(terms[n]) = a
              /\ terms[n].from <= day /\ (terms[n].to = None \/ terms[n].to > day)
  BY DEF Terms!LiveOf, Terms!LiveTerms, Terms!Live, Of
<1>5. day \in Int
  BY <1>1 DEF Terms!Days
<1> QED BY <1>2, <1>3, <1>4, <1>5

LEMMA TermsCover == TermsInv => Terms!CoveredOnce
<1> SUFFICES ASSUME TermsInv, NEW a \in Terms!Agreement \ recordedAtOnce, NEW day \in Terms!Days
             PROVE  Terms!Cardinality(Terms!LiveOf(a, day)) =
                      (IF \E n \in DOMAIN terms : Of(terms[n]) = a /\ terms[n].from <= day THEN 1 ELSE 0)
  BY DEF Terms!CoveredOnce, Of
<1> DEFINE Begun == {n \in DOMAIN terms : Of(terms[n]) = a /\ terms[n].from <= day}
<1>1. CASE Begun = {}
  <2>1. Terms!LiveOf(a, day) = {}
    BY <1>1, LiveFields
  <2>2. ~\E n \in DOMAIN terms : Of(terms[n]) = a /\ terms[n].from <= day
    BY <1>1
  <2> QED BY <2>1, <2>2, TermsCardinality, FS_EmptySet
<1>2. CASE Begun # {}
  <2>1. terms \in Seq(Terms!Term) /\ Len(terms) \in Nat /\ DOMAIN terms = 1..Len(terms)
    BY DEF TermsInv, TermsTyped
  <2>2. IsFiniteSet(1..Len(terms))
    BY <2>1, FS_Interval
  <2>3. IsFiniteSet(Begun) /\ Begun \subseteq Int
    BY <2>1, <2>2, FS_Subset
  <2>4. \E n \in Begun : \A m \in Begun : n >= m
    <3> HIDE DEF Begun
    <3> QED BY <1>2, <2>3, FiniteEnds
  <2>5. PICK n \in Begun : \A m \in Begun : n >= m
    BY <2>4
  <2>6. n \in DOMAIN terms /\ Of(terms[n]) = a /\ terms[n].from <= day /\ n \in Nat
    BY <2>1, <2>5
  <2>7. n \in Terms!LiveOf(a, day)
    <3> SUFFICES ASSUME terms[n].to # None, ~(terms[n].to > day) PROVE FALSE
      BY <2>6, LiveFields
    <3>1. PICK m \in DOMAIN terms : n < m /\ Of(terms[m]) = Of(terms[n]) /\ terms[m].from = terms[n].to
      BY <2>6 DEF TermsInv, Tiled
    <3>2. terms[m].from <= day /\ m \in Nat
      BY <2>6, <3>1, LiveFields
    <3>3. n >= m
      BY <2>5, <2>6, <3>1, <3>2
    <3> QED BY <2>6, <3>1, <3>2, <3>3
  <2>8. ASSUME NEW i \in Terms!LiveOf(a, day), NEW m \in Terms!LiveOf(a, day), i < m PROVE FALSE
    <3>1. /\ i \in DOMAIN terms /\ Of(terms[i]) = a /\ (terms[i].to = None \/ terms[i].to > day)
          /\ m \in DOMAIN terms /\ Of(terms[m]) = a /\ terms[m].from <= day
      BY LiveFields
    <3>2. terms[i].to # None /\ terms[i].to <= terms[m].from
      BY <2>8, <3>1 DEF TermsInv, Tiled
    <3>3. terms[i].to \in Int /\ terms[m].from \in Int /\ day \in Int
      BY <3>1, <3>2, LiveFields
    <3> QED BY <3>1, <3>2, <3>3
  <2>9. Terms!LiveOf(a, day) = {n}
    <3>1. \A i \in Terms!LiveOf(a, day) : i \in Nat
      BY LiveFields
    <3>2. \A i \in Terms!LiveOf(a, day) : ~(i < n) /\ ~(n < i)
      BY <2>7, <2>8
    <3>3. \A i \in Terms!LiveOf(a, day) : i = n
      BY <2>6, <3>1, <3>2
    <3> QED BY <2>7, <3>3
  <2>10. \E m \in DOMAIN terms : Of(terms[m]) = a /\ terms[m].from <= day
    BY <2>6
  <2> QED BY <2>9, <2>10, TermsCardinality, FS_Singleton
<1> QED BY <1>1, <1>2

LEMMA TermsAccuse == TermsInv => Terms!AccusesByOneTerm
<1> SUFFICES ASSUME TermsInv, terms # <<>>,
                    NEW prices \in SUBSET TermPrices, NEW uoms \in SUBSET Units,
                    NEW currency \in Currencies, NEW day \in Terms!Days,
                    Terms!Finding(prices, uoms, currency, day) = "contract_price_variance"
             PROVE  \E n \in DOMAIN terms :
                      /\ terms[n].currency = currency /\ prices \cap {terms[n].price} = {}
                      /\ \A m \in DOMAIN terms \ {n} :
                           terms[m].from > day \/ (terms[m].to # None /\ terms[m].to <= day)
  BY DEF Terms!AccusesByOneTerm
<1> PICK judge : judge = Terms!Judge(prices, uoms, currency, day)
  OBVIOUS
<1> PICK n : n = Terms!The(judge)
  OBVIOUS
<1>1. judge # {} /\ {terms[n].price} # prices
  BY DEF Terms!Finding
<1>2. n \in judge
  BY <1>1 DEF Terms!The
<1>3. /\ n \in DOMAIN terms /\ Terms!LiveTerms(day) = {n} /\ terms[n].currency = currency
      /\ \E price \in TermPrices : prices = {price}
  BY <1>2 DEF Terms!Judge
<1>4. prices \cap {terms[n].price} = {}
  BY <1>1, <1>3
<1>5. ASSUME NEW m \in DOMAIN terms \ {n}
      PROVE  terms[m].from > day \/ (terms[m].to # None /\ terms[m].to <= day)
  <2>1. ~Terms!Live(terms[m], day)
    BY <1>3 DEF Terms!LiveTerms
  <2>2. day \in Int /\ terms[m].from \in Int /\ (terms[m].to # None => terms[m].to \in Int)
    BY LiveFields
  <2> QED BY <2>1, <2>2 DEF Terms!Live
<1> QED BY <1>3, <1>4, <1>5

\* A write leaves what was live before its first day.
LEMMA TermsKeepPast ==
  ASSUME TermsInv, Terms!Next, terms' # terms, NEW a \in Terms!Agreement \ recordedAtOnce',
         NEW day \in Terms!Days, ~(day >= terms'[Len(terms')].from)
  PROVE  Terms!LiveOf(a, day)' = Terms!LiveOf(a, day)
<1>1. PICK h \in Handlers : Terms!Write(h)
  BY DEF Terms!Next, Terms!ReadOpen, Terms!Abort
<1>2. TermsInv'
  BY <1>1, WriteStep
<1> PICK t, k, N : t = input[h] /\ k = open[h] /\ N = Len(terms) + 1
  OBVIOUS
<1>3. /\ Writing(h) /\ t \in Terms!Term /\ t.to = None
      /\ k = 0 \/ k \in DOMAIN terms
      /\ Len(terms) \in Nat /\ Len(terms') = N /\ terms'[N] = t
      /\ DOMAIN terms = 1..Len(terms) /\ DOMAIN terms' = 1..N
  BY <1>1, WriteEdits
<1>4. \A n \in DOMAIN terms :
        /\ n # k => terms'[n] = terms[n]
        /\ terms'[n].from = terms[n].from /\ Of(terms'[n]) = Of(terms[n])
        /\ n = k => terms'[n].to = t.from
  BY <1>1, WriteEdits
<1>5. day < t.from /\ t.from \in Int /\ day \in Int /\ None \notin Int
  <2>1. terms'[Len(terms')] = t
    BY <1>3
  <2>2. t.from \in Int /\ None \notin Int
    BY <1>3, TermFields
  <2>3. day \in Int
    BY LiveFields
  <2> QED BY <2>1, <2>2, <2>3
<1>6. recordedAtOnce' = recordedAtOnce
  BY <1>1 DEF Terms!Write
<1>7. k # 0 => Of(terms[k]) = Of(t)
  BY <1>3 DEF TermsInv, Pending
<1>8. k # 0 /\ Of(t) = a => terms[k].to = None
  BY <1>3, <1>6 DEF TermsInv, Current
<1>9. \A n : n \in Terms!LiveOf(a, day) <=>
              /\ n \in DOMAIN terms /\ Of(terms[n]) = a
              /\ terms[n].from <= day /\ (terms[n].to = None \/ terms[n].to > day)
  BY LiveFields
<1>10. \A n : n \in Terms!LiveOf(a, day)' <=>
              /\ n \in DOMAIN terms' /\ Of(terms'[n]) = a
              /\ terms'[n].from <= day /\ (terms'[n].to = None \/ terms'[n].to > day)
  BY <1>2 DEF Terms!LiveOf, Terms!LiveTerms, Terms!Live, Of
<1>11. N \notin Terms!LiveOf(a, day)' /\ N \notin Terms!LiveOf(a, day)
  BY <1>3, <1>5, <1>9, <1>10
<1>12. ASSUME NEW n \in DOMAIN terms PROVE n \in Terms!LiveOf(a, day)' <=> n \in Terms!LiveOf(a, day)
  <2>1. n \in DOMAIN terms'
    BY <1>3
  <2>2. CASE n # k
    BY <1>4, <1>9, <1>10, <2>1, <2>2
  <2>3. CASE n = k
    <3>1. k # 0 /\ terms'[n].to = t.from /\ t.from > day /\ Of(terms[n]) = Of(t)
      BY <1>3, <1>4, <1>5, <1>7, <2>3
    <3>2. Of(t) = a => terms[n].to = None
      BY <1>8, <2>3, <3>1
    <3>3. terms'[n].from = terms[n].from /\ Of(terms'[n]) = Of(terms[n])
      BY <1>4
    <3> QED BY <1>9, <1>10, <2>1, <3>1, <3>2, <3>3
  <2> QED BY <2>2, <2>3
<1>13. \A n : n \in Terms!LiveOf(a, day)' <=> n \in Terms!LiveOf(a, day)
  <2>1. \A n \in DOMAIN terms' : n = N \/ n \in DOMAIN terms
    BY <1>3
  <2>2. \A n : n \in Terms!LiveOf(a, day) => n \in DOMAIN terms
    BY <1>9
  <2>3. \A n : n \in Terms!LiveOf(a, day)' => n \in DOMAIN terms'
    BY <1>10
  <2> QED BY <1>11, <1>12, <2>1, <2>2, <2>3
<1> QED BY <1>13

-----------------------------------------------------------------------------
(* The order checks: the theorems *)

OrderInv == EngineInv /\ TermsInv

LEMMA OrderBegins == ChecksInit => OrderInv
BY EngineInit, TermsInit DEF ChecksInit, OrderInv

LEMMA OrderStep == OrderInv /\ [ChecksNext]_<<engineVars, termVars, check>> => OrderInv'
<1> SUFFICES ASSUME OrderInv, [ChecksNext]_<<engineVars, termVars, check>> PROVE OrderInv'
  OBVIOUS
<1>1. [Engine!Next]_engineVars /\ [Terms!Next]_termVars
  BY DEF ChecksNext
<1> QED BY <1>1, EngineStep, TermsStep DEF OrderInv

LEMMA OrderHolds == ChecksSpec => []OrderInv
  BY OrderBegins, OrderStep, PTL DEF ChecksSpec

\* Whatever the documents of a comparison say: a supplier is accused of a short delivery,
\* or of billing what was not accepted, only over sums that every line of the item states
\* and that differ that way, and no difference is computed across units.
THEOREM AccusedByEvidence == ChecksSpec => []AccusesByEvidence
<1>1. OrderInv => AccusesByEvidence
  BY EngineAccuses, EngineUnits DEF OrderInv, AccusesByEvidence
<1> QED BY <1>1, OrderHolds, PTL

\* An item that order and invoice leave in question stays in question, whatever the
\* receipts say.
THEOREM QuestionsStay == ChecksSpec => []ReceiptNeverClears
<1>1. OrderInv => ReceiptNeverClears
  BY EngineReceipts DEF OrderInv, ReceiptNeverClears
<1> QED BY <1>1, OrderHolds, PTL

\* An item without a flag costs as much on the invoice as on the order, into however many
\* lines either splits it, and no more of it is billed than was accepted.
THEOREM SilenceIsAgreement == ChecksSpec => []SilenceAgrees
<1>1. OrderInv => SilenceAgrees
  BY EngineSilence DEF OrderInv, SilenceAgrees
<1> QED BY <1>1, OrderHolds, PTL

\* However calls of create() interleave and fail: from its first day on one term of an
\* agreement is live on each day, unless two calls recorded it at once, and an order is held
\* against the one term that can apply.
THEOREM OneTermAtMost == ChecksSpec => []OneTermApplies
<1>1. OrderInv => OneTermApplies
  BY TermsCover, TermsAccuse DEF OrderInv, OneTermApplies
<1> QED BY <1>1, OrderHolds, PTL

\* A new term changes nothing that was live before its first day, unless two calls recorded
\* its agreement at once.
THEOREM PastStays == ChecksSpec => PastKept
<1>1. OrderInv /\ [ChecksNext]_<<engineVars, termVars, check>> =>
        [\A a \in Terms!Agreement \ recordedAtOnce' : \A day \in Terms!Days :
           Terms!LiveOf(a, day) # Terms!LiveOf(a, day)' => day >= terms'[Len(terms')].from]_terms
  <2> SUFFICES ASSUME OrderInv, [ChecksNext]_<<engineVars, termVars, check>>, terms' # terms,
                      NEW a \in Terms!Agreement \ recordedAtOnce', NEW day \in Terms!Days,
                      ~(day >= terms'[Len(terms')].from)
               PROVE  Terms!LiveOf(a, day)' = Terms!LiveOf(a, day)
    OBVIOUS
  <2>1. Terms!Next
    BY DEF ChecksNext, termVars
  <2> QED BY <2>1, TermsKeepPast DEF OrderInv
<1> QED BY <1>1, OrderHolds, PTL DEF ChecksSpec, PastKept, Terms!PastKept
=============================================================================

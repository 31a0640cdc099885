----------------------- MODULE DisplayedHistoryProofs -----------------------
(***************************************************************************)
(* What TLAPS proves about DisplayedHistory and the search of              *)
(* InputMatching, for any transactions, amounts and chains.                *)
(***************************************************************************)
EXTENDS DisplayedHistory, FiniteSetTheorems, WellFoundedInduction, TLAPS

-----------------------------------------------------------------------------
(* Numbers and finite sets                                                 *)

(* A set of numbers that is not empty has a smallest member ...            *)
LEMMA Smallest ==
    ASSUME NEW T \in SUBSET Nat, T # {}
    PROVE  Min(T) \in T /\ \A y \in T : Min(T) <= y
<1>1. IsWellFoundedOn(OpToRel(<, Nat), Nat)
    BY NatLessThanWellFounded
<1>2. PICK x \in T : \A y \in T : ~ (<<y, x>> \in OpToRel(<, Nat))
    BY <1>1, WFMin
<1>3. \A y \in T : x <= y
    <2>1. ASSUME NEW y \in T PROVE ~ (y < x)
        BY <1>2 DEF OpToRel
    <2> QED BY <2>1
<1> QED BY <1>3 DEF Min

(* ... and, when it is bounded, a largest one.                             *)
LEMMA Largest ==
    ASSUME NEW N \in Nat, NEW T \in SUBSET (0 .. N), T # {}
    PROVE  Max(T) \in T /\ \A y \in T : y <= Max(T)
<1> DEFINE D == {N - x : x \in T}
<1>1. D \in SUBSET Nat /\ D # {}
    <2>1. \A x \in T : N - x \in Nat
        OBVIOUS
    <2>2. PICK x \in T : TRUE
        OBVIOUS
    <2>3. N - x \in D
        BY <2>2
    <2> QED BY <2>1, <2>3
<1>2. Min(D) \in D /\ \A y \in D : Min(D) <= y
    BY <1>1, Smallest
<1>3. PICK x \in T : Min(D) = N - x
    BY <1>2
<1>4. ASSUME NEW y \in T PROVE x >= y
    <2>1. N - y \in D
        OBVIOUS
    <2>2. N - x <= N - y
        BY <1>2, <1>3, <2>1
    <2>3. x \in Nat /\ y \in Nat
        OBVIOUS
    <2> HIDE DEF D
    <2> QED BY <2>2, <2>3
<1> QED BY <1>4 DEF Max

(* Induction over the subsets of a finite set.                             *)
LEMMA SetInduction ==
    ASSUME NEW S, IsFiniteSet(S), NEW P,
           \A s \in SUBSET S : (\A x \in s : s \ {x} \in P) => s \in P
    PROVE  \A s \in SUBSET S : s \in P
<1> SUFFICES ASSUME NEW w \in SUBSET S, w \notin P
             PROVE  FALSE
    OBVIOUS
<1> DEFINE B == {s \in SUBSET S : s \notin P}
           T == {Cardinality(s) : s \in B}
<1>1. \A s \in SUBSET S : IsFiniteSet(s) /\ Cardinality(s) \in Nat
    BY FS_Subset, FS_CardinalityType
<1>2. T \in SUBSET Nat /\ T # {}
    BY <1>1
<1>3. PICK s \in B : Cardinality(s) = Min(T) /\ \A y \in T : Min(T) <= y
    <2>1. Min(T) \in T /\ \A y \in T : Min(T) <= y
        <3> HIDE DEF T
        <3> QED BY <1>2, Smallest
    <2> QED BY <2>1
<1>4. ASSUME NEW x \in s PROVE s \ {x} \in P
    <2>1. Cardinality(s \ {x}) = Cardinality(s) - 1 /\ s \ {x} \in SUBSET S
        BY <1>1, FS_RemoveElement
    <2>2. Cardinality(s \ {x}) < Cardinality(s) /\ Cardinality(s \ {x}) \in Nat
        BY <1>1, <2>1
    <2>3. s \ {x} \notin B
        <3>1. s \ {x} \in B => Cardinality(s \ {x}) \in T
            OBVIOUS
        <3>2. Cardinality(s) \in Nat
            BY <1>1
        <3> HIDE DEF B, T
        <3> QED BY <1>3, <2>2, <3>1, <3>2
    <2> QED BY <2>1, <2>3
<1> QED BY <1>3, <1>4

(* A function on the subsets of a finite set may be defined by the value   *)
(* for the empty set and a step that adds one element.                     *)
Picks(S, pick)    == \A s \in SUBSET S : s # {} => pick[s] \in s
Steps(S, V, step) == \A s \in SUBSET S : \A v \in V : step[s][v] \in V
Recursion(S, base, pick, step, f) ==
    \A s \in SUBSET S : f[s] = IF s = {} THEN base ELSE step[s][f[s \ {pick[s]}]]

LEMMA SetRecursion ==
    ASSUME NEW S, IsFiniteSet(S), NEW V, NEW base \in V, NEW pick, NEW step,
           Picks(S, pick), Steps(S, V, step)
    PROVE  \E f \in [SUBSET S -> V] : Recursion(S, base, pick, step, f)
<1> DEFINE D(n)      == {s \in SUBSET S : Cardinality(s) <= n}
           Rec(f, n) == \A s \in D(n) : f[s] = IF s = {} THEN base ELSE step[s][f[s \ {pick[s]}]]
           Has(n)    == \E f \in [D(n) -> V] : Rec(f, n)
           Bad       == {n \in Nat : ~ Has(n)}
<1>1. \A s \in SUBSET S : IsFiniteSet(s) /\ Cardinality(s) \in Nat
    BY FS_Subset, FS_CardinalityType
<1>2. ASSUME NEW s \in SUBSET S, s # {}
      PROVE  s \ {pick[s]} \in SUBSET S /\ Cardinality(s \ {pick[s]}) = Cardinality(s) - 1
    BY <1>1, <1>2, FS_RemoveElement DEF Picks
<1>3. Has(0)
    <2>1. D(0) = {{}}
        <3>1. \A s \in SUBSET S : Cardinality(s) = 0 <=> s = {}
            BY <1>1, FS_EmptySet
        <3> QED BY <1>1, <3>1
    <2>2. [s \in D(0) |-> base] \in [D(0) -> V] /\ Rec([s \in D(0) |-> base], 0)
        BY <2>1
    <2> QED BY <2>2
<1>4. ASSUME NEW n \in Nat, Has(n) PROVE Has(n + 1)
    <2>1. PICK f \in [D(n) -> V] : Rec(f, n)
        BY <1>4
    <2> DEFINE g == [s \in D(n + 1) |-> IF s = {} THEN base ELSE step[s][f[s \ {pick[s]}]]]
    <2>2. ASSUME NEW s \in D(n + 1), s # {} PROVE s \ {pick[s]} \in D(n)
        BY <1>1, <1>2, <2>2
    <2>3. g \in [D(n + 1) -> V]
        <3>1. ASSUME NEW s \in D(n + 1), s # {} PROVE step[s][f[s \ {pick[s]}]] \in V
            <4>1. f[s \ {pick[s]}] \in V
                BY <2>2, <3>1
            <4> QED BY <4>1 DEF Steps
        <3> QED BY <3>1
    <2>4. ASSUME NEW s \in D(n) PROVE s \in D(n + 1) /\ g[s] = f[s]
        <3>1. s \in D(n + 1)
            BY <1>1
        <3> QED BY <2>1, <3>1
    <2>5. Rec(g, n + 1)
        <3> SUFFICES ASSUME NEW s \in D(n + 1)
                     PROVE  g[s] = IF s = {} THEN base ELSE step[s][g[s \ {pick[s]}]]
            OBVIOUS
        <3>1. CASE s = {}
            BY <3>1
        <3>2. CASE s # {}
            <4>1. g[s \ {pick[s]}] = f[s \ {pick[s]}]
                BY <2>2, <2>4, <3>2
            <4>2. g[s] = step[s][f[s \ {pick[s]}]]
                BY <3>2
            <4> HIDE DEF g
            <4> QED BY <3>2, <4>1, <4>2
        <3> QED BY <3>1, <3>2
    <2> HIDE DEF g
    <2> QED BY <2>3, <2>5
<1> HIDE DEF Has
<1>5. Bad = {}
    <2> SUFFICES ASSUME Bad # {} PROVE FALSE
        OBVIOUS
    <2>1. Bad \in SUBSET Nat
        OBVIOUS
    <2>2. Min(Bad) \in Bad /\ \A y \in Bad : Min(Bad) <= y
        BY <2>1, Smallest
    <2> DEFINE k == Min(Bad)
    <2>3. k \in Nat /\ ~ Has(k) /\ k # 0
        BY <1>3, <2>2
    <2> HIDE DEF k
    <2>4. k - 1 \in Nat /\ k - 1 \notin Bad
        BY <2>2, <2>3 DEF k
    <2>5. Has(k - 1)
        BY <2>4
    <2>6. Has(k - 1 + 1)
        BY <1>4, <2>4, <2>5
    <2> QED BY <2>3, <2>6
<1>6. Has(Cardinality(S))
    <2>1. Cardinality(S) \in Nat
        BY <1>1
    <2> QED BY <1>5, <2>1
<1>7. D(Cardinality(S)) = SUBSET S
    <2>1. \A s \in SUBSET S : Cardinality(s) <= Cardinality(S)
        BY FS_Subset
    <2> QED BY <2>1
<1>8. PICK f \in [D(Cardinality(S)) -> V] : Rec(f, Cardinality(S))
    BY <1>6 DEF Has
<1> QED BY <1>7, <1>8 DEF Recursion

-----------------------------------------------------------------------------
(* Sums                                                                    *)

(* The recursion the sum over a set is defined by.                         *)
SumsOf(nums, S, f) ==
    f = [s \in SUBSET S |-> IF s = {} THEN 0
                            ELSE nums[CHOOSE x \in s : TRUE] + f[s \ {CHOOSE x \in s : TRUE}]]

LEMMA TotalIs ==
    ASSUME NEW nums, NEW S
    PROVE  Total(nums, S) = (CHOOSE f : SumsOf(nums, S, f))[S]
BY DEF Total, MapThenSumSet, MapThenFoldSet, SumsOf

LEMMA SumsExist ==
    ASSUME NEW nums, NEW S, IsFiniteSet(S), \A i \in S : nums[i] \in Nat
    PROVE  \E f \in [SUBSET S -> Nat] : SumsOf(nums, S, f)
<1> DEFINE pick == [s \in SUBSET S |-> CHOOSE x \in s : TRUE]
           step == [s \in SUBSET S |-> [v \in Nat |-> IF s = {} THEN 0 ELSE nums[pick[s]] + v]]
<1>1. \A s \in SUBSET S : s # {} => pick[s] \in s
    OBVIOUS
<1>2. ASSUME NEW s \in SUBSET S, NEW v \in Nat PROVE step[s][v] \in Nat
    <2>1. CASE s = {}
        BY <2>1
    <2>2. CASE s # {}
        <3>1. nums[pick[s]] \in Nat
            BY <1>1, <2>2
        <3> HIDE DEF pick
        <3> QED BY <2>2, <3>1
    <2> QED BY <2>1, <2>2
<1>3. \A s \in SUBSET S : s # {} => \A v \in Nat : step[s][v] = nums[CHOOSE x \in s : TRUE] + v
    OBVIOUS
<1> HIDE DEF step
<1>4. PICK f \in [SUBSET S -> Nat] :
         \A s \in SUBSET S : f[s] = IF s = {} THEN 0 ELSE step[s][f[s \ {pick[s]}]]
    <2> HIDE DEF pick
    <2>1. 0 \in Nat /\ Picks(S, pick) /\ Steps(S, Nat, step)
        BY <1>1, <1>2 DEF Picks, Steps
    <2>2. \E f \in [SUBSET S -> Nat] : Recursion(S, 0, pick, step, f)
        BY <2>1, SetRecursion
    <2> QED BY <2>2 DEF Recursion
<1>5. ASSUME NEW s \in SUBSET S
      PROVE  f[s] = IF s = {} THEN 0
                    ELSE nums[CHOOSE x \in s : TRUE] + f[s \ {CHOOSE x \in s : TRUE}]
    <2>1. CASE s = {}
        BY <1>4, <2>1
    <2>2. CASE s # {}
        <3>1. s \ {pick[s]} \in SUBSET S
            OBVIOUS
        <3>2. f[s] = step[s][f[s \ {pick[s]}]] /\ f[s \ {pick[s]}] \in Nat
            BY <1>4, <2>2, <3>1
        <3>3. pick[s] = CHOOSE x \in s : TRUE
            OBVIOUS
        <3> HIDE DEF pick
        <3> QED BY <1>3, <2>2, <3>2, <3>3
    <2> QED BY <2>1, <2>2
<1>6. f = [s \in SUBSET S |-> IF s = {} THEN 0
                            ELSE nums[CHOOSE x \in s : TRUE] + f[s \ {CHOOSE x \in s : TRUE}]]
    BY <1>5
<1> QED BY <1>6 DEF SumsOf

LEMMA SumsAgree ==
    ASSUME NEW nums, NEW S, IsFiniteSet(S), NEW f, NEW s \in SUBSET S, NEW g,
           SumsOf(nums, S, f), SumsOf(nums, s, g)
    PROVE  f[s] = g[s]
<1> DEFINE P == {u \in SUBSET s : f[u] = g[u]}
<1>1. IsFiniteSet(s)
    BY FS_Subset
<1>2. ASSUME NEW u \in SUBSET s, \A x \in u : u \ {x} \in P PROVE u \in P
    <2>1. CASE u = {}
        BY <2>1 DEF SumsOf
    <2>2. CASE u # {}
        <3>1. PICK y : y = CHOOSE x \in u : TRUE
            OBVIOUS
        <3>2. y \in u
            BY <2>2, <3>1
        <3>3. f[u \ {y}] = g[u \ {y}]
            BY <1>2, <3>2
        <3>4. f[u] = nums[y] + f[u \ {y}]
            BY <2>2, <3>1 DEF SumsOf
        <3>5. g[u] = nums[y] + g[u \ {y}]
            BY <2>2, <3>1 DEF SumsOf
        <3> QED BY <3>3, <3>4, <3>5
    <2> QED BY <2>1, <2>2
<1> HIDE DEF P
<1>3. \A u \in SUBSET s : u \in P
    BY <1>1, <1>2, SetInduction
<1> QED BY <1>3 DEF P

(* A sum is a number; one element of the set is taken out.                 *)
LEMMA TotalChoice ==
    ASSUME NEW nums, NEW S, IsFiniteSet(S), \A i \in S : nums[i] \in Nat
    PROVE  /\ Total(nums, S) \in Nat
           /\ S = {} => Total(nums, S) = 0
           /\ S # {} => Total(nums, S) = nums[CHOOSE x \in S : TRUE]
                                          + Total(nums, S \ {CHOOSE x \in S : TRUE})
<1>1. PICK f \in [SUBSET S -> Nat] : SumsOf(nums, S, f)
    BY SumsExist
<1>2. ASSUME NEW s \in SUBSET S PROVE Total(nums, s) = f[s]
    <2>1. IsFiniteSet(s)
        BY FS_Subset
    <2>2. PICK g \in [SUBSET s -> Nat] : SumsOf(nums, s, g)
        BY <2>1, SumsExist
    <2>3. SumsOf(nums, s, CHOOSE c : SumsOf(nums, s, c))
        BY <2>2
    <2> QED BY <1>1, <2>3, TotalIs, SumsAgree
<1>3. S # {} => S \ {CHOOSE x \in S : TRUE} \in SUBSET S
    OBVIOUS
<1>4. /\ S = {} => f[S] = 0
      /\ S # {} => f[S] = nums[CHOOSE x \in S : TRUE] + f[S \ {CHOOSE x \in S : TRUE}]
    BY <1>1 DEF SumsOf
<1> QED BY <1>2, <1>3, <1>4

LEMMA TotalAdd ==
    ASSUME NEW nums, NEW S, IsFiniteSet(S), \A i \in S : nums[i] \in Nat, NEW z \in S
    PROVE  /\ Total(nums, S \ {z}) \in Nat
           /\ Total(nums, S) = nums[z] + Total(nums, S \ {z})
<1> DEFINE P == {u \in SUBSET S : \A x \in u : Total(nums, u) = nums[x] + Total(nums, u \ {x})}
<1>1. \A s \in SUBSET S : IsFiniteSet(s)
    BY FS_Subset
<1>2. \A s \in SUBSET S : Total(nums, s) \in Nat
    BY <1>1, TotalChoice
<1>3. ASSUME NEW u \in SUBSET S, \A x \in u : u \ {x} \in P PROVE u \in P
    <2> SUFFICES ASSUME NEW x \in u PROVE Total(nums, u) = nums[x] + Total(nums, u \ {x})
        OBVIOUS
    <2>1. PICK y : y = CHOOSE v \in u : TRUE
        OBVIOUS
    <2>2. y \in u
        BY <2>1
    <2>3. Total(nums, u) = nums[y] + Total(nums, u \ {y})
        BY <1>1, <2>1, TotalChoice
    <2>4. CASE x = y
        BY <2>3, <2>4
    <2>5. CASE x # y
        <3>1. Total(nums, u \ {y}) = nums[x] + Total(nums, (u \ {y}) \ {x})
            BY <1>3, <2>2, <2>5
        <3>2. Total(nums, u \ {x}) = nums[y] + Total(nums, (u \ {x}) \ {y})
            BY <1>3, <2>2, <2>5
        <3>3. (u \ {y}) \ {x} = (u \ {x}) \ {y}
            OBVIOUS
        <3>4. nums[x] \in Nat /\ nums[y] \in Nat /\ Total(nums, (u \ {x}) \ {y}) \in Nat
            BY <1>2, <2>2
        <3> HIDE DEF P
        <3> QED BY <2>3, <3>1, <3>2, <3>3, <3>4
    <2> QED BY <2>4, <2>5
<1> HIDE DEF P
<1>4. \A s \in SUBSET S : s \in P
    BY <1>3, SetInduction
<1> QED BY <1>2, <1>4 DEF P

LEMMA TotalSubset ==
    ASSUME NEW nums, NEW S, IsFiniteSet(S), \A i \in S : nums[i] \in Nat, NEW w \in SUBSET S
    PROVE  Total(nums, w) \in Nat /\ Total(nums, S) \in Nat /\ Total(nums, w) <= Total(nums, S)
<1> DEFINE P == {u \in SUBSET S : \A v \in SUBSET u : Total(nums, v) <= Total(nums, u)}
<1>1. \A s \in SUBSET S : IsFiniteSet(s)
    BY FS_Subset
<1>2. \A s \in SUBSET S : Total(nums, s) \in Nat
    BY <1>1, TotalChoice
<1>3. ASSUME NEW u \in SUBSET S, \A x \in u : u \ {x} \in P PROVE u \in P
    <2> SUFFICES ASSUME NEW v \in SUBSET u PROVE Total(nums, v) <= Total(nums, u)
        OBVIOUS
    <2>1. CASE v = u
        BY <1>2, <2>1
    <2>2. CASE v # u
        <3>1. PICK x \in u : x \notin v
            BY <2>2
        <3>2. Total(nums, u) = nums[x] + Total(nums, u \ {x})
            BY <1>1, TotalAdd
        <3>3. Total(nums, v) <= Total(nums, u \ {x})
            BY <1>3, <3>1
        <3>4. nums[x] \in Nat /\ Total(nums, v) \in Nat /\ Total(nums, u \ {x}) \in Nat
            BY <1>2
        <3> HIDE DEF P
        <3> QED BY <3>2, <3>3, <3>4
    <2> QED BY <2>1, <2>2
<1> HIDE DEF P
<1>4. \A s \in SUBSET S : s \in P
    BY <1>3, SetInduction
<1> QED BY <1>2, <1>4 DEF P

-----------------------------------------------------------------------------
(* The search for one output                                               *)

LEMMA NextInputIs ==
    ASSUME NEW nums, NEW S, IsFiniteSet(S), \A i \in S : nums[i] \in Nat, S # {}
    PROVE  NextInput(nums, S) \in S
<1> DEFINE T == {nums[i] : i \in S}
<1>1. Total(nums, S) \in Nat
    BY TotalChoice
<1>2. ASSUME NEW i \in S PROVE nums[i] \in 0 .. Total(nums, S)
    <2>1. Total(nums, S) = nums[i] + Total(nums, S \ {i}) /\ Total(nums, S \ {i}) \in Nat
        BY TotalAdd
    <2> QED BY <1>1, <2>1
<1>3. T \in SUBSET (0 .. Total(nums, S)) /\ T # {}
    BY <1>2
<1>4. Max(T) \in T /\ \A y \in T : y <= Max(T)
    BY <1>1, <1>3, Largest
<1>5. PICK i \in S : nums[i] = Max(T)
    BY <1>4
<1>6. \A j \in S : nums[j] <= nums[i]
    BY <1>4, <1>5
<1> QED BY <1>6 DEF NextInput

(* The recursion back_track is defined by.                                 *)
SearchOf(nums, candidates, target, search) ==
    search = [left \in SUBSET candidates |-> [current \in 0 .. target |->
          IF current = target THEN {{}}
          ELSE IF left = {} \/ current + Total(nums, left) < target THEN {}
          ELSE LET n     == NextInput(nums, left)
                   rest  == search[left \ {n}]
                   taken == IF current + nums[n] <= target
                              THEN {s \cup {n} : s \in rest[current + nums[n]]} ELSE {}
               IN IF taken # {} THEN taken ELSE rest[current]]]

(* One step of it: what the candidates give with n, for what they give     *)
(* without.                                                                *)
Taken(nums, n, rest, current, target) ==
    IF current + nums[n] <= target
      THEN {s \cup {n} : s \in rest[current + nums[n]]} ELSE {}

SearchStep(nums, left, n, rest, current, target) ==
    IF current = target THEN {{}}
    ELSE IF current + Total(nums, left) < target THEN {}
    ELSE IF Taken(nums, n, rest, current, target) # {}
           THEN Taken(nums, n, rest, current, target) ELSE rest[current]

LEMMA SearchIs ==
    ASSUME NEW nums, NEW candidates, NEW target
    PROVE  back_track(nums, candidates, target) =
             (CHOOSE f : SearchOf(nums, candidates, target, f))[candidates][0]
BY DEF back_track, SearchOf

LEMMA SearchExists ==
    ASSUME NEW nums, NEW K, IsFiniteSet(K), \A i \in K : nums[i] \in Nat, NEW target \in Nat
    PROVE  \E f : SearchOf(nums, K, target, f)
<1> DEFINE V    == [0 .. target -> SUBSET SUBSET K]
           base == [current \in 0 .. target |-> IF current = target THEN {{}} ELSE {}]
           pick == [left \in SUBSET K |-> NextInput(nums, left)]
           step == [left \in SUBSET K |-> [v \in V |-> [current \in 0 .. target |->
                       IF left = {} THEN {}
                       ELSE SearchStep(nums, left, pick[left], v, current, target)]]]
<1>1. \A left \in SUBSET K : IsFiniteSet(left)
    BY FS_Subset
<1>2. Picks(K, pick)
    <2>1. ASSUME NEW left \in SUBSET K, left # {} PROVE NextInput(nums, left) \in left
        BY <1>1, <2>1, NextInputIs
    <2> QED BY <2>1 DEF Picks
<1>3. base \in V
    OBVIOUS
<1>4. Steps(K, V, step)
    <2> SUFFICES ASSUME NEW left \in SUBSET K, NEW v \in V PROVE step[left][v] \in V
        BY DEF Steps
    <2>1. ASSUME NEW current \in 0 .. target, left # {}
          PROVE  SearchStep(nums, left, pick[left], v, current, target) \in SUBSET SUBSET K
        <3>1. pick[left] \in K /\ nums[pick[left]] \in Nat
            BY <1>2, <2>1 DEF Picks
        <3>2. Taken(nums, pick[left], v, current, target) \in SUBSET SUBSET K
            <4>1. CASE current + nums[pick[left]] <= target
                <5>1. current + nums[pick[left]] \in 0 .. target
                    BY <3>1, <4>1
                <5>2. v[current + nums[pick[left]]] \in SUBSET SUBSET K
                    BY <5>1
                <5> HIDE DEF pick
                <5> QED BY <3>1, <4>1, <5>2 DEF Taken
            <4>2. CASE ~ (current + nums[pick[left]] <= target)
                BY <4>2 DEF Taken
            <4> QED BY <4>1, <4>2
        <3>3. v[current] \in SUBSET SUBSET K
            OBVIOUS
        <3> HIDE DEF pick
        <3> QED BY <3>2, <3>3 DEF SearchStep
    <2>2. [current \in 0 .. target |->
             IF left = {} THEN {} ELSE SearchStep(nums, left, pick[left], v, current, target)] \in V
        <3> HIDE DEF pick
        <3> QED BY <2>1
    <2>3. step[left][v] = [current \in 0 .. target |->
             IF left = {} THEN {} ELSE SearchStep(nums, left, pick[left], v, current, target)]
        <3> HIDE DEF pick, V
        <3> QED OBVIOUS
    <2> QED BY <2>2, <2>3
<1>5. PICK f \in [SUBSET K -> V] : Recursion(K, base, pick, step, f)
    <2> HIDE DEF V, base, pick, step
    <2> QED BY <1>2, <1>3, <1>4, SetRecursion
<1>6. ASSUME NEW left \in SUBSET K, NEW current \in 0 .. target
      PROVE  f[left][current] =
               IF current = target THEN {{}}
               ELSE IF left = {} \/ current + Total(nums, left) < target THEN {}
               ELSE LET n     == NextInput(nums, left)
                        rest  == f[left \ {n}]
                        taken == IF current + nums[n] <= target
                                   THEN {s \cup {n} : s \in rest[current + nums[n]]} ELSE {}
                    IN IF taken # {} THEN taken ELSE rest[current]
    <2>1. CASE left = {}
        BY <1>5, <2>1 DEF Recursion
    <2>2. CASE left # {}
        <3>1. f[left] = step[left][f[left \ {pick[left]}]]
            BY <1>5, <2>2 DEF Recursion
        <3>2. f[left \ {pick[left]}] \in V
            BY <1>5
        <3>3. f[left][current] =
                SearchStep(nums, left, pick[left], f[left \ {pick[left]}], current, target)
            <4>1. \A v \in V : step[left][v][current] =
                    SearchStep(nums, left, pick[left], v, current, target)
                <5> HIDE DEF pick, V
                <5> QED BY <2>2
            <4> HIDE DEF pick, V, step
            <4> QED BY <3>1, <3>2, <4>1
        <3>4. pick[left] = NextInput(nums, left)
            OBVIOUS
        <3> HIDE DEF pick, V, step
        <3> QED BY <2>2, <3>3, <3>4 DEF SearchStep, Taken
    <2> QED BY <2>1, <2>2
<1>7. SearchOf(nums, K, target, f)
    <2>1. f = [left \in SUBSET K |-> f[left]]
        BY <1>5
    <2>2. \A left \in SUBSET K : f[left] = [current \in 0 .. target |-> f[left][current]]
        BY <1>5
    <2> DEFINE body(left, current) ==
                 IF current = target THEN {{}}
                 ELSE IF left = {} \/ current + Total(nums, left) < target THEN {}
                 ELSE LET n     == NextInput(nums, left)
                          rest  == f[left \ {n}]
                          taken == IF current + nums[n] <= target
                                     THEN {s \cup {n} : s \in rest[current + nums[n]]} ELSE {}
                      IN IF taken # {} THEN taken ELSE rest[current]
    <2>3. \A left \in SUBSET K : \A current \in 0 .. target : f[left][current] = body(left, current)
        BY <1>6
    <2> HIDE DEF V, body
    <2>4. f = [left \in SUBSET K |-> [current \in 0 .. target |-> body(left, current)]]
        BY <2>1, <2>2, <2>3
    <2> QED BY <2>4 DEF SearchOf, body
<1> QED BY <1>7

(* What the search gives for a set of candidates and a sum reached so far: *)
(* nothing, if no set of them makes up for the rest, or one that does.     *)
LEMMA SearchIsRight ==
    ASSUME NEW nums, NEW K, IsFiniteSet(K), \A i \in K : nums[i] \in Nat, NEW target \in Nat,
           NEW f, SearchOf(nums, K, target, f),
           NEW left \in SUBSET K, NEW current \in 0 .. target
    PROVE  /\ \A s \in f[left][current] : s \subseteq left /\ current + Total(nums, s) = target
           /\ \A s, u \in f[left][current] : s = u
           /\ f[left][current] = {} => \A s \in SUBSET left : current + Total(nums, s) # target
<1> DEFINE Exact(l, c) ==
             /\ \A s \in f[l][c] : s \subseteq l /\ c + Total(nums, s) = target
             /\ \A s, u \in f[l][c] : s = u
             /\ f[l][c] = {} => \A s \in SUBSET l : c + Total(nums, s) # target
           P == {l \in SUBSET K : \A c \in 0 .. target : Exact(l, c)}
<1>1. \A s \in SUBSET K : IsFiniteSet(s)
    BY FS_Subset
<1>2. \A s \in SUBSET K : Total(nums, s) \in Nat
    BY <1>1, TotalChoice
<1>3. ASSUME NEW l \in SUBSET K, \A x \in l : l \ {x} \in P, NEW c \in 0 .. target
      PROVE  Exact(l, c)
    <2>1. CASE c = target
        <3>1. f[l][c] = {{}}
            BY <2>1 DEF SearchOf
        <3>2. Total(nums, {}) = 0
            BY <1>1, TotalChoice
        <3> QED BY <2>1, <3>1, <3>2
    <2>2. CASE c # target /\ (l = {} \/ c + Total(nums, l) < target)
        <3>1. f[l][c] = {}
            BY <2>2 DEF SearchOf
        <3>2. ASSUME NEW s \in SUBSET l PROVE c + Total(nums, s) # target
            <4>1. CASE l = {}
                <5>1. s = {} /\ Total(nums, {}) = 0
                    BY <1>1, <4>1, TotalChoice
                <5> QED BY <2>2, <5>1
            <4>2. CASE c + Total(nums, l) < target
                <5>1. Total(nums, s) <= Total(nums, l) /\ Total(nums, s) \in Nat /\ Total(nums, l) \in Nat
                    BY <1>1, TotalSubset
                <5> QED BY <4>2, <5>1
            <4> QED BY <2>2, <4>1, <4>2
        <3> QED BY <3>1, <3>2
    <2>3. CASE c # target /\ ~ (l = {} \/ c + Total(nums, l) < target)
        <3> DEFINE n == NextInput(nums, l)
                   rest == f[l \ {n}]
                   taken == Taken(nums, n, rest, c, target)
        <3>1. n \in l
            BY <1>1, <2>3, NextInputIs
        <3>2. f[l][c] = IF taken # {} THEN taken ELSE rest[c]
            BY <2>3 DEF SearchOf, Taken
        <3>3. \A d \in 0 .. target : Exact(l \ {n}, d)
            BY <1>3, <3>1
        <3>4. nums[n] \in Nat /\ l \ {n} \in SUBSET K
            BY <3>1
        <3>5. ASSUME NEW s \in SUBSET l, n \in s
              PROVE  Total(nums, s) = nums[n] + Total(nums, s \ {n}) /\ Total(nums, s \ {n}) \in Nat
            <4>1. IsFiniteSet(s) /\ \A i \in s : nums[i] \in Nat
                BY <1>1
            <4>2. \A x \in s : /\ Total(nums, s) = nums[x] + Total(nums, s \ {x})
                               /\ Total(nums, s \ {x}) \in Nat
                BY <4>1, TotalAdd
            <4> HIDE DEF n
            <4> QED BY <3>5, <4>2
        <3> HIDE DEF n
        <3>6. CASE taken # {}
            <4>1. c + nums[n] <= target /\ taken = {s \cup {n} : s \in rest[c + nums[n]]}
                BY <3>6 DEF Taken
            <4>2. c + nums[n] \in 0 .. target
                BY <3>4, <4>1
            <4>3. ASSUME NEW s \in rest[c + nums[n]]
                  PROVE  s \cup {n} \subseteq l /\ c + Total(nums, s \cup {n}) = target
                <5>1. s \subseteq l \ {n} /\ c + nums[n] + Total(nums, s) = target
                    BY <3>3, <4>2
                <5>2. (s \cup {n}) \ {n} = s /\ s \cup {n} \in SUBSET l
                    BY <3>1, <5>1
                <5>3. Total(nums, s \cup {n}) = nums[n] + Total(nums, s) /\ Total(nums, s) \in Nat
                    BY <3>5, <5>2
                <5> QED BY <3>4, <5>1, <5>2, <5>3
            <4>4. \A s, u \in rest[c + nums[n]] : s = u
                BY <3>3, <4>2
            <4>5. f[l][c] = {s \cup {n} : s \in rest[c + nums[n]]}
                BY <3>2, <3>6, <4>1
            <4>6. f[l][c] # {}
                BY <3>2, <3>6
            <4> HIDE DEF taken, rest
            <4> QED BY <4>3, <4>4, <4>5, <4>6, ZenonT(40)
        <3>7. CASE taken = {}
            <4>1. f[l][c] = rest[c]
                BY <3>2, <3>7
            <4>2. Exact(l \ {n}, c)
                BY <3>3
            <4>3. ASSUME NEW s \in SUBSET l, rest[c] = {} PROVE c + Total(nums, s) # target
                <5>1. CASE n \notin s
                    BY <4>2, <4>3, <5>1
                <5>2. CASE n \in s
                    <6>1. Total(nums, s) = nums[n] + Total(nums, s \ {n}) /\ Total(nums, s \ {n}) \in Nat
                        BY <3>5, <5>2
                    <6>2. CASE c + nums[n] <= target
                        <7>1. c + nums[n] \in 0 .. target
                            BY <3>4, <6>2
                        <7>2. rest[c + nums[n]] = {}
                            BY <3>7, <6>2 DEF Taken
                        <7>3. c + nums[n] + Total(nums, s \ {n}) # target
                            BY <3>3, <7>1, <7>2
                        <7> QED BY <3>4, <6>1, <7>3
                    <6>3. CASE ~ (c + nums[n] <= target)
                        BY <3>4, <6>1, <6>3
                    <6> QED BY <6>2, <6>3
                <5> QED BY <5>1, <5>2
            <4> QED BY <4>1, <4>2, <4>3
        <3> QED BY <3>6, <3>7
    <2> QED BY <2>1, <2>2, <2>3
<1>4. \A l \in SUBSET K : (\A x \in l : l \ {x} \in P) => l \in P
    <2> HIDE DEF Exact
    <2>1. ASSUME NEW l \in SUBSET K, \A x \in l : l \ {x} \in P PROVE l \in P
        BY <1>3, <2>1
    <2> QED BY <2>1
<1> HIDE DEF P
<1>5. left \in P
    <2>1. \A l \in SUBSET K : l \in P
        BY <1>4, SetInduction
    <2> QED BY <2>1
<1> QED BY <1>5 DEF P

(* The inputs found for an output.                                         *)
Paying(nums, pool, target, used) ==
    /\ used \subseteq pool
    /\ used # {} => Total(nums, used) = target
    /\ used = {} /\ target # 0 => \A s \in SUBSET pool : Total(nums, s) # target

LEMMA SubsetIsRight ==
    ASSUME NEW nums, NEW pool, IsFiniteSet(pool), \A i \in pool : nums[i] \in Nat, NEW target \in Nat
    PROVE  Paying(nums, pool, target, UNION backtrack_subset(pool, nums, target))
<1> DEFINE K == {i \in pool : nums[i] <= target}
<1> SUFFICES ASSUME NEW used, used = UNION backtrack_subset(pool, nums, target)
             PROVE  Paying(nums, pool, target, used)
    OBVIOUS
<1>1. IsFiniteSet(K) /\ K \in SUBSET pool /\ \A s \in SUBSET pool : IsFiniteSet(s)
    BY FS_Subset
<1>2. PICK f : f = (CHOOSE g : SearchOf(nums, K, target, g))
    OBVIOUS
<1>3. SearchOf(nums, K, target, f)
    BY <1>1, <1>2, SearchExists
<1>4. used = UNION f[K][0]
    BY <1>2, SearchIs DEF backtrack_subset
<1> DEFINE found == f[K][0]
<1>5. /\ \A s \in found : s \subseteq K /\ 0 + Total(nums, s) = target
      /\ \A s, u \in found : s = u
      /\ found = {} => \A s \in SUBSET K : 0 + Total(nums, s) # target
    <2>1. 0 \in 0 .. target /\ K \in SUBSET K /\ \A i \in K : nums[i] \in Nat
        OBVIOUS
    <2> HIDE DEF K
    <2> QED BY <1>1, <1>3, <2>1, SearchIsRight
<1>6. \A s \in SUBSET pool : Total(nums, s) \in Nat
    BY <1>1, TotalChoice
<1>7. CASE found = {}
    <2>1. used = {}
        BY <1>4, <1>7
    <2>2. ASSUME NEW s \in SUBSET pool, Total(nums, s) = target PROVE s \in SUBSET K
        <3> SUFFICES ASSUME NEW i \in s PROVE nums[i] <= target
            OBVIOUS
        <3>1. Total(nums, s) = nums[i] + Total(nums, s \ {i}) /\ Total(nums, s \ {i}) \in Nat
            BY <1>1, TotalAdd, ZenonT(40)
        <3> QED BY <2>2, <3>1
    <2> HIDE DEF K, found
    <2>3. \A s \in SUBSET pool : Total(nums, s) # target
        BY <1>5, <1>6, <1>7, <2>2
    <2> QED BY <2>1, <2>3 DEF Paying
<1>8. CASE found # {}
    <2>1. PICK s \in found : TRUE
        BY <1>8
    <2>2. found = {s}
        BY <1>5, <2>1
    <2>3. used = s
        BY <1>4, <2>2
    <2>4. s \in SUBSET pool /\ Total(nums, s) = target
        BY <1>1, <1>5, <1>6
    <2>5. Total(nums, {}) = 0
        BY <1>1, TotalChoice
    <2> HIDE DEF K, found
    <2> QED BY <2>3, <2>4, <2>5 DEF Paying
<1> QED BY <1>7, <1>8

-----------------------------------------------------------------------------
(* The search for all outputs                                              *)

LEMMA NextTargetIs ==
    ASSUME NEW targets, NEW S, \A k \in S : targets[k] \in Nat, S # {}
    PROVE  NextTarget(targets, S) \in S /\ \A j \in S : targets[NextTarget(targets, S)] <= targets[j]
<1> DEFINE T == {targets[k] : k \in S}
<1>1. T \in SUBSET Nat /\ T # {}
    OBVIOUS
<1>2. Min(T) \in T /\ \A y \in T : Min(T) <= y
    BY <1>1, Smallest
<1>3. PICK k \in S : targets[k] = Min(T)
    BY <1>2
<1>4. \A j \in S : targets[k] <= targets[j]
    BY <1>2, <1>3
<1> QED BY <1>4 DEF NextTarget

(* The recursion solve_back_track is defined by.                           *)
SolveOf(nums, targets, solve) ==
    solve = [left \in SUBSET DOMAIN targets |-> [remaining \in SUBSET DOMAIN nums |->
          IF left = {} THEN [k \in DOMAIN targets |-> {}]
          ELSE LET k    == NextTarget(targets, left)
                   used == UNION backtrack_subset(remaining, nums, targets[k])
               IN [solve[left \ {k}][retain(remaining, used)] EXCEPT ![k] = used]]]

SolveBody(nums, targets, solve, left, remaining) ==
    IF left = {} THEN [k \in DOMAIN targets |-> {}]
    ELSE LET k    == NextTarget(targets, left)
             used == UNION backtrack_subset(remaining, nums, targets[k])
         IN [solve[left \ {k}][retain(remaining, used)] EXCEPT ![k] = used]

LEMMA SolveIs ==
    ASSUME NEW nums, NEW targets
    PROVE  solve_back_track(nums, targets) =
             (CHOOSE f : SolveOf(nums, targets, f))[DOMAIN targets][DOMAIN nums]
BY DEF solve_back_track, SolveOf

(* Blocks the search is about.                                             *)
Searchable(nums, targets) ==
    /\ IsFiniteSet(DOMAIN nums) /\ \A i \in DOMAIN nums : nums[i] \in Nat
    /\ IsFiniteSet(DOMAIN targets) /\ \A k \in DOMAIN targets : targets[k] \in Nat

Pay(nums, targets, k, remaining) == UNION backtrack_subset(remaining, nums, targets[k])

LEMMA PayIsRight ==
    ASSUME NEW nums, NEW targets, Searchable(nums, targets), NEW k \in DOMAIN targets,
           NEW remaining \in SUBSET DOMAIN nums
    PROVE  Paying(nums, remaining, targets[k], Pay(nums, targets, k, remaining))
<1>1. IsFiniteSet(remaining) /\ \A i \in remaining : nums[i] \in Nat
    BY FS_Subset DEF Searchable
<1>2. targets[k] \in Nat
    BY DEF Searchable
<1> QED BY <1>1, <1>2, SubsetIsRight DEF Pay

LEMMA SolveExists ==
    ASSUME NEW nums, NEW targets, Searchable(nums, targets)
    PROVE  \E f \in [SUBSET DOMAIN targets ->
                       [SUBSET DOMAIN nums -> [DOMAIN targets -> SUBSET DOMAIN nums]]] :
              SolveOf(nums, targets, f)
<1> DEFINE D    == DOMAIN nums
           O    == DOMAIN targets
           R    == [O -> SUBSET D]
           V    == [SUBSET D -> R]
           base == [remaining \in SUBSET D |-> [k \in O |-> {}]]
           pick == [left \in SUBSET O |-> NextTarget(targets, left)]
           Next1(left, v, remaining) ==
              LET used == Pay(nums, targets, pick[left], remaining)
              IN [v[retain(remaining, used)] EXCEPT ![pick[left]] = used]
           step == [left \in SUBSET O |-> [v \in V |-> [remaining \in SUBSET D |->
                       IF left = {} THEN [k \in O |-> {}] ELSE Next1(left, v, remaining)]]]
<1>1. Picks(O, pick)
    <2>1. ASSUME NEW left \in SUBSET O, left # {} PROVE NextTarget(targets, left) \in left
        BY <2>1, NextTargetIs DEF Searchable
    <2> QED BY <2>1 DEF Picks
<1>2. base \in V
    OBVIOUS
<1>3. Steps(O, V, step)
    <2> SUFFICES ASSUME NEW left \in SUBSET O, NEW v \in V PROVE step[left][v] \in V
        BY DEF Steps
    <2>1. ASSUME NEW remaining \in SUBSET D, left # {} PROVE Next1(left, v, remaining) \in R
        <3>1. PICK k \in O : k = pick[left]
            BY <1>1, <2>1 DEF Picks
        <3>2. PICK used : used = Pay(nums, targets, k, remaining)
            OBVIOUS
        <3>3. used \in SUBSET D
            BY <3>2, PayIsRight DEF Paying
        <3>4. v[retain(remaining, used)] \in R
            BY DEF retain
        <3>5. Next1(left, v, remaining) = [v[retain(remaining, used)] EXCEPT ![k] = used]
            BY <3>1, <3>2
        <3> HIDE DEF Next1
        <3> QED BY <3>3, <3>4, <3>5
    <2>2. [remaining \in SUBSET D |->
             IF left = {} THEN [k \in O |-> {}] ELSE Next1(left, v, remaining)] \in V
        <3> HIDE DEF Next1
        <3> QED BY <2>1
    <2>3. step[left][v] = [remaining \in SUBSET D |->
             IF left = {} THEN [k \in O |-> {}] ELSE Next1(left, v, remaining)]
        <3> HIDE DEF Next1, V
        <3> QED OBVIOUS
    <2> QED BY <2>2, <2>3
<1>4. PICK f \in [SUBSET O -> V] : Recursion(O, base, pick, step, f)
    <2>1. IsFiniteSet(O)
        BY DEF Searchable
    <2> HIDE DEF O, V, base, pick, step
    <2> QED BY <1>1, <1>2, <1>3, <2>1, SetRecursion
<1>5. ASSUME NEW left \in SUBSET O, NEW remaining \in SUBSET D
      PROVE  f[left][remaining] = SolveBody(nums, targets, f, left, remaining)
    <2>1. CASE left = {}
        BY <1>4, <2>1 DEF Recursion, SolveBody
    <2>2. CASE left # {}
        <3>1. f[left] = step[left][f[left \ {pick[left]}]]
            BY <1>4, <2>2 DEF Recursion
        <3>2. f[left \ {pick[left]}] \in V
            BY <1>4
        <3>3. \A v \in V : step[left][v][remaining] = Next1(left, v, remaining)
            <4> HIDE DEF Next1, V
            <4> QED BY <2>2
        <3>4. f[left][remaining] = Next1(left, f[left \ {pick[left]}], remaining)
            <4> HIDE DEF Next1, V, step, pick
            <4> QED BY <3>1, <3>2, <3>3
        <3>5. pick[left] = NextTarget(targets, left)
            OBVIOUS
        <3> HIDE DEF pick, V, step
        <3> QED BY <2>2, <3>4, <3>5 DEF Pay, SolveBody
    <2> QED BY <2>1, <2>2
<1>6. SolveOf(nums, targets, f)
    <2>1. f = [left \in SUBSET O |-> f[left]]
        BY <1>4
    <2>2. \A left \in SUBSET O : f[left] = [remaining \in SUBSET D |-> f[left][remaining]]
        BY <1>4
    <2> HIDE DEF V
    <2>3. f = [left \in SUBSET O |-> [remaining \in SUBSET D |-> SolveBody(nums, targets, f, left, remaining)]]
        BY <1>5, <2>1, <2>2
    <2> QED BY <2>3 DEF SolveOf, SolveBody
<1> QED BY <1>4, <1>6

(* What is found for the outputs of a set, from the inputs that remain.    *)
SolvedRight(nums, targets, left, remaining, g) ==
    /\ g \in [DOMAIN targets -> SUBSET remaining]
    /\ \A k \in DOMAIN targets \ left : g[k] = {}
    /\ \A k \in left : g[k] # {} => Total(nums, g[k]) = targets[k]
    /\ \A k, j \in left : k # j => g[k] \cap g[j] = {}
    /\ \A k \in left : g[k] = {} /\ targets[k] # 0 =>
         \A s \in SUBSET (remaining \ UNION {g[j] : j \in {x \in left : targets[x] <= targets[k]}}) :
            Total(nums, s) # targets[k]

LEMMA SolveIsRight ==
    ASSUME NEW nums, NEW targets, Searchable(nums, targets), NEW f, SolveOf(nums, targets, f),
           NEW left \in SUBSET DOMAIN targets, NEW remaining \in SUBSET DOMAIN nums
    PROVE  SolvedRight(nums, targets, left, remaining, f[left][remaining])
<1> DEFINE D == DOMAIN nums
           O == DOMAIN targets
           P == {l \in SUBSET O : \A r \in SUBSET D : SolvedRight(nums, targets, l, r, f[l][r])}
<1>1. ASSUME NEW l \in SUBSET O, \A x \in l : l \ {x} \in P, NEW r \in SUBSET D
      PROVE  SolvedRight(nums, targets, l, r, f[l][r])
    <2>1. CASE l = {}
        <3>1. f[l][r] = [k \in O |-> {}]
            BY <2>1 DEF SolveOf
        <3> QED BY <2>1, <3>1 DEF SolvedRight
    <2>2. CASE l # {}
        <3>1. PICK m : m = NextTarget(targets, l)
            OBVIOUS
        <3>2. m \in l /\ \A j \in l : targets[m] <= targets[j]
            BY <2>2, <3>1, NextTargetIs DEF Searchable
        <3>3. PICK used : used = Pay(nums, targets, m, r)
            OBVIOUS
        <3>4. /\ used \subseteq r
              /\ used # {} => Total(nums, used) = targets[m]
              /\ used = {} /\ targets[m] # 0 => \A s \in SUBSET r : Total(nums, s) # targets[m]
            BY <3>2, <3>3, PayIsRight DEF Paying
        <3>5. PICK h : h = f[l \ {m}][r \ used]
            OBVIOUS
        <3>6. SolvedRight(nums, targets, l \ {m}, r \ used, h)
            <4>1. l \ {m} \in P /\ r \ used \in SUBSET D
                BY <1>1, <3>2
            <4> QED BY <3>5, <4>1
        <3>7. f[l][r] = [h EXCEPT ![m] = used]
            <4>1. f = [left_1 \in SUBSET DOMAIN targets |-> [remaining_1 \in SUBSET DOMAIN nums |->
                          SolveBody(nums, targets, f, left_1, remaining_1)]]
                BY DEF SolveOf, SolveBody
            <4>2. f[l] = [remaining_1 \in SUBSET D |-> SolveBody(nums, targets, f, l, remaining_1)]
                BY <4>1
            <4>3. f[l][r] = SolveBody(nums, targets, f, l, r)
                BY <4>2
            <4> QED BY <2>2, <3>1, <3>3, <3>5, <4>3 DEF SolveBody, Pay, retain
        <3>8. PICK g : g = f[l][r]
            OBVIOUS
        <3> HIDE DEF P
        <3>9. /\ g \in [O -> SUBSET r] /\ g[m] = used
              /\ \A k \in O \ {m} : g[k] = h[k] /\ h[k] \subseteq r \ used
            BY <3>2, <3>4, <3>6, <3>7, <3>8 DEF SolvedRight
        <3>10. \A k \in O \ l : g[k] = {}
            BY <3>2, <3>6, <3>9 DEF SolvedRight
        <3>11. \A k \in l : g[k] # {} => Total(nums, g[k]) = targets[k]
            BY <3>2, <3>4, <3>6, <3>9 DEF SolvedRight
        <3>12. ASSUME NEW k \in l, NEW j \in l, k # j PROVE g[k] \cap g[j] = {}
            <4>1. CASE k # m /\ j # m
                BY <3>6, <3>9, <3>12, <4>1 DEF SolvedRight
            <4>2. CASE k = m \/ j = m
                BY <3>9, <3>12, <4>2
            <4> QED BY <4>1, <4>2
        <3>13. ASSUME NEW k \in l, g[k] = {}, targets[k] # 0,
                      NEW s \in SUBSET (r \ UNION {g[j] : j \in {x \in l : targets[x] <= targets[k]}})
               PROVE  Total(nums, s) # targets[k]
            <4>1. CASE k = m
                <5>1. s \in SUBSET r
                    OBVIOUS
                <5> QED BY <3>4, <3>9, <3>13, <4>1, <5>1
            <4>2. CASE k # m
                <5>1. ASSUME NEW x \in s PROVE x \notin used
                    <6>1. targets[m] <= targets[k]
                        BY <3>2
                    <6>2. m \in {y \in l : targets[y] <= targets[k]}
                        BY <3>2, <6>1
                    <6> QED BY <3>9, <6>2
                <5>2. ASSUME NEW x \in s, NEW j \in l \ {m}, targets[j] <= targets[k] PROVE x \notin h[j]
                    <6>1. j \in {y \in l : targets[y] <= targets[k]}
                        BY <5>2
                    <6> QED BY <3>9, <6>1
                <5>3. s \in SUBSET ((r \ used) \ UNION {h[j] : j \in {x \in l \ {m} : targets[x] <= targets[k]}})
                    BY <5>1, <5>2
                <5>4. h[k] = {} /\ k \in l \ {m}
                    BY <3>9, <3>13, <4>2
                <5> QED BY <3>6, <3>13, <5>3, <5>4 DEF SolvedRight
            <4> QED BY <4>1, <4>2
        <3> QED BY <3>8, <3>9, <3>10, <3>11, <3>12, <3>13 DEF SolvedRight
    <2> QED BY <2>1, <2>2
<1>2. \A l \in SUBSET O : (\A x \in l : l \ {x} \in P) => l \in P
    <2>1. ASSUME NEW l \in SUBSET O, \A x \in l : l \ {x} \in P PROVE l \in P
        BY <1>1, <2>1
    <2> QED BY <2>1
<1>3. IsFiniteSet(O)
    BY DEF Searchable
<1> HIDE DEF P
<1>4. \A l \in SUBSET O : l \in P
    BY <1>2, <1>3, SetInduction
<1> QED BY <1>4 DEF P

(* What solve_back_track finds for a block.                                *)
LEMMA SolutionIsRight ==
    ASSUME NEW nums, NEW targets, Searchable(nums, targets)
    PROVE  SolvedRight(nums, targets, DOMAIN targets, DOMAIN nums, solve_back_track(nums, targets))
<1>1. PICK f : f = (CHOOSE g : SolveOf(nums, targets, g))
    OBVIOUS
<1>2. SolveOf(nums, targets, f)
    BY <1>1, SolveExists
<1> QED BY <1>1, <1>2, SolveIs, SolveIsRight

(* solve_back_track hands out inputs that add up, each to one output, for  *)
(* any inputs and targets.                                                 *)
THEOREM SearchIsSound ==
    \A nums, targets : Searchable(nums, targets) => IsSound(nums, targets)
<1> SUFFICES ASSUME NEW nums, NEW targets, Searchable(nums, targets)
             PROVE  IsSound(nums, targets)
    OBVIOUS
<1>1. PICK g : g = solve_back_track(nums, targets)
    OBVIOUS
<1>2. SolvedRight(nums, targets, DOMAIN targets, DOMAIN nums, g)
    BY <1>1, SolutionIsRight
<1>3. /\ \A k \in DOMAIN targets : g[k] # {} => Total(nums, g[k]) = targets[k]
      /\ \A k, j \in DOMAIN targets : k # j => g[k] \cap g[j] = {}
    BY <1>2 DEF SolvedRight
<1> QED BY <1>1, <1>3 DEF IsSound

(* back_track misses no set of inputs that pays for an output, unless the  *)
(* output costs nothing.                                                   *)
THEOREM SearchIsComplete ==
    \A nums, targets : Searchable(nums, targets) /\ (\A k \in DOMAIN targets : targets[k] # 0) =>
        IsComplete(nums, targets)
<1> SUFFICES ASSUME NEW nums, NEW targets, Searchable(nums, targets),
                    \A k \in DOMAIN targets : targets[k] # 0
             PROVE  IsComplete(nums, targets)
    OBVIOUS
<1>1. PICK g : g = solve_back_track(nums, targets)
    OBVIOUS
<1>2. SolvedRight(nums, targets, DOMAIN targets, DOMAIN nums, g)
    BY <1>1, SolutionIsRight
<1>3. ASSUME NEW k \in DOMAIN targets, g[k] = {},
             NEW s \in SUBSET (DOMAIN nums \
                     UNION {g[j] : j \in {x \in DOMAIN targets : targets[x] <= targets[k]}})
      PROVE  Total(nums, s) # targets[k]
    BY <1>2, <1>3 DEF SolvedRight
<1> QED BY <1>1, <1>3 DEF IsComplete

-----------------------------------------------------------------------------
(* The history                                                             *)

Statuses == {"Pending", "Unconfirmed", "Confirmed", "Reorganized", "Rejected"}

Row ==
    [status : Statuses, col : Nat, height : Nat, conf : Nat, ins : SUBSET Outputs,
     outs : SUBSET Outputs, payref : SUBSET (Nat \X Txs)]

IsTable(r) == r \in [DOMAIN r -> Row]

(* Columns are heights of blocks: they are bounded, so that a list of rows *)
(* has a first one.                                                        *)
TypeOK ==
    /\ bodies \in Seq(SUBSET (Receipts \cup Txs))
    /\ chain \in Seq(1 .. Len(bodies)) /\ Len(chain) <= Len(bodies)
    /\ mempool \subseteq Sent
    /\ tips \in Seq(1 .. Len(bodies))
    /\ rows \in [DOMAIN rows -> Row] /\ DOMAIN rows \subseteq Sent \cup Outputs
    /\ \A i \in DOMAIN rows : rows[i].col <= Len(bodies)
    /\ payrefs \subseteq (Sent \cup Outputs) \X (Nat \X Txs)
    /\ shown \subseteq (Sent \cup Outputs) \X (Nat \X Txs)
    /\ sender \in [Sent -> {"new", "submitted", "done"}]

-----------------------------------------------------------------------------
(* The rows a block leaves                                                 *)

(* The parts of create_new_updated_display_transactions.                   *)
RowsWith(r, h, o)  == {i \in current_display_transactions(r, h) : o \in r[i].outs}
RowsUsing(r, h, o) == {i \in current_display_transactions(r, h) : o \in r[i].ins}
NewMade(r, b, h)   == {o \in Created(bodies[b]) : RowsWith(r, h, o) = {}}
NewSpent(r, b, h, known) == {o \in Spent(bodies[b], known) : RowsUsing(r, h, o) = {}}
PaidBy(r, b, h, known)   == search_inputs(NewSpent(r, b, h, known), NewMade(r, b, h) \ Receipts)
Unused(r, b, h, known)   == UnusedInputs(NewSpent(r, b, h, known), PaidBy(r, b, h, known))

Found(r, b, h, known, first) ==
    {FirstMatch(r, RowsWith(r, h, o), first) : o \in Created(bodies[b]) \ NewMade(r, b, h)} \cup
    {FirstMatch(r, RowsUsing(r, h, o), first) :
        o \in Spent(bodies[b], known) \ NewSpent(r, b, h, known)}

MinedRows(r, b, h, known, first) ==
    [i \in DOMAIN r |-> IF i \in Found(r, b, h, known, first)
                          THEN update_displayed_transaction_mined(MinedRow(r[i], h)) ELSE r[i]]

LEMMA SavedRows ==
    ASSUME NEW r, NEW b, NEW h, NEW known, NEW first
    PROVE  save_and_emit_displayed_transactions(r, b, h, known, first) =
             insert_displayed_transaction(
               insert_displayed_transaction(
                 insert_displayed_transaction(
                   insert_displayed_transaction(MinedRows(r, b, h, known, first),
                     ReceiptRows(NewMade(r, b, h) \cap Receipts, h)),
                   ChangeRows(PaidBy(r, b, h, known), b, h)),
                 UnmatchedOutputRows(PaidBy(r, b, h, known), b, h)),
               InputRows(Unused(r, b, h, known), h))
<1>1. create_new_updated_display_transactions(r, b, h, known, first).updated =
        Found(r, b, h, known, first)
    BY DEF create_new_updated_display_transactions, Found, NewMade, NewSpent, RowsWith, RowsUsing
<1>2. create_new_updated_display_transactions(r, b, h, known, first).new =
        <<ReceiptRows(NewMade(r, b, h) \cap Receipts, h),
          ChangeRows(PaidBy(r, b, h, known), b, h),
          UnmatchedOutputRows(PaidBy(r, b, h, known), b, h),
          InputRows(Unused(r, b, h, known), h)>>
    BY DEF create_new_updated_display_transactions, NewMade, NewSpent, RowsWith, RowsUsing,
           PaidBy, Unused
<1> QED BY <1>1, <1>2 DEF save_and_emit_displayed_transactions, MinedRows

WithCol(row, col) == [row EXCEPT !.col = col]

LEMMA InsertedRows ==
    ASSUME NEW r, NEW new
    PROVE  /\ DOMAIN insert_displayed_transaction(r, new) = DOMAIN r \cup DOMAIN new
           /\ \A i \in DOMAIN r \ DOMAIN new : insert_displayed_transaction(r, new)[i] = r[i]
           /\ \A i \in DOMAIN new \ DOMAIN r : insert_displayed_transaction(r, new)[i] = new[i]
           /\ \A i \in DOMAIN new \cap DOMAIN r :
                insert_displayed_transaction(r, new)[i] = WithCol(new[i], r[i].col)
<1>1. insert_displayed_transaction(r, new) =
        [i \in DOMAIN r \cup DOMAIN new |->
            IF i \notin DOMAIN new THEN r[i]
            ELSE IF i \in DOMAIN r THEN WithCol(new[i], r[i].col)
            ELSE new[i]]
    BY DEF insert_displayed_transaction, WithCol
<1> QED BY <1>1

(* Contents of the row an output of the block gets.                        *)
MadeRow(r, b, h, known, i, col) ==
    [status |-> StatusAtTip, col |-> col, height |-> h, conf |-> 0,
     ins    |-> IF i \in Receipts THEN {} ELSE PaidBy(r, b, h, known)[i],
     outs   |-> {i},
     payref |-> IF i \in Receipts THEN {} ELSE {<<b, TxOf(i)>>}]

SpendRow(h, i, col) ==
    [status |-> StatusAtTip, col |-> col, height |-> h, conf |-> 0,
     ins |-> {i}, outs |-> {}, payref |-> {}]

FoundRow(row, h) ==
    [status |-> StatusAtTip, col |-> h, height |-> h, conf |-> 0,
     ins |-> row.ins, outs |-> row.outs, payref |-> row.payref]
(* The column of a row: the insert leaves what the update wrote.           *)
ColumnOf(r, b, h, known, first, i) ==
    IF i \in DOMAIN r THEN MinedRows(r, b, h, known, first)[i].col ELSE h

LEMMA SameRow ==
    ASSUME NEW x \in Row, NEW y \in Row, x.status = y.status, x.col = y.col, x.height = y.height,
           x.conf = y.conf, x.ins = y.ins, x.outs = y.outs, x.payref = y.payref
    PROVE  x = y
BY DEF Row

LEMMA StatusIsMined == StatusAtTip \in {"Confirmed", "Unconfirmed"}
BY DEF StatusAtTip

LEMMA FoundRowIs ==
    ASSUME NEW row \in Row, NEW h \in Nat
    PROVE  update_displayed_transaction_mined(MinedRow(row, h)) = FoundRow(row, h)
<1> DEFINE m == MinedRow(row, h)
           u == update_displayed_transaction_mined(m)
<1>1. StatusAtTip \in Statuses
    BY StatusIsMined DEF Statuses
<1>2. /\ m \in Row /\ m.status = StatusAtTip /\ m.height = h /\ m.conf = 0
      /\ m.ins = row.ins /\ m.outs = row.outs /\ m.payref = row.payref
    BY <1>1 DEF MinedRow, Row
<1> HIDE DEF m
<1>3. /\ u \in Row /\ u.status = m.status /\ u.height = m.height /\ u.conf = m.conf /\ u.col = m.height
      /\ u.ins = m.ins /\ u.outs = m.outs /\ u.payref = m.payref
    BY <1>2 DEF update_displayed_transaction_mined, Row
<1>4. FoundRow(row, h) \in Row
    BY <1>1 DEF FoundRow, Row
<1> HIDE DEF u
<1>5. u = FoundRow(row, h)
    BY <1>2, <1>3, <1>4, SameRow DEF FoundRow
<1> QED BY <1>5 DEF u, m

LEMMA MinedAt ==
    ASSUME NEW r, IsTable(r), NEW b, NEW h \in Nat, NEW known, NEW first
    PROVE  /\ DOMAIN MinedRows(r, b, h, known, first) = DOMAIN r
           /\ \A i \in DOMAIN r : i \in Found(r, b, h, known, first) =>
                MinedRows(r, b, h, known, first)[i] = FoundRow(r[i], h)
           /\ \A i \in DOMAIN r : i \notin Found(r, b, h, known, first) =>
                MinedRows(r, b, h, known, first)[i] = r[i]
<1>1. DOMAIN MinedRows(r, b, h, known, first) = DOMAIN r
    BY DEF MinedRows
<1>2. ASSUME NEW i \in DOMAIN r, i \in Found(r, b, h, known, first)
      PROVE  MinedRows(r, b, h, known, first)[i] = FoundRow(r[i], h)
    <2>1. MinedRows(r, b, h, known, first)[i] = update_displayed_transaction_mined(MinedRow(r[i], h))
        BY <1>2 DEF MinedRows
    <2>2. r[i] \in Row
        BY DEF IsTable
    <2> QED BY <2>1, <2>2, FoundRowIs
<1>3. ASSUME NEW i \in DOMAIN r, i \notin Found(r, b, h, known, first)
      PROVE  MinedRows(r, b, h, known, first)[i] = r[i]
    BY <1>3 DEF MinedRows
<1> QED BY <1>1, <1>2, <1>3

(* Every row after a block: of a spent output nobody paid for with, of an  *)
(* output of the block nobody knew, or a row there was.                    *)
IsSaved(r, b, h, known, first, R) ==
    /\ DOMAIN R = DOMAIN r \cup NewMade(r, b, h) \cup Unused(r, b, h, known)
    /\ \A i \in Unused(r, b, h, known) :
         R[i] = SpendRow(h, i, ColumnOf(r, b, h, known, first, i))
    /\ \A i \in NewMade(r, b, h) \ Unused(r, b, h, known) :
         R[i] = MadeRow(r, b, h, known, i, ColumnOf(r, b, h, known, first, i))
    /\ \A i \in DOMAIN r \ (NewMade(r, b, h) \cup Unused(r, b, h, known)) :
         R[i] = MinedRows(r, b, h, known, first)[i]

LEMMA SavedAt ==
    ASSUME NEW r, IsTable(r), NEW b, NEW h \in Nat, NEW known, NEW first
    PROVE  IsSaved(r, b, h, known, first, save_and_emit_displayed_transactions(r, b, h, known, first))
<1> SUFFICES ASSUME NEW R, R = save_and_emit_displayed_transactions(r, b, h, known, first)
             PROVE  IsSaved(r, b, h, known, first, R)
    OBVIOUS
<1> DEFINE paid == PaidBy(r, b, h, known)
           made == NewMade(r, b, h)
           left == Unused(r, b, h, known)
           col(i) == ColumnOf(r, b, h, known, first, i)
           m  == MinedRows(r, b, h, known, first)
           n1 == ReceiptRows(made \cap Receipts, h)
           n2 == ChangeRows(paid, b, h)
           n3 == UnmatchedOutputRows(paid, b, h)
           n4 == InputRows(left, h)
           r1 == insert_displayed_transaction(m, n1)
           r2 == insert_displayed_transaction(r1, n2)
           r3 == insert_displayed_transaction(r2, n3)
<1>1. R = insert_displayed_transaction(r3, n4)
    BY SavedRows
<1>2. DOMAIN paid = made \ Receipts
    BY DEF PaidBy, search_inputs
<1>3. /\ DOMAIN n1 = made \cap Receipts
      /\ \A i \in DOMAIN n1 : n1[i] = MadeRow(r, b, h, known, i, h)
    BY DEF ReceiptRows, NewRow, MadeRow
<1>4. /\ DOMAIN n2 = {c \in made \ Receipts : paid[c] # {}}
      /\ \A i \in DOMAIN n2 : n2[i] = MadeRow(r, b, h, known, i, h)
    BY <1>2 DEF ChangeRows, NewRow, MadeRow
<1>5. /\ DOMAIN n3 = {c \in made \ Receipts : paid[c] = {}}
      /\ \A i \in DOMAIN n3 : n3[i] = MadeRow(r, b, h, known, i, h)
    BY <1>2 DEF UnmatchedOutputRows, NewRow, MadeRow
<1>6. /\ DOMAIN n4 = left
      /\ \A i \in left : n4[i] = SpendRow(h, i, h)
    BY DEF InputRows, NewRow, SpendRow
<1>7. DOMAIN m = DOMAIN r
    BY MinedAt
<1>8. \A i, c : /\ WithCol(MadeRow(r, b, h, known, i, h), c) = MadeRow(r, b, h, known, i, c)
                /\ WithCol(SpendRow(h, i, h), c) = SpendRow(h, i, c)
                /\ MadeRow(r, b, h, known, i, c).col = c
    BY DEF WithCol, MadeRow, SpendRow
<1>9. \A i : (i \in DOMAIN r => col(i) = m[i].col) /\ (i \notin DOMAIN r => col(i) = h)
    BY DEF ColumnOf
<1> DEFINE I(old, add) ==
             LET new == insert_displayed_transaction(old, add)
             IN /\ DOMAIN new = DOMAIN old \cup DOMAIN add
                /\ \A i \in DOMAIN old \ DOMAIN add : new[i] = old[i]
                /\ \A i \in DOMAIN add \ DOMAIN old : new[i] = add[i]
                /\ \A i \in DOMAIN add \cap DOMAIN old : new[i] = WithCol(add[i], old[i].col)
<1>10. I(m, n1) /\ I(r1, n2) /\ I(r2, n3) /\ I(r3, n4)
    <2>1. \A old, add : I(old, add)
        BY InsertedRows
    <2> HIDE DEF I, m, n1, n2, n3, n4, r1, r2, r3
    <2> QED BY <2>1
<1> HIDE DEF paid, made, left, m, n1, n2, n3, n4, col
<1>11. /\ DOMAIN r1 = DOMAIN r \cup (made \cap Receipts)
       /\ \A i \in made \cap Receipts : r1[i] = MadeRow(r, b, h, known, i, col(i))
       /\ \A i \in DOMAIN r \ (made \cap Receipts) : r1[i] = m[i]
    BY <1>3, <1>7, <1>8, <1>9, <1>10
<1> HIDE DEF r1
<1>12. /\ DOMAIN r2 = DOMAIN r \cup (made \cap Receipts) \cup DOMAIN n2
       /\ \A i \in (made \cap Receipts) \cup DOMAIN n2 : r2[i] = MadeRow(r, b, h, known, i, col(i))
       /\ \A i \in DOMAIN r \ ((made \cap Receipts) \cup DOMAIN n2) : r2[i] = m[i]
    BY <1>4, <1>8, <1>9, <1>10, <1>11
<1> HIDE DEF r2
<1>13. /\ DOMAIN r3 = DOMAIN r \cup made
       /\ \A i \in made : r3[i] = MadeRow(r, b, h, known, i, col(i))
       /\ \A i \in DOMAIN r \ made : r3[i] = m[i]
    BY <1>4, <1>5, <1>8, <1>9, <1>10, <1>12
<1> HIDE DEF r3
<1>14. \A i \in DOMAIN r3 : r3[i].col = col(i)
    BY <1>8, <1>9, <1>13
<1>15. /\ DOMAIN R = DOMAIN r \cup made \cup left
       /\ \A i \in left : R[i] = SpendRow(h, i, col(i))
       /\ \A i \in (DOMAIN r \cup made) \ left : R[i] = r3[i]
    BY <1>1, <1>6, <1>8, <1>9, <1>10, <1>13, <1>14
<1> QED BY <1>13, <1>15 DEF made, left, m, col, IsSaved

-----------------------------------------------------------------------------
(* What a block holds and which rows it finds                              *)

(* Outputs of a block; a change output belongs to a transaction of it.     *)
LEMMA CreatedIs ==
    ASSUME NEW body
    PROVE  /\ Created(body) \subseteq Outputs
           /\ \A c \in Created(body) \ Receipts :
                TxOf(c) \in Txs \cap body /\ c \in Change[TxOf(c)]
<1>1. Created(body) \subseteq Outputs
    BY DEF Created, Outputs
<1>2. ASSUME NEW c \in Created(body) \ Receipts
      PROVE  TxOf(c) \in Txs \cap body /\ c \in Change[TxOf(c)]
    <2>1. PICK t \in Txs \cap body : c \in Change[t]
        BY <1>2 DEF Created
    <2>2. TxOf(c) \in Txs /\ c \in Change[TxOf(c)]
        BY <2>1 DEF TxOf
    <2>3. TxOf(c) = t
        BY <2>1, <2>2, ChangeAssumption
    <2> QED BY <2>1, <2>2, <2>3
<1> QED BY <1>1, <1>2

LEMMA SpentIs ==
    ASSUME NEW body, NEW known
    PROVE  /\ Spent(body, known) \subseteq Outputs
           /\ \A o \in Spent(body, known) : \E t \in Txs \cap body : o \in Spends[t]
BY SpendsAssumption DEF Spent

(* The inputs the search gives the change outputs are inputs of the block, *)
(* and no input is given twice.                                            *)
LEMMA PaidByIs ==
    ASSUME NEW spent \in SUBSET Outputs, NEW changes \in SUBSET Outputs,
           \A c \in changes : TxOf(c) \in Txs
    PROVE  /\ DOMAIN search_inputs(spent, changes) = changes
           /\ \A c \in changes : search_inputs(spent, changes)[c] \subseteq spent
           /\ \A c, d \in changes : c # d =>
                 search_inputs(spent, changes)[c] \cap search_inputs(spent, changes)[d] = {}
<1>1. PICK nums : nums = [o \in spent |-> Value[o]]
    OBVIOUS
<1>2. PICK targets : targets = [c \in changes |-> Target(c)]
    OBVIOUS
<1>3. Searchable(nums, targets)
    <2>1. IsFiniteSet(spent) /\ IsFiniteSet(changes)
        BY OutputsFinite, FS_Subset
    <2>2. \A o \in spent : Value[o] \in Nat
        BY AmountsAssumption
    <2>3. \A c \in changes : Target(c) \in Nat
        BY AmountsAssumption DEF Target
    <2> QED BY <1>1, <1>2, <2>1, <2>2, <2>3 DEF Searchable
<1>4. PICK found : found = solve_back_track(nums, targets)
    OBVIOUS
<1>5. SolvedRight(nums, targets, changes, spent, found)
    BY <1>1, <1>2, <1>3, <1>4, SolutionIsRight
<1>6. search_inputs(spent, changes) =
        [c \in changes |-> IF Total(nums, found[c]) = Target(c) THEN found[c] ELSE {}]
    BY <1>1, <1>2, <1>4 DEF search_inputs
<1>7. found \in [changes -> SUBSET spent]
    BY <1>2, <1>5 DEF SolvedRight
<1>8. \A c, d \in changes : c # d => found[c] \cap found[d] = {}
    BY <1>5 DEF SolvedRight
<1> QED BY <1>6, <1>7, <1>8

(* The first row of a list that is not empty is in the list.               *)
LEMMA FirstIs ==
    ASSUME NEW r, NEW ids, ids # {}, NEW N \in Nat, NEW first,
           \A i \in ids : r[i].col \in Nat /\ r[i].col <= N
    PROVE  FirstMatch(r, ids, first) \in ids
<1> DEFINE cols == {r[i].col : i \in ids}
           top  == {i \in ids : \A j \in ids : r[j].col <= r[i].col}
           pref == {i \in top : (i \in Sent) = (first = "sender")}
<1>1. cols \in SUBSET (0 .. N) /\ cols # {}
    OBVIOUS
<1>2. Max(cols) \in cols /\ \A y \in cols : y <= Max(cols)
    BY <1>1, Largest
<1>3. PICK i \in ids : r[i].col = Max(cols)
    BY <1>2
<1>4. \A j \in ids : r[j].col <= r[i].col
    BY <1>2, <1>3
<1>5. \E x \in top : pref = {} \/ x \in pref
    BY <1>4
<1> QED BY <1>5 DEF FirstMatch

LEMMA FoundIs ==
    ASSUME TypeOK, NEW b, NEW h, NEW known, NEW first
    PROVE  /\ \A i \in Found(rows, b, h, known, first) :
                /\ i \in current_display_transactions(rows, h) /\ i \in DOMAIN rows
                /\ \/ \E o \in Created(bodies[b]) : o \in rows[i].outs
                   \/ \E o \in Spent(bodies[b], known) : o \in rows[i].ins
           /\ \A o \in Created(bodies[b]) \ NewMade(rows, b, h) :
                \E i \in Found(rows, b, h, known, first) : o \in rows[i].outs
           /\ \A o \in Spent(bodies[b], known) \ NewSpent(rows, b, h, known) :
                \E i \in Found(rows, b, h, known, first) : o \in rows[i].ins
<1>1. current_display_transactions(rows, h) \subseteq DOMAIN rows
    BY DEF current_display_transactions, get_displayed_transactions_from_height,
           get_displayed_transactions_by_status
<1>2. ASSUME NEW ids \in SUBSET DOMAIN rows, ids # {} PROVE FirstMatch(rows, ids, first) \in ids
    <2>1. \A i \in ids : rows[i].col \in Nat /\ rows[i].col <= Len(bodies)
        BY DEF TypeOK, Row
    <2>2. Len(bodies) \in Nat
        BY DEF TypeOK
    <2> QED BY <1>2, <2>1, <2>2, FirstIs
<1>3. ASSUME NEW o \in Created(bodies[b]) \ NewMade(rows, b, h)
      PROVE  FirstMatch(rows, RowsWith(rows, h, o), first) \in RowsWith(rows, h, o)
    <2>1. RowsWith(rows, h, o) \in SUBSET DOMAIN rows /\ RowsWith(rows, h, o) # {}
        BY <1>1 DEF RowsWith, NewMade
    <2> QED BY <1>2, <2>1
<1>4. ASSUME NEW o \in Spent(bodies[b], known) \ NewSpent(rows, b, h, known)
      PROVE  FirstMatch(rows, RowsUsing(rows, h, o), first) \in RowsUsing(rows, h, o)
    <2>1. RowsUsing(rows, h, o) \in SUBSET DOMAIN rows /\ RowsUsing(rows, h, o) # {}
        BY <1>1 DEF RowsUsing, NewSpent
    <2> QED BY <1>2, <2>1
<1>5. \A o : /\ RowsWith(rows, h, o) \subseteq current_display_transactions(rows, h)
             /\ \A i \in RowsWith(rows, h, o) : o \in rows[i].outs
             /\ RowsUsing(rows, h, o) \subseteq current_display_transactions(rows, h)
             /\ \A i \in RowsUsing(rows, h, o) : o \in rows[i].ins
    BY DEF RowsWith, RowsUsing
<1>6. ASSUME NEW i \in Found(rows, b, h, known, first)
      PROVE  /\ i \in current_display_transactions(rows, h)
             /\ \/ \E o \in Created(bodies[b]) : o \in rows[i].outs
                \/ \E o \in Spent(bodies[b], known) : o \in rows[i].ins
    <2>1. CASE \E o \in Created(bodies[b]) \ NewMade(rows, b, h) :
                  i = FirstMatch(rows, RowsWith(rows, h, o), first)
        BY <1>3, <1>5, <2>1
    <2>2. CASE \E o \in Spent(bodies[b], known) \ NewSpent(rows, b, h, known) :
                  i = FirstMatch(rows, RowsUsing(rows, h, o), first)
        BY <1>4, <1>5, <2>2
    <2> QED BY <2>1, <2>2 DEF Found
<1>7. ASSUME NEW o \in Created(bodies[b]) \ NewMade(rows, b, h)
      PROVE  \E i \in Found(rows, b, h, known, first) : o \in rows[i].outs
    <2>1. FirstMatch(rows, RowsWith(rows, h, o), first) \in Found(rows, b, h, known, first)
        BY DEF Found
    <2> QED BY <1>3, <1>5, <2>1
<1>8. ASSUME NEW o \in Spent(bodies[b], known) \ NewSpent(rows, b, h, known)
      PROVE  \E i \in Found(rows, b, h, known, first) : o \in rows[i].ins
    <2>1. FirstMatch(rows, RowsUsing(rows, h, o), first) \in Found(rows, b, h, known, first)
        BY DEF Found
    <2> QED BY <1>4, <1>5, <2>1
<1> QED BY <1>1, <1>6, <1>7, <1>8

(* What is new in a block, and what pays for it.                           *)
LEMMA NewIs ==
    ASSUME NEW r, NEW b, NEW h, NEW known
    PROVE  /\ NewMade(r, b, h) \subseteq Created(bodies[b])
           /\ NewMade(r, b, h) \subseteq Outputs
           /\ \A c \in NewMade(r, b, h) \ Receipts :
                TxOf(c) \in Txs \cap bodies[b] /\ c \in Change[TxOf(c)]
           /\ NewSpent(r, b, h, known) \subseteq Spent(bodies[b], known)
           /\ NewSpent(r, b, h, known) \subseteq Outputs
           /\ Unused(r, b, h, known) \subseteq NewSpent(r, b, h, known)
           /\ DOMAIN PaidBy(r, b, h, known) = NewMade(r, b, h) \ Receipts
           /\ \A c \in NewMade(r, b, h) \ Receipts :
                /\ PaidBy(r, b, h, known)[c] \subseteq NewSpent(r, b, h, known)
                /\ PaidBy(r, b, h, known)[c] \cap Unused(r, b, h, known) = {}
           /\ \A c, d \in NewMade(r, b, h) \ Receipts : c # d =>
                PaidBy(r, b, h, known)[c] \cap PaidBy(r, b, h, known)[d] = {}
<1>1. /\ NewMade(r, b, h) \subseteq Created(bodies[b])
      /\ NewSpent(r, b, h, known) \subseteq Spent(bodies[b], known)
      /\ Unused(r, b, h, known) \subseteq NewSpent(r, b, h, known)
    BY DEF NewMade, NewSpent, Unused, UnusedInputs
<1>2. /\ NewMade(r, b, h) \subseteq Outputs
      /\ NewSpent(r, b, h, known) \subseteq Outputs
      /\ \A c \in NewMade(r, b, h) \ Receipts :
            TxOf(c) \in Txs \cap bodies[b] /\ c \in Change[TxOf(c)]
    BY <1>1, CreatedIs, SpentIs
<1>3. PICK spent : spent = NewSpent(r, b, h, known)
    OBVIOUS
<1>4. PICK changes : changes = NewMade(r, b, h) \ Receipts
    OBVIOUS
<1>5. PICK paid : paid = PaidBy(r, b, h, known)
    OBVIOUS
<1>6. /\ DOMAIN paid = changes
      /\ \A c \in changes : paid[c] \subseteq spent
      /\ \A c, d \in changes : c # d => paid[c] \cap paid[d] = {}
    <2>1. paid = search_inputs(spent, changes)
        BY <1>3, <1>4, <1>5 DEF PaidBy
    <2>2. spent \in SUBSET Outputs /\ changes \in SUBSET Outputs /\ \A c \in changes : TxOf(c) \in Txs
        BY <1>2, <1>3, <1>4
    <2> QED BY <2>1, <2>2, PaidByIs
<1>7. \A c \in changes : paid[c] \cap Unused(r, b, h, known) = {}
    BY <1>3, <1>5, <1>6 DEF Unused, UnusedInputs
<1> QED BY <1>1, <1>2, <1>3, <1>4, <1>5, <1>6, <1>7

(* The table after a block is a table of rows.                             *)
LEMMA SavedTypes ==
    ASSUME TypeOK, NEW b \in Nat, NEW h \in Nat, h <= Len(bodies), NEW known, NEW first, NEW R,
           R = save_and_emit_displayed_transactions(rows, b, h, known, first)
    PROVE  /\ R \in [DOMAIN R -> Row] /\ DOMAIN R \subseteq Sent \cup Outputs
           /\ DOMAIN rows \subseteq DOMAIN R
           /\ \A i \in DOMAIN R : R[i].col <= Len(bodies)
<1>1. IsTable(rows) /\ DOMAIN rows \subseteq Sent \cup Outputs
    BY DEF TypeOK, IsTable
<1>2. /\ DOMAIN R = DOMAIN rows \cup NewMade(rows, b, h) \cup Unused(rows, b, h, known)
      /\ \A i \in Unused(rows, b, h, known) :
           R[i] = SpendRow(h, i, ColumnOf(rows, b, h, known, first, i))
      /\ \A i \in NewMade(rows, b, h) \ Unused(rows, b, h, known) :
           R[i] = MadeRow(rows, b, h, known, i, ColumnOf(rows, b, h, known, first, i))
      /\ \A i \in DOMAIN rows \ (NewMade(rows, b, h) \cup Unused(rows, b, h, known)) :
           R[i] = MinedRows(rows, b, h, known, first)[i]
    <2>1. IsSaved(rows, b, h, known, first, R)
        BY <1>1, SavedAt
    <2> QED BY <2>1 DEF IsSaved
<1>3. DOMAIN R \subseteq Sent \cup Outputs
    BY <1>1, <1>2, NewIs
<1>4. StatusAtTip \in Statuses
    BY StatusIsMined DEF Statuses
<1>5. ASSUME NEW i \in DOMAIN rows
      PROVE  /\ MinedRows(rows, b, h, known, first)[i] \in Row
             /\ MinedRows(rows, b, h, known, first)[i].col <= Len(bodies)
    <2>1. rows[i] \in Row /\ rows[i].col <= Len(bodies)
        BY DEF TypeOK
    <2>2. CASE i \in Found(rows, b, h, known, first)
        <3>1. MinedRows(rows, b, h, known, first)[i] = FoundRow(rows[i], h)
            BY <1>1, <2>2, MinedAt
        <3> QED BY <1>4, <2>1, <3>1 DEF FoundRow, Row
    <2>3. CASE i \notin Found(rows, b, h, known, first)
        <3>1. MinedRows(rows, b, h, known, first)[i] = rows[i]
            BY ONLY <1>1, <1>5, h \in Nat, <2>3, MinedAt
        <3> QED BY <2>1, <3>1
    <2> QED BY <2>2, <2>3
<1>6. ASSUME NEW i PROVE /\ ColumnOf(rows, b, h, known, first, i) \in Nat
                         /\ ColumnOf(rows, b, h, known, first, i) <= Len(bodies)
    BY <1>5 DEF ColumnOf, Row
<1>7. ASSUME NEW i \in Unused(rows, b, h, known) PROVE R[i] \in Row /\ R[i].col <= Len(bodies)
    <2>1. R[i] = SpendRow(h, i, ColumnOf(rows, b, h, known, first, i)) /\ i \in Outputs
        BY <1>2, NewIs
    <2> QED BY <1>4, <1>6, <2>1 DEF SpendRow, Row
<1>8. ASSUME NEW i \in NewMade(rows, b, h) \ Unused(rows, b, h, known)
      PROVE  R[i] \in Row /\ R[i].col <= Len(bodies)
    <2>1. R[i] = MadeRow(rows, b, h, known, i, ColumnOf(rows, b, h, known, first, i))
        BY <1>2
    <2>2. i \in Outputs
        BY NewIs
    <2>3. CASE i \in Receipts
        BY <1>4, <1>6, <2>1, <2>2, <2>3 DEF MadeRow, Row
    <2>4. CASE i \notin Receipts
        <3>1. TxOf(i) \in Txs /\ PaidBy(rows, b, h, known)[i] \in SUBSET Outputs
            BY <2>4, NewIs
        <3>2. {<<b, TxOf(i)>>} \in SUBSET (Nat \X Txs)
            BY <3>1
        <3> QED BY <1>4, <1>6, <2>1, <2>2, <2>4, <3>1, <3>2 DEF MadeRow, Row
    <2> QED BY <2>3, <2>4
<1>9. \A i \in DOMAIN R : R[i] \in Row /\ R[i].col <= Len(bodies)
    BY <1>2, <1>5, <1>7, <1>8
<1>10. R = [i \in DOMAIN R |-> R[i]]
    <2> DEFINE new == InputRows(Unused(rows, b, h, known), h)
    <2>1. \E old : R = insert_displayed_transaction(old, new)
        BY SavedRows
    <2> QED BY <2>1 DEF insert_displayed_transaction
<1> QED BY <1>2, <1>3, <1>9, <1>10

(* The step that scans a block.                                            *)
LEMMA ScanStep ==
    ASSUME TypeOK, ProcessBlock
    PROVE  \E b \in 1 .. Len(bodies), h \in 1 .. Len(bodies), first \in {"sender", "scanner"} :
              /\ h = Len(tips) + 1
              /\ Created(bodies[b]) \cap Stored(tips) = {}
              /\ rows' = save_and_emit_displayed_transactions(rows, b, h, Stored(Append(tips, b)), first)
              /\ tips' = Append(tips, b)
              /\ shown' = {x \in shown : ~ Replaced(rows', x[1])}
                            \cup PayrefsOf(rows', {i \in DOMAIN rows' : Right(rows', tips', i)})
              /\ UNCHANGED <<chain, bodies, mempool, payrefs, sender>>
<1>1. PICK h : h = Len(tips) + 1
    OBVIOUS
<1>2. PICK b : b = chain[h]
    OBVIOUS
<1>3. h <= Len(chain) /\ Created(bodies[b]) \cap Stored(tips) = {}
    BY <1>1, <1>2 DEF ProcessBlock, Tip
<1>4. h \in 1 .. Len(bodies) /\ b \in 1 .. Len(bodies)
    BY <1>1, <1>2, <1>3 DEF TypeOK
<1>5. PICK first \in {"sender", "scanner"} :
         Write(save_and_emit_displayed_transactions(rows, b, h, Stored(Append(tips, b)), first),
               Append(tips, b))
    BY <1>1, <1>2 DEF ProcessBlock
<1>6. UNCHANGED <<chain, bodies, mempool, payrefs, sender>>
    BY DEF ProcessBlock, node
<1>7. /\ rows' = save_and_emit_displayed_transactions(rows, b, h, Stored(Append(tips, b)), first)
      /\ tips' = Append(tips, b)
      /\ shown' = {x \in shown : ~ Replaced(rows', x[1])}
                    \cup PayrefsOf(rows', {i \in DOMAIN rows' : Right(rows', tips', i)})
    BY <1>5 DEF Write
<1> QED BY <1>1, <1>3, <1>4, <1>5, <1>6, <1>7

-----------------------------------------------------------------------------
(* The invariant                                                           *)

(* Who may have a payment reference: the sender's row of a transaction     *)
(* that of no block, the row of a change output that of a block.           *)
Belongs(i, p) ==
    \/ i \in Sent /\ p = <<0, i>>
    \/ i \in Outputs /\ p[1] # 0 /\ i \in Change[p[2]]

PayrefsAreOwned ==
    /\ \A i \in DOMAIN rows : \A p \in rows[i].payref : Belongs(i, p)
    /\ \A t \in DOMAIN rows \cap Sent : rows[t].payref = {<<0, t>>}
    /\ \A x \in payrefs \cup shown : x[1] \in DOMAIN rows /\ Belongs(x[1], x[2])

(* A reference that was shown is in the table of old references, or its    *)
(* row still has it and is out of reach of rollbacks or found by them: its *)
(* output is in a scanned block not above the row's column.                *)
Kept(x) ==
    /\ x[2] \in rows[x[1]].payref
    /\ \/ x[1] \in Sent
       \/ \E k \in DOMAIN tips : x[1] \in Created(bodies[tips[k]]) /\ k <= rows[x[1]].col

ShownIsKept == \A x \in shown : x \in payrefs \/ Kept(x)

IInv == TypeOK /\ LiveRowsAreOnTips /\ PayrefsAreOwned /\ ShownIsKept

LEMMA InitIInv == Init => IInv
<1> SUFFICES ASSUME Init PROVE IInv
    OBVIOUS
<1>1. /\ chain = <<>> /\ bodies = <<>> /\ mempool = {} /\ tips = <<>> /\ rows = <<>>
      /\ payrefs = {} /\ shown = {} /\ sender = [t \in Sent |-> "new"]
    BY DEF Init, NodeInit
<1>2. DOMAIN rows = {} /\ rows \in [DOMAIN rows -> Row]
    BY <1>1
<1>3. TypeOK
    BY <1>1, <1>2 DEF TypeOK
<1>4. LiveRowsAreOnTips /\ PayrefsAreOwned /\ ShownIsKept
    BY <1>1, <1>2 DEF LiveRowsAreOnTips, PayrefsAreOwned, ShownIsKept
<1> QED BY <1>3, <1>4 DEF IInv

(* What a step that writes the table shows: what was shown of a row that   *)
(* is not replaced, and the references of rows that are right.             *)
Shows(x) ==
    \/ x \in shown /\ ~ Replaced(rows, x[1])'
    \/ /\ x[1] \in DOMAIN rows' /\ x[2] \in rows'[x[1]].payref
       /\ Right(rows, tips, x[1])'

LEMMA ShownIs ==
    ASSUME NEW r, NEW seq, Write(r, seq), UNCHANGED bodies
    PROVE  \A x \in shown' : Shows(x)
<1> SUFFICES ASSUME NEW x \in shown' PROVE Shows(x)
    OBVIOUS
<1>1. /\ rows' = r /\ tips' = seq
      /\ \/ x \in shown /\ ~ Replaced(r, x[1])
         \/ x \in PayrefsOf(r, {i \in DOMAIN r : Right(r, seq, i)})
    BY DEF Write
<1>2. CASE x \in shown /\ ~ Replaced(r, x[1])
    BY <1>1, <1>2 DEF Shows, Replaced
<1>3. CASE x \in PayrefsOf(r, {i \in DOMAIN r : Right(r, seq, i)})
    <2>1. PICK i \in {k \in DOMAIN r : Right(r, seq, k)} : x \in {<<i, p>> : p \in r[i].payref}
        BY <1>3 DEF PayrefsOf
    <2>2. x[1] = i /\ x[2] \in r[i].payref
        BY <2>1
    <2>3. Right(r, seq, i)
        BY <2>1
    <2>4. Right(rows, tips, i)'
        BY <1>1, <2>3 DEF Right, InStep, Created
    <2> QED BY <1>1, <2>1, <2>2, <2>4 DEF Shows
<1> QED BY <1>1, <1>2, <1>3

(* A reference of a row that is right about its block is kept.             *)
LEMMA RightIsKept ==
    ASSUME TypeOK', NEW x, x[1] \in DOMAIN rows', x[2] \in rows'[x[1]].payref,
           Right(rows, tips, x[1])'
    PROVE  Kept(x)'
<1>1. CASE x[1] \in Sent
    BY <1>1 DEF Kept
<1>2. CASE x[1] \notin Sent
    <2>1. PICK i : i = x[1]
        OBVIOUS
    <2>2. rows'[i] \in Row
        BY <2>1 DEF TypeOK
    <2>3. /\ rows'[i].col = rows'[i].height
          /\ rows'[i].height \in DOMAIN tips'
          /\ i \in Created(bodies[tips[rows[i].height]])'
        BY <1>2, <2>1 DEF Right, InStep
    <2>4. rows'[i].height <= rows'[i].col
        BY <2>2, <2>3 DEF Row
    <2> QED BY <2>1, <2>3, <2>4 DEF Kept
<1> QED BY <1>1, <1>2

(* The parts of the invariant about references, for a step that writes the *)
(* table: its rows own theirs, and what was shown is kept.                 *)
LEMMA PayrefsKeep ==
    ASSUME IInv, TypeOK', NEW r, NEW seq, Write(r, seq), UNCHANGED bodies,
           \A i \in DOMAIN rows' : \A p \in rows'[i].payref : Belongs(i, p),
           \A t \in DOMAIN rows' \cap Sent : rows'[t].payref = {<<0, t>>},
           DOMAIN rows \subseteq DOMAIN rows',
           \A x \in payrefs' \ payrefs : x[1] \in DOMAIN rows' /\ Belongs(x[1], x[2]),
           \A x \in shown : ~ Replaced(rows, x[1])' => x \in payrefs' \/ Kept(x)'
    PROVE  PayrefsAreOwned' /\ ShownIsKept'
<1>1. \A x \in shown' : Shows(x)
    BY ShownIs
<1>2. ASSUME NEW x \in payrefs' \cup shown'
      PROVE  x[1] \in DOMAIN rows' /\ Belongs(x[1], x[2])
    BY <1>1 DEF IInv, PayrefsAreOwned, Shows
<1>3. PayrefsAreOwned'
    BY <1>2 DEF PayrefsAreOwned, Belongs
<1>4. ASSUME NEW x \in shown' PROVE x \in payrefs' \/ Kept(x)'
    BY <1>1, RightIsKept DEF Shows
<1> QED BY <1>3, <1>4 DEF ShownIsKept

-----------------------------------------------------------------------------
(* The steps that scan no block keep the invariant                         *)

(* A new block takes nothing from the blocks there are.                    *)
LEMMA NodeStepIs ==
    ASSUME TypeOK, NodeStep
    PROVE  /\ TypeOK'
           /\ \A k \in DOMAIN tips : bodies'[tips[k]] = bodies[tips[k]]
           /\ UNCHANGED <<tips, rows, payrefs, sender, shown>>
<1>1. /\ bodies \in Seq(SUBSET (Receipts \cup Txs)) /\ chain \in Seq(1 .. Len(bodies))
      /\ Len(chain) <= Len(bodies) /\ tips \in Seq(1 .. Len(bodies))
    BY DEF TypeOK
<1>2. UNCHANGED <<tips, rows, payrefs, sender, shown>>
    BY DEF NodeStep
<1>3. ASSUME NEW h, NEW body \in Bodies(h, Receipts \cup Foreign \cup mempool)
      PROVE  body \in SUBSET (Receipts \cup Txs)
    BY DEF Bodies, TypeOK, Txs
<1>4. \E body \in SUBSET (Receipts \cup Txs) :
         /\ bodies' = Append(bodies, body)
         /\ \/ chain' = Append(chain, Len(bodies) + 1)
            \/ \E h \in 0 .. Len(chain) - 1 : chain' = Append(SubSeq(chain, 1, h), Len(bodies) + 1)
         /\ UNCHANGED mempool
    BY <1>3 DEF NodeStep, NodeSteps, Mine, Reorganise, Tip
<1>5. PICK body \in SUBSET (Receipts \cup Txs) :
         /\ bodies' = Append(bodies, body)
         /\ \/ chain' = Append(chain, Len(bodies) + 1)
            \/ \E h \in 0 .. Len(chain) - 1 : chain' = Append(SubSeq(chain, 1, h), Len(bodies) + 1)
         /\ UNCHANGED mempool
    BY <1>4
<1>6. PICK N \in Nat : N = Len(bodies)
    BY <1>1
<1>7. /\ bodies' \in Seq(SUBSET (Receipts \cup Txs)) /\ Len(bodies') = N + 1
      /\ \A b \in 1 .. N : bodies'[b] = bodies[b]
    BY <1>1, <1>5, <1>6
<1>8. /\ chain \in Seq(1 .. N + 1) /\ tips \in Seq(1 .. N + 1)
    BY <1>1, <1>6
<1>9. chain' \in Seq(1 .. N + 1) /\ Len(chain') <= N + 1
    <2>1. CASE chain' = Append(chain, N + 1)
        BY <1>1, <1>6, <1>8, <2>1
    <2>2. ASSUME NEW h \in 0 .. Len(chain) - 1, chain' = Append(SubSeq(chain, 1, h), N + 1)
          PROVE  chain' \in Seq(1 .. N + 1) /\ Len(chain') <= N + 1
        <3>1. SubSeq(chain, 1, h) \in Seq(1 .. N + 1) /\ Len(SubSeq(chain, 1, h)) = h
            BY <1>1, <1>6, <1>8
        <3> QED BY <1>1, <1>6, <2>2, <3>1
    <2> QED BY <1>5, <1>6, <2>1, <2>2
<1>10. \A i \in DOMAIN rows : rows[i].col \in Nat /\ rows[i].col <= N
    BY <1>6 DEF TypeOK, Row
<1>11. \A i \in DOMAIN rows : rows[i].col <= N + 1
    BY <1>10
<1>12. TypeOK'
    BY <1>2, <1>5, <1>7, <1>8, <1>9, <1>11 DEF TypeOK
<1>13. \A k \in DOMAIN tips : tips[k] \in 1 .. N
    BY <1>1, <1>6
<1> QED BY <1>2, <1>7, <1>12, <1>13

LEMMA NodeStepKeeps ==
    ASSUME IInv, NodeStep
    PROVE  IInv'
<1>1. /\ TypeOK'
      /\ \A k \in DOMAIN tips : bodies'[tips[k]] = bodies[tips[k]]
      /\ UNCHANGED <<tips, rows, payrefs, sender, shown>>
    BY NodeStepIs DEF IInv
<1>2. \A i \in DOMAIN rows : rows[i].height \in Nat
    BY DEF IInv, TypeOK, Row
<1>3. LiveRowsAreOnTips'
    <2>1. ASSUME NEW i \in DOMAIN rows', Live(i)', InStep(rows, i)'
          PROVE  /\ rows'[i].height <= Len(tips')
                 /\ \E item \in bodies[tips[rows[i].height]]' : Covers(rows, i, item)'
        <3>1. /\ rows[i].height <= Len(tips) /\ rows[i].height > 0
              /\ \E item \in bodies[tips[rows[i].height]] : Covers(rows, i, item)
            BY <1>1, <2>1 DEF IInv, LiveRowsAreOnTips, Live, InStep
        <3>2. rows[i].height \in DOMAIN tips
            BY <1>1, <1>2, <3>1 DEF IInv, TypeOK
        <3> QED BY <1>1, <3>1, <3>2 DEF Covers
    <2> QED BY <2>1 DEF LiveRowsAreOnTips
<1>4. PayrefsAreOwned'
    BY <1>1 DEF IInv, PayrefsAreOwned
<1>5. ASSUME NEW x, Kept(x) PROVE Kept(x)'
    BY <1>1, <1>5 DEF Kept, Created
<1>6. ShownIsKept'
    BY <1>1, <1>5 DEF IInv, ShownIsKept
<1> QED BY <1>1, <1>3, <1>4, <1>6 DEF IInv

(* Submit and Crash leave the wallet's history alone.                      *)
LEMMA Beside ==
    ASSUME IInv, UNCHANGED <<chain, bodies, tips, rows, payrefs, shown>>,
           mempool' \subseteq Sent, sender' \in [Sent -> {"new", "submitted", "done"}]
    PROVE  IInv'
<1>1. TypeOK'
    BY DEF IInv, TypeOK
<1>2. LiveRowsAreOnTips'
    BY DEF IInv, LiveRowsAreOnTips, Live, InStep, Covers
<1>3. PayrefsAreOwned' /\ ShownIsKept'
    BY DEF IInv, PayrefsAreOwned, ShownIsKept, Kept, Created
<1> QED BY <1>1, <1>2, <1>3 DEF IInv

LEMMA SubmitKeeps ==
    ASSUME IInv, NEW t \in Sent, Submit(t) \/ Crash(t)
    PROVE  IInv'
<1>1. UNCHANGED <<chain, bodies, tips, rows, payrefs, shown>>
    BY DEF Submit, Crash, Accept, node
<1>2. mempool' \subseteq Sent
    BY DEF IInv, TypeOK, Submit, Crash, Accept, node
<1>3. sender' \in [Sent -> {"new", "submitted", "done"}]
    BY DEF IInv, TypeOK, Submit, Crash
<1> QED BY <1>1, <1>2, <1>3, Beside

(* A step that restates rows: status and confirmations may change, and     *)
(* blocks may be dropped from the end of the scanned ones.                 *)
Restates(r, seq) ==
    /\ DOMAIN r = DOMAIN rows /\ r \in [DOMAIN r -> Row]
    /\ \A i \in DOMAIN rows : /\ r[i].col = rows[i].col /\ r[i].height = rows[i].height
                              /\ r[i].ins = rows[i].ins /\ r[i].outs = rows[i].outs
                              /\ r[i].payref = rows[i].payref
    /\ seq \in Seq(1 .. Len(bodies)) /\ Len(seq) <= Len(tips)
    /\ \A k \in 1 .. Len(seq) : seq[k] = tips[k]

LEMMA RestatedKeeps ==
    ASSUME IInv, NEW r, NEW seq, Write(r, seq), Restates(r, seq),
           UNCHANGED <<chain, bodies, mempool, sender>>,
           \A i \in DOMAIN rows : Live(i)' /\ InStep(rows, i) =>
              Live(i) /\ rows[i].height <= Len(seq),
           payrefs \subseteq payrefs',
           payrefs' \subseteq payrefs \cup PayrefsOf(rows, DOMAIN rows),
           \A x \in shown, k \in DOMAIN tips :
              x[2] \in rows[x[1]].payref /\ k <= rows[x[1]].col => x \in payrefs' \/ k <= Len(seq)
    PROVE  IInv'
<1>1. rows' = r /\ tips' = seq
    BY DEF Write
<1>2. /\ DOMAIN rows' = DOMAIN rows /\ rows' \in [DOMAIN rows' -> Row]
      /\ \A i \in DOMAIN rows : /\ rows'[i].col = rows[i].col /\ rows'[i].height = rows[i].height
                                /\ rows'[i].ins = rows[i].ins /\ rows'[i].outs = rows[i].outs
                                /\ rows'[i].payref = rows[i].payref
      /\ tips' \in Seq(1 .. Len(bodies)) /\ Len(tips') <= Len(tips)
      /\ \A k \in 1 .. Len(tips') : tips'[k] = tips[k]
    BY <1>1 DEF Restates
<1>3. \A x \in shown' : Shows(x)
    BY ShownIs
<1>4. \A i \in DOMAIN rows : \A p \in rows[i].payref :
         <<i, p>> \in (Sent \cup Outputs) \X (Nat \X Txs)
    BY DEF IInv, TypeOK, Row
<1>5. payrefs' \subseteq (Sent \cup Outputs) \X (Nat \X Txs)
    BY <1>4 DEF IInv, TypeOK, PayrefsOf
<1>6. shown' \subseteq (Sent \cup Outputs) \X (Nat \X Txs)
    <2>1. shown' = {x \in shown : ~ Replaced(r, x[1])}
                     \cup PayrefsOf(r, {i \in DOMAIN r : Right(r, seq, i)})
        BY DEF Write
    <2>2. \A i \in DOMAIN r : \A p \in r[i].payref :
             <<i, p>> \in (Sent \cup Outputs) \X (Nat \X Txs)
        BY <1>1, <1>2, <1>4
    <2> QED BY <2>1, <2>2 DEF IInv, TypeOK, PayrefsOf
<1>7. TypeOK'
    BY <1>2, <1>5, <1>6 DEF IInv, TypeOK
<1>8. LiveRowsAreOnTips'
    <2>1. ASSUME NEW i \in DOMAIN rows', Live(i)', InStep(rows, i)'
          PROVE  /\ rows'[i].height <= Len(tips')
                 /\ \E item \in bodies[tips[rows[i].height]]' : Covers(rows, i, item)'
        <3>1. Live(i) /\ InStep(rows, i) /\ rows[i].height <= Len(tips')
            BY <1>1, <1>2, <2>1 DEF InStep
        <3>2. rows[i].height \in 1 .. Len(tips')
            BY <1>2, <3>1 DEF Live, IInv, TypeOK, Row
        <3>3. \E item \in bodies[tips[rows[i].height]] : Covers(rows, i, item)
            BY <1>2, <2>1, <3>1 DEF IInv, LiveRowsAreOnTips
        <3> QED BY <1>2, <2>1, <3>2, <3>3 DEF Covers
    <2> QED BY <2>1 DEF LiveRowsAreOnTips
<1>9. /\ \A i \in DOMAIN rows' : \A p \in rows'[i].payref : Belongs(i, p)
      /\ \A t \in DOMAIN rows' \cap Sent : rows'[t].payref = {<<0, t>>}
    BY <1>2 DEF IInv, PayrefsAreOwned
<1>10. ASSUME NEW x \in payrefs' \ payrefs PROVE x[1] \in DOMAIN rows' /\ Belongs(x[1], x[2])
    <2>1. PICK i \in DOMAIN rows : x \in {<<i, p>> : p \in rows[i].payref}
        BY DEF PayrefsOf
    <2> QED BY <1>2, <2>1 DEF IInv, PayrefsAreOwned
<1>11. ASSUME NEW x \in shown PROVE x \in payrefs' \/ Kept(x)'
    <2>1. CASE x \in payrefs
        BY <2>1
    <2>2. CASE Kept(x)
        <3>1. x[1] \in DOMAIN rows
            BY DEF IInv, PayrefsAreOwned
        <3>2. x[2] \in rows'[x[1]].payref
            BY <1>2, <2>2, <3>1 DEF Kept
        <3>3. CASE x[1] \in Sent
            BY <3>2, <3>3 DEF Kept
        <3>4. CASE x[1] \notin Sent
            <4>1. PICK k \in DOMAIN tips : x[1] \in Created(bodies[tips[k]]) /\ k <= rows[x[1]].col
                BY <2>2, <3>4 DEF Kept
            <4>2. x \in payrefs' \/ k <= Len(tips')
                BY <1>1, <2>2, <4>1 DEF Kept
            <4>3. CASE k <= Len(tips')
                <5>1. k \in DOMAIN tips' /\ tips'[k] = tips[k]
                    <6>1. DOMAIN tips = 1 .. Len(tips) /\ DOMAIN tips' = 1 .. Len(tips')
                        BY <1>2 DEF IInv, TypeOK
                    <6> QED BY <1>2, <4>3, <6>1
                <5> QED BY <1>2, <3>1, <3>2, <4>1, <5>1 DEF Kept, Created
            <4> QED BY <4>2, <4>3
        <3> QED BY <3>3, <3>4
    <2> QED BY <2>1, <2>2 DEF IInv, ShownIsKept
<1>12. PayrefsAreOwned' /\ ShownIsKept'
    BY <1>2, <1>7, <1>9, <1>10, <1>11, PayrefsKeep
<1> QED BY <1>7, <1>8, <1>12 DEF IInv

(* The monitor restates rows that are pending, unconfirmed or refused.     *)
LEMMA UpdateKeeps ==
    ASSUME IInv, UpdateConfirmations
    PROVE  IInv'
<1> DEFINE Conf(i) == Monus(Len(tips), rows[i].height)
           hit == {i \in get_displayed_transactions_needing_confirmation_update :
                      rows[i].conf # Conf(i)}
           r == [i \in DOMAIN rows |->
                   IF i \in hit
                     THEN [rows[i] EXCEPT !.conf = Conf(i),
                                          !.status = determine_status_from_confirmations(Conf(i))]
                     ELSE rows[i]]
<1>1. Write(r, tips) /\ UNCHANGED <<chain, bodies, mempool, payrefs, sender>>
    BY DEF UpdateConfirmations, node
<1>2. Len(tips) \in Nat /\ tips \in Seq(1 .. Len(bodies)) /\ \A i \in DOMAIN rows : rows[i] \in Row
    BY DEF IInv, TypeOK
<1>3. ASSUME NEW i \in DOMAIN rows
      PROVE  /\ Conf(i) \in Nat
             /\ determine_status_from_confirmations(Conf(i)) \in {"Confirmed", "Unconfirmed", "Pending"}
    <2>1. rows[i].height \in Nat
        BY <1>2 DEF Row
    <2>2. Conf(i) \in Nat
        BY <1>2, <2>1 DEF Monus
    <2> QED BY <2>2 DEF determine_status_from_confirmations
<1>4. ASSUME NEW i \in DOMAIN rows
      PROVE  /\ r[i] \in Row /\ r[i].col = rows[i].col /\ r[i].height = rows[i].height
             /\ r[i].ins = rows[i].ins /\ r[i].outs = rows[i].outs /\ r[i].payref = rows[i].payref
    <2>1. PICK c, s : c = Conf(i) /\ s = determine_status_from_confirmations(Conf(i))
        OBVIOUS
    <2>2. c \in Nat /\ s \in Statuses
        BY <1>3, <2>1 DEF Statuses
    <2>3. r[i] = [rows[i] EXCEPT !.conf = c, !.status = s] \/ r[i] = rows[i]
        BY <2>1
    <2> QED BY <1>2, <2>2, <2>3 DEF Row
<1>5. ASSUME NEW i \in DOMAIN rows
      PROVE  r[i].status = rows[i].status \/ rows[i].status \in {"Pending", "Unconfirmed"}
    BY <1>4 DEF get_displayed_transactions_needing_confirmation_update
<1>6. DOMAIN r = DOMAIN rows /\ r = [i \in DOMAIN r |-> r[i]]
    OBVIOUS
<1> HIDE DEF r, Conf, hit
<1>7. Restates(r, tips)
    BY <1>2, <1>4, <1>6 DEF Restates
<1>8. rows' = r
    BY <1>1 DEF Write
<1>9. ASSUME NEW i \in DOMAIN rows, Live(i)', InStep(rows, i)
      PROVE  Live(i) /\ rows[i].height <= Len(tips)
    <2>1. Live(i)
        BY <1>4, <1>5, <1>8, <1>9 DEF Live
    <2> QED BY <1>9, <2>1 DEF IInv, LiveRowsAreOnTips
<1> QED BY <1>1, <1>2, <1>7, <1>9, RestatedKeeps

LEMMA RejectedKeeps ==
    ASSUME IInv, NEW t \in Sent, MarkRejected(t)
    PROVE  IInv'
<1> DEFINE r == [rows EXCEPT ![t].status = "Rejected"]
<1>1. Write(r, tips) /\ UNCHANGED <<chain, bodies, mempool, payrefs, sender>> /\ t \in DOMAIN rows
    BY DEF MarkRejected, node
<1>2. Len(tips) \in Nat /\ tips \in Seq(1 .. Len(bodies)) /\ \A i \in DOMAIN rows : rows[i] \in Row
    BY DEF IInv, TypeOK
<1>3. ASSUME NEW i \in DOMAIN rows
      PROVE  /\ r[i] \in Row /\ r[i].col = rows[i].col /\ r[i].height = rows[i].height
             /\ r[i].ins = rows[i].ins /\ r[i].outs = rows[i].outs /\ r[i].payref = rows[i].payref
             /\ r[i].status \in {rows[i].status, "Rejected"}
    <2>1. r[i] = [rows[i] EXCEPT !.status = "Rejected"] \/ r[i] = rows[i]
        OBVIOUS
    <2>2. "Rejected" \in Statuses
        BY DEF Statuses
    <2> QED BY <1>2, <2>1, <2>2 DEF Row
<1>4. DOMAIN r = DOMAIN rows /\ r = [i \in DOMAIN r |-> r[i]]
    OBVIOUS
<1> HIDE DEF r
<1>5. Restates(r, tips)
    BY <1>2, <1>3, <1>4 DEF Restates
<1>6. rows' = r
    BY <1>1 DEF Write
<1>7. ASSUME NEW i \in DOMAIN rows, Live(i)', InStep(rows, i)
      PROVE  Live(i) /\ rows[i].height <= Len(tips)
    <2>1. Live(i)
        BY <1>3, <1>6, <1>7 DEF Live
    <2> QED BY <1>7, <2>1 DEF IInv, LiveRowsAreOnTips
<1> QED BY <1>1, <1>2, <1>5, <1>7, RestatedKeeps

(* Heights of blocks that agree with the chain have a largest one.         *)
LEMMA ReorgHeight ==
    ASSUME TypeOK
    PROVE  reorg_start_height \in Nat
<1>1. Len(tips) \in Nat /\ DOMAIN tips = 1 .. Len(tips)
    BY DEF TypeOK
<1>2. Agreeing \in SUBSET (0 .. Len(tips))
    BY <1>1 DEF Agreeing
<1>3. CASE Agreeing = {}
    BY <1>3 DEF reorg_start_height
<1>4. CASE Agreeing # {}
    <2>1. Max(Agreeing) \in Agreeing
        BY <1>1, <1>2, <1>4, Largest
    <2>2. \A m \in Agreeing : m \in Nat
        BY <1>1 DEF Agreeing
    <2>3. Max(Agreeing) \in Nat
        BY ONLY <2>1, <2>2
    <2> QED BY <1>4, <2>3 DEF reorg_start_height
<1> QED BY <1>3, <1>4

(* What a rollback from height h does.                                     *)
RollsBack(h, n, r) ==
    /\ h \in Nat /\ n \in Nat /\ n <= Len(tips)
    /\ IF h = 0 THEN n = 0 ELSE n + 1 = h
    /\ r = [i \in DOMAIN rows |->
              IF i \in Reorganized(rows, h) THEN [rows[i] EXCEPT !.status = "Reorganized"]
              ELSE rows[i]]

LEMMA ReorgStep ==
    ASSUME TypeOK, HandleReorg
    PROVE  \E h, n, r :
              /\ RollsBack(h, n, r) /\ Write(r, SubSeq(tips, 1, n))
              /\ payrefs' = payrefs \cup SavedPayrefs(rows, h)
              /\ UNCHANGED <<chain, bodies, mempool, sender>>
<1>1. PICK h : h = reorg_start_height
    OBVIOUS
<1>2. PICK n : n = IF h = 0 THEN 0 ELSE h - 1
    OBVIOUS
<1>3. PICK r : r = [i \in DOMAIN rows |->
                      IF i \in Reorganized(rows, h) THEN [rows[i] EXCEPT !.status = "Reorganized"]
                      ELSE rows[i]]
    OBVIOUS
<1>4. h \in Nat /\ h <= Len(tips)
    BY <1>1, ReorgHeight DEF HandleReorg
<1>5. RollsBack(h, n, r)
    BY <1>2, <1>3, <1>4 DEF TypeOK, RollsBack
<1>6. Write(r, SubSeq(tips, 1, n)) /\ payrefs' = payrefs \cup SavedPayrefs(rows, h)
    BY <1>1, <1>2, <1>3 DEF HandleReorg, save_payref_history
<1> QED BY <1>5, <1>6 DEF HandleReorg, node

LEMMA RolledBack ==
    ASSUME TypeOK, NEW h, NEW n, NEW r, RollsBack(h, n, r)
    PROVE  /\ Restates(r, SubSeq(tips, 1, n)) /\ Len(SubSeq(tips, 1, n)) = n
           /\ \A i \in DOMAIN rows :
                /\ r[i].status \in {rows[i].status, "Reorganized"}
                /\ rows[i].col >= h => r[i].status = "Reorganized"
                /\ rows[i].col < h  => r[i].status = rows[i].status
<1>1. /\ h \in Nat /\ n \in Nat /\ n <= Len(tips)
      /\ r = [i \in DOMAIN rows |->
                IF i \in Reorganized(rows, h) THEN [rows[i] EXCEPT !.status = "Reorganized"]
                ELSE rows[i]]
    BY DEF RollsBack
<1>2. tips \in Seq(1 .. Len(bodies)) /\ \A i \in DOMAIN rows : rows[i] \in Row
    BY DEF TypeOK
<1>3. PICK seq : seq = SubSeq(tips, 1, n)
    OBVIOUS
<1>4. seq \in Seq(1 .. Len(bodies)) /\ Len(seq) = n /\ \A k \in 1 .. n : seq[k] = tips[k]
    BY <1>1, <1>2, <1>3
<1>5. ASSUME NEW i \in DOMAIN rows
      PROVE  /\ r[i] \in Row /\ r[i].col = rows[i].col /\ r[i].height = rows[i].height
             /\ r[i].ins = rows[i].ins /\ r[i].outs = rows[i].outs /\ r[i].payref = rows[i].payref
             /\ r[i].status = IF i \in Reorganized(rows, h) THEN "Reorganized" ELSE rows[i].status
    <2>1. r[i] = IF i \in Reorganized(rows, h) THEN [rows[i] EXCEPT !.status = "Reorganized"]
                 ELSE rows[i]
        BY <1>1
    <2>2. "Reorganized" \in Statuses
        BY DEF Statuses
    <2> QED BY <1>2, <2>1, <2>2 DEF Row
<1>6. DOMAIN r = DOMAIN rows /\ r = [i \in DOMAIN r |-> r[i]]
    BY <1>1
<1>7. ASSUME NEW i \in DOMAIN rows
      PROVE  /\ rows[i].col >= h => r[i].status = "Reorganized"
             /\ rows[i].col < h  => r[i].status = rows[i].status
    <2>1. rows[i].col \in Nat
        BY <1>2 DEF Row
    <2> QED BY <1>1, <1>5, <2>1 DEF Reorganized
<1>8. Restates(r, seq)
    BY <1>1, <1>4, <1>5, <1>6 DEF Restates
<1> QED BY <1>3, <1>4, <1>5, <1>7, <1>8

LEMMA HandleReorgKeeps ==
    ASSUME IInv, HandleReorg
    PROVE  IInv'
<1>1. PICK h, n, r :
         /\ RollsBack(h, n, r) /\ Write(r, SubSeq(tips, 1, n))
         /\ payrefs' = payrefs \cup SavedPayrefs(rows, h)
         /\ UNCHANGED <<chain, bodies, mempool, sender>>
    BY ReorgStep DEF IInv
<1>2. PICK seq : seq = SubSeq(tips, 1, n)
    OBVIOUS
<1>3. /\ h \in Nat /\ n \in Nat /\ (IF h = 0 THEN n = 0 ELSE n + 1 = h)
      /\ Restates(r, seq) /\ Len(seq) = n
      /\ \A i \in DOMAIN rows :
            /\ r[i].status \in {rows[i].status, "Reorganized"}
            /\ rows[i].col >= h => r[i].status = "Reorganized"
    BY <1>1, <1>2, RolledBack DEF IInv, RollsBack
<1>4. rows' = r /\ Write(r, seq)
    BY <1>1, <1>2 DEF Write
<1>5. \A i \in DOMAIN rows : rows[i].height \in Nat /\ rows[i].col \in Nat
    BY DEF IInv, TypeOK, Row
<1>6. ASSUME NEW i \in DOMAIN rows, Live(i)', InStep(rows, i)
      PROVE  Live(i) /\ rows[i].height <= Len(seq)
    <2>1. r[i].height = rows[i].height
        BY <1>3 DEF Restates
    <2>2. Live(i) /\ ~ (rows[i].col >= h)
        BY <1>3, <1>4, <1>6, <2>1 DEF Live
    <2> QED BY <1>3, <1>5, <1>6, <2>2 DEF InStep, Live
<1>7. SavedPayrefs(rows, h) = PayrefsOf(rows, {i \in DOMAIN rows : rows[i].col >= h})
    BY DEF SavedPayrefs
<1>8. payrefs \subseteq payrefs' /\ payrefs' \subseteq payrefs \cup PayrefsOf(rows, DOMAIN rows)
    BY <1>1, <1>7 DEF PayrefsOf
<1>9. ASSUME NEW x \in shown, NEW k \in DOMAIN tips,
             x[2] \in rows[x[1]].payref, k <= rows[x[1]].col
      PROVE  x \in payrefs' \/ k <= Len(seq)
    <2>1. x[1] \in DOMAIN rows /\ x = <<x[1], x[2]>>
        BY DEF IInv, PayrefsAreOwned, TypeOK
    <2>2. CASE rows[x[1]].col >= h
        <3>1. x \in SavedPayrefs(rows, h)
            BY <1>7, <1>9, <2>1, <2>2 DEF PayrefsOf
        <3> QED BY <1>1, <3>1
    <2>3. CASE ~ (rows[x[1]].col >= h)
        <3>1. k \in Nat
            BY DEF IInv, TypeOK
        <3> QED BY <1>3, <1>5, <1>9, <2>1, <2>3, <3>1
    <2> QED BY <2>2, <2>3
<1> QED BY <1>1, <1>3, <1>4, <1>6, <1>8, <1>9, RestatedKeeps

(* The sender's insert: a pending row, whatever was under the id before.   *)
LEMMA PendingStep ==
    ASSUME TypeOK, NEW t \in Sent, InsertPending(t)
    PROVE  \E carried, r :
              /\ carried \subseteq Outputs
              /\ Write(r, tips)
              /\ r \in [DOMAIN r -> Row] /\ DOMAIN r = DOMAIN rows \cup {t}
              /\ \A i \in DOMAIN rows \ {t} : r[i] = rows[i]
              /\ \E c \in Nat : c <= Len(bodies) /\ r[t] = WithCol(PendingRow(t, carried), c)
<1>1. PICK carried \in {Spends[t], {}} :
         Write(insert_displayed_transaction(rows, [i \in {t} |-> PendingRow(t, carried)]), tips)
    BY DEF InsertPending
<1>2. PICK new : new = [i \in {t} |-> PendingRow(t, carried)]
    OBVIOUS
<1>3. PICK r : r = insert_displayed_transaction(rows, new)
    OBVIOUS
<1>4. /\ DOMAIN r = DOMAIN rows \cup DOMAIN new
      /\ \A i \in DOMAIN rows \ DOMAIN new : r[i] = rows[i]
      /\ \A i \in DOMAIN new \ DOMAIN rows : r[i] = new[i]
      /\ \A i \in DOMAIN new \cap DOMAIN rows : r[i] = WithCol(new[i], rows[i].col)
    <2>1. LET q == insert_displayed_transaction(rows, new)
          IN /\ DOMAIN q = DOMAIN rows \cup DOMAIN new
             /\ \A i \in DOMAIN rows \ DOMAIN new : q[i] = rows[i]
             /\ \A i \in DOMAIN new \ DOMAIN rows : q[i] = new[i]
             /\ \A i \in DOMAIN new \cap DOMAIN rows : q[i] = WithCol(new[i], rows[i].col)
        BY InsertedRows, ZenonT(40)
    <2> QED BY <1>3, <2>1
<1>5. DOMAIN new = {t} /\ new[t] = PendingRow(t, carried)
    BY <1>2
<1>6. carried \subseteq Outputs /\ Change[t] \subseteq Outputs /\ t \in Txs
    BY SpendsAssumption DEF Outputs, Txs
<1>7. \A i \in DOMAIN rows : rows[i] \in Row /\ rows[i].col <= Len(bodies)
    BY DEF TypeOK
<1>8. new[t] = WithCol(PendingRow(t, carried), 0)
    BY <1>5 DEF WithCol, PendingRow
<1>9. \E c \in Nat : c <= Len(bodies) /\ r[t] = WithCol(PendingRow(t, carried), c)
    <2>1. CASE t \in DOMAIN rows
        BY <1>4, <1>5, <1>7, <2>1 DEF Row
    <2>2. CASE t \notin DOMAIN rows
        <3>1. Len(bodies) \in Nat
            BY DEF TypeOK
        <3> QED BY <1>4, <1>5, <1>8, <2>2, <3>1
    <2> QED BY <2>1, <2>2
<1>10. \A c \in Nat : WithCol(PendingRow(t, carried), c) \in Row
    <2>1. "Pending" \in Statuses /\ {<<0, t>>} \in SUBSET (Nat \X Txs)
        BY <1>6 DEF Statuses
    <2> QED BY <1>6, <2>1 DEF WithCol, PendingRow, Row
<1>11. \A i \in DOMAIN r : r[i] \in Row
    BY <1>4, <1>5, <1>7, <1>9, <1>10
<1>12. r = [i \in DOMAIN r |-> r[i]]
    BY <1>3 DEF insert_displayed_transaction
<1> QED BY <1>1, <1>2, <1>3, <1>4, <1>5, <1>6, <1>9, <1>11, <1>12

LEMMA InsertPendingKeeps ==
    ASSUME IInv, NEW t \in Sent, InsertPending(t)
    PROVE  IInv'
<1>1. PICK carried, r :
         /\ carried \subseteq Outputs
         /\ Write(r, tips)
         /\ r \in [DOMAIN r -> Row] /\ DOMAIN r = DOMAIN rows \cup {t}
         /\ \A i \in DOMAIN rows \ {t} : r[i] = rows[i]
         /\ \E c \in Nat : c <= Len(bodies) /\ r[t] = WithCol(PendingRow(t, carried), c)
    BY PendingStep DEF IInv
<1>2. /\ rows' = r /\ tips' = tips
      /\ shown' = {x \in shown : ~ Replaced(r, x[1])}
                    \cup PayrefsOf(r, {i \in DOMAIN r : Right(r, tips, i)})
    BY <1>1 DEF Write
<1>3. UNCHANGED <<chain, bodies, mempool, payrefs>>
    BY DEF InsertPending, node
<1>4. /\ r[t].height = 0 /\ r[t].payref = {<<0, t>>} /\ r[t].col <= Len(bodies)
    BY <1>1 DEF WithCol, PendingRow
<1>5. TypeOK'
    <2>1. DOMAIN r \subseteq Sent \cup Outputs /\ \A i \in DOMAIN r : r[i].col <= Len(bodies)
        BY <1>1, <1>4 DEF IInv, TypeOK
    <2>2. \A i \in DOMAIN r : \A p \in r[i].payref :
             <<i, p>> \in (Sent \cup Outputs) \X (Nat \X Txs)
        BY <1>1, <2>1 DEF Row
    <2>3. shown' \subseteq (Sent \cup Outputs) \X (Nat \X Txs)
        BY <1>2, <2>2 DEF IInv, TypeOK, PayrefsOf
    <2>4. sender' \in [Sent -> {"new", "submitted", "done"}]
        BY DEF InsertPending, IInv, TypeOK
    <2> QED BY <1>1, <1>2, <1>3, <2>1, <2>3, <2>4 DEF IInv, TypeOK
<1>6. LiveRowsAreOnTips'
    <2>1. ASSUME NEW i \in DOMAIN rows', Live(i)', InStep(rows, i)'
          PROVE  /\ rows'[i].height <= Len(tips')
                 /\ \E item \in bodies[tips[rows[i].height]]' : Covers(rows, i, item)'
        <3>1. i # t
            BY <1>2, <1>4, <2>1 DEF Live
        <3>2. i \in DOMAIN rows /\ rows'[i] = rows[i]
            BY <1>1, <1>2, <2>1, <3>1
        <3>3. /\ rows[i].height <= Len(tips)
              /\ \E item \in bodies[tips[rows[i].height]] : Covers(rows, i, item)
            BY <2>1, <3>2 DEF IInv, LiveRowsAreOnTips, Live, InStep
        <3> QED BY <1>2, <1>3, <3>2, <3>3 DEF Covers
    <2> QED BY <2>1 DEF LiveRowsAreOnTips
<1>7. /\ \A i \in DOMAIN rows' : \A p \in rows'[i].payref : Belongs(i, p)
      /\ \A u \in DOMAIN rows' \cap Sent : rows'[u].payref = {<<0, u>>}
    BY <1>1, <1>2, <1>4 DEF IInv, PayrefsAreOwned, Belongs
<1>8. DOMAIN rows \subseteq DOMAIN rows'
    BY <1>1, <1>2
<1>9. ASSUME NEW x \in shown PROVE x \in payrefs' \/ Kept(x)'
    <2>1. CASE x \in payrefs
        BY <1>3, <2>1
    <2>2. CASE Kept(x)
        <3>1. x[1] \in DOMAIN rows
            BY DEF IInv, PayrefsAreOwned
        <3>2. CASE x[1] = t
            BY <1>2, <1>4, <2>2, <3>1, <3>2 DEF Kept, IInv, PayrefsAreOwned
        <3>3. CASE x[1] # t
            BY <1>1, <1>2, <1>3, <2>2, <3>1, <3>3 DEF Kept, Created
        <3> QED BY <3>2, <3>3
    <2> QED BY <2>1, <2>2 DEF IInv, ShownIsKept
<1>10. PayrefsAreOwned' /\ ShownIsKept'
    BY <1>1, <1>3, <1>5, <1>7, <1>8, <1>9, PayrefsKeep
<1> QED BY <1>5, <1>6, <1>10 DEF IInv

-----------------------------------------------------------------------------
(* The step that scans a block keeps the invariant                         *)

(* The fields of the rows a block leaves.                                  *)
SpendFields(h, row, i) ==
    /\ row.status = StatusAtTip /\ row.height = h
    /\ row.ins = {i} /\ row.outs = {} /\ row.payref = {}

MadeFields(b, h, paid, row, i) ==
    /\ row.status = StatusAtTip /\ row.height = h /\ row.outs = {i}
    /\ IF i \in Receipts THEN row.ins = {} /\ row.payref = {}
       ELSE row.ins = paid[i] /\ row.payref = {<<b, TxOf(i)>>}

FoundFields(h, row, old) ==
    /\ row.status = StatusAtTip /\ row.height = h /\ row.col = h
    /\ row.ins = old.ins /\ row.outs = old.outs /\ row.payref = old.payref

Written(b, h, known, first, R) ==
    /\ DOMAIN R = DOMAIN rows \cup NewMade(rows, b, h) \cup Unused(rows, b, h, known)
    /\ \A i \in Unused(rows, b, h, known) : SpendFields(h, R[i], i)
    /\ \A i \in NewMade(rows, b, h) \ Unused(rows, b, h, known) :
         MadeFields(b, h, PaidBy(rows, b, h, known), R[i], i)
    /\ \A i \in DOMAIN rows \ (NewMade(rows, b, h) \cup Unused(rows, b, h, known)) :
         IF i \in Found(rows, b, h, known, first) THEN FoundFields(h, R[i], rows[i])
         ELSE R[i] = rows[i]

LEMMA WrittenIs ==
    ASSUME TypeOK, NEW b, NEW h \in Nat, NEW known, NEW first, NEW R,
           R = save_and_emit_displayed_transactions(rows, b, h, known, first)
    PROVE  Written(b, h, known, first, R)
<1>1. IsTable(rows)
    BY DEF TypeOK, IsTable
<1>2. IsSaved(rows, b, h, known, first, R)
    BY <1>1, SavedAt
<1>3. \A i, c : SpendFields(h, SpendRow(h, i, c), i)
    BY DEF SpendFields, SpendRow
<1>4. \A i, c : MadeFields(b, h, PaidBy(rows, b, h, known), MadeRow(rows, b, h, known, i, c), i)
    BY DEF MadeFields, MadeRow
<1>5. \A row : FoundFields(h, FoundRow(row, h), row)
    BY DEF FoundFields, FoundRow
<1>6. /\ \A i \in DOMAIN rows : i \in Found(rows, b, h, known, first) =>
            MinedRows(rows, b, h, known, first)[i] = FoundRow(rows[i], h)
      /\ \A i \in DOMAIN rows : i \notin Found(rows, b, h, known, first) =>
            MinedRows(rows, b, h, known, first)[i] = rows[i]
    BY ONLY <1>1, h \in Nat, MinedAt
<1> QED BY <1>2, <1>3, <1>4, <1>5, <1>6 DEF IsSaved, Written

(* A row that has an output the block creates, or an input it spends,      *)
(* tells of an item of the block.                                          *)
LEMMA BlockCovers ==
    ASSUME NEW body \in SUBSET (Receipts \cup Txs), NEW known, NEW R, NEW i,
           \/ \E o \in Created(body) : o \in R[i].outs
           \/ \E o \in Spent(body, known) : o \in R[i].ins
    PROVE  \E item \in body : Covers(R, i, item)
<1>1. Txs \cap Receipts = {}
    BY DistinctItems DEF Outputs
<1>2. ASSUME NEW o \in Created(body), o \in R[i].outs
      PROVE  \E item \in body : Covers(R, i, item)
    <2>1. CASE o \in Receipts
        <3>1. o \in body
            BY <2>1, ChangeAssumption DEF Created
        <3> QED BY <1>2, <2>1, <3>1 DEF Covers
    <2>2. CASE o \notin Receipts
        <3>1. TxOf(o) \in Txs \cap body /\ o \in Change[TxOf(o)]
            BY <2>2, CreatedIs
        <3> QED BY <1>1, <1>2, <3>1 DEF Covers
    <2> QED BY <2>1, <2>2
<1>3. ASSUME NEW o \in Spent(body, known), o \in R[i].ins
      PROVE  \E item \in body : Covers(R, i, item)
    <2>1. PICK t \in Txs \cap body : o \in Spends[t]
        BY SpentIs
    <2> QED BY <1>1, <1>3, <2>1 DEF Covers
<1> QED BY <1>2, <1>3

LEMMA ScanTypes ==
    ASSUME TypeOK, ProcessBlock
    PROVE  TypeOK'
<1>1. PICK b \in 1 .. Len(bodies), h \in 1 .. Len(bodies), first \in {"sender", "scanner"} :
         /\ h = Len(tips) + 1
         /\ rows' = save_and_emit_displayed_transactions(rows, b, h, Stored(Append(tips, b)), first)
         /\ tips' = Append(tips, b)
         /\ shown' = {x \in shown : ~ Replaced(rows', x[1])}
                       \cup PayrefsOf(rows', {i \in DOMAIN rows' : Right(rows', tips', i)})
         /\ UNCHANGED <<chain, bodies, mempool, payrefs, sender>>
    BY ScanStep
<1>2. PICK known : known = Stored(Append(tips, b))
    OBVIOUS
<1>3. /\ rows' \in [DOMAIN rows' -> Row] /\ DOMAIN rows' \subseteq Sent \cup Outputs
      /\ \A i \in DOMAIN rows' : rows'[i].col <= Len(bodies)
    <2>1. b \in Nat /\ h \in Nat /\ h <= Len(bodies)
        BY DEF TypeOK
    <2>2. rows' = save_and_emit_displayed_transactions(rows, b, h, known, first)
        BY <1>1, <1>2
    <2> QED BY <2>1, <2>2, SavedTypes
<1>4. tips' \in Seq(1 .. Len(bodies))
    BY <1>1 DEF TypeOK
<1>5. shown' \subseteq (Sent \cup Outputs) \X (Nat \X Txs)
    <2>1. \A i \in DOMAIN rows' : \A p \in rows'[i].payref :
             <<i, p>> \in (Sent \cup Outputs) \X (Nat \X Txs)
        BY <1>3 DEF Row
    <2> QED BY <1>1, <2>1 DEF TypeOK, PayrefsOf
<1> QED BY <1>1, <1>3, <1>4, <1>5 DEF TypeOK

LEMMA ProcessBlockKeeps ==
    ASSUME IInv, ProcessBlock
    PROVE  IInv'
<1>1. PICK b \in 1 .. Len(bodies), h \in 1 .. Len(bodies), first \in {"sender", "scanner"} :
         /\ h = Len(tips) + 1
         /\ Created(bodies[b]) \cap Stored(tips) = {}
         /\ rows' = save_and_emit_displayed_transactions(rows, b, h, Stored(Append(tips, b)), first)
         /\ tips' = Append(tips, b)
         /\ shown' = {x \in shown : ~ Replaced(rows', x[1])}
                       \cup PayrefsOf(rows', {i \in DOMAIN rows' : Right(rows', tips', i)})
         /\ UNCHANGED <<chain, bodies, mempool, payrefs, sender>>
    BY ScanStep DEF IInv
<1>2. PICK known : known = Stored(Append(tips, b))
    OBVIOUS
<1>3. TypeOK'
    BY ScanTypes DEF IInv
<1> DEFINE made == NewMade(rows, b, h)
           left == Unused(rows, b, h, known)
           hit  == Found(rows, b, h, known, first)
           paid == PaidBy(rows, b, h, known)
<1>4. /\ DOMAIN rows' = DOMAIN rows \cup made \cup left
      /\ \A i \in left : SpendFields(h, rows'[i], i)
      /\ \A i \in made \ left : MadeFields(b, h, paid, rows'[i], i)
      /\ \A i \in DOMAIN rows \ (made \cup left) :
            IF i \in hit THEN FoundFields(h, rows'[i], rows[i]) ELSE rows'[i] = rows[i]
    <2>1. h \in Nat
        BY DEF IInv, TypeOK
    <2>2. Written(b, h, known, first, rows')
        BY <1>1, <1>2, <2>1, WrittenIs DEF IInv
    <2> QED BY <2>2 DEF Written
<1>5. /\ made \subseteq Created(bodies[b]) /\ made \subseteq Outputs
      /\ \A c \in made \ Receipts : TxOf(c) \in Txs /\ c \in Change[TxOf(c)]
      /\ left \subseteq Spent(bodies[b], known) /\ left \subseteq Outputs
    BY NewIs
<1>6. /\ h \in Nat /\ tips \in Seq(1 .. Len(bodies)) /\ Len(tips) \in Nat /\ b # 0
      /\ Len(tips') = h /\ tips'[h] = b
      /\ \A k \in 1 .. Len(tips) : tips'[k] = tips[k]
      /\ bodies[b] \in SUBSET (Receipts \cup Txs)
    BY <1>1 DEF IInv, TypeOK
<1>7. Sent \cap Outputs = {}
    BY DistinctItems DEF Txs
<1> HIDE DEF made, left, hit, paid
<1>8. LiveRowsAreOnTips'
    <2>1. ASSUME NEW i \in DOMAIN rows', Live(i)', InStep(rows, i)'
          PROVE  /\ rows'[i].height <= Len(tips')
                 /\ \E item \in bodies[tips[rows[i].height]]' : Covers(rows, i, item)'
        <3>1. CASE rows'[i].height = h /\ \/ \E o \in Created(bodies[b]) : o \in rows'[i].outs
                                          \/ \E o \in Spent(bodies[b], known) : o \in rows'[i].ins
            <4>1. \E item \in bodies[b] : Covers(rows', i, item)
                BY <1>6, <3>1, BlockCovers
            <4> QED BY <1>1, <1>6, <3>1, <4>1 DEF Covers
        <3>2. CASE i \in left
            BY <1>4, <1>5, <3>1, <3>2 DEF SpendFields
        <3>3. CASE i \in made \ left
            BY <1>4, <1>5, <3>1, <3>3 DEF MadeFields
        <3>4. CASE i \in DOMAIN rows \ (made \cup left) /\ i \in hit
            <4>1. FoundFields(h, rows'[i], rows[i])
                BY <1>4, <3>4
            <4>2. \/ \E o \in Created(bodies[b]) : o \in rows[i].outs
                  \/ \E o \in Spent(bodies[b], known) : o \in rows[i].ins
                BY <3>4, FoundIs DEF IInv, hit
            <4> QED BY <3>1, <4>1, <4>2 DEF FoundFields
        <3>5. CASE i \in DOMAIN rows \ (made \cup left) /\ i \notin hit
            <4>1. rows'[i] = rows[i]
                BY <1>4, <3>5
            <4>2. /\ rows[i].height <= Len(tips) /\ rows[i].height > 0
                  /\ \E item \in bodies[tips[rows[i].height]] : Covers(rows, i, item)
                BY <2>1, <3>5, <4>1 DEF IInv, LiveRowsAreOnTips, Live, InStep
            <4>3. rows[i].height \in 1 .. Len(tips)
                BY <3>5, <4>2 DEF IInv, TypeOK, Row
            <4>4. tips'[rows'[i].height] = tips[rows[i].height]
                BY <1>6, <4>1, <4>3
            <4>5. \A item : Covers(rows, i, item) => Covers(rows, i, item)'
                BY <4>1 DEF Covers
            <4>6. rows'[i].height <= Len(tips')
                BY <1>1, <1>6, <4>1, <4>3
            <4> QED BY <1>1, <4>2, <4>4, <4>5, <4>6
        <3> QED BY <1>4, <2>1, <3>2, <3>3, <3>4, <3>5
    <2> QED BY <2>1 DEF LiveRowsAreOnTips
<1>9. ASSUME NEW i \in DOMAIN rows' PROVE \A p \in rows'[i].payref : Belongs(i, p)
    <2>1. CASE i \in left
        BY <1>4, <2>1 DEF SpendFields
    <2>2. CASE i \in made \ left
        BY <1>4, <1>5, <1>6, <2>2 DEF MadeFields, Belongs
    <2>3. CASE i \in DOMAIN rows \ (made \cup left)
        <3>1. rows'[i].payref = rows[i].payref
            BY <1>4, <2>3 DEF FoundFields
        <3> QED BY <2>3, <3>1 DEF IInv, PayrefsAreOwned
    <2> QED BY <1>4, <2>1, <2>2, <2>3
<1>10. ASSUME NEW t \in DOMAIN rows' \cap Sent PROVE rows'[t].payref = {<<0, t>>}
    <2>1. t \in DOMAIN rows \ (made \cup left)
        BY <1>4, <1>5, <1>7
    <2>2. rows'[t].payref = rows[t].payref
        BY <1>4, <2>1 DEF FoundFields
    <2> QED BY <2>1, <2>2 DEF IInv, PayrefsAreOwned
<1>11. ASSUME NEW x \in shown, ~ Replaced(rows, x[1])' PROVE x \in payrefs' \/ Kept(x)'
    <2>1. CASE x \in payrefs
        BY <1>1, <2>1
    <2>2. CASE Kept(x)
        <3>1. x[1] \in DOMAIN rows
            BY DEF IInv, PayrefsAreOwned
        <3>2. CASE x[1] \in Sent
            <4>1. x[1] \in DOMAIN rows \ (made \cup left)
                BY <1>5, <1>7, <3>1, <3>2
            <4>2. rows'[x[1]].payref = rows[x[1]].payref
                BY <1>4, <4>1 DEF FoundFields
            <4> QED BY <2>2, <3>2, <4>2 DEF Kept
        <3>3. CASE x[1] \notin Sent
            <4>1. PICK k \in DOMAIN tips : x[1] \in Created(bodies[tips[k]]) /\ k <= rows[x[1]].col
                BY <2>2, <3>3 DEF Kept
            <4>2. x[1] \notin made
                BY <1>1, <1>5, <4>1 DEF Stored
            <4>3. x[1] \notin left
                BY <1>4, <1>5, <1>11 DEF SpendFields, Replaced
            <4>4. x[1] \in DOMAIN rows \ (made \cup left)
                BY <3>1, <4>2, <4>3
            <4>5. k \in 1 .. Len(tips)
                BY <1>6
            <4>6. rows'[x[1]].payref = rows[x[1]].payref /\ k <= rows'[x[1]].col
                BY <1>1, <1>4, <1>6, <4>1, <4>4, <4>5 DEF FoundFields
            <4>7. k \in DOMAIN tips' /\ tips'[k] = tips[k]
                BY <1>1, <1>6, <4>5
            <4> QED BY <1>1, <2>2, <4>1, <4>6, <4>7 DEF Kept, Created
        <3> QED BY <3>2, <3>3
    <2> QED BY <2>1, <2>2 DEF IInv, ShownIsKept
<1>12. DOMAIN rows \subseteq DOMAIN rows' /\ payrefs' = payrefs
    BY <1>1, <1>4
<1>13. \E r, seq : Write(r, seq)
    BY DEF ProcessBlock
<1>14. PayrefsAreOwned' /\ ShownIsKept'
    BY <1>1, <1>3, <1>9, <1>10, <1>11, <1>12, <1>13, PayrefsKeep
<1> QED BY <1>3, <1>8, <1>14 DEF IInv
LEMMA NextKeeps ==
    ASSUME IInv, [Next]_vars
    PROVE  IInv'
<1>1. CASE NodeStep
    BY <1>1, NodeStepKeeps
<1>2. CASE ProcessBlock
    BY <1>2, ProcessBlockKeeps
<1>3. CASE HandleReorg
    BY <1>3, HandleReorgKeeps
<1>4. CASE UpdateConfirmations
    BY <1>4, UpdateKeeps
<1>5. ASSUME NEW t \in Sent, Submit(t) \/ Crash(t) PROVE IInv'
    BY <1>5, SubmitKeeps
<1>6. ASSUME NEW t \in Sent, InsertPending(t) PROVE IInv'
    BY <1>6, InsertPendingKeeps
<1>7. ASSUME NEW t \in Sent, MarkRejected(t) PROVE IInv'
    BY <1>7, RejectedKeeps
<1>8. CASE UNCHANGED vars
    BY <1>8, Beside DEF vars, node, IInv, TypeOK
<1> QED BY <1>1, <1>2, <1>3, <1>4, <1>5, <1>6, <1>7, <1>8 DEF Next

LEMMA Invariant == Spec => []IInv
BY InitIInv, NextKeeps, PTL DEF Spec

(* A payment reference belongs to one row, so no other row answers for it. *)
LEMMA BelongsToOne ==
    ASSUME NEW i, NEW j, NEW p \in Nat \X Txs, Belongs(i, p), Belongs(j, p)
    PROVE  i = j
<1>1. p[2] \in Txs
    OBVIOUS
<1>2. CASE p[1] = 0
    BY <1>2 DEF Belongs
<1>3. CASE p[1] # 0
    <2>1. i \in Change[p[2]] /\ j \in Change[p[2]]
        BY <1>3 DEF Belongs
    <2> QED BY <1>1, <2>1, ChangeAssumption
<1> QED BY <1>2, <1>3

LEMMA IInvResolves == IInv => PayrefsResolve
<1> SUFFICES ASSUME IInv, NEW x \in shown PROVE x[1] \in LookUp(x[2])
    BY DEF PayrefsResolve
<1>1. x[1] \in DOMAIN rows /\ Belongs(x[1], x[2]) /\ x[2] \in Nat \X Txs
    BY DEF IInv, TypeOK, PayrefsAreOwned
<1>2. CASE RowsWithPayref(x[2]) # {}
    <2>1. PICK i \in DOMAIN rows : x[2] \in rows[i].payref
        BY <1>2 DEF RowsWithPayref
    <2>2. Belongs(i, x[2])
        BY <2>1 DEF IInv, PayrefsAreOwned
    <2>3. i = x[1]
        BY <1>1, <2>2, BelongsToOne
    <2>4. x[1] \in RowsWithPayref(x[2])
        BY <1>1, <2>1, <2>3 DEF RowsWithPayref
    <2> QED BY <1>2, <2>4 DEF LookUp
<1>3. CASE RowsWithPayref(x[2]) = {}
    <2>1. ~ Kept(x)
        BY <1>1, <1>3 DEF RowsWithPayref, Kept
    <2>2. x \in {y \in payrefs : y[2] = x[2]}
        BY <2>1 DEF IInv, ShownIsKept
    <2>3. x[1] \in get_transaction_id_by_historical_payref(x[2])
        BY <2>2 DEF get_transaction_id_by_historical_payref
    <2> QED BY <1>1, <1>3, <2>3 DEF LookUp
<1> QED BY <1>2, <1>3

(* Rows, scanned blocks and the tables stay within their types, whatever   *)
(* the chain does: a row's column is the height of a block there has been. *)
THEOREM TypeCorrect == Spec => []TypeOK
<1>1. IInv => TypeOK
    BY DEF IInv
<1> QED BY <1>1, Invariant, PTL

(* A mined row whose two heights agree is in a scanned block of that       *)
(* height, which holds what the row tells of.                              *)
THEOREM LiveRowsAreOnTipsHolds == Spec => []LiveRowsAreOnTips
<1>1. IInv => LiveRowsAreOnTips
    BY DEF IInv
<1> QED BY <1>1, Invariant, PTL

(* A payment reference that a row had while it was right about its block   *)
(* keeps finding that row, through every later rollback.                   *)
THEOREM PayrefsResolveHolds == Spec => []PayrefsResolve
BY Invariant, IInvResolves, PTL

-----------------------------------------------------------------------------
(* What a step does to the history                                         *)

(* The steps that scan no block scan none, and mark no row whose column is *)
(* not above the blocks that stay.                                         *)
Spares ==
    /\ Len(tips') <= Len(tips)
    /\ \A i \in DOMAIN rows :
         rows[i].status # "Reorganized" /\ rows[i].col <= Len(tips') /\ tips' # <<>> =>
            rows'[i].status # "Reorganized"

LEMMA OthersSpare ==
    ASSUME IInv, [Next]_vars, ~ ProcessBlock
    PROVE  Spares
<1>1. Len(tips) \in Nat /\ \A i \in DOMAIN rows : rows[i].col \in Nat
    BY DEF IInv, TypeOK, Row
<1>2. CASE UNCHANGED <<tips, rows>>
    BY <1>1, <1>2 DEF Spares
<1>3. CASE HandleReorg
    <2>1. PICK h, n, r :
             /\ RollsBack(h, n, r) /\ Write(r, SubSeq(tips, 1, n))
             /\ payrefs' = payrefs \cup SavedPayrefs(rows, h)
             /\ UNCHANGED <<chain, bodies, mempool, sender>>
        BY <1>3, ReorgStep DEF IInv
    <2>2. PICK seq : seq = SubSeq(tips, 1, n)
        OBVIOUS
    <2>3. /\ h \in Nat /\ n \in Nat /\ n <= Len(tips) /\ (IF h = 0 THEN n = 0 ELSE n + 1 = h)
          /\ Len(seq) = n /\ seq \in Seq(1 .. Len(bodies))
          /\ \A i \in DOMAIN rows : rows[i].col < h => r[i].status = rows[i].status
        <3>1. /\ Restates(r, seq) /\ Len(seq) = n
              /\ \A i \in DOMAIN rows : rows[i].col < h => r[i].status = rows[i].status
            BY <2>1, <2>2, RolledBack DEF IInv
        <3> QED BY <2>1, <3>1 DEF RollsBack, Restates
    <2>4. rows' = r /\ tips' = seq
        BY <2>1, <2>2 DEF Write
    <2>5. tips' # <<>> => h # 0
        BY <2>3, <2>4
    <2> QED BY <1>1, <2>3, <2>4, <2>5 DEF Spares
<1>4. CASE UpdateConfirmations
    <2> DEFINE Conf(i) == Monus(Len(tips), rows[i].height)
    <2>1. tips' = tips
        BY <1>4 DEF UpdateConfirmations, Write
    <2>2. \A i \in DOMAIN rows :
             \/ rows'[i] = rows[i]
             \/ rows'[i] = [rows[i] EXCEPT !.conf = Conf(i),
                                           !.status = determine_status_from_confirmations(Conf(i))]
        BY <1>4 DEF UpdateConfirmations, Write
    <2>3. \A i \in DOMAIN rows : rows[i] \in Row
        BY DEF IInv, TypeOK
    <2>4. \A c : determine_status_from_confirmations(c) # "Reorganized"
        BY DEF determine_status_from_confirmations
    <2>5. ASSUME NEW i \in DOMAIN rows, rows[i].status # "Reorganized"
          PROVE  rows'[i].status # "Reorganized"
        <3>1. PICK c : c = Conf(i)
            OBVIOUS
        <3>2. PICK s : s = determine_status_from_confirmations(c)
            OBVIOUS
        <3>3. rows'[i] = rows[i] \/ rows'[i] = [rows[i] EXCEPT !.conf = c, !.status = s]
            BY <2>2, <3>1, <3>2
        <3>4. s # "Reorganized"
            BY <2>4, <3>2
        <3> QED BY <2>3, <2>5, <3>3, <3>4 DEF Row
    <2> QED BY <1>1, <2>1, <2>5 DEF Spares
<1>5. ASSUME NEW t \in Sent, InsertPending(t) PROVE Spares
    <2>1. PICK carried, r :
             /\ carried \subseteq Outputs
             /\ Write(r, tips)
             /\ r \in [DOMAIN r -> Row] /\ DOMAIN r = DOMAIN rows \cup {t}
             /\ \A i \in DOMAIN rows \ {t} : r[i] = rows[i]
             /\ \E c \in Nat : c <= Len(bodies) /\ r[t] = WithCol(PendingRow(t, carried), c)
        BY <1>5, PendingStep DEF IInv
    <2>2. r[t].status # "Reorganized"
        BY <2>1 DEF WithCol, PendingRow
    <2>3. rows' = r /\ tips' = tips
        BY <2>1 DEF Write
    <2> QED BY <1>1, <2>1, <2>2, <2>3 DEF Spares
<1>6. ASSUME NEW t \in Sent, MarkRejected(t) PROVE Spares
    <2>1. tips' = tips /\ rows' = [rows EXCEPT ![t].status = "Rejected"] /\ t \in DOMAIN rows
        BY <1>6 DEF MarkRejected, Write
    <2>2. \A i \in DOMAIN rows :
             rows'[i] = rows[i] \/ rows'[i] = [rows[i] EXCEPT !.status = "Rejected"]
        BY <2>1
    <2>3. \A i \in DOMAIN rows : rows[i] \in Row
        BY DEF IInv, TypeOK
    <2>4. \A i \in DOMAIN rows :
             rows[i].status # "Reorganized" => rows'[i].status # "Reorganized"
        BY <2>2, <2>3 DEF Row
    <2> QED BY <1>1, <2>1, <2>4 DEF Spares
<1>7. \/ UNCHANGED <<tips, rows>> \/ HandleReorg \/ UpdateConfirmations
      \/ \E t \in Sent : InsertPending(t) \/ MarkRejected(t)
    BY DEF Next, vars, NodeStep, Submit, Crash
<1> QED BY <1>2, <1>3, <1>4, <1>5, <1>6, <1>7

(* How an item of the block comes to be told of.                           *)
Tells(i, item) ==
    /\ i \in DOMAIN rows'
    /\ rows'[i].status # "Reorganized"
    /\ rows'[i].height = Len(tips')
    /\ \/ Covers(rows', i, item)
       \/ i \in DOMAIN rows /\ Covers(rows, i, item)
       \/ i \in RowIds(item)
       \/ /\ Created({item}) = {}
          /\ i \in Created(bodies[Last(tips)])' /\ Replaced(rows', i)

LEMMA ScanTells ==
    ASSUME IInv, ProcessBlock
    PROVE  /\ Len(tips') > Len(tips)
           /\ \A item \in Told(tips)' : \E i : Tells(i, item)
<1>1. PICK b \in 1 .. Len(bodies), h \in 1 .. Len(bodies), first \in {"sender", "scanner"} :
         /\ h = Len(tips) + 1
         /\ Created(bodies[b]) \cap Stored(tips) = {}
         /\ rows' = save_and_emit_displayed_transactions(rows, b, h, Stored(Append(tips, b)), first)
         /\ tips' = Append(tips, b)
         /\ shown' = {x \in shown : ~ Replaced(rows', x[1])}
                       \cup PayrefsOf(rows', {i \in DOMAIN rows' : Right(rows', tips', i)})
         /\ UNCHANGED <<chain, bodies, mempool, payrefs, sender>>
    BY ScanStep DEF IInv
<1>2. PICK known : known = Stored(Append(tips, b))
    OBVIOUS
<1>3. /\ Len(tips) \in Nat /\ Len(tips') = h /\ Len(tips') > Len(tips) /\ Last(tips') = b
      /\ bodies[b] \in SUBSET (Receipts \cup Txs)
    BY <1>1 DEF IInv, TypeOK, Last
<1>4. Stored(tips)' = known
    BY <1>1, <1>2 DEF Stored, Created
<1> DEFINE made == NewMade(rows, b, h)
           left == Unused(rows, b, h, known)
           hit  == Found(rows, b, h, known, first)
           paid == PaidBy(rows, b, h, known)
<1>5. /\ DOMAIN rows' = DOMAIN rows \cup made \cup left
      /\ \A i \in left : SpendFields(h, rows'[i], i)
      /\ \A i \in made \ left : MadeFields(b, h, paid, rows'[i], i)
      /\ \A i \in DOMAIN rows \ (made \cup left) :
            IF i \in hit THEN FoundFields(h, rows'[i], rows[i]) ELSE rows'[i] = rows[i]
    <2>1. h \in Nat
        BY DEF IInv, TypeOK
    <2>2. Written(b, h, known, first, rows')
        BY <1>1, <1>2, <2>1, WrittenIs DEF IInv
    <2> QED BY <2>2 DEF Written
<1>6. /\ made \subseteq Created(bodies[b]) /\ left \subseteq Outputs
      /\ NewSpent(rows, b, h, known) \subseteq Outputs
    BY NewIs
<1>7. /\ \A i \in hit : i \in DOMAIN rows
      /\ \A o \in Created(bodies[b]) \ made : \E i \in hit : o \in rows[i].outs
      /\ \A o \in Spent(bodies[b], known) \ NewSpent(rows, b, h, known) :
            \E i \in hit : o \in rows[i].ins
    BY FoundIs DEF IInv
<1>8. ASSUME NEW o \in NewSpent(rows, b, h, known)
      PROVE  o \in left \/ \E c \in made \ Receipts : o \in paid[c]
    <2>1. DOMAIN paid = made \ Receipts
        BY DEF PaidBy, search_inputs
    <2> QED BY <2>1 DEF Unused, UnusedInputs
<1> HIDE DEF made, left, hit, paid
<1>9. ASSUME NEW i \in made \cup left \cup hit
      PROVE  /\ i \in DOMAIN rows' /\ rows'[i].height = Len(tips')
             /\ rows'[i].status # "Reorganized"
    <2>1. rows'[i].height = h /\ rows'[i].status = StatusAtTip
        BY <1>5, <1>7 DEF SpendFields, MadeFields, FoundFields
    <2> QED BY <1>3, <1>5, <1>7, <2>1, StatusIsMined
<1>10. ASSUME NEW item \in bodies[b], NEW o \in Created({item})
       PROVE  \E i : Tells(i, item)
    <2>1. o \in Created(bodies[b])
        BY DEF Created
    <2>2. CASE o \in made
        <3>1. o \in RowIds(item)
            BY DEF RowIds
        <3> QED BY <1>9, <2>2, <3>1 DEF Tells
    <2>3. CASE o \notin made
        <3>1. PICK i \in hit : o \in rows[i].outs
            BY <1>7, <2>1, <2>3
        <3>2. Covers(rows, i, item)
            <4>1. CASE item \in Receipts
                <5>1. item \notin Txs
                    BY <4>1, DistinctItems DEF Outputs
                <5>2. o = item
                    BY <5>1 DEF Created
                <5> QED BY <3>1, <4>1, <5>2 DEF Covers
            <4>2. CASE item \notin Receipts
                BY <3>1, <4>2 DEF Covers, Created
            <4> QED BY <4>1, <4>2
        <3> QED BY <1>7, <1>9, <3>2 DEF Tells
    <2> QED BY <2>2, <2>3
<1>11. ASSUME NEW item \in bodies[b], Created({item}) = {}, NEW o \in Spent({item}, known)
       PROVE  \E i : Tells(i, item)
    <2>1. item \in Txs /\ o \in Spends[item] /\ o \in Spent(bodies[b], known)
        BY DEF Spent
    <2>2. item \notin Receipts
        BY <2>1, DistinctItems DEF Outputs
    <2>3. CASE o \notin NewSpent(rows, b, h, known)
        <3>1. PICK i \in hit : o \in rows[i].ins
            BY <1>7, <2>1, <2>3
        <3>2. Covers(rows, i, item)
            BY <2>1, <2>2, <3>1 DEF Covers
        <3> QED BY <1>7, <1>9, <3>2 DEF Tells
    <2>4. CASE o \in left
        <3>1. o \in RowIds(item)
            BY <1>11, <2>1 DEF RowIds
        <3> QED BY <1>9, <2>4, <3>1 DEF Tells
    <2>5. ASSUME NEW c \in made \ Receipts, o \in paid[c]
          PROVE  \E i : Tells(i, item)
        <3>1. CASE c \in left
            <4>1. Replaced(rows', c)
                BY <1>5, <1>6, <3>1 DEF SpendFields, Replaced
            <4>2. c \in Created(bodies[Last(tips)])'
                BY <1>1, <1>3, <1>6 DEF Created
            <4> QED BY <1>9, <1>11, <4>1, <4>2 DEF Tells
        <3>2. CASE c \notin left
            <4>1. rows'[c].ins = paid[c]
                BY <1>5, <3>2 DEF MadeFields
            <4>2. Covers(rows', c, item)
                BY <2>1, <2>2, <2>5, <4>1 DEF Covers
            <4> QED BY <1>9, <4>2 DEF Tells
        <3> QED BY <3>1, <3>2
    <2> QED BY <1>8, <2>3, <2>4, <2>5
<1>12. ASSUME NEW item \in Told(tips)' PROVE \E i : Tells(i, item)
    <2>1. item \in bodies[b] /\ Created({item}) \cup Spent({item}, known) # {}
        BY <1>1, <1>3, <1>4 DEF Told
    <2> QED BY <1>10, <1>11, <2>1
<1> QED BY <1>3, <1>12

(* Nothing drops out of the history unseen: each payment and transaction   *)
(* of a block is told of when the block is scanned, and no rollback marks  *)
(* a row below the blocks it drops.                                        *)
THEOREM HistoryIsKeptHolds == Spec => HistoryIsKept
<1> DEFINE Step ==
             IF Len(tips') > Len(tips)
               THEN \A item \in Told(tips)' : \E i \in DOMAIN rows' :
                      /\ rows'[i].status # "Reorganized"
                      /\ rows'[i].height = Len(tips')
                      /\ \/ Covers(rows', i, item)
                         \/ i \in DOMAIN rows /\ Covers(rows, i, item)
                         \/ i \in RowIds(item)
                         \/ /\ Created({item}) = {}
                            /\ i \in Created(bodies[Last(tips)])' /\ Replaced(rows', i)
               ELSE \A i \in DOMAIN rows :
                      rows[i].status # "Reorganized" /\ rows[i].col <= Len(tips') /\ tips' # <<>> =>
                          rows'[i].status # "Reorganized"
<1>1. ASSUME IInv, [Next]_vars PROVE [Step]_vars
    <2>1. CASE ProcessBlock
        BY <1>1, <2>1, ScanTells DEF Tells
    <2>2. CASE ~ ProcessBlock
        <3>1. Spares
            BY <1>1, <2>2, OthersSpare
        <3>2. Len(tips) \in Nat /\ Len(tips') \in Nat
            BY <1>1, NextKeeps DEF IInv, TypeOK
        <3>3. ~ (Len(tips') > Len(tips))
            BY <3>1, <3>2 DEF Spares
        <3> QED BY <3>1, <3>3 DEF Spares
    <2> QED BY <2>1, <2>2
<1>2. HistoryIsKept <=> [][Step]_vars
    BY DEF HistoryIsKept
<1> QED BY <1>1, <1>2, Invariant, PTL DEF Spec

(* The rows a block gives inputs, and what else it was compared with.      *)
GivenInputs(i) == i \in DOMAIN rows => rows[i].ins # rows'[i].ins

LEMMA ScanSpendsOnce ==
    ASSUME IInv, ProcessBlock, NEW i \in DOMAIN rows', NEW j \in DOMAIN rows', i # j,
           GivenInputs(i),
           GivenInputs(j) \/ j \in current_display_transactions(rows, Len(tips'))
    PROVE  rows'[i].ins \cap rows'[j].ins = {}
<1>1. PICK b \in 1 .. Len(bodies), h \in 1 .. Len(bodies), first \in {"sender", "scanner"} :
         /\ h = Len(tips) + 1
         /\ Created(bodies[b]) \cap Stored(tips) = {}
         /\ rows' = save_and_emit_displayed_transactions(rows, b, h, Stored(Append(tips, b)), first)
         /\ tips' = Append(tips, b)
         /\ shown' = {x \in shown : ~ Replaced(rows', x[1])}
                       \cup PayrefsOf(rows', {k \in DOMAIN rows' : Right(rows', tips', k)})
         /\ UNCHANGED <<chain, bodies, mempool, payrefs, sender>>
    BY ScanStep DEF IInv
<1>2. PICK known : known = Stored(Append(tips, b))
    OBVIOUS
<1>3. Len(tips') = h
    BY <1>1 DEF IInv, TypeOK
<1> DEFINE made  == NewMade(rows, b, h)
           spent == NewSpent(rows, b, h, known)
           left  == Unused(rows, b, h, known)
           hit   == Found(rows, b, h, known, first)
           paid  == PaidBy(rows, b, h, known)
<1>4. /\ DOMAIN rows' = DOMAIN rows \cup made \cup left
      /\ \A k \in left : SpendFields(h, rows'[k], k)
      /\ \A k \in made \ left : MadeFields(b, h, paid, rows'[k], k)
      /\ \A k \in DOMAIN rows \ (made \cup left) :
            IF k \in hit THEN FoundFields(h, rows'[k], rows[k]) ELSE rows'[k] = rows[k]
    <2>1. h \in Nat
        BY DEF IInv, TypeOK
    <2>2. Written(b, h, known, first, rows')
        BY <1>1, <1>2, <2>1, WrittenIs DEF IInv
    <2> QED BY <2>2 DEF Written
<1>5. /\ left \subseteq spent
      /\ \A c \in made \ Receipts : paid[c] \subseteq spent /\ paid[c] \cap left = {}
      /\ \A c, d \in made \ Receipts : c # d => paid[c] \cap paid[d] = {}
    <2>1. left \subseteq spent
        BY NewIs
    <2>2. \A c \in made \ Receipts : paid[c] \subseteq spent
        BY NewIs
    <2>3. \A c \in made \ Receipts : paid[c] \cap left = {}
        BY NewIs
    <2>4. \A c, d \in made \ Receipts : c # d => paid[c] \cap paid[d] = {}
        BY NewIs, ZenonT(40)
    <2> QED BY <2>1, <2>2, <2>3, <2>4
<1>6. \A o \in spent : \A k \in current_display_transactions(rows, h) : o \notin rows[k].ins
    BY DEF NewSpent, RowsUsing
<1> HIDE DEF made, spent, left, hit, paid
<1>7. ASSUME NEW k \in DOMAIN rows', GivenInputs(k)
      PROVE  \/ k \in left /\ rows'[k].ins = {k}
             \/ k \in made \ left /\ rows'[k].ins = IF k \in Receipts THEN {} ELSE paid[k]
    <2>1. CASE k \in left
        BY <1>4, <2>1 DEF SpendFields
    <2>2. CASE k \in made \ left
        BY <1>4, <2>2 DEF MadeFields
    <2>3. CASE k \in DOMAIN rows \ (made \cup left)
        BY <1>4, <1>7, <2>3 DEF FoundFields, GivenInputs
    <2> QED BY <1>4, <2>1, <2>2, <2>3
<1>8. rows'[i].ins \subseteq spent
    BY <1>5, <1>7
<1>9. CASE GivenInputs(j)
    BY <1>5, <1>7, <1>9
<1>10. CASE ~ GivenInputs(j)
    <2>1. j \in current_display_transactions(rows, h) /\ rows'[j].ins = rows[j].ins
        BY <1>3, <1>10 DEF GivenInputs
    <2> QED BY <1>6, <1>8, <2>1
<1> QED BY <1>9, <1>10

(* No spend is told twice: what a block gives a row as inputs is in no     *)
(* other row it gives inputs, nor in one it was compared with.             *)
THEOREM SpentOnceHolds == Spec => SpentOnce
<1> DEFINE Step ==
             LET Given(i) == i \in DOMAIN rows => rows[i].ins # rows'[i].ins
             IN Len(tips') > Len(tips) =>
                  \A i, j \in DOMAIN rows' :
                      /\ i # j
                      /\ Given(i)
                      /\ Given(j) \/ j \in current_display_transactions(rows, Len(tips'))
                      => rows'[i].ins \cap rows'[j].ins = {}
<1>1. ASSUME IInv, [Next]_vars PROVE [Step]_vars
    <2>1. CASE ProcessBlock
        BY <1>1, <2>1, ScanSpendsOnce DEF GivenInputs
    <2>2. CASE ~ ProcessBlock
        <3>1. Spares
            BY <1>1, <2>2, OthersSpare
        <3>2. Len(tips) \in Nat /\ Len(tips') \in Nat
            BY <1>1, NextKeeps DEF IInv, TypeOK
        <3>3. ~ (Len(tips') > Len(tips))
            BY <3>1, <3>2 DEF Spares
        <3> QED BY <3>3
    <2> QED BY <2>1, <2>2
<1>2. SpentOnce <=> [][Step]_vars
    BY DEF SpentOnce
<1> QED BY <1>1, <1>2, Invariant, PTL DEF Spec
=============================================================================

------------------------------ MODULE TeamLemmas ------------------------------
(***************************************************************************)
(* What the handlers of a team are made of keeps of the team: the records  *)
(* that say who waits for whom agree, no more agents work than there are   *)
(* slots, mail is kept, a slot that is freed is used, and nobody waits in  *)
(* a ring.  Every step keeps the first two (StepsGood).                    *)
(*                                                                         *)
(* Every operator of the Team modules maps a team to a team, so there is a *)
(* lemma for each, for any team that is Good, and the proof of a handler   *)
(* cites them in the order of its calls.  Lemmas whose names end in Leaves *)
(* say which fields an operator leaves alone, in Same that none which the  *)
(* slots are about changes, in Typed, Sound and Good that it keeps a part  *)
(* of the invariant or all of it.                                          *)
(***************************************************************************)
EXTENDS Team, FiniteSetTheorems, WellFoundedInduction, SequenceTheorems, TLAPS

------------------------------------------------------------------------------
(* Walks along a sequence: what is known at first, and after every step *)

\* A set of numbers that is not empty has a least one.
LEMMA LeastOf ==
  ASSUME NEW S \in SUBSET Nat, S # {}
  PROVE  \E m \in S : \A x \in S : m <= x
<1>1. PICK m \in S : \A x \in S : ~ (<<x, m>> \in OpToRel(<, Nat))
  BY Zenon, WFMin, NatLessThanWellFounded
<1>2. ASSUME NEW x \in S PROVE m <= x
  <2>1. <<x, m>> \notin OpToRel(<, Nat)
    BY Zenon, <1>1
  <2>2. m \in Nat /\ x \in Nat
    OBVIOUS
  <2>3. x < m => <<x, m>> \in OpToRel(<, Nat)
    BY <2>2 DEF OpToRel
  <2>4. ~ (x < m)
    BY Zenon, <2>1, <2>3
  <2> QED
    BY <2>2, <2>4, SMT
<1> QED
  BY <1>2

\* A bounded one has a greatest, too.
LEMMA GreatestOf ==
  ASSUME NEW n \in Nat, NEW S \in SUBSET (1 .. n), S # {}
  PROVE  Max(S) \in S /\ \A x \in S : x <= Max(S)
<1> DEFINE Rest == {n - x : x \in S}
<1>1. Rest \in SUBSET Nat /\ Rest # {}
  <2>1. ASSUME NEW x \in S PROVE n - x \in Nat
    <3>1. x \in 1 .. n
      OBVIOUS
    <3> QED
      BY <3>1
  <2> QED
    BY <2>1
<1>2. PICK d \in Rest : \A e \in Rest : d <= e
  <2> HIDE DEF Rest
  <2> QED BY <1>1, LeastOf
<1>3. PICK m \in S : d = n - m
  BY <1>2
<1>4. ASSUME NEW x \in S PROVE m >= x
  <2>1. n - x \in Rest
    OBVIOUS
  <2>2. d <= n - x
    BY <1>2, <2>1
  <2> QED
    BY <1>3, <2>2
<1>5. \E y \in S : \A x \in S : y >= x
  BY <1>4
<1>6. Max(S) \in S /\ \A x \in S : Max(S) >= x
  BY <1>5 DEF Max
<1> QED
  BY <1>6

\* The finite sets of positions.
LEMMA Positions ==
  ASSUME NEW n \in Nat, NEW s \in SUBSET (1 .. n)
  PROVE  /\ IsFiniteSet(s) /\ Cardinality(s) \in Nat /\ Cardinality(s) <= n
         /\ s # {} => /\ Max(s) \in s /\ s \ {Max(s)} \in SUBSET (1 .. n)
                      /\ Cardinality(s \ {Max(s)}) = Cardinality(s) - 1
         /\ Cardinality(s) = 0 <=> s = {}
<1>1. IsFiniteSet(1 .. n) /\ Cardinality(1 .. n) = n
  <2>1. IsFiniteSet(1 .. n) /\ Cardinality(1 .. n) = IF 1 > n THEN 0 ELSE n - 1 + 1
    BY FS_Interval
  <2> QED
    BY <2>1
<1>2. IsFiniteSet(s) /\ Cardinality(s) <= n
  BY <1>1, FS_Subset
<1>3. Cardinality(s) \in Nat
  BY <1>2, FS_CardinalityType
<1>4. Cardinality(s) = 0 <=> s = {}
  BY <1>2, FS_EmptySet
<1>5. ASSUME s # {}
      PROVE  /\ Max(s) \in s /\ s \ {Max(s)} \in SUBSET (1 .. n)
             /\ Cardinality(s \ {Max(s)}) = Cardinality(s) - 1
  <2>1. Max(s) \in s
    BY <1>5, GreatestOf
  <2>2. Cardinality(s \ {Max(s)}) = Cardinality(s) - 1
    BY <1>2, <2>1, FS_RemoveElement
  <2> QED
    BY <2>1, <2>2
<1> QED
  BY <1>2, <1>3, <1>4, <1>5

\* What holds of the empty set, and of a set if it holds without its greatest number, holds of
\* all sets of numbers up to n: the order in which the library's folds take them.
LEMMA SubsetsByMax ==
  ASSUME NEW n \in Nat, NEW T, {} \in T,
         \A s \in SUBSET (1 .. n) : s # {} /\ s \ {Max(s)} \in T => s \in T
  PROVE  SUBSET (1 .. n) \subseteq T
<1> SUFFICES ASSUME NEW s0 \in SUBSET (1 .. n), s0 \notin T PROVE FALSE
  OBVIOUS
<1> DEFINE Sizes == {Cardinality(s) : s \in {s \in SUBSET (1 .. n) : s \notin T}}
<1>1. ASSUME NEW k \in Sizes PROVE k \in Nat
  <2>1. PICK s \in SUBSET (1 .. n) : k = Cardinality(s)
    OBVIOUS
  <2> QED
    BY <2>1, Positions
<1>2. Sizes # {}
  OBVIOUS
<1>3. PICK m \in Sizes : \A k \in Sizes : m <= k
  <2> HIDE DEF Sizes
  <2> QED BY <1>1, <1>2, LeastOf
<1>4. PICK s \in SUBSET (1 .. n) : s \notin T /\ m = Cardinality(s)
  BY <1>3
<1>5. s # {}
  BY <1>4
<1>6. Cardinality(s \ {Max(s)}) = m - 1 /\ s \ {Max(s)} \in SUBSET (1 .. n)
  BY <1>4, <1>5, Positions
<1>7. s \ {Max(s)} \notin T
  BY <1>4, <1>5
<1>8. m - 1 \in Sizes
  BY <1>6, <1>7
<1>9. m <= m - 1 /\ m \in Nat
  BY <1>1, <1>3, <1>8
<1> QED
  BY <1>9

\* h holds the values of a fold of F from x0, by the set of the positions taken.
Folds(h, n, F, x0) ==
    h = [s \in SUBSET (1 .. n) |-> IF s = {} THEN x0 ELSE F[Max(s)][h[s \ {Max(s)}]]]

\* They exist.
LEMMA FoldExists ==
  ASSUME NEW n \in Nat, NEW F, NEW x0
  PROVE  \E h : Folds(h, n, F, x0)
<1> DEFINE D(m) == {s \in SUBSET (1 .. n) : Cardinality(s) <= m}
           Is(h, m) == h = [s \in D(m) |-> IF s = {} THEN x0 ELSE F[Max(s)][h[s \ {Max(s)}]]]
           Bad == {m \in Nat : ~ \E h : Is(h, m)}
<1>1. Bad = {}
  <2> SUFFICES ASSUME Bad # {} PROVE FALSE
    OBVIOUS
  <2>1. PICK m \in Bad : \A k \in Bad : m <= k
    <3>1. Bad \in SUBSET Nat
      OBVIOUS
    <3> HIDE DEF Bad
    <3> QED BY <3>1, LeastOf
  <2>2. m \in Nat /\ ~ \E h : Is(h, m)
    BY <2>1
  <2>3. CASE m = 0
    <3> DEFINE g == [s \in D(0) |-> x0]
    <3>1. ASSUME NEW s \in D(0) PROVE s = {}
      <4>1. s \in SUBSET (1 .. n) /\ Cardinality(s) <= 0
        OBVIOUS
      <4>2. Cardinality(s) \in Nat
        BY <4>1, Positions
      <4>3. Cardinality(s) = 0
        BY <4>1, <4>2
      <4> QED
        BY <4>1, <4>3, Positions
    <3>2. g = [s \in D(0) |-> IF s = {} THEN x0 ELSE F[Max(s)][g[s \ {Max(s)}]]]
      <4> HIDE DEF D
      <4> QED BY <3>1
    <3>3. Is(g, 0)
      BY <3>2
    <3> QED
      BY <2>2, <2>3, <3>3
  <2>4. CASE m # 0
    <3>1. m - 1 \in Nat /\ ~ (m <= m - 1)
      BY <2>2, <2>4
    <3>2. m - 1 \notin Bad
      BY <2>1, <3>1
    <3>3. PICK h : Is(h, m - 1)
      BY <3>1, <3>2
    <3> DEFINE g == [s \in D(m) |-> IF s = {} THEN x0 ELSE F[Max(s)][h[s \ {Max(s)}]]]
    <3>4. ASSUME NEW s \in D(m), s # {} PROVE s \ {Max(s)} \in D(m - 1) /\ s \ {Max(s)} \in D(m)
      <4>1. s \in SUBSET (1 .. n) /\ Cardinality(s) <= m
        OBVIOUS
      <4>2. s \ {Max(s)} \in SUBSET (1 .. n) /\ Cardinality(s \ {Max(s)}) = Cardinality(s) - 1
            /\ Cardinality(s) \in Nat
        BY <3>4, <4>1, Positions
      <4>3. Cardinality(s \ {Max(s)}) <= m - 1 /\ Cardinality(s \ {Max(s)}) <= m
        BY <4>1, <4>2, <2>2
      <4> QED
        BY <4>2, <4>3
    <3>5. ASSUME NEW s \in D(m - 1) PROVE s \in D(m)
      <4>1. s \in SUBSET (1 .. n) /\ Cardinality(s) <= m - 1
        OBVIOUS
      <4>2. Cardinality(s) \in Nat
        BY <4>1, Positions
      <4>3. Cardinality(s) <= m
        BY <4>1, <4>2, <2>2
      <4> QED
        BY <4>1, <4>3
    <3>6. ASSUME NEW s \in D(m - 1) PROVE g[s] = h[s]
      <4>1. h[s] = IF s = {} THEN x0 ELSE F[Max(s)][h[s \ {Max(s)}]]
        <5> HIDE DEF D
        <5> QED BY <3>3
      <4>2. s \in D(m)
        BY <3>5
      <4>3. g[s] = IF s = {} THEN x0 ELSE F[Max(s)][h[s \ {Max(s)}]]
        <5> HIDE DEF D
        <5> QED BY <4>2
      <4> QED
        BY <4>1, <4>3
    <3>7. ASSUME NEW s \in D(m), s # {} PROVE h[s \ {Max(s)}] = g[s \ {Max(s)}]
      BY <3>4, <3>6, <3>7
    <3>8. g = [s \in D(m) |-> IF s = {} THEN x0 ELSE F[Max(s)][g[s \ {Max(s)}]]]
      <4> HIDE DEF D
      <4> QED BY <3>7
    <3>9. Is(g, m)
      BY <3>8
    <3> QED
      BY <2>2, <3>9
  <2> QED
    BY <2>3, <2>4
<1>2. PICK h : Is(h, n)
  BY <1>1
<1>3. D(n) = SUBSET (1 .. n)
  <2>1. ASSUME NEW s \in SUBSET (1 .. n) PROVE Cardinality(s) <= n
    BY Positions
  <2> QED
    BY <2>1
<1>4. h = [s \in SUBSET (1 .. n) |-> IF s = {} THEN x0 ELSE F[Max(s)][h[s \ {Max(s)}]]]
  <2>1. Is(h, n)
    BY <1>2
  <2> QED BY <2>1, <1>3
<1> QED
  BY <1>4 DEF Folds

\* X says what is known of the values of a fold, by the set s of positions that are taken: it is
\* known of all of them when every step from such a value leads to such a value.
LEMMA FoldKeeps ==
  ASSUME NEW n \in Nat, NEW X, NEW F, NEW x0, x0 \in X[{}], NEW h, Folds(h, n, F, x0),
         \A s \in SUBSET (1 .. n) : \A i \in (1 .. n) \ s : \A x \in X[s] :
             F[i][x] \in X[s \cup {i}]
  PROVE  \A s \in SUBSET (1 .. n) : h[s] \in X[s]
<1> DEFINE T == {s \in SUBSET (1 .. n) : h[s] \in X[s]}
<1>1. {} \in T
  BY DEF Folds
<1>2. ASSUME NEW s \in SUBSET (1 .. n), s # {}, s \ {Max(s)} \in T PROVE s \in T
  <2>1. Max(s) \in s /\ s \ {Max(s)} \in SUBSET (1 .. n)
    BY <1>2, Positions
  <2>2. h[s \ {Max(s)}] \in X[s \ {Max(s)}]
    BY <1>2
  <2>3. (s \ {Max(s)}) \cup {Max(s)} = s
    BY <2>1
  <2>4. Max(s) \in (1 .. n) \ (s \ {Max(s)})
    BY <2>1
  <2>5. F[Max(s)][h[s \ {Max(s)}]] \in X[(s \ {Max(s)}) \cup {Max(s)}]
    BY <2>1, <2>2, <2>4
  <2>6. h[s] = F[Max(s)][h[s \ {Max(s)}]]
    BY <1>2 DEF Folds
  <2> QED
    BY <2>3, <2>5, <2>6
<1>3. SUBSET (1 .. n) \subseteq T
  <2> HIDE DEF T
  <2> QED BY <1>1, <1>2, SubsetsByMax
<1> QED
  BY <1>3

\* pump's walk along the line.
LEMMA FoldLetGo ==
  ASSUME NEW n \in Nat, NEW line, DOMAIN line = 1 .. n, NEW X, NEW x0, x0 \in X[{}],
         \A s \in SUBSET (1 .. n) : \A i \in (1 .. n) \ s : \A x \in X[s] :
            LetGo(x, line[i]) \in X[s \cup {i}]
  PROVE  FoldLeft(LetGo, x0, line) \in X[1 .. n]
<1> DEFINE U == UNION {X[s] : s \in SUBSET (1 .. n)}
           F == [i \in 1 .. n |-> [x \in U |-> LetGo(x, line[i])]]
           Is(g) == g = [s \in SUBSET (1 .. n) |->
                           IF s = {} THEN x0 ELSE LetGo(g[s \ {Max(s)}], line[Max(s)])]
           it == CHOOSE g : Is(g)
<1>1. ASSUME NEW s \in SUBSET (1 .. n), NEW i \in (1 .. n), NEW x \in X[s]
      PROVE  F[i][x] = LetGo(x, line[i])
  OBVIOUS
<1>2. PICK h : Folds(h, n, F, x0)
  <2> HIDE DEF F
  <2> QED BY FoldExists
<1>3. \A s \in SUBSET (1 .. n) : h[s] \in X[s]
  <2>1. \A s \in SUBSET (1 .. n) : \A i \in (1 .. n) \ s : \A x \in X[s] : F[i][x] \in X[s \cup {i}]
    BY Zenon, <1>1
  <2> HIDE DEF F
  <2> QED BY <1>2, <2>1, FoldKeeps
<1>4. Is(h)
  <2>1. ASSUME NEW s \in SUBSET (1 .. n), s # {}
        PROVE  F[Max(s)][h[s \ {Max(s)}]] = LetGo(h[s \ {Max(s)}], line[Max(s)])
    <3>1. Max(s) \in 1 .. n /\ s \ {Max(s)} \in SUBSET (1 .. n)
      BY <2>1, Positions
    <3> HIDE DEF F
    <3> QED BY <1>1, <1>3, <3>1
  <2> HIDE DEF F
  <2> QED BY <1>2, <2>1 DEF Folds
<1>5. Is(it)
  BY <1>4
<1>6. it[1 .. n] \in X[1 .. n]
  <2> DEFINE T == {s \in SUBSET (1 .. n) : it[s] \in X[s]}
  <2> HIDE DEF it
  <2>1. {} \in T
    BY <1>5
  <2>2. ASSUME NEW s \in SUBSET (1 .. n), s # {}, s \ {Max(s)} \in T PROVE s \in T
    <3>1. Max(s) \in s /\ s \ {Max(s)} \in SUBSET (1 .. n)
      BY <2>2, Positions
    <3>2. it[s \ {Max(s)}] \in X[s \ {Max(s)}]
      BY <2>2
    <3>3. Max(s) \in (1 .. n) \ (s \ {Max(s)}) /\ (s \ {Max(s)}) \cup {Max(s)} = s
      BY <3>1
    <3>4. it[s] = LetGo(it[s \ {Max(s)}], line[Max(s)])
      BY <1>5, <2>2
    <3>5. LetGo(it[s \ {Max(s)}], line[Max(s)]) \in X[(s \ {Max(s)}) \cup {Max(s)}]
      BY <3>1, <3>2, <3>3
    <3> QED
      BY <3>3, <3>4, <3>5
  <2>3. SUBSET (1 .. n) \subseteq T
    <3> HIDE DEF T
    <3> QED BY <2>1, <2>2, SubsetsByMax
  <2> QED
    BY <2>3
<1>7. FoldLeft(LetGo, x0, line) = it[1 .. n]
  BY DEF FoldLeft, MapThenFoldSet
<1> QED
  BY <1>6, <1>7

------------------------------------------------------------------------------
(* The agents and their order *)

\* The agents are numbers, as many as MaxAgents, and neither main nor nobody is one.
LEMMA NumbersOf == Agents \in SUBSET Nat /\ IsFiniteSet(Agents) /\ Cardinality(Agents) = MaxAgents
                   /\ MaxAgents \in Nat /\ MaxConcurrent \in Nat /\ MaxConcurrent > 0
                      /\ MaxAgents > 0
                   /\ Main \notin Agents /\ NoOne \notin Agents /\ NoOne \notin Actors
<1>1. MaxAgents \in Nat /\ MaxConcurrent \in Nat /\ MaxConcurrent > 0 /\ MaxAgents > 0
  BY TeamAssumption
<1>2. IsFiniteSet(1 .. MaxAgents) /\ Cardinality(1 .. MaxAgents) = IF 1 > MaxAgents
                                                                   THEN 0 ELSE MaxAgents - 1 + 1
  BY <1>1, FS_Interval
<1>3. IsFiniteSet(1 .. MaxAgents) /\ Cardinality(1 .. MaxAgents) = MaxAgents
  BY <1>1, <1>2
<1> QED
  BY <1>1, <1>3 DEF Agents, Main, NoOne, Actors

\* Each place in the order of the agents of a set has its agent.
LEMMA Ranks ==
  ASSUME NEW S \in SUBSET Agents, NEW k \in 1 .. Cardinality(S)
  PROVE  \E x \in S : Cardinality({y \in S : y < x}) = k - 1
<1> DEFINE Has(s) == \A j \in 1 .. Cardinality(s) : \E x \in s : Cardinality({y \in s : y < x}) =
               j - 1
           T == {s \in SUBSET (1 .. MaxAgents) : Has(s)}
<1>0. MaxAgents \in Nat
  BY NumbersOf
<1>1. {} \in T
  BY FS_EmptySet
<1>2. ASSUME NEW s \in SUBSET (1 .. MaxAgents), s # {}, s \ {Max(s)} \in T PROVE s \in T
  <2> DEFINE m == Max(s)
             r == s \ {m}
  <2>1. m \in s /\ r \in SUBSET (1 .. MaxAgents) /\ Cardinality(r) = Cardinality(s) - 1
        /\ Cardinality(s) \in Nat /\ Cardinality(r) \in Nat
    BY <1>0, <1>2, Positions
  <2>2. \A x \in s : x <= m
    BY <1>0, <1>2, GreatestOf
  <2>0. \A x \in s : x \in Nat
    BY <1>0
  <2>r. r = s \ {m}
    OBVIOUS
  <2>h. Has(r)
    BY <1>2
  <2> HIDE DEF m, r
  <2>3. ASSUME NEW x \in r PROVE {y \in s : y < x} = {y \in r : y < x}
    <3>1. x \in s /\ x <= m /\ x \in Nat /\ m \in Nat
      BY <2>0, <2>1, <2>2, <2>r
    <3>2. ~ (m < x)
      BY <3>1
    <3> QED
      BY <3>1, <3>2, <2>r
  <2>4. {y \in s : y < m} = r
    <3>1. ASSUME NEW y \in r PROVE y < m
      <4>1. y \in s /\ y <= m /\ y # m /\ y \in Nat /\ m \in Nat
        BY <2>0, <2>1, <2>2, <2>r
      <4> QED
        BY <4>1
    <3>2. ~ (m < m)
      BY <2>0, <2>1
    <3> QED
      BY <3>1, <3>2, <2>r
  <2>5. ASSUME NEW j \in 1 .. Cardinality(s)
        PROVE  \E x \in s : Cardinality({y \in s : y < x}) = j - 1
    <3>1. CASE j = Cardinality(s)
      BY <2>1, <2>4, <3>1
    <3>2. CASE j # Cardinality(s)
      <4>1. j \in 1 .. Cardinality(r)
        BY <2>1, <3>2
      <4>2. Has(r)
        BY <2>h
      <4>3. PICK x \in r : Cardinality({y \in r : y < x}) = j - 1
        BY <4>1, <4>2
      <4>4. x \in s
        BY <4>3, <2>r
      <4> QED
        BY <2>3, <4>3, <4>4
    <3> QED
      BY <3>1, <3>2
  <2> QED
    BY <2>5
<1>3. SUBSET (1 .. MaxAgents) \subseteq T
  <2> HIDE DEF T
  <2> QED BY <1>0, <1>1, <1>2, SubsetsByMax
<1>4. Has(S)
  BY <1>3 DEF Agents
<1> QED
  BY <1>4

\* InOrder lists the agents of a set, each once.
LEMMA InOrderLists ==
  ASSUME NEW S \in SUBSET Agents
  PROVE  /\ InOrder(S) \in Seq(S) /\ Len(InOrder(S)) = Cardinality(S)
         /\ InOrder(S) \in [1 .. Cardinality(S) -> S] /\ Cardinality(S) \in Nat
         /\ DOMAIN InOrder(S) = 1 .. Cardinality(S)
         /\ \A i, j \in 1 .. Cardinality(S) : InOrder(S)[i] = InOrder(S)[j] => i = j
<1> DEFINE k == Cardinality(S)
           At(n) == CHOOSE x \in S : Cardinality({y \in S : y < x}) = n - 1
<1>1. k \in Nat
  BY NumbersOf, Positions DEF Agents
<1>2. ASSUME NEW n \in 1 .. k
      PROVE  At(n) \in S /\ Cardinality({y \in S : y < At(n)}) = n - 1
  BY Ranks
<1>3. InOrder(S) = [n \in 1 .. k |-> At(n)]
  BY DEF InOrder
<1> HIDE DEF At
<1>4. InOrder(S) \in [1 .. k -> S]
  BY <1>2, <1>3
<1>5. ASSUME NEW i \in 1 .. k, NEW j \in 1 .. k, InOrder(S)[i] = InOrder(S)[j] PROVE i = j
  <2>1. At(i) = At(j)
    BY <1>3, <1>5
  <2>2. i - 1 = j - 1
    BY <1>2, <2>1
  <2> QED
    BY <2>2
<1>6. InOrder(S) \in Seq(S) /\ Len(InOrder(S)) = k
  BY <1>1, <1>4
<1> QED
  BY <1>1, <1>4, <1>5, <1>6

\* The order in which subagents stop lists agents.
LEMMA StopOrderTyped ==
  ASSUME NEW t, NEW S \in SUBSET Agents
  PROVE  StopOrder(t, S) \in Seq(Agents)
<1>1. ASSUME NEW R \in SUBSET Agents PROVE InOrder(R) \in Seq(Agents)
  <2>1. InOrder(R) \in [1 .. Cardinality(R) -> R] /\ Cardinality(R) \in Nat
    BY InOrderLists
  <2>2. InOrder(R) \in [1 .. Cardinality(R) -> Agents]
    BY <2>1
  <2> QED
    BY <2>1, <2>2
<1>2. {a \in S : t.state[a] = "queued"} \in SUBSET Agents
      /\ {a \in S : t.state[a] # "queued"} \in SUBSET Agents
  OBVIOUS
<1>3. InOrder({a \in S : t.state[a] = "queued"}) \in Seq(Agents)
  BY <1>1, <1>2
<1>4. InOrder({a \in S : t.state[a] # "queued"}) \in Seq(Agents)
  BY <1>1, <1>2
<1> QED
  BY <1>3, <1>4 DEF StopOrder

\* How many there are of a set of agents.
LEMMA Counts ==
  ASSUME NEW S \in SUBSET Agents
  PROVE  /\ IsFiniteSet(S) /\ Cardinality(S) \in Nat /\ Cardinality(S) <= MaxAgents
         /\ \A R \in SUBSET S : Cardinality(R) <= Cardinality(S)
         /\ \A a \in Agents : \A R \in SUBSET (S \cup {a}) : Cardinality(R) <= Cardinality(S) + 1
         /\ \A a \in Agents : a \notin S => Cardinality(S \cup {a}) = Cardinality(S) + 1
<1>1. IsFiniteSet(S) /\ Cardinality(S) <= MaxAgents
  BY NumbersOf, FS_Subset
<1>2. Cardinality(S) \in Nat
  BY <1>1, FS_CardinalityType
<1>3. \A R \in SUBSET S : Cardinality(R) <= Cardinality(S)
  BY <1>1, FS_Subset
<1>4. ASSUME NEW a \in Agents
      PROVE  /\ IsFiniteSet(S \cup {a})
             /\ Cardinality(S \cup {a}) = IF a \in S THEN Cardinality(S) ELSE Cardinality(S) + 1
  BY <1>1, FS_AddElement
<1>5. ASSUME NEW a \in Agents, NEW R \in SUBSET (S \cup {a})
      PROVE  Cardinality(R) <= Cardinality(S) + 1
  <2>1. Cardinality(R) <= Cardinality(S \cup {a}) /\ IsFiniteSet(R)
    BY <1>4, FS_Subset
  <2>2. Cardinality(R) \in Nat
    BY <2>1, FS_CardinalityType
  <2> QED
    BY <1>2, <1>4, <2>1, <2>2
<1>6. ASSUME NEW a \in Agents, a \notin S PROVE Cardinality(S \cup {a}) = Cardinality(S) + 1
  BY <1>4, <1>6
<1> QED
  BY <1>1, <1>2, <1>3, <1>5, <1>6

------------------------------------------------------------------------------
(* The invariant *)

\* A stop under way, by its record in Mark.
Frames == [todo : Seq(Agents), on : Agents \cup {NoOne}, own : BOOLEAN, held : BOOLEAN,
           wait : Agents \cup {NoOne}]

\* The stop of an agent under way, if any.
Stops == {<<>>} \cup {<<f>> : f \in Frames}

\* The teams whose fields have their types: TypeOK, and the frames of the stops.
Teams ==
    [state : [Agents -> States], parent : [Agents -> Actors \cup {NoOne}],
     blocking : [Agents -> BOOLEAN], wait : [Agents -> Agents \cup {NoOne}],
     after : [Agents -> SUBSET Agents], ran : [Agents -> BOOLEAN], owed : [Agents -> SUBSET Agents],
     inbox : [Agents -> SUBSET Actors], unread : [Agents -> SUBSET Actors],
     resume : [Agents -> SUBSET Actors], held : [Agents -> BOOLEAN],
     going : [Agents -> {"no", "on", "run", "rest"}],
     question : [Agents -> Actors \cup {NoOne}], call : [Agents -> Agents \cup {NoOne}],
     stop : [Agents -> Stops], line : Seq(Agents),
     opening : SUBSET Agents, prompting : SUBSET Agents, resting : SUBSET Agents,
     continuing : SUBSET Agents, silent : SUBSET Agents, peerRuns : SUBSET Agents,
     owesMain : SUBSET Agents, overlap : SUBSET Agents, reentered : BOOLEAN]

\* Who goes on from the line stands in it.
InLine(t) == \A a \in Agents : t.going[a] # "no" => \E i \in 1 .. Len(t.line) : t.line[i] = a

\* The stop of a under way detaches c when it aborts.
Leaves(t, a, c) == Ending(t, a) /\ t.stop[a][1].wait = c

\* A subagent that blocks has a parent that waits in a wait: true call for it, or whose stop
\* still holds that call.
Blocks(t) ==
    \A c \in Agents : t.blocking[c] =>
        t.parent[c] \in Agents /\ (t.wait[t.parent[c]] = c \/ Leaves(t, t.parent[c], c))

\* A stop that came to its abort, unless it is that of x, has let the wait of its call go.
Detached(t, x) ==
    \A a \in Agents : a # x /\ Aborting(t, a)
    /\ t.stop[a][1].wait # NoOne => ~t.blocking[t.stop[a][1].wait]

\* An agent whose stop is under way works only in a run that overlaps the stop.
Overlaps(t) ==
    \A a \in Agents : Ending(t, a) =>
        a \in t.overlap \/ (t.state[a] \in {"stopped", "queued", "asking"} /\ t.going[a] = "no")

\* A wait: true call waits for an agent that was spawned.
WaitKnown(t) ==
    \A a, c \in Agents : t.wait[a] = c \/ Leaves(t, a, c) => Known(t, c)

\* Who waits in a wait: true call runs or is in line again, and asks nobody.
Waits(t) ==
    \A a \in Agents : t.wait[a] # NoOne => t.state[a] \in {"running", "asking"}
    /\ t.question[a] = NoOne

\* Who waits for an answer is asking.
Asks(t) == \A a \in Agents : t.question[a] # NoOne => t.state[a] = "asking"

\* A session opens for an agent that starts.
Opens(t) == \A a \in t.opening : t.state[a] = "starting"

\* Who sleeps runs, or its stop is under way and, unless it is that of x, not yet at its abort.
Rests(t, x) ==
    \A a \in t.resting : /\ t.wait[a] = NoOne
                         /\ t.state[a] = "running" \/ (Ending(t, a) /\ (a = x \/ ~Aborting(t, a)))

\* Every agent spawned has a parent.
Parents(t) == \A a \in Agents : Known(t, a) => t.parent[a] \in Actors

\* What the records say of each other between two steps of a handler.  A handler may break what
\* Sound says of the stop of x, which it is about to bring on.
Sound(t, x) ==
    /\ InLine(t) /\ Blocks(t) /\ Detached(t, x) /\ Overlaps(t) /\ WaitKnown(t)
    /\ Waits(t) /\ Asks(t) /\ Opens(t) /\ Rests(t, x) /\ Parents(t)

\* The agents that SlotsHold counts.
Counted(t) == {a \in Agents : /\ t.state[a] \in ActiveStates /\ t.wait[a] = NoOne
                              /\ a \notin t.resting /\ a \notin t.overlap}

\* They are no more than the slots.
Few(t) == Cardinality(Counted(t)) <= MaxConcurrent

\* The invariant: the team has its types, is sound, and no more work than there are slots.  In
\* a handler that brings on the stop of x it is Good(t, x), and NoOne between handlers.
Good(t, x) == t \in Teams /\ Sound(t, x) /\ Few(t)

\* What the line may change, and what it leaves alone.
SameFrames(t, u) ==
    \A b \in Agents : /\ Ending(u, b) <=> Ending(t, b)
                      /\ Ending(t, b) => /\ u.stop[b][1].todo = t.stop[b][1].todo
                                         /\ u.stop[b][1].on = t.stop[b][1].on
                                         /\ u.stop[b][1].wait = t.stop[b][1].wait

\* The line leaves parents, waits, questions, sleeps and stops alone.
Keeps(t, u) ==
    /\ u.parent = t.parent /\ u.blocking = t.blocking /\ u.wait = t.wait
    /\ u.question = t.question /\ u.resting = t.resting /\ t.overlap \subseteq u.overlap
    /\ u.after = t.after
    /\ SameFrames(t, u)

\* Whoever changes its state goes on, or is in line to.
Turns(t, u) == \A b \in Agents : u.state[b] \in {t.state[b], "queued", "starting", "running"}

------------------------------------------------------------------------------
(* Types *)

\* A stop under way has one frame.
LEMMA FramesOf ==
  ASSUME NEW t \in Teams, NEW a \in Agents
  PROVE  /\ t.stop[a] \in Stops
         /\ Ending(t, a) => t.stop[a][1] \in Frames /\ t.stop[a] = <<t.stop[a][1]>>
            /\ Len(t.stop[a]) = 1
<1>1. t.stop[a] \in Stops
  BY DEF Teams
<1>2. ASSUME Ending(t, a)
      PROVE  t.stop[a][1] \in Frames /\ t.stop[a] = <<t.stop[a][1]>> /\ Len(t.stop[a]) = 1
  <2>1. PICK f \in Frames : t.stop[a] = <<f>>
    BY <1>1, <1>2 DEF Stops, Ending
  <2> QED
    BY <2>1
<1> QED
  BY <1>1, <1>2

\* run keeps the types.
LEMMA RunTyped ==
  ASSUME NEW t \in Teams, NEW a \in Agents
  PROVE  Run(t, a) \in Teams
<1>1. [t EXCEPT !.state[a] = "running", !.ran[a] = TRUE,
                   !.prompting = @ \cup {a}, !.continuing = @ \ {a}] \in Teams
  BY ZenonT(40) DEF Teams, States, LiveStates
<1> QED
  BY <1>1 DEF Run

\* Steering keeps the types.
LEMMA SteerTyped ==
  ASSUME NEW t \in Teams, NEW a \in Agents
  PROVE  SteerInbox(t, a) \in Teams
<1>1. [t EXCEPT !.unread[a] = @ \cup t.inbox[a], !.inbox[a] = {}] \in Teams
  BY DEF Teams
<1> QED
  BY <1>1 DEF SteerInbox

\* Going on from the line keeps the types.
LEMMA GoTyped ==
  ASSUME NEW t \in Teams, NEW a \in Agents, NEW how \in {"on", "run", "rest"}
  PROVE  Go(t, a, how) \in Teams
<1>1. [t EXCEPT !.state[a] = "running"] \in Teams
  BY DEF Teams, States, LiveStates
<1>2. [t EXCEPT !.inbox[a] = {}] \in Teams
  BY DEF Teams
<1>3. how = "on" \/ how = "run" \/ how = "rest"
  OBVIOUS
<1>4. CASE how = "on"
  BY <1>1, <1>4 DEF Go
<1>5. CASE how = "run"
  BY <1>2, <1>5, RunTyped DEF Go
<1>6. CASE how = "rest"
  BY <1>1, <1>6, SteerTyped DEF Go
<1> QED
  BY <1>3, <1>4, <1>5, <1>6

\* start keeps the types.
LEMMA StartTyped ==
  ASSUME NEW t \in Teams, NEW a \in Agents
  PROVE  Start(t, a) \in Teams
<1> DEFINE s == IF t.stop[a] = <<>> THEN t.stop[a] ELSE <<[t.stop[a][1] EXCEPT !.own = FALSE]>>
           o == IF t.stop[a] = <<>> THEN t.overlap ELSE t.overlap \cup {a}
<1>1. s \in Stops
  <2>1. ASSUME NEW f \in Frames PROVE [f EXCEPT !.own = FALSE] \in Frames
    BY DEF Frames
  <2> QED
    BY <2>1, FramesOf DEF Stops, Ending
<1>2. o \in SUBSET Agents
  BY DEF Teams
<1> HIDE DEF s, o
<1>3. [t EXCEPT !.state[a] = "starting", !.opening = @ \cup {a}, !.prompting = @ \ {a},
              !.overlap = o, !.stop[a] = s] \in Teams
  BY ZenonT(40), <1>1, <1>2 DEF Teams, States, LiveStates
<1> QED
  BY <1>3 DEF Start, s, o

\* m has what l has, and a.
Grown(l, m, a) ==
    /\ \A i \in 1 .. Len(l) : \E j \in 1 .. Len(m) : m[j] = l[i]
    /\ \E j \in 1 .. Len(m) : m[j] = a

\* The line is a sequence, whatever joins or leaves it.
LEMMA LineGrows ==
  ASSUME NEW l \in Seq(Agents), NEW a \in Agents
  PROVE  /\ Append(l, a) \in Seq(Agents) /\ <<a>> \o l \in Seq(Agents)
         /\ Grown(l, Append(l, a), a) /\ Grown(l, <<a>> \o l, a)
<1>1. Append(l, a) \in Seq(Agents) /\ Len(Append(l, a)) = Len(l) + 1 /\ Append(l, a)[Len(l) + 1] = a
      /\ Len(l) \in Nat /\ \A i \in 1 .. Len(l) : Append(l, a)[i] = l[i]
  OBVIOUS
<1>2. <<a>> \o l \in Seq(Agents) /\ Len(<<a>> \o l) = Len(l) + 1 /\ (<<a>> \o l)[1] = a
      /\ \A i \in 1 .. Len(l) : (<<a>> \o l)[i + 1] = l[i]
  OBVIOUS
<1>3. ASSUME NEW i \in 1 .. Len(l)
      PROVE  i \in 1 .. Len(Append(l, a)) /\ i + 1 \in 1 .. Len(<<a>> \o l)
  BY <1>1, <1>2
<1>4. Len(l) + 1 \in 1 .. Len(Append(l, a)) /\ 1 \in 1 .. Len(<<a>> \o l)
  BY <1>1, <1>2
<1>5. Grown(l, Append(l, a), a)
  <2>1. ASSUME NEW i \in 1 .. Len(l) PROVE \E j \in 1 .. Len(Append(l, a)) : Append(l, a)[j] = l[i]
    BY <1>1, <1>3
  <2> QED
    BY <1>1, <1>4, <2>1 DEF Grown
<1>6. Grown(l, <<a>> \o l, a)
  <2>1. ASSUME NEW i \in 1 .. Len(l) PROVE \E j \in 1 .. Len(<<a>> \o l) : (<<a>> \o l)[j] = l[i]
    BY <1>2, <1>3
  <2> QED
    BY <1>2, <1>4, <2>1 DEF Grown
<1> QED
  BY <1>1, <1>2, <1>5, <1>6

\* Joining the line keeps the types.
LEMMA EnqueueTyped ==
  ASSUME NEW t \in Teams, NEW a \in Agents, NEW first \in BOOLEAN
  PROVE  Enqueue(t, a, first) \in Teams
<1> DEFINE l == IF first THEN <<a>> \o t.line ELSE Append(t.line, a)
<1>1. l \in Seq(Agents)
  <2>1. t.line \in Seq(Agents)
    BY DEF Teams
  <2> QED
    BY <2>1, LineGrows
<1> HIDE DEF l
<1>2. [t EXCEPT !.line = l] \in Teams
  BY <1>1 DEF Teams
<1> QED
  BY <1>2 DEF Enqueue, l

\* Where SelectInSeq looks: the first of a set of places, if there is one.
LEMMA Selects ==
  ASSUME NEW l \in Seq(Agents), NEW I \in SUBSET (1 .. Len(l))
  PROVE  (IF I # {} THEN Min(I) ELSE 0) \in 0 .. Len(l) /\ (I # {} => Min(I) \in I)
<1>1. Len(l) \in Nat
  OBVIOUS
<1>2. ASSUME I # {} PROVE Min(I) \in I
  <2>1. I \in SUBSET Nat
    BY <1>1
  <2>2. \E m \in I : \A x \in I : m <= x
    BY <1>2, <2>1, LeastOf
  <2> QED
    BY <2>2 DEF Min
<1>3. CASE I = {}
  BY <1>1, <1>3
<1>4. CASE I # {}
  <2>1. Min(I) \in I /\ Min(I) \in 1 .. Len(l)
    BY <1>2, <1>4
  <2>2. Min(I) \in 0 .. Len(l)
    BY <1>1, <2>1
  <2> QED
    BY <1>4, <2>1, <2>2
<1> QED
  BY <1>3, <1>4

\* Who goes on joins the line where it says, and nobody leaves.
LEMMA LineInserts ==
  ASSUME NEW l \in Seq(Agents), NEW a \in Agents, NEW at \in 1 .. Len(l)
  PROVE  /\ InsertAt(l, at, a) \in Seq(Agents)
         /\ Grown(l, InsertAt(l, at, a), a)
<1> DEFINE b == SubSeq(l, 1, at - 1)
           c == SubSeq(l, at, Len(l))
           n == Len(l)
<1>0. n \in Nat /\ at \in Nat /\ 1 <= at /\ at <= n
  OBVIOUS
<1>1. b \in Seq(Agents) /\ Len(b) = at - 1 /\ \A i \in 1 .. at - 1 : b[i] = l[i]
  BY <1>0
<1>2. c \in Seq(Agents) /\ Len(c) = n - at + 1 /\ \A i \in 1 .. n - at + 1 : c[i] = l[at + i - 1]
  BY <1>0
<1> HIDE DEF b, c
<1> DEFINE d == b \o <<a>>
<1>3. d \in Seq(Agents) /\ Len(d) = at /\ d[at] = a /\ \A i \in 1 .. at - 1 : d[i] = l[i]
  BY <1>0, <1>1
<1> HIDE DEF d
<1> DEFINE e == d \o c
<1>c. e \in Seq(Agents) /\ Len(e) = Len(d) + Len(c)
      /\ \A i \in 1 .. Len(d) + Len(c) : e[i] = IF i <= Len(d) THEN d[i] ELSE c[i - Len(d)]
  BY <1>2, <1>3, ConcatProperties
<1> HIDE DEF e
<1>4. e \in Seq(Agents) /\ Len(e) = n + 1 /\ \A i \in 1 .. at : e[i] = d[i]
  BY <1>0, <1>2, <1>3, <1>c
<1>5. ASSUME NEW i \in 1 .. n - at + 1 PROVE e[at + i] = c[i]
  <2>1. at + i \in 1 .. Len(d) + Len(c) /\ at + i > Len(d) /\ at + i - Len(d) = i
    BY <1>0, <1>2, <1>3
  <2> QED
    BY <1>3, <1>c, <2>1
<1>6. InsertAt(l, at, a) = e
  BY DEF InsertAt, e, d, b, c
<1>7. ASSUME NEW i \in 1 .. n PROVE \E j \in 1 .. n + 1 : e[j] = l[i]
  <2>1. CASE i < at
    <3>1. i \in 1 .. at - 1 /\ i \in 1 .. at /\ i \in 1 .. n + 1
      BY <1>0, <2>1
    <3>2. e[i] = l[i]
      BY <1>3, <1>4, <3>1
    <3> QED
      BY <3>1, <3>2
  <2>2. CASE ~ (i < at)
    <3>1. i - at + 1 \in 1 .. n - at + 1 /\ at + (i - at + 1) = i + 1 /\ i + 1 \in 1 .. n + 1
          /\ at + (i - at + 1) - 1 = i
      BY <1>0, <2>2
    <3>2. e[i + 1] = c[i - at + 1] /\ c[i - at + 1] = l[i]
      BY <1>2, <1>5, <3>1
    <3> QED
      BY <3>1, <3>2
  <2> QED
    BY <2>1, <2>2
<1>8. \E j \in 1 .. n + 1 : e[j] = a
  <2>1. at \in 1 .. n + 1 /\ at \in 1 .. at
    BY <1>0
  <2>2. e[at] = a
    BY <1>3, <1>4, <2>1
  <2> QED
    BY <2>1, <2>2
<1>9. Grown(l, e, a)
  BY <1>4, <1>7, <1>8 DEF Grown
<1> QED
  BY <1>4, <1>6, <1>9

\* Who leaves the line is the only one to leave.
LEMMA LineLoses ==
  ASSUME NEW l \in Seq(Agents), NEW a \in Agents
  PROVE  /\ RemoveFirst(l, a) \in Seq(Agents)
         /\ \A i \in 1 .. Len(l) : l[i] # a =>
              \E j \in 1 .. Len(RemoveFirst(l, a)) : RemoveFirst(l, a)[j] = l[i]
<1>1. CASE ~ \E i \in 1 .. Len(l) : l[i] = a
  <2>1. RemoveFirst(l, a) = l
    BY <1>1 DEF RemoveFirst
  <2> QED
    BY <2>1
<1>2. CASE \E i \in 1 .. Len(l) : l[i] = a
  <2> DEFINE n == Len(l)
             I == {i \in 1 .. Len(l) : l[i] = a}
             at == IF I # {} THEN Min(I) ELSE 0
  <2>0. n \in Nat
    OBVIOUS
  <2>1. at \in 1 .. n /\ l[at] = a
    <3>1. I \in SUBSET (1 .. Len(l)) /\ I # {}
      BY <1>2
    <3>2. Min(I) \in I
      <4> HIDE DEF I
      <4> QED BY <3>1, Selects
    <3> QED
      BY <3>1, <3>2
  <2>2. RemoveFirst(l, a) = SubSeq(l, 1, at - 1) \o SubSeq(l, at + 1, Len(l))
    BY <1>2 DEF RemoveFirst, RemoveAt, SelectInSeq
  <2> HIDE DEF at
  <2> DEFINE b == SubSeq(l, 1, at - 1)
             c == SubSeq(l, at + 1, Len(l))
             e == b \o c
  <2>3. b \in Seq(Agents) /\ Len(b) = at - 1 /\ \A i \in 1 .. at - 1 : b[i] = l[i]
    BY <2>0, <2>1
  <2>4. c \in Seq(Agents) /\ Len(c) = n - at /\ \A i \in 1 .. n - at : c[i] = l[at + i]
    BY <2>0, <2>1
  <2> HIDE DEF b, c
  <2>c. e \in Seq(Agents) /\ Len(e) = Len(b) + Len(c)
        /\ \A i \in 1 .. Len(b) + Len(c) : e[i] = IF i <= Len(b) THEN b[i] ELSE c[i - Len(b)]
    BY <2>3, <2>4, ConcatProperties
  <2> HIDE DEF e
  <2>5. e \in Seq(Agents) /\ Len(e) = n - 1 /\ \A i \in 1 .. at - 1 : e[i] = b[i]
    BY SMTT(30), <2>0, <2>1, <2>3, <2>4, <2>c
  <2>6. ASSUME NEW i \in 1 .. n - at PROVE e[at - 1 + i] = c[i]
    <3> DEFINE k == at - 1 + i
    <3>1. k \in 1 .. Len(b) + Len(c) /\ ~ (k <= Len(b)) /\ k - Len(b) = i
      BY <2>0, <2>1, <2>3, <2>4
    <3> HIDE DEF k
    <3>2. e[k] = c[i]
      BY <2>c, <3>1
    <3> QED
      BY <3>2 DEF k
  <2>7. RemoveFirst(l, a) = e
    BY <2>2 DEF b, c, e
  <2>8. ASSUME NEW i \in 1 .. n, l[i] # a PROVE \E j \in 1 .. n - 1 : e[j] = l[i]
    <3>1. CASE i < at
      <4>1. i \in 1 .. at - 1 /\ i \in 1 .. n - 1
        BY <2>0, <2>1, <3>1
      <4> QED
        BY <2>3, <2>5, <4>1
    <3>2. CASE ~ (i < at)
      <4>1. i # at
        BY <2>1, <2>8
      <4>2. i - at \in 1 .. n - at /\ at - 1 + (i - at) = i - 1 /\ i - 1 \in 1 .. n - 1
            /\ at + (i - at) = i
        BY <2>0, <2>1, <3>2, <4>1
      <4>3. e[i - 1] = c[i - at] /\ c[i - at] = l[i]
        BY <2>4, <2>6, <4>2
      <4> QED
        BY <4>2, <4>3
    <3> QED
      BY <3>1, <3>2
  <2> QED
    BY <2>5, <2>7, <2>8
<1> QED
  BY <1>1, <1>2

\* How the others go on is unchanged.
OthersGo(t, u, a) == \A b \in Agents : b # a => u.going[b] = t.going[b]

\* goOn keeps the types, and a stands in the line.
LEMMA GoOnTyped ==
  ASSUME NEW t \in Teams, NEW a \in Agents, NEW how \in {"on", "run", "rest"},
         NEW u, u = GoOn(t, a, how)
  PROVE  /\ u \in Teams /\ Grown(t.line, u.line, a) /\ u.going[a] = how
         /\ OthersGo(t, u, a)
<1> DEFINE I == {i \in 1 .. Len(t.line) : t.going[t.line[i]] = "no" /\ ~t.blocking[t.line[i]]}
           at == IF I # {} THEN Min(I) ELSE 0
           l == IF at = 0 THEN Append(t.line, a) ELSE InsertAt(t.line, at, a)
<1>1. t.line \in Seq(Agents)
  BY DEF Teams
<1>2. at \in 0 .. Len(t.line)
  <2>1. PICK J : J = I
    OBVIOUS
  <2>2. J \in SUBSET (1 .. Len(t.line))
    BY <2>1
  <2>3. (IF J # {} THEN Min(J) ELSE 0) \in 0 .. Len(t.line)
    BY <1>1, <2>2, Selects
  <2> QED
    BY <2>1, <2>3
<1>3. u = [t EXCEPT !.going[a] = how, !.line = l]
  BY DEF GoOn, SelectInSeq
<1> HIDE DEF at
<1>4. l \in Seq(Agents) /\ Grown(t.line, l, a)
  <2>1. CASE at = 0
    <3>1. l = Append(t.line, a)
      BY <2>1
    <3>2. l \in Seq(Agents)
      BY <1>1, <3>1, LineGrows
    <3>3. Grown(t.line, Append(t.line, a), a)
      BY <1>1, LineGrows
    <3> QED
      BY <3>1, <3>2, <3>3
  <2>2. CASE at # 0
    <3>1. at \in 1 .. Len(t.line)
      BY <1>1, <1>2, <2>2
    <3>2. l = InsertAt(t.line, at, a)
      BY <2>2
    <3>3. PICK k, m : k = t.line /\ m = at
      OBVIOUS
    <3>4. k \in Seq(Agents) /\ m \in 1 .. Len(k)
      BY <1>1, <3>1, <3>3
    <3>5. InsertAt(k, m, a) \in Seq(Agents) /\ Grown(k, InsertAt(k, m, a), a)
      BY <3>4, LineInserts
    <3> QED
      BY <3>2, <3>3, <3>5
  <2> QED
    BY <2>1, <2>2
<1> HIDE DEF l
<1>5. [t EXCEPT !.going[a] = how, !.line = l] \in Teams
  BY <1>4 DEF Teams
<1>6. [t EXCEPT !.going[a] = how, !.line = l].line = l
      /\ [t EXCEPT !.going[a] = how, !.line = l].going = [t.going EXCEPT ![a] = how]
  BY DEF Teams
<1>7. u.going[a] = how /\ \A b \in Agents : b # a => u.going[b] = t.going[b]
  BY <1>3, <1>6 DEF Teams
<1> QED
  BY <1>3, <1>4, <1>5, <1>6, <1>7 DEF OthersGo

------------------------------------------------------------------------------
(* Changes that keep a team sound *)

\* The state of a becomes s, the rest of the records stays, and mail, the line and launches may
\* change.
Moves(t, u, a, s) ==
    /\ Keeps(t, u) /\ InLine(u)
    /\ u.state = [t.state EXCEPT ![a] = s]
    /\ \A b \in Agents : b # a => u.going[b] \in {"no", t.going[b]}
    /\ u.opening \subseteq t.opening \cup {a}
    /\ Known(t, a) <=> s # "none"
    /\ Ending(t, a) => a \in u.overlap \/ (s \in {"stopped", "queued", "asking"}
       /\ u.going[a] = "no")
    /\ t.wait[a] = NoOne \/ (s \in {"running", "asking"} /\ t.question[a] = NoOne)
    /\ t.question[a] = NoOne \/ s = "asking"
    /\ a \in u.opening => s = "starting"
    /\ a \in t.resting => s = "running" \/ t.state[a] # "running"

\* With the same frames, the same stops come to their aborts.
LEMMA KeepsAborting ==
  ASSUME NEW t, NEW u, SameFrames(t, u), NEW b \in Agents
  PROVE  /\ (Ending(u, b) <=> Ending(t, b)) /\ (Aborting(u, b) <=> Aborting(t, b))
         /\ \A c : Leaves(u, b, c) <=> Leaves(t, b, c)
         /\ Ending(t, b) => u.stop[b][1].wait = t.stop[b][1].wait
BY DEF SameFrames, Aborting, Leaves

\* Such a move keeps the team sound, and counts at most a besides.
LEMMA MoveSound ==
  ASSUME NEW t \in Teams, NEW u \in Teams, NEW x, Sound(t, x), NEW a \in Agents,
         NEW s, Moves(t, u, a, s)
  PROVE  /\ Sound(u, x)
         /\ Counted(u) \subseteq Counted(t) \cup {a}
         /\ s \notin ActiveStates => Counted(u) \subseteq Counted(t)
<1>0. Keeps(t, u)
  BY DEF Moves
<1>1. SameFrames(t, u) /\ u.parent = t.parent /\ u.blocking = t.blocking /\ u.wait = t.wait
      /\ u.question = t.question /\ u.resting = t.resting /\ t.overlap \subseteq u.overlap
  BY <1>0 DEF Keeps
<1>2. u.state[a] = s /\ \A b \in Agents : b # a => u.state[b] = t.state[b]
  BY DEF Moves, Teams
<1>3. \A b \in Agents : /\ (Ending(u, b) <=> Ending(t, b)) /\ (Aborting(u, b) <=> Aborting(t, b))
                        /\ \A c : Leaves(u, b, c) <=> Leaves(t, b, c)
                        /\ Ending(t, b) => u.stop[b][1].wait = t.stop[b][1].wait
  BY <1>1, KeepsAborting
<1>4. \A b \in Agents : Known(u, b) <=> Known(t, b)
  BY <1>2 DEF Known, Moves
<1>t. /\ t.parent \in [Agents -> Actors \cup {NoOne}] /\ t.wait \in [Agents -> Agents \cup {NoOne}]
      /\ t.opening \subseteq Agents /\ u.opening \subseteq Agents /\ t.resting \subseteq Agents
  BY DEF Teams
<1>5. Blocks(u)
  BY <1>1, <1>3 DEF Sound, Blocks
<1>6. Detached(u, x)
  <2>1. \A b \in Agents : Aborting(t, b) => Ending(t, b)
    BY DEF Aborting
  <2> QED
    BY <1>1, <1>3, <2>1 DEF Sound, Detached
<1>7. Overlaps(u)
  <2> SUFFICES ASSUME NEW b \in Agents, Ending(u, b)
               PROVE  b \in u.overlap \/ (u.state[b] \in {"stopped", "queued", "asking"}
                      /\ u.going[b] = "no")
    BY DEF Overlaps
  <2>1. CASE b = a
    BY <1>2, <1>3, <2>1 DEF Moves
  <2>2. CASE b # a
    <3>1. u.going[b] \in {"no", t.going[b]} /\ u.state[b] = t.state[b] /\ Ending(t, b)
      BY <1>2, <1>3, <2>2 DEF Moves
    <3> QED
      BY <1>1, <3>1 DEF Sound, Overlaps
  <2> QED
    BY <2>1, <2>2
<1>8. WaitKnown(u)
  BY <1>1, <1>3, <1>4 DEF Sound, WaitKnown
<1>9. Waits(u)
  <2> SUFFICES ASSUME NEW b \in Agents, u.wait[b] # NoOne
               PROVE  u.state[b] \in {"running", "asking"} /\ u.question[b] = NoOne
    BY DEF Waits
  <2>1. CASE b = a
    BY <1>1, <1>2, <2>1 DEF Moves
  <2>2. CASE b # a
    BY <1>1, <1>2, <2>2 DEF Sound, Waits
  <2> QED
    BY <2>1, <2>2
<1>10. Asks(u)
  <2> SUFFICES ASSUME NEW b \in Agents, u.question[b] # NoOne
               PROVE  u.state[b] = "asking"
    BY DEF Asks
  <2>1. CASE b = a
    BY <1>1, <1>2, <2>1 DEF Moves
  <2>2. CASE b # a
    BY <1>1, <1>2, <2>2 DEF Sound, Asks
  <2> QED
    BY <2>1, <2>2
<1>11. Opens(u)
  <2> SUFFICES ASSUME NEW b \in u.opening PROVE u.state[b] = "starting"
    BY DEF Opens
  <2>1. CASE b = a
    BY <1>2, <2>1 DEF Moves
  <2>2. CASE b # a
    <3>1. b \in t.opening /\ b \in Agents
      BY <1>t, <2>2 DEF Moves
    <3> QED
      BY <1>2, <2>2, <3>1 DEF Sound, Opens
  <2> QED
    BY <2>1, <2>2
<1>12. Rests(u, x)
  <2> SUFFICES ASSUME NEW b \in u.resting
               PROVE  /\ u.wait[b] = NoOne
                      /\ u.state[b] = "running" \/ (Ending(u, b) /\ (b = x \/ ~Aborting(u, b)))
    BY DEF Rests
  <2>1. b \in t.resting /\ b \in Agents
    BY <1>1, <1>t
  <2>2. t.wait[b] = NoOne /\ (t.state[b] = "running" \/ (Ending(t, b)
        /\ (b = x \/ ~Aborting(t, b))))
    BY <2>1 DEF Sound, Rests
  <2>3. CASE b = a
    BY <1>1, <1>2, <1>3, <2>1, <2>2, <2>3 DEF Moves
  <2>4. CASE b # a
    BY <1>1, <1>2, <1>3, <2>1, <2>2, <2>4
  <2> QED
    BY <2>3, <2>4
<1>13. Parents(u)
  BY <1>1, <1>4 DEF Sound, Parents
<1>14. Sound(u, x)
  BY <1>5, <1>6, <1>7, <1>8, <1>9, <1>10, <1>11, <1>12, <1>13 DEF Sound, Moves
<1>15. ASSUME NEW b \in Counted(u), b # a PROVE b \in Counted(t)
  BY <1>1, <1>2, <1>15 DEF Counted
<1>16. s \notin ActiveStates => a \notin Counted(u)
  BY <1>2 DEF Counted
<1> QED
  BY <1>14, <1>15, <1>16

\* What the properties tell apart is unchanged, but for the line.
Stays(t, u) ==
    /\ Keeps(t, u) /\ u.state = t.state /\ u.going = t.going
    /\ u.opening \subseteq t.opening /\ u.overlap = t.overlap

\* What the properties tell apart is unchanged.
Same(t, u) == Stays(t, u) /\ u.line = t.line

\* Then a sound team stays sound, and the same agents are counted.
LEMMA StaysSound ==
  ASSUME NEW t \in Teams, NEW u \in Teams, NEW x, Sound(t, x), Stays(t, u), InLine(u)
  PROVE  Sound(u, x) /\ Counted(u) = Counted(t)
<1>1. SameFrames(t, u) /\ u.parent = t.parent /\ u.blocking = t.blocking /\ u.wait = t.wait
      /\ u.question = t.question /\ u.resting = t.resting /\ u.overlap = t.overlap
      /\ u.state = t.state /\ u.going = t.going /\ u.opening \subseteq t.opening
  BY DEF Stays, Keeps
<1>3. \A b \in Agents : /\ (Ending(u, b) <=> Ending(t, b)) /\ (Aborting(u, b) <=> Aborting(t, b))
                        /\ \A c : Leaves(u, b, c) <=> Leaves(t, b, c)
                        /\ Ending(t, b) => u.stop[b][1].wait = t.stop[b][1].wait
  BY <1>1, KeepsAborting
<1>t. t.parent \in [Agents -> Actors \cup {NoOne}] /\ t.resting \subseteq Agents
  BY DEF Teams
<1>5. Blocks(u)
  BY <1>1, <1>3 DEF Sound, Blocks
<1>6. Detached(u, x)
  <2>1. \A b \in Agents : Aborting(t, b) => Ending(t, b)
    BY DEF Aborting
  <2> QED
    BY <1>1, <1>3, <2>1 DEF Sound, Detached
<1>7. Overlaps(u)
  BY <1>1, <1>3 DEF Sound, Overlaps
<1>8. WaitKnown(u)
  BY <1>1, <1>3 DEF Sound, WaitKnown, Known
<1>9. Waits(u) /\ Asks(u)
  BY <1>1 DEF Sound, Waits, Asks
<1>11. Opens(u)
  BY <1>1 DEF Sound, Opens
<1>12. Rests(u, x)
  <2> SUFFICES ASSUME NEW b \in u.resting
               PROVE  /\ u.wait[b] = NoOne
                      /\ u.state[b] = "running" \/ (Ending(u, b) /\ (b = x \/ ~Aborting(u, b)))
    BY DEF Rests
  <2>1. b \in t.resting /\ b \in Agents
    BY <1>1, <1>t
  <2> QED
    BY <1>1, <1>3, <2>1 DEF Sound, Rests
<1>13. Parents(u)
  BY <1>1 DEF Sound, Parents, Known
<1>14. Counted(u) = Counted(t)
  BY <1>1 DEF Counted
<1> QED
  BY <1>5, <1>6, <1>7, <1>8, <1>9, <1>11, <1>12, <1>13, <1>14 DEF Sound

\* And no more agents work.
LEMMA SameSound ==
  ASSUME NEW t \in Teams, NEW u \in Teams, NEW x, Same(t, u), Sound(t, x)
  PROVE  Sound(u, x) /\ Counted(u) = Counted(t) /\ (Few(t) => Few(u))
<1>1. InLine(u)
  BY DEF Same, Stays, Sound, InLine
<1>2. Sound(u, x) /\ Counted(u) = Counted(t)
  BY <1>1, StaysSound DEF Same
<1> QED
  BY <1>2 DEF Few

\* How the count changes when at most one agent is counted besides.
LEMMA FewMore ==
  ASSUME NEW t \in Teams, NEW u \in Teams
  PROVE  /\ Counted(u) \subseteq Counted(t) => Cardinality(Counted(u)) <= Cardinality(Counted(t))
         /\ Counted(u) \subseteq Counted(t) /\ Few(t) => Few(u)
         /\ \A a \in Agents : Counted(u) \subseteq Counted(t) \cup {a} =>
               Cardinality(Counted(u)) <= Cardinality(Counted(t)) + 1
         /\ Cardinality(Counted(t)) \in Nat /\ Cardinality(Counted(u)) \in Nat
<1>1. Counted(t) \in SUBSET Agents /\ Counted(u) \in SUBSET Agents
  BY DEF Counted
<1>2. Cardinality(Counted(t)) \in Nat /\ Cardinality(Counted(u)) \in Nat /\ MaxConcurrent \in Nat
  BY <1>1, Counts, NumbersOf
<1>3. Counted(u) \subseteq Counted(t) => Cardinality(Counted(u)) <= Cardinality(Counted(t))
  BY <1>1, Counts
<1>4. ASSUME NEW a \in Agents, Counted(u) \subseteq Counted(t) \cup {a}
      PROVE  Cardinality(Counted(u)) <= Cardinality(Counted(t)) + 1
  BY <1>1, <1>4, Counts
<1>5. ASSUME Counted(u) \subseteq Counted(t), Few(t) PROVE Few(u)
  BY <1>2, <1>3, <1>5 DEF Few
<1> QED
  BY <1>2, <1>3, <1>4, <1>5

\* Who is counted works, as the slots count it: only its own subagent can block it.
LEMMA CountedWork ==
  ASSUME NEW t \in Teams, NEW x, Sound(t, x)
  PROVE  /\ Cardinality(Counted(t)) <= Used(t) /\ Used(t) \in Nat
         /\ Fits(t) => Few(t)
         /\ Free(t) => Cardinality(Counted(t)) + 1 <= MaxConcurrent
<1>1. ASSUME NEW a \in Counted(t) PROVE a \notin Blocked(t)
  <2> SUFFICES ASSUME NEW c \in Agents, t.blocking[c], t.parent[c] = a PROVE FALSE
    BY DEF Blocked
  <2>1. t.state[a] \in ActiveStates /\ t.wait[a] = NoOne /\ a \notin t.overlap /\ a \in Agents
    BY DEF Counted
  <2>2. t.wait[a] = c \/ Leaves(t, a, c)
    BY DEF Sound, Blocks
  <2>3. c # NoOne
    BY NumbersOf
  <2>4. Ending(t, a)
    BY <2>1, <2>2, <2>3 DEF Leaves
  <2> QED
    BY <2>1, <2>4 DEF Sound, Overlaps, ActiveStates
<1>2. Counted(t) \subseteq Working(t) /\ Working(t) \in SUBSET Agents
  BY <1>1 DEF Counted, Working
<1>3. Cardinality(Counted(t)) <= Used(t) /\ Used(t) \in Nat
  BY <1>2, Counts DEF Used
<1>4. Cardinality(Counted(t)) \in Nat /\ MaxConcurrent \in Nat
  BY FewMore, NumbersOf
<1> QED
  BY <1>3, <1>4 DEF Fits, Free, Few

------------------------------------------------------------------------------
(* pump: the line is let go *)

\* What a step of the line leaves of the fields the properties are about.
LEMMA RunLeaves ==
  ASSUME NEW t \in Teams, NEW a \in Agents, NEW u, u = Run(t, a)
  PROVE  /\ u.state = t.state \/ u.state = [t.state EXCEPT ![a] = "running"]
         /\ t.held[a] => u.state = [t.state EXCEPT ![a] = "running"]
         /\ Keeps(t, u) /\ u.line = t.line /\ u.going = t.going /\ u.opening = t.opening
         /\ u.overlap = t.overlap
BY DEF Teams, Run, Keeps, SameFrames, Ending

\* Going on from the line changes no state but that of a.
LEMMA GoLeaves ==
  ASSUME NEW t \in Teams, NEW a \in Agents, NEW how \in {"on", "run", "rest"},
         NEW u, u = Go(t, a, how)
  PROVE  /\ u.state = t.state \/ u.state = [t.state EXCEPT ![a] = "running"]
         /\ how # "run" => u.state = [t.state EXCEPT ![a] = "running"]
         /\ Keeps(t, u) /\ u.line = t.line /\ u.going = t.going /\ u.opening = t.opening
         /\ u.overlap = t.overlap
<1>1. CASE how = "on"
  BY <1>1 DEF Go, Teams, Keeps, SameFrames, Ending
<1>2. CASE how = "run"
  <2> DEFINE v == [t EXCEPT !.inbox[a] = {}]
  <2>1. v \in Teams /\ v.state = t.state /\ Keeps(t, v) /\ v.line = t.line /\ v.going = t.going
        /\ v.opening = t.opening /\ v.overlap = t.overlap
    BY DEF Teams, Keeps, SameFrames, Ending
  <2>2. u = Run(v, a)
    BY <1>2 DEF Go
  <2> HIDE DEF v
  <2>3. /\ u.state = v.state \/ u.state = [v.state EXCEPT ![a] = "running"]
        /\ Keeps(v, u) /\ u.line = v.line /\ u.going = v.going /\ u.opening = v.opening
        /\ u.overlap = v.overlap
    BY <2>1, <2>2, RunLeaves
  <2>4. Keeps(t, u)
    BY <2>1, <2>3 DEF Keeps, SameFrames
  <2> QED
    BY <1>2, <2>1, <2>3, <2>4
<1>3. CASE how = "rest"
  <2> DEFINE v == [t EXCEPT !.state[a] = "running"]
  <2>1. v \in Teams /\ v.state = [t.state EXCEPT ![a] = "running"] /\ Keeps(t, v) /\ v.line = t.line
        /\ v.going = t.going /\ v.opening = t.opening /\ v.overlap = t.overlap
    BY DEF Teams, Keeps, SameFrames, Ending, States, LiveStates
  <2>2. u = SteerInbox(v, a)
    BY <1>3 DEF Go
  <2> HIDE DEF v
  <2>3. u.state = v.state /\ Keeps(v, u) /\ u.line = v.line /\ u.going = v.going
        /\ u.opening = v.opening
        /\ u.overlap = v.overlap
    BY <2>2 DEF Teams, SteerInbox, Keeps, SameFrames, Ending
  <2>4. Keeps(t, u)
    BY <2>1, <2>3 DEF Keeps, SameFrames
  <2> QED
    BY <2>1, <2>3, <2>4
<1> QED
  BY <1>1, <1>2, <1>3

\* start changes no state but that of a, and marks a run that overlaps a stop.
LEMMA StartLeaves ==
  ASSUME NEW t \in Teams, NEW a \in Agents, NEW u, u = Start(t, a)
  PROVE  /\ u.state = [t.state EXCEPT ![a] = "starting"]
         /\ Keeps(t, u) /\ u.line = t.line /\ u.going = t.going /\ u.opening = t.opening \cup {a}
         /\ Ending(t, a) => a \in u.overlap
<1>1. /\ u.parent = t.parent /\ u.blocking = t.blocking /\ u.wait = t.wait
      /\ u.question = t.question /\ u.resting = t.resting /\ u.line = t.line /\ u.going = t.going
      /\ u.opening = t.opening \cup {a} /\ u.state = [t.state EXCEPT ![a] = "starting"]
  BY DEF Start, Teams
<1>2. u.overlap = IF t.stop[a] = <<>> THEN t.overlap ELSE t.overlap \cup {a}
  BY DEF Start, Teams
<1>3. u.stop = [t.stop EXCEPT ![a] = IF @ = <<>> THEN @ ELSE <<[@[1] EXCEPT !.own = FALSE]>>]
  BY DEF Start, Teams
<1>5. u.after = t.after
  BY DEF Start, Teams
<1>4. SameFrames(t, u)
  <2> SUFFICES ASSUME NEW b \in Agents
               PROVE  /\ Ending(u, b) <=> Ending(t, b)
                      /\ Ending(t, b) => /\ u.stop[b][1].todo = t.stop[b][1].todo
                                         /\ u.stop[b][1].on = t.stop[b][1].on
                                         /\ u.stop[b][1].wait = t.stop[b][1].wait
    BY DEF SameFrames
  <2>1. t.stop \in [Agents -> Stops]
    BY DEF Teams
  <2>2. CASE b # a \/ t.stop[b] = <<>>
    <3>1. u.stop[b] = t.stop[b]
      BY <1>3, <2>1, <2>2
    <3> QED
      BY <3>1 DEF Ending
  <2>3. CASE b = a /\ t.stop[b] # <<>>
    <3>1. t.stop[b][1] \in Frames
      BY <2>3, FramesOf DEF Ending
    <3>2. u.stop[b] = <<[t.stop[b][1] EXCEPT !.own = FALSE]>>
      BY <1>3, <2>1, <2>3
    <3>3. u.stop[b][1] = [t.stop[b][1] EXCEPT !.own = FALSE] /\ u.stop[b] # <<>>
      BY <3>2
    <3> QED
      BY <2>3, <3>1, <3>3 DEF Ending, Frames
  <2> QED
    BY <2>2, <2>3
<1> QED
  BY <1>1, <1>2, <1>4, <1>5 DEF Keeps, Ending

\* What a walk along the line changes of t0: it lets queued agents go.
Lets(t0, t) ==
    /\ Keeps(t0, t) /\ t0.opening \subseteq t.opening
    /\ \A b \in Agents : /\ t0.state[b] # "queued" => t.state[b] = t0.state[b]
                         /\ Known(t, b) <=> Known(t0, b)
                         /\ t.going[b] \in {"no", t0.going[b]}
                         /\ t.state[b] \in {t0.state[b], "starting", "running"}

\* A queued agent that moves is let go.
LEMMA LetsMore ==
  ASSUME NEW t0 \in Teams, NEW t \in Teams, NEW u \in Teams, NEW a \in Agents, NEW s,
         Lets(t0, t), Moves(t, u, a, s), t.opening \subseteq u.opening,
         s # t.state[a] => t.state[a] = "queued" /\ s \in ActiveStates,
         u.going[a] \in {"no", t.going[a]}
  PROVE  Lets(t0, u)
<1>1. Keeps(t0, u)
  BY DEF Lets, Moves, Keeps, SameFrames
<1>2. u.state = [t.state EXCEPT ![a] = s]
  BY DEF Moves
<1>3. t.state \in [Agents -> States]
  BY DEF Teams
<1>4. ASSUME NEW b \in Agents
      PROVE  /\ t0.state[b] # "queued" => u.state[b] = t0.state[b]
             /\ Known(u, b) <=> Known(t0, b)
             /\ u.going[b] \in {"no", t0.going[b]}
             /\ u.state[b] \in {t0.state[b], "starting", "running"}
  <2>1. /\ t0.state[b] # "queued" => t.state[b] = t0.state[b]
        /\ Known(t, b) <=> Known(t0, b)
        /\ t.going[b] \in {"no", t0.going[b]}
        /\ t.state[b] \in {t0.state[b], "starting", "running"}
    BY DEF Lets
  <2>2. CASE b = a
    <3>1. u.state[b] = s /\ (Known(t, a) <=> s # "none")
      BY <1>2, <1>3, <2>2 DEF Moves
    <3> QED
      BY <2>1, <2>2, <3>1 DEF Known, ActiveStates
  <2>3. CASE b # a
    <3>1. u.state[b] = t.state[b] /\ u.going[b] \in {"no", t.going[b]}
      BY <1>2, <1>3, <2>3 DEF Moves
    <3> QED
      BY <2>1, <3>1 DEF Known
  <2> QED
    BY <2>2, <2>3
<1> QED
  BY <1>1, <1>4 DEF Lets

\* a no longer goes on from the line.
Dropped(t, a) == [t EXCEPT !.going[a] = "no"]

\* Who goes on from the line moves to running, if it moves at all.
LEMMA GoMoves ==
  ASSUME NEW t \in Teams, NEW x, Sound(t, x), NEW a \in Agents, t.state[a] = "queued",
         NEW how \in {"on", "run", "rest"}, t.going[a] = how, NEW u, u = Go(Dropped(t, a), a, how)
  PROVE  /\ u \in Teams /\ u.line = t.line /\ u.opening = t.opening /\ u.going[a] = "no"
         /\ Moves(t, u, a, u.state[a]) /\ u.state[a] \in {"queued", "running"}
         /\ \A b \in Agents : b # a => u.going[b] = t.going[b]
<1> DEFINE v == Dropped(t, a)
<1>1. v \in Teams /\ v.state = t.state /\ Keeps(t, v) /\ v.line = t.line
      /\ v.going = [t.going EXCEPT ![a] = "no"] /\ v.opening = t.opening /\ v.overlap = t.overlap
  BY DEF Teams, Keeps, SameFrames, Ending, Dropped
<1>2. u = Go(v, a, how)
  OBVIOUS
<1> HIDE DEF v
<1>3. u \in Teams
  BY <1>1, <1>2, GoTyped
<1>4. /\ u.state = v.state \/ u.state = [v.state EXCEPT ![a] = "running"]
      /\ Keeps(v, u) /\ u.line = v.line /\ u.going = v.going /\ u.opening = v.opening
      /\ u.overlap = v.overlap
  BY <1>1, <1>2, GoLeaves
<1>5. Keeps(t, u) /\ u.overlap = t.overlap
  BY <1>1, <1>4 DEF Keeps, SameFrames
<1>6. t.state \in [Agents -> States] /\ t.going \in [Agents -> {"no", "on", "run", "rest"}]
  BY DEF Teams
<1>7. u.state = [t.state EXCEPT ![a] = u.state[a]] /\ u.state[a] \in {"queued", "running"}
  BY <1>1, <1>4, <1>6
<1>8. u.going = [t.going EXCEPT ![a] = "no"]
  BY <1>1, <1>4
<1>9. InLine(u)
  BY <1>1, <1>4, <1>6, <1>8 DEF Sound, InLine
<1>10. Ending(t, a) => a \in u.overlap \/ (u.state[a] \in {"stopped", "queued", "asking"}
       /\ u.going[a] = "no")
  BY <1>5 DEF Sound, Overlaps
<1>11. t.wait[a] = NoOne /\ t.question[a] = NoOne /\ a \notin t.opening
  BY DEF Sound, Waits, Asks, Opens
<1>12. u.opening = t.opening /\ u.line = t.line /\ u.going[a] = "no"
       /\ \A b \in Agents : b # a => u.going[b] = t.going[b]
  BY <1>1, <1>4, <1>6, <1>8
<1>13. Moves(t, u, a, u.state[a])
  BY <1>5, <1>7, <1>9, <1>10, <1>11, <1>12 DEF Moves, Known
<1> QED
  BY <1>3, <1>7, <1>12, <1>13

\* Who starts from the line moves to starting.
LEMMA StartMoves ==
  ASSUME NEW t \in Teams, NEW x, Sound(t, x), NEW a \in Agents, t.state[a] = "queued",
         NEW u, u = Start(t, a)
  PROVE  /\ u \in Teams /\ u.line = t.line /\ u.going = t.going /\ t.opening \subseteq u.opening
         /\ Moves(t, u, a, "starting")
<1>1. u \in Teams
  BY StartTyped
<1>2. /\ u.state = [t.state EXCEPT ![a] = "starting"]
      /\ Keeps(t, u) /\ u.line = t.line /\ u.going = t.going /\ u.opening = t.opening \cup {a}
      /\ Ending(t, a) => a \in u.overlap
  BY StartLeaves
<1>3. InLine(u)
  BY <1>2 DEF Sound, InLine
<1>4. t.wait[a] = NoOne /\ t.question[a] = NoOne
  BY DEF Sound, Waits, Asks
<1>5. Moves(t, u, a, "starting")
  BY <1>2, <1>3, <1>4 DEF Moves, Known
<1> QED
  BY <1>1, <1>2, <1>5

\* An agent of the line that cannot go on any more only leaves it.
LEMMA DropMoves ==
  ASSUME NEW t \in Teams, NEW x, Sound(t, x), NEW a \in Agents, NEW u, u = Dropped(t, a)
  PROVE  /\ u \in Teams /\ u.line = t.line /\ u.going = [t.going EXCEPT ![a] = "no"]
         /\ u.opening = t.opening /\ u.state = t.state /\ Moves(t, u, a, t.state[a])
<1>1. u \in Teams /\ u.state = t.state /\ Keeps(t, u) /\ u.line = t.line /\ u.overlap = t.overlap
      /\ u.going = [t.going EXCEPT ![a] = "no"] /\ u.opening = t.opening
  BY DEF Teams, Keeps, SameFrames, Ending, Dropped
<1>2. t.going \in [Agents -> {"no", "on", "run", "rest"}] /\ t.state \in [Agents -> States]
  BY DEF Teams
<1>3. InLine(u)
  BY <1>1, <1>2 DEF Sound, InLine
<1>4. Ending(t, a) => a \in u.overlap \/ (t.state[a] \in {"stopped", "queued", "asking"}
      /\ u.going[a] = "no")
  BY <1>1, <1>2 DEF Sound, Overlaps
<1>5. t.wait[a] = NoOne \/ (t.state[a] \in {"running", "asking"} /\ t.question[a] = NoOne)
  BY DEF Sound, Waits
<1>6. t.question[a] = NoOne \/ t.state[a] = "asking"
  BY DEF Sound, Asks
<1>7. a \in u.opening => t.state[a] = "starting"
  BY <1>1 DEF Sound, Opens
<1>8. u.state = [t.state EXCEPT ![a] = t.state[a]]
  BY <1>1, <1>2
<1>9. Moves(t, u, a, t.state[a])
  BY <1>1, <1>2, <1>3, <1>4, <1>5, <1>6, <1>7, <1>8 DEF Moves, Known
<1> QED
  BY <1>1, <1>9

\* What pump carries along the line: the team, how many work, and who stays in the line.
Walk == [team : Teams, active : Nat, kept : Seq(Agents)]

\* b is still to be looked at, or stays in the line.
Stands(t0, acc, s, b) ==
    \/ \E i \in (1 .. Len(t0.line)) \ s : t0.line[i] = b
    \/ \E j \in 1 .. Len(acc.kept) : acc.kept[j] = b

\* What pump knows when it has taken the positions s of the line of t0.
Taken(t0, x, s) ==
    {acc \in Walk :
        /\ Sound(acc.team, x) /\ Lets(t0, acc.team) /\ acc.team.line = t0.line
        /\ Cardinality(Counted(acc.team)) <= acc.active
        /\ Few(t0) => Few(acc.team)
        /\ \A b \in Agents : acc.team.going[b] # "no" => Stands(t0, acc, s, b)}

\* One step of it, by what it does.
LEMMA StepKeeps ==
  ASSUME NEW t0 \in Teams, NEW x, NEW s \in SUBSET (1 .. Len(t0.line)),
         NEW i \in (1 .. Len(t0.line)) \ s,
         NEW acc \in Taken(t0, x, s), NEW a, a = t0.line[i], NEW new,
         new = [acc EXCEPT !.kept = Append(@, a)]
  PROVE  new \in Taken(t0, x, s \cup {i})
<1> DEFINE r == s \cup {i}
<1>1. acc \in Walk /\ a \in Agents
  BY DEF Taken, Teams
<1>2. new \in Walk /\ new.team = acc.team /\ new.active = acc.active
      /\ new.kept = Append(acc.kept, a)
  <2>1. acc.kept \in Seq(Agents)
    BY <1>1 DEF Walk
  <2>2. Append(acc.kept, a) \in Seq(Agents)
    BY <1>1, <2>1
  <2> QED
    BY <1>1, <2>2 DEF Walk
<1>3. acc.kept \in Seq(Agents)
  BY <1>1 DEF Walk
<1>4. ASSUME NEW b \in Agents, acc.team.going[b] # "no" PROVE Stands(t0, new, r, b)
  <2>1. Stands(t0, acc, s, b)
    BY <1>4 DEF Taken
  <2>2. CASE \E j \in 1 .. Len(acc.kept) : acc.kept[j] = b
    <3>1. \E j \in 1 .. Len(new.kept) : new.kept[j] = b
      BY <1>1, <1>2, <1>3, <2>2, LineGrows DEF Grown
    <3> QED
      BY <3>1 DEF Stands
  <2>3. CASE \E k \in (1 .. Len(t0.line)) \ s : t0.line[k] = b
    <3>1. PICK k \in (1 .. Len(t0.line)) \ s : t0.line[k] = b
      BY <2>3
    <3>2. CASE k = i
      <4>1. \E j \in 1 .. Len(new.kept) : new.kept[j] = b
        BY <1>1, <1>2, <1>3, <3>1, <3>2, LineGrows DEF Grown
      <4> QED
        BY <4>1 DEF Stands
    <3>3. CASE k # i
      BY <3>1, <3>3 DEF Stands
    <3> QED
      BY <3>2, <3>3
  <2> QED
    BY <2>1, <2>2, <2>3 DEF Stands
<1> HIDE DEF r
<1>5. new \in Taken(t0, x, r)
  BY <1>2, <1>4 DEF Taken
<1> QED
  BY <1>5 DEF r

\* It counts one more at work if a does not only leave the line.
Takes(acc, u, a, v, new) ==
    \/ v \notin ActiveStates /\ new = [acc EXCEPT !.team = u]
    \/ v = acc.team.state[a] /\ u.state = acc.team.state /\ u.overlap = acc.team.overlap
       /\ new = [acc EXCEPT !.team = u]
    \/ acc.active < MaxConcurrent /\ new = [acc EXCEPT !.active = @ + 1, !.team = u]

\* One step of it that moves a keeps what pump knows.
LEMMA StepMoves ==
  ASSUME NEW t0 \in Teams, NEW x, NEW s \in SUBSET (1 .. Len(t0.line)),
         NEW i \in (1 .. Len(t0.line)) \ s,
         NEW acc \in Taken(t0, x, s), NEW u \in Teams, NEW v, NEW new, NEW a, a = t0.line[i],
         Moves(acc.team, u, a, v), acc.team.opening \subseteq u.opening, u.line = acc.team.line,
         v # acc.team.state[a] => acc.team.state[a] = "queued" /\ v \in ActiveStates,
         u.going[a] = "no",
         Takes(acc, u, a, v, new)
  PROVE  new \in Taken(t0, x, s \cup {i})
<1> DEFINE t == acc.team
           r == s \cup {i}
<1>1. acc \in Walk /\ a \in Agents /\ t \in Teams /\ Sound(t, x) /\ Lets(t0, t)
  BY DEF Taken, Teams, Walk
<1>2. acc.active \in Nat /\ acc.kept \in Seq(Agents) /\ Cardinality(Counted(t)) <= acc.active
      /\ t.line = t0.line
      /\ (Few(t0) => Few(t)) /\ \A b \in Agents : t.going[b] # "no" => Stands(t0, acc, s, b)
  BY <1>1 DEF Taken, Walk
<1>3. new.team = u /\ new.kept = acc.kept /\ new \in Walk
  <2>1. CASE new = [acc EXCEPT !.team = u]
    BY <1>1, <1>2, <2>1 DEF Walk
  <2>2. CASE new = [acc EXCEPT !.active = @ + 1, !.team = u]
    <3>1. acc.active + 1 \in Nat
      BY <1>2
    <3> QED
      BY <1>1, <1>2, <2>2, <3>1 DEF Walk
  <2> QED
    BY <2>1, <2>2 DEF Takes
<1>4. Sound(u, x) /\ Counted(u) \subseteq Counted(t) \cup {a}
      /\ (v \notin ActiveStates => Counted(u) \subseteq Counted(t))
  BY <1>1, MoveSound
<1>5. Lets(t0, u)
  BY <1>1, LetsMore
<1>6. Cardinality(Counted(t)) \in Nat /\ Cardinality(Counted(u)) \in Nat /\ MaxConcurrent \in Nat
  BY <1>1, FewMore, NumbersOf
<1>7. Cardinality(Counted(u)) <= new.active /\ (Few(t0) => Few(u))
  <2>1. CASE v \notin ActiveStates /\ new = [acc EXCEPT !.team = u]
    <3>1. Counted(u) \subseteq Counted(t) /\ new.active = acc.active
      BY <1>1, <1>4, <2>1 DEF Walk
    <3>2. Cardinality(Counted(u)) <= Cardinality(Counted(t)) /\ (Few(t) => Few(u))
      BY <1>1, <3>1, FewMore
    <3> QED
      BY <1>2, <1>6, <3>1, <3>2
  <2>2. CASE v = t.state[a] /\ u.state = t.state /\ u.overlap = t.overlap
             /\ new = [acc EXCEPT !.team = u]
    <3>1. Counted(u) = Counted(t) /\ new.active = acc.active
      BY <1>1, <2>2 DEF Walk, Moves, Keeps, Counted
    <3>2. Cardinality(Counted(u)) <= Cardinality(Counted(t)) /\ (Few(t) => Few(u))
      BY <1>1, <3>1, FewMore
    <3> QED
      BY <1>2, <1>6, <3>1, <3>2
  <2>3. CASE acc.active < MaxConcurrent /\ new = [acc EXCEPT !.active = @ + 1, !.team = u]
    <3>1. new.active = acc.active + 1
      BY <1>1, <2>3 DEF Walk
    <3>2. Cardinality(Counted(u)) <= Cardinality(Counted(t)) + 1
      BY <1>1, <1>4, FewMore
    <3>3. Cardinality(Counted(u)) <= acc.active + 1 /\ Cardinality(Counted(u)) <= MaxConcurrent
      BY <1>2, <1>6, <2>3, <3>2
    <3> QED
      BY <3>1, <3>3 DEF Few
  <2> QED
    BY <2>1, <2>2, <2>3 DEF Takes
<1>8. ASSUME NEW b \in Agents, u.going[b] # "no" PROVE Stands(t0, new, r, b)
  <2>1. b # a /\ t.going[b] # "no"
    BY <1>8 DEF Moves
  <2>2. Stands(t0, acc, s, b)
    BY <1>2, <2>1
  <2>3. ASSUME NEW k \in (1 .. Len(t0.line)) \ s, t0.line[k] = b PROVE k \in (1 .. Len(t0.line)) \ r
    BY <2>1, <2>3
  <2> QED
    BY <1>3, <2>2, <2>3 DEF Stands
<1>9. u.line = t0.line
  BY <1>2
<1> HIDE DEF r
<1>10. new \in Taken(t0, x, r)
  BY <1>3, <1>4, <1>5, <1>7, <1>8, <1>9 DEF Taken
<1> QED
  BY <1>10 DEF r

\* LetGo is such a step.
LEMMA LetGoKeeps ==
  ASSUME NEW t0 \in Teams, NEW x, NEW s \in SUBSET (1 .. Len(t0.line)),
         NEW i \in (1 .. Len(t0.line)) \ s,
         NEW acc \in Taken(t0, x, s), NEW a, a = t0.line[i], NEW t, t = acc.team,
         NEW how, how = t.going[a], NEW v, v = Dropped(t, a),
         NEW new, new = LetGo(acc, a)
  PROVE  new \in Taken(t0, x, s \cup {i})
<1>1. acc \in Walk /\ a \in Agents /\ t \in Teams /\ Sound(t, x)
  BY DEF Taken, Teams, Walk
<1>2. how \in {"no", "on", "run", "rest"}
  BY <1>1 DEF Teams
<1>3. CASE acc.active >= MaxConcurrent
  <2>1. new = [acc EXCEPT !.kept = Append(@, a)]
    BY <1>3 DEF LetGo
  <2> QED
    BY <2>1, StepKeeps
<1>4. CASE ~ (acc.active >= MaxConcurrent) /\ t.state[a] # "queued"
  <2>1. new = [acc EXCEPT !.team.going[a] = "no"]
    BY <1>4 DEF LetGo
  <2>2. new = [acc EXCEPT !.team = v]
    BY <1>1, <2>1 DEF Walk, Dropped
  <2>3. /\ v \in Teams /\ v.line = t.line /\ v.going = [t.going EXCEPT ![a] = "no"]
        /\ v.opening = t.opening /\ v.state = t.state /\ Moves(t, v, a, t.state[a])
    BY SMTT(30), <1>1, DropMoves
  <2>4. v.going[a] = "no" /\ v.overlap = t.overlap
    BY <1>1 DEF Teams, Dropped
  <2>5. PICK now : now = t.state[a]
    OBVIOUS
  <2>6. /\ Moves(acc.team, v, a, now) /\ acc.team.opening \subseteq v.opening
           /\ v.line = acc.team.line
        /\ now = acc.team.state[a] /\ v.state = acc.team.state /\ v.overlap = acc.team.overlap
    BY <2>3, <2>4, <2>5
  <2>7. Takes(acc, v, a, now, new)
    BY <2>2, <2>6 DEF Takes
  <2> QED
    BY <2>3, <2>4, <2>5, <2>6, <2>7, StepMoves
<1>5. CASE ~ (acc.active >= MaxConcurrent) /\ t.state[a] = "queued" /\ how # "no"
  <2>1. PICK u : u = Go(v, a, how)
    OBVIOUS
  <2>2. new = [acc EXCEPT !.active = @ + 1, !.team = u]
    BY <1>1, <1>5, <2>1 DEF LetGo, Walk, Dropped
  <2>3. /\ u \in Teams /\ u.line = t.line /\ u.opening = t.opening /\ u.going[a] = "no"
        /\ Moves(t, u, a, u.state[a]) /\ u.state[a] \in {"queued", "running"}
    BY <1>1, <1>2, <1>5, <2>1, GoMoves
  <2>4. acc.active < MaxConcurrent
    BY <1>1, <1>5, NumbersOf DEF Walk
  <2>5. PICK now : now = u.state[a]
    OBVIOUS
  <2>6. Takes(acc, u, a, now, new)
    BY <2>2, <2>4 DEF Takes
  <2> QED
    BY <1>5, <2>3, <2>5, <2>6, StepMoves DEF ActiveStates
<1>6. CASE ~ (acc.active >= MaxConcurrent) /\ t.state[a] = "queued" /\ how = "no"
           /\ WaitingFor(t, a) # {}
  <2>1. new = [acc EXCEPT !.kept = Append(@, a)]
    BY <1>6 DEF LetGo
  <2> QED
    BY <2>1, StepKeeps
<1>7. CASE ~ (acc.active >= MaxConcurrent) /\ t.state[a] = "queued" /\ how = "no"
           /\ WaitingFor(t, a) = {}
  <2>1. PICK u : u = Start(t, a)
    OBVIOUS
  <2>2. new = [acc EXCEPT !.active = @ + 1, !.team = u]
    BY <1>1, <1>7, <2>1 DEF LetGo, Walk, Dropped
  <2>3. /\ u \in Teams /\ u.line = t.line /\ u.going = t.going /\ t.opening \subseteq u.opening
        /\ Moves(t, u, a, "starting")
    BY <1>1, <1>7, <2>1, StartMoves
  <2>4. acc.active < MaxConcurrent
    BY <1>1, <1>7, NumbersOf DEF Walk
  <2>5. u.going[a] = "no"
    BY <1>7, <2>3
  <2>6. Takes(acc, u, a, "starting", new)
    BY <2>2, <2>4 DEF Takes
  <2> QED
    BY <1>7, <2>3, <2>5, <2>6, StepMoves DEF ActiveStates
<1> QED
  BY <1>3, <1>4, <1>5, <1>6, <1>7

\* What pump knows before its walk.
LEMMA StartsTaken ==
  ASSUME NEW t0 \in Teams, NEW x, Sound(t0, x)
  PROVE  [team |-> t0, active |-> Used(t0), kept |-> <<>>] \in Taken(t0, x, {})
<1> DEFINE x0 == [team |-> t0, active |-> Used(t0), kept |-> <<>>]
<1>1. x0 \in Walk
  BY CountedWork DEF Walk
<1>2. Lets(t0, t0)
  BY DEF Lets, Keeps, SameFrames
<1>3. \A b \in Agents : t0.going[b] # "no" => Stands(t0, x0, {}, b)
  BY DEF Sound, InLine, Stands
<1>4. Cardinality(Counted(t0)) <= Used(t0)
  BY CountedWork
<1> QED
  BY <1>1, <1>2, <1>3, <1>4 DEF Taken

\* pump leaves the team sound, and no more at work than there are slots.
LEMMA PumpSound ==
  ASSUME NEW t0 \in Teams, NEW x, Sound(t0, x), NEW u, u = Pump(t0)
  PROVE  u \in Teams /\ Sound(u, x) /\ Lets(t0, u) /\ (Few(t0) => Few(u))
<1> DEFINE n == Len(t0.line)
           X == [s \in SUBSET (1 .. n) |-> Taken(t0, x, s)]
           x0 == [team |-> t0, active |-> Used(t0), kept |-> <<>>]
           end == FoldLeft(LetGo, x0, t0.line)
<1>1. t0.line \in Seq(Agents) /\ n \in Nat /\ DOMAIN t0.line = 1 .. n
  BY DEF Teams
<1>2. x0 \in Taken(t0, x, {})
  BY StartsTaken
<1>3. ASSUME NEW s \in SUBSET (1 .. n), NEW i \in (1 .. n) \ s, NEW acc \in X[s]
      PROVE  LetGo(acc, t0.line[i]) \in X[s \cup {i}]
  <2>1. acc \in Taken(t0, x, s)
    OBVIOUS
  <2>2. LetGo(acc, t0.line[i]) \in Taken(t0, x, s \cup {i})
    BY <2>1, LetGoKeeps
  <2>3. s \cup {i} \in SUBSET (1 .. n)
    OBVIOUS
  <2> QED
    BY <2>2, <2>3
<1>4. x0 \in X[{}]
  BY <1>2
<1> HIDE DEF x0
<1>5. end \in X[1 .. n]
  <2> HIDE DEF X, n
  <2> QED BY <1>1, <1>3, <1>4, FoldLetGo
<1>6. end \in Taken(t0, x, 1 .. n)
  BY <1>5
<1>7. u = [end.team EXCEPT !.line = end.kept]
  BY DEF Pump, Pumped, x0
<1> HIDE DEF end
<1> DEFINE t == end.team
<1>8. t \in Teams /\ end.kept \in Seq(Agents) /\ Sound(t, x) /\ Lets(t0, t) /\ (Few(t0) => Few(t))
  BY <1>6 DEF Taken, Walk
<1> HIDE DEF t
<1>9. u = [t EXCEPT !.line = end.kept]
  BY <1>7 DEF t
<1>10. u \in Teams /\ Keeps(t, u) /\ u.state = t.state /\ u.going = t.going /\ u.opening = t.opening
       /\ u.overlap = t.overlap /\ u.line = end.kept
  BY ZenonT(40), <1>8, <1>9 DEF Teams, Keeps, SameFrames, Ending
<1>11. InLine(u)
  <2> SUFFICES ASSUME NEW b \in Agents, t.going[b] # "no"
               PROVE  \E j \in 1 .. Len(end.kept) : end.kept[j] = b
    BY <1>10 DEF InLine
  <2>1. Stands(t0, end, 1 .. n, b)
    BY <1>6 DEF Taken, t
  <2> QED
    BY <2>1 DEF Stands
<1>13. Sound(u, x) /\ Counted(u) = Counted(t)
  <2>1. Stays(t, u)
    BY <1>10 DEF Stays
  <2> QED
    BY <1>8, <1>10, <1>11, <2>1, StaysSound
<1>14. Lets(t0, u)
  BY <1>8, <1>10 DEF Lets, Keeps, SameFrames, Known
<1>15. Few(t) => Few(u)
  BY <1>13 DEF Few
<1> QED
  BY <1>8, <1>10, <1>13, <1>14, <1>15

------------------------------------------------------------------------------
(* Going on when a slot is free (slots.ts) *)

\* What a handler for a leaves of the other agents.
Serves(t, u, a) ==
    /\ Keeps(t, u)
    /\ \A b \in Agents : /\ b # a /\ t.state[b] # "queued" => u.state[b] = t.state[b]
                         /\ Known(t, b) => Known(u, b)
    /\ Turns(t, u)

\* Handlers for a one after another, and pumps, are handlers for a.
LEMMA ServesMore ==
  ASSUME NEW t, NEW u, NEW v, NEW a
  PROVE  /\ Serves(t, t, a)
         /\ Serves(t, u, a) /\ Lets(u, v) => Serves(t, v, a)
         /\ Lets(t, u) => Serves(t, u, a)
<1>1. Keeps(t, u) /\ Keeps(u, v) => Keeps(t, v)
  BY DEF Keeps, SameFrames
<1>2. Keeps(t, t)
  BY DEF Keeps, SameFrames
<1>3. ASSUME Serves(t, u, a), Lets(u, v) PROVE Serves(t, v, a)
  <2>1. Keeps(t, v)
    BY <1>1, <1>3 DEF Serves, Lets
  <2>2. ASSUME NEW b \in Agents
        PROVE  /\ b # a /\ t.state[b] # "queued" => v.state[b] = t.state[b]
               /\ Known(t, b) => Known(v, b)
    BY <1>3, <2>2 DEF Serves, Lets
  <2>3. Turns(t, v)
    BY <1>3 DEF Serves, Lets, Turns
  <2> QED
    BY <2>1, <2>2, <2>3 DEF Serves
<1>4. Lets(t, u) => Serves(t, u, a)
  BY DEF Lets, Serves, Turns
<1> QED
  BY <1>2, <1>3, <1>4 DEF Serves, Turns

\* Nothing keeps a from working on when a slot is free.
MayGo(t, a) ==
    /\ Known(t, a) /\ t.wait[a] = NoOne /\ t.question[a] = NoOne
    /\ Ending(t, a) => a \in t.overlap
    /\ a \notin t.opening
    /\ a \in t.resting => t.state[a] # "running"

\* a goes on at once, or joins the line.
LEMMA GoesSound ==
  ASSUME NEW t \in Teams, NEW u \in Teams, NEW x, Sound(t, x), NEW a \in Agents, MayGo(t, a),
         Keeps(t, u), InLine(u), u.opening = t.opening, u.overlap = t.overlap,
         OthersGo(t, u, a),
         NEW s, s \in {"running", "queued"}, u.state = [t.state EXCEPT ![a] = s]
  PROVE  /\ Sound(u, x) /\ Serves(t, u, a) /\ Counted(u) \subseteq Counted(t) \cup {a}
         /\ s = "queued" => Counted(u) \subseteq Counted(t) \ {a}
<1>1. Moves(t, u, a, s)
  BY DEF Moves, MayGo, Known, OthersGo
<1>2. /\ Sound(u, x) /\ Counted(u) \subseteq Counted(t) \cup {a}
      /\ s \notin ActiveStates => Counted(u) \subseteq Counted(t)
  BY <1>1, MoveSound
<1>3. t.state \in [Agents -> States]
  BY DEF Teams
<1>4. s = "queued" => a \notin Counted(u)
  BY <1>3 DEF Counted, ActiveStates
<1>5. Serves(t, u, a)
  BY <1>3 DEF Serves, Known, Turns
<1> QED
  BY <1>2, <1>4, <1>5 DEF ActiveStates

\* a is in line.
Queued(t, a) == [t EXCEPT !.state[a] = "queued"]

\* goOn changes the line alone.
LEMMA GoOnLeaves ==
  ASSUME NEW t \in Teams, NEW a \in Agents, NEW how \in {"on", "run", "rest"},
         NEW u, u = GoOn(t, a, how), InLine(t)
  PROVE  /\ u \in Teams /\ Keeps(t, u) /\ u.opening = t.opening /\ u.overlap = t.overlap
            /\ u.state = t.state
         /\ OthersGo(t, u, a) /\ InLine(u)
<1>0. /\ u \in Teams /\ Grown(t.line, u.line, a) /\ u.going[a] = how
      /\ OthersGo(t, u, a)
  BY GoOnTyped
<1>1. /\ u \in Teams
      /\ OthersGo(t, u, a)
      /\ \A i \in 1 .. Len(t.line) : \E j \in 1 .. Len(u.line) : u.line[j] = t.line[i]
      /\ \E j \in 1 .. Len(u.line) : u.line[j] = a
  BY <1>0 DEF Grown
<1>2. Keeps(t, u) /\ u.opening = t.opening /\ u.overlap = t.overlap /\ u.state = t.state
  BY DEF GoOn, Teams, Keeps, SameFrames, Ending
<1>3. InLine(u)
  <2> SUFFICES ASSUME NEW b \in Agents, u.going[b] # "no"
               PROVE  \E j \in 1 .. Len(u.line) : u.line[j] = b
    BY DEF InLine
  <2>1. CASE b = a
    BY <1>1, <2>1
  <2>2. CASE b # a
    <3>1. t.going[b] # "no"
      BY <1>1, <2>2 DEF OthersGo
    <3>2. PICK i \in 1 .. Len(t.line) : t.line[i] = b
      BY <3>1 DEF InLine
    <3> QED
      BY <1>1, <3>2
  <2> QED
    BY <2>1, <2>2
<1> QED
  BY <1>1, <1>2, <1>3

\* Who joins the line to go on frees its slot.
LEMMA QueuedGoesOn ==
  ASSUME NEW t \in Teams, NEW x, Sound(t, x), NEW a \in Agents, MayGo(t, a),
         NEW how \in {"on", "run", "rest"}, NEW u, u = GoOn(Queued(t, a), a, how)
  PROVE  u \in Teams /\ Sound(u, x) /\ Serves(t, u, a) /\ Counted(u) \subseteq Counted(t) \ {a}
<1>0. PICK v : v = Queued(t, a)
  OBVIOUS
<1>1. v \in Teams /\ Keeps(t, v) /\ v.opening = t.opening /\ v.overlap = t.overlap
      /\ v.state = [t.state EXCEPT ![a] = "queued"] /\ v.going = t.going /\ v.line = t.line
  BY <1>0 DEF Teams, Queued, Keeps, SameFrames, Ending, States, LiveStates
<1>2. InLine(v)
  BY <1>1 DEF Sound, InLine
<1>3. /\ u \in Teams /\ Keeps(v, u) /\ u.opening = v.opening /\ u.overlap = v.overlap
         /\ u.state = v.state
      /\ InLine(u) /\ OthersGo(v, u, a)
  <2>1. u = GoOn(v, a, how)
    BY <1>0
  <2> QED
    BY <1>1, <1>2, <2>1, GoOnLeaves
<1>4. Keeps(t, u)
  BY <1>1, <1>3 DEF Keeps, SameFrames
<1>5. OthersGo(t, u, a)
  BY <1>1, <1>3 DEF OthersGo
<1>6. /\ Sound(u, x) /\ Serves(t, u, a) /\ Counted(u) \subseteq Counted(t) \ {a}
  <2>1. u \in Teams /\ InLine(u) /\ u.opening = t.opening /\ u.overlap = t.overlap
        /\ u.state = [t.state EXCEPT ![a] = "queued"]
    BY <1>1, <1>3
  <2>2. PICK s : s = "queued"
    OBVIOUS
  <2>3. s \in {"running", "queued"} /\ u.state = [t.state EXCEPT ![a] = s]
    BY <2>1, <2>2
  <2> QED
    BY <1>4, <1>5, <2>1, <2>2, <2>3, GoesSound
<1> QED
  BY <1>3, <1>6

\* Who goes on at once, with a slot free, leaves no more at work than there are slots.
LEMMA RunsNow ==
  ASSUME NEW t \in Teams, NEW x, Sound(t, x), NEW a \in Agents, MayGo(t, a), NEW u \in Teams,
         u.state = t.state \/ u.state = [t.state EXCEPT ![a] = "running"],
         Keeps(t, u), u.line = t.line, u.going = t.going, u.opening = t.opening,
         u.overlap = t.overlap
  PROVE  /\ Sound(u, x) /\ Serves(t, u, a) /\ Counted(u) \subseteq Counted(t) \cup {a}
         /\ Free(t) => Few(u)
<1>1. InLine(u)
  BY DEF Sound, InLine
<1>2. Sound(u, x) /\ Serves(t, u, a) /\ Counted(u) \subseteq Counted(t) \cup {a}
  <2>1. CASE u.state = [t.state EXCEPT ![a] = "running"]
    <3>1. OthersGo(t, u, a)
      BY DEF OthersGo
    <3>2. PICK s : s = "running"
      OBVIOUS
    <3> QED
      BY <1>1, <2>1, <3>1, <3>2, GoesSound
  <2>2. CASE u.state = t.state
    <3>1. Stays(t, u)
      BY <2>2 DEF Stays
    <3>2. Serves(t, u, a)
      BY <2>2 DEF Serves, Known, Turns
    <3> QED
      BY <1>1, <3>1, <3>2, StaysSound
  <2> QED
    BY <2>1, <2>2
<1>3. ASSUME Free(t) PROVE Few(u)
  <2>1. Cardinality(Counted(u)) <= Cardinality(Counted(t)) + 1 /\ Cardinality(Counted(t)) \in Nat
        /\ Cardinality(Counted(u)) \in Nat /\ MaxConcurrent \in Nat
    BY <1>2, FewMore, NumbersOf
  <2>2. Cardinality(Counted(t)) + 1 <= MaxConcurrent
    BY <1>3, CountedWork
  <2> QED
    BY <2>1, <2>2 DEF Few
<1> QED
  BY <1>2, <1>3

\* goOnWhenFree leaves no more at work than there are slots, or frees the slot of a.
LEMMA GoOnWhenFreeSound ==
  ASSUME NEW t \in Teams, NEW x, Sound(t, x), NEW a \in Agents, MayGo(t, a),
         NEW how \in {"on", "rest"}, NEW u, u = GoOnWhenFree(t, a, how)
  PROVE  /\ u \in Teams /\ Sound(u, x) /\ Serves(t, u, a)
         /\ Few(u) \/ Counted(u) \subseteq Counted(t) \ {a}
<1>0. how \in {"on", "run", "rest"}
  OBVIOUS
<1>1. CASE Free(t)
  <2>1. u = Go(t, a, how)
    BY <1>1 DEF GoOnWhenFree
  <2>2. u \in Teams
    BY <1>0, <2>1, GoTyped
  <2>3. /\ u.state = t.state \/ u.state = [t.state EXCEPT ![a] = "running"]
        /\ Keeps(t, u) /\ u.line = t.line /\ u.going = t.going /\ u.opening = t.opening
        /\ u.overlap = t.overlap
    BY <1>0, <2>1, GoLeaves
  <2> QED
    BY <1>1, <2>2, <2>3, RunsNow
<1>2. CASE ~Free(t)
  <2>1. u = GoOn(Queued(t, a), a, how)
    BY <1>2 DEF GoOnWhenFree, Queued
  <2> QED
    BY <1>0, <2>1, QueuedGoesOn
<1> QED
  BY <1>1, <1>2

\* runWhenFree leaves no more at work than there are slots.
LEMMA RunWhenFreeSound ==
  ASSUME NEW t \in Teams, NEW x, Sound(t, x), NEW a \in Agents, MayGo(t, a), Few(t),
         NEW mail \in SUBSET Actors, NEW u, u = RunWhenFree(t, a, mail)
  PROVE  u \in Teams /\ Sound(u, x) /\ Serves(t, u, a) /\ Few(u)
<1>1. CASE Free(t)
  <2>1. u = Run(t, a)
    BY <1>1 DEF RunWhenFree
  <2>2. u \in Teams
    BY <2>1, RunTyped
  <2>3. /\ u.state = t.state \/ u.state = [t.state EXCEPT ![a] = "running"]
        /\ Keeps(t, u) /\ u.line = t.line /\ u.going = t.going /\ u.opening = t.opening
        /\ u.overlap = t.overlap
    BY <2>1, RunLeaves
  <2> QED
    BY <1>1, <2>2, <2>3, RunsNow
<1>2. CASE ~Free(t)
  <2> DEFINE v == [t EXCEPT !.inbox[a] = @ \cup mail]
  <2>1. v \in Teams /\ Same(t, v) /\ v.opening = t.opening
    BY DEF Teams, Same, Stays, Keeps, SameFrames, Ending
  <2>2. u = GoOn(Queued(v, a), a, "run")
    BY <1>2 DEF RunWhenFree, Queued, Teams
  <2> HIDE DEF v
  <2>3. Sound(v, x) /\ Counted(v) = Counted(t)
    BY <2>1, SameSound
  <2>4. MayGo(v, a)
    BY <2>1 DEF MayGo, Same, Stays, Keeps, SameFrames, Known
  <2>5. u \in Teams /\ Sound(u, x) /\ Serves(v, u, a) /\ Counted(u) \subseteq Counted(v) \ {a}
    BY <2>1, <2>2, <2>3, <2>4, QueuedGoesOn
  <2>6. Serves(t, u, a)
    BY <2>1, <2>5 DEF Serves, Same, Stays, Keeps, SameFrames, Known, Turns
  <2>7. Few(u)
    BY <2>3, <2>5, FewMore
  <2> QED
    BY <2>5, <2>6, <2>7
<1> QED
  BY <1>1, <1>2

------------------------------------------------------------------------------
(* Mail and what it wakes (routing.ts) *)

\* Joining the line changes the line alone.
LEMMA EnqueueSound ==
  ASSUME NEW t \in Teams, NEW x, Sound(t, x), NEW a \in Agents, NEW first \in BOOLEAN,
         NEW u, u = Enqueue(t, a, first)
  PROVE  u \in Teams /\ Sound(u, x) /\ Counted(u) = Counted(t) /\ Stays(t, u)
<1>1. u \in Teams
  BY EnqueueTyped
<1>2. Stays(t, u)
  BY DEF Enqueue, Teams, Stays, Keeps, SameFrames, Ending
<1>3. u.line = (IF first THEN <<a>> \o t.line ELSE Append(t.line, a)) /\ u.going = t.going
  BY DEF Enqueue, Teams
<1>4. t.line \in Seq(Agents)
  BY DEF Teams
<1>5. Grown(t.line, u.line, a)
  <2>1. Grown(t.line, Append(t.line, a), a) /\ Grown(t.line, <<a>> \o t.line, a)
    BY <1>4, LineGrows
  <2> QED
    BY <1>3, <2>1
<1>6. InLine(u)
  <2> SUFFICES ASSUME NEW b \in Agents, t.going[b] # "no"
               PROVE  \E j \in 1 .. Len(u.line) : u.line[j] = b
    BY <1>3 DEF InLine
  <2>1. PICK i \in 1 .. Len(t.line) : t.line[i] = b
    BY DEF Sound, InLine
  <2> QED
    BY <1>5, <2>1 DEF Grown
<1> QED
  BY <1>1, <1>2, <1>6, StaysSound

\* Who started a run is not what the slots are about.
LEMMA StartedBySame ==
  ASSUME NEW t \in Teams, NEW a \in Agents, NEW peer, NEW u, u = StartedBy(t, a, peer)
  PROVE  u \in Teams /\ Same(t, u) /\ u.held = t.held /\ u.inbox = t.inbox /\ u.opening = t.opening
<1>1. CASE peer
  BY ZenonT(40), <1>1 DEF StartedBy, Teams, Same, Stays, Keeps, SameFrames, Ending
<1>2. CASE ~peer
  BY <1>2 DEF StartedBy, Teams, Same, Stays, Keeps, SameFrames, Ending
<1> QED
  BY <1>1, <1>2

\* An agent that does not work, and is known.
Pauses(t, a) == t.state[a] \in {"idle", "waiting", "interrupted", "failed", "stopped"}

\* It waits for nothing, and its stop is over or overlapped.
LEMMA PausesFree ==
  ASSUME NEW t \in Teams, NEW x, Sound(t, x), NEW a \in Agents, Pauses(t, a)
  PROVE  /\ Known(t, a) /\ t.wait[a] = NoOne /\ t.question[a] = NoOne /\ a \notin t.opening
         /\ t.state[a] # "running" /\ t.state[a] # "queued"
         /\ Ending(t, a) => a \in t.overlap \/ (t.state[a] = "stopped" /\ t.going[a] = "no")
BY DEF Pauses, Known, Sound, Waits, Asks, Opens, Overlaps

\* What stays the same serves any agent.
LEMMA StaysServes ==
  ASSUME NEW t, NEW u, NEW v, NEW a
  PROVE  /\ Stays(t, u) => Serves(t, u, a)
         /\ Stays(t, u) /\ Serves(u, v, a) => Serves(t, v, a)
         /\ Serves(t, u, a) /\ Stays(u, v) => Serves(t, v, a)
<1>1. Keeps(t, u) /\ Keeps(u, v) => Keeps(t, v)
  BY DEF Keeps, SameFrames
<1>2. ASSUME Stays(t, u) PROVE Serves(t, u, a)
  BY <1>2 DEF Stays, Serves, Known, Turns
<1>3. ASSUME Stays(t, u), Serves(u, v, a) PROVE Serves(t, v, a)
  <2>1. Keeps(t, v)
    BY <1>1, <1>3 DEF Stays, Serves
  <2> QED
    BY <1>3, <2>1 DEF Stays, Serves, Known, Turns
<1>4. ASSUME Serves(t, u, a), Stays(u, v) PROVE Serves(t, v, a)
  <2>1. Keeps(t, v)
    BY <1>1, <1>4 DEF Stays, Serves
  <2> QED
    BY <1>4, <2>1 DEF Stays, Serves, Known, Turns
<1> QED
  BY <1>2, <1>3, <1>4

\* The records of an agent that joins the line with its mail, before relaunch pumps.
Resumed(t, a, from, started) ==
    [started EXCEPT !.resume[a] = t.inbox[a] \cup {from}, !.inbox[a] = {},
                    !.state[a] = "queued", !.reentered = @ \/ Reenters(t, a)]

\* Its records, with `mail` and `b` as found.
LEMMA ResumedTyped ==
  ASSUME NEW s \in Teams, NEW a \in Agents, NEW mail \in SUBSET Actors, NEW b \in BOOLEAN,
         NEW v, v = [s EXCEPT !.resume[a] = mail, !.inbox[a] = {},
                              !.state[a] = "queued", !.reentered = @ \/ b]
  PROVE  v \in Teams
BY DEF Teams, States, LiveStates

\* Joining the line so keeps the team sound and serves a alone.
LEMMA ResumedSound ==
  ASSUME NEW t \in Teams, NEW x, Sound(t, x), Few(t), NEW a \in Agents, Pauses(t, a),
         NEW from \in Actors, NEW peer,
         NEW s, s = IF t.state[a] = "waiting" THEN t ELSE StartedBy(t, a, peer),
         NEW w, w = Enqueue(Resumed(t, a, from, s), a, FALSE)
  PROVE  w \in Teams /\ Sound(w, x) /\ Few(w) /\ Serves(t, w, a)
<1>2. s \in Teams /\ Same(t, s) /\ s.opening = t.opening
  <2>1. Same(t, t)
    BY DEF Same, Stays, Keeps, SameFrames
  <2> QED
    BY <2>1, StartedBySame
<1>3. Sound(s, x) /\ Few(s)
  BY <1>2, SameSound
<1>4. PICK v : v = Resumed(t, a, from, s)
  OBVIOUS
<1>5. PICK b : b = Reenters(t, a)
  OBVIOUS
<1>6. b \in BOOLEAN
  BY <1>5 DEF Reenters
<1>7. PICK mail \in SUBSET Actors : mail = t.inbox[a] \cup {from}
  BY DEF Teams
<1>8. v = [s EXCEPT !.resume[a] = mail, !.inbox[a] = {},
                    !.state[a] = "queued", !.reentered = @ \/ b]
  BY <1>4, <1>5, <1>7 DEF Resumed
<1>9. v \in Teams
  BY Zenon, <1>2, <1>6, <1>8, ResumedTyped
<1>10. Keeps(s, v) /\ v.state = [s.state EXCEPT ![a] = "queued"] /\ v.going = s.going
       /\ v.line = s.line
       /\ v.opening = s.opening /\ v.overlap = s.overlap
  BY <1>2, <1>8 DEF Teams, Keeps, SameFrames, Ending
<1>11. Pauses(s, a)
  BY <1>2 DEF Pauses, Same, Stays
<1>12. InLine(v)
  BY <1>3, <1>10 DEF Sound, InLine
<1>13. /\ Known(s, a) /\ s.wait[a] = NoOne /\ s.question[a] = NoOne /\ a \notin s.opening
       /\ s.state[a] # "running" /\ s.state[a] # "queued"
       /\ Ending(s, a) => a \in s.overlap \/ (s.state[a] = "stopped" /\ s.going[a] = "no")
  BY <1>2, <1>3, <1>11, PausesFree
<1>14. Moves(s, v, a, "queued")
  BY <1>10, <1>12, <1>13 DEF Moves, Known
<1>15. Sound(v, x) /\ Counted(v) \subseteq Counted(s)
  BY <1>2, <1>3, <1>9, <1>14, MoveSound DEF ActiveStates
<1>16. Few(v)
  BY <1>2, <1>3, <1>9, <1>15, FewMore
<1>17. PICK first \in BOOLEAN : first = FALSE
  OBVIOUS
<1>18. w \in Teams /\ Sound(w, x) /\ Counted(w) = Counted(v) /\ Stays(v, w)
  <2>1. w = Enqueue(v, a, first)
    BY <1>4, <1>17
  <2> QED
    BY <1>9, <1>15, <2>1, EnqueueSound
<1>19. Few(w)
  BY <1>16, <1>18 DEF Few
<1>22. Serves(s, v, a)
  BY <1>2, <1>10 DEF Serves, Known, Teams, Turns
<1>23. Serves(s, w, a)
  BY <1>18, <1>22, StaysServes
<1>24. Serves(t, w, a)
  BY <1>2, <1>23, StaysServes DEF Same
<1> QED
  BY <1>18, <1>19, <1>24

\* relaunch keeps the team sound and serves a alone.
LEMMA RelaunchSound ==
  ASSUME NEW t \in Teams, NEW x, Sound(t, x), Few(t), NEW a \in Agents, Pauses(t, a),
         NEW from \in Actors, NEW peer, NEW u, u = Relaunch(t, a, from, peer)
  PROVE  u \in Teams /\ Sound(u, x) /\ Few(u) /\ Serves(t, u, a)
<1>1. PICK s : s = IF t.state[a] = "waiting" THEN t ELSE StartedBy(t, a, peer)
  OBVIOUS
<1>2. PICK w : w = Enqueue(Resumed(t, a, from, s), a, FALSE)
  OBVIOUS
<1>3. w \in Teams /\ Sound(w, x) /\ Few(w) /\ Serves(t, w, a)
  BY <1>1, <1>2, ResumedSound
<1>4. u = Pump(w)
  BY <1>1, <1>2 DEF Relaunch, Resumed
<1>5. u \in Teams /\ Sound(u, x) /\ Lets(w, u) /\ Few(u)
  BY <1>3, <1>4, PumpSound
<1>6. Serves(t, u, a)
  BY <1>3, <1>5, ServesMore
<1> QED
  BY <1>5, <1>6

\* Mail that waits changes nothing else.
Inbox(t, a, mail) == [t EXCEPT !.inbox[a] = mail]

\* Mail that its session has not read changes nothing else.
Unread(t, a, mail) == [t EXCEPT !.unread[a] = mail]

\* Neither changes what the slots are about.
LEMMA MailSame ==
  ASSUME NEW t \in Teams, NEW a \in Agents, NEW mail \in SUBSET Actors
  PROVE  /\ Inbox(t, a, mail) \in Teams /\ Same(t, Inbox(t, a, mail))
         /\ Unread(t, a, mail) \in Teams /\ Same(t, Unread(t, a, mail))
BY DEF Teams, Same, Stays, Keeps, SameFrames, Ending, Inbox, Unread

\* An agent that ended gives its session back before it is woken.
GivenBack(t, a) == [t EXCEPT !.held[a] = @ /\ ~Ended(t, a)]

\* A run that mail starts: its inbox is the prompt.
Fresh(t, a, s, mail) == [s EXCEPT !.inbox[a] = mail, !.reentered = @ \/ Reenters(t, a)]

\* Giving a session back changes nothing else.
LEMMA ReleasedSame ==
  ASSUME NEW t \in Teams, NEW a \in Agents, NEW u, u = GivenBack(t, a)
  PROVE  u \in Teams /\ Same(t, u) /\ u.state = t.state /\ (u.held[a] => t.held[a] /\ ~Ended(t, a))
<1>1. PICK b : b = (t.held[a] /\ ~Ended(t, a))
  OBVIOUS
<1>2. b \in BOOLEAN
  BY <1>1
<1>3. u = [t EXCEPT !.held[a] = b]
  BY <1>1 DEF GivenBack
<1> DEFINE f == [t.held EXCEPT ![a] = b]
<1>f. f \in [Agents -> BOOLEAN] /\ f[a] = b
  BY <1>2 DEF Teams
<1>g. u = [t EXCEPT !.held = f]
  BY <1>3 DEF Teams
<1> HIDE DEF f
<1>4. u \in Teams /\ Same(t, u) /\ u.state = t.state /\ u.held[a] = b
  BY ZenonT(40), <1>f, <1>g DEF Teams, Same, Stays, Keeps, SameFrames, Ending
<1> QED
  BY <1>1, <1>4

\* Fresh, with the re-entry named.
Mended(s, a, mail, b) == [s EXCEPT !.inbox[a] = mail, !.reentered = @ \/ b]

\* It changes nothing else.
LEMMA MendedSame ==
  ASSUME NEW s \in Teams, NEW b \in BOOLEAN, NEW a \in Agents, NEW mail \in SUBSET Actors
  PROVE  Mended(s, a, mail, b) \in Teams /\ Same(s, Mended(s, a, mail, b))
<1>1. Mended(s, a, mail, b) \in Teams
  BY DEF Teams, Mended
<1>2. Same(s, Mended(s, a, mail, b))
  BY DEF Teams, Same, Stays, Keeps, SameFrames, Ending, Mended
<1> QED
  BY <1>1, <1>2

\* Fresh changes nothing else.
LEMMA FreshSame ==
  ASSUME NEW t, NEW s \in Teams, NEW a \in Agents, NEW mail \in SUBSET Actors,
         NEW u, u = Fresh(t, a, s, mail)
  PROVE  u \in Teams /\ Same(s, u) /\ u.state = s.state
<1>1. PICK b : b = Reenters(t, a)
  OBVIOUS
<1>2. b \in BOOLEAN
  BY <1>1 DEF Reenters
<1>3. u = Mended(s, a, mail, b)
  BY <1>1 DEF Fresh, Mended
<1>4. u \in Teams /\ Same(s, u)
  BY <1>2, <1>3, MendedSame
<1> QED
  BY <1>4 DEF Same, Stays

\* A team that is the same may change as the other may.
LEMMA SameServes ==
  ASSUME NEW t \in Teams, NEW u \in Teams, NEW x, Sound(t, x), Few(t), Same(t, u), NEW a
  PROVE  Sound(u, x) /\ Few(u) /\ Serves(t, u, a)
<1>1. Sound(u, x) /\ Few(u)
  BY SameSound
<1>2. Serves(t, u, a)
  BY StaysServes DEF Same
<1> QED
  BY <1>1, <1>2

\* wake keeps the team sound, with no more at work, and serves a alone.
LEMMA WakeSound ==
  ASSUME NEW t \in Teams, NEW x, Sound(t, x), Few(t), NEW from \in Actors, NEW a \in Agents,
         NEW resumes, NEW peer, NEW u, u = Wake(t, from, a, resumes, peer)
  PROVE  u \in Teams /\ Sound(u, x) /\ Few(u) /\ Serves(t, u, a)
<1>1. PICK mail : mail = t.inbox[a] \cup {from}
  OBVIOUS
<1>2. mail \in SUBSET Actors
  BY <1>1 DEF Teams
<1>3. PICK r : r = GivenBack(t, a)
  OBVIOUS
<1>4. r \in Teams /\ Same(t, r) /\ r.state = t.state /\ (r.held[a] => t.held[a] /\ ~Ended(t, a))
  BY <1>3, ReleasedSame
<1>5. CASE u = Inbox(t, a, mail)
  <2>1. u \in Teams /\ Same(t, u)
    BY <1>2, <1>5, MailSame
  <2> QED
    BY <2>1, SameServes
<1>6. CASE (t.state[a] \in Paused \/ Ended(t, a)) /\ u = Relaunch(r, a, from, peer)
  <2>1. Sound(r, x) /\ Few(r) /\ Serves(t, r, a)
    BY <1>4, SameServes
  <2>2. Pauses(r, a)
    BY <1>4, <1>6 DEF Pauses, Paused, Ended, EndedStates
  <2>3. u \in Teams /\ Sound(u, x) /\ Few(u) /\ Serves(r, u, a)
    BY <1>4, <1>6, <2>1, <2>2, RelaunchSound
  <2>4. Serves(t, u, a)
    BY <1>4, <2>3, StaysServes DEF Same
  <2> QED
    BY <2>3, <2>4
<1>7. CASE /\ t.state[a] \in Paused \/ Ended(t, a)
           /\ r.held[a] /\ t.state[a] # "interrupted"
           /\ u = RunWhenFree(Fresh(t, a, IF t.state[a] = "idle"
                                          THEN StartedBy(t, a, peer) ELSE t, {}), a, mail)
  <2>1. PICK s : s = IF t.state[a] = "idle" THEN StartedBy(t, a, peer) ELSE t
    OBVIOUS
  <2>2. PICK v : v = Fresh(t, a, s, {})
    OBVIOUS
  <2>3. s \in Teams /\ Same(t, s)
    <3>1. Same(t, t)
      BY DEF Same, Stays, Keeps, SameFrames
    <3> QED
      BY <2>1, <3>1, StartedBySame
  <2>4. Sound(s, x) /\ Few(s) /\ Serves(t, s, a)
    BY <2>3, SameServes
  <2>5. v \in Teams /\ Same(s, v) /\ v.state = s.state
    BY <2>2, <2>3, FreshSame
  <2>6. Sound(v, x) /\ Few(v)
    BY <2>3, <2>4, <2>5, SameServes
  <2>7. v.state[a] \in {"idle", "waiting"}
    BY <1>4, <1>7, <2>3, <2>5 DEF Paused, Same, Stays
  <2>8. Pauses(v, a)
    BY <2>7 DEF Pauses
  <2>9. MayGo(v, a)
    <3>1. /\ Known(v, a) /\ v.wait[a] = NoOne /\ v.question[a] = NoOne /\ a \notin v.opening
          /\ v.state[a] # "running"
          /\ Ending(v, a) => a \in v.overlap \/ (v.state[a] = "stopped" /\ v.going[a] = "no")
      BY <2>5, <2>6, <2>8, PausesFree
    <3> QED
      BY <2>7, <3>1 DEF MayGo
  <2>10. u = RunWhenFree(v, a, mail)
    BY <1>7, <2>1, <2>2
  <2>11. u \in Teams /\ Sound(u, x) /\ Serves(v, u, a) /\ Few(u)
    BY <1>2, <2>5, <2>6, <2>9, <2>10, RunWhenFreeSound
  <2>12. Serves(s, u, a)
    BY <2>5, <2>11, StaysServes DEF Same
  <2>13. Serves(t, u, a)
    BY <2>3, <2>12, StaysServes DEF Same
  <2> QED
    BY <2>11, <2>13
<1>8. u = IF ~resumes \/ ~(t.state[a] \in Paused \/ Ended(t, a))
          THEN Inbox(t, a, mail)
        ELSE IF ~r.held[a]
          THEN Relaunch(r, a, from, peer)
        ELSE IF t.state[a] # "interrupted"
          THEN RunWhenFree(Fresh(t, a, IF t.state[a] = "idle"
                                       THEN StartedBy(t, a, peer) ELSE t, {}), a, mail)
        ELSE Inbox(t, a, mail)
  BY <1>1, <1>3 DEF Wake, GivenBack, Fresh, Inbox
<1> QED
  BY <1>5, <1>6, <1>7, <1>8

\* So does deliver.
LEMMA DeliverSound ==
  ASSUME NEW t \in Teams, NEW x, Sound(t, x), Few(t), NEW from \in Actors, NEW a \in Agents,
         NEW wakes, NEW u, u = Deliver(t, from, a, wakes)
  PROVE  u \in Teams /\ Sound(u, x) /\ Few(u) /\ Serves(t, u, a)
<1>1. PICK s : s = IF from \in {Main, t.parent[a]} THEN [t EXCEPT !.peerRuns = @ \ {a}] ELSE t
  OBVIOUS
<1>2. s \in Teams /\ Same(t, s)
  <2>1. CASE from \in {Main, t.parent[a]}
    BY <1>1, <2>1 DEF Teams, Same, Stays, Keeps, SameFrames, Ending
  <2>2. CASE from \notin {Main, t.parent[a]}
    BY <1>1, <2>2 DEF Same, Stays, Keeps, SameFrames
  <2> QED
    BY <2>1, <2>2
<1>3. Sound(s, x) /\ Few(s) /\ Serves(t, s, a)
  BY <1>2, SameServes
<1>4. CASE u = t
  BY <1>4, ServesMore
<1>5. CASE u = Unread(s, a, s.unread[a] \cup {from})
  <2>1. s.unread[a] \cup {from} \in SUBSET Actors
    BY <1>2 DEF Teams
  <2>2. u \in Teams /\ Same(s, u)
    BY <1>2, <1>5, <2>1, MailSame
  <2>3. Sound(u, x) /\ Few(u) /\ Serves(s, u, a)
    BY <1>2, <1>3, <2>2, SameServes
  <2>4. Serves(t, u, a)
    BY <1>2, <2>3, StaysServes DEF Same
  <2> QED
    BY <2>2, <2>3, <2>4
<1>6. CASE u = Wake(s, from, a, wakes \/ from \in {Main, t.parent[a]}, IsPeer(t, from, a))
  <2>1. u \in Teams /\ Sound(u, x) /\ Few(u) /\ Serves(s, u, a)
    BY <1>2, <1>3, <1>6, WakeSound
  <2>2. Serves(t, u, a)
    BY <1>2, <2>1, StaysServes DEF Same
  <2> QED
    BY <2>1, <2>2
<1>7. \/ u = t
      \/ u = Unread(s, a, s.unread[a] \cup {from})
      \/ u = Wake(s, from, a, wakes \/ from \in {Main, t.parent[a]}, IsPeer(t, from, a))
  BY <1>1 DEF Deliver, Unread
<1> QED
  BY <1>4, <1>5, <1>6, <1>7

------------------------------------------------------------------------------
(* Questions (questions.ts) *)

\* The question of a is q.
Question(t, a, q) == [t EXCEPT !.question[a] = q]

\* A question that is asked by an asking agent, or over, changes nothing else.
LEMMA QuestionSound ==
  ASSUME NEW t, NEW x, Good(t, x), NEW a \in Agents, NEW q \in Actors \cup {NoOne},
         q = NoOne \/ (t.state[a] = "asking" /\ t.wait[a] = NoOne),
         NEW u, u = Question(t, a, q)
  PROVE  Good(u, x)
<1>0. t \in Teams /\ Sound(t, x) /\ Few(t)
  BY DEF Good
<1>1. u \in Teams
  BY <1>0 DEF Teams, Question
<1>2. /\ u.parent = t.parent /\ u.blocking = t.blocking /\ u.wait = t.wait
      /\ u.resting = t.resting /\ u.overlap = t.overlap /\ u.stop = t.stop
      /\ u.state = t.state /\ u.going = t.going /\ u.opening = t.opening /\ u.line = t.line
      /\ u.question[a] = q /\ \A b \in Agents : b # a => u.question[b] = t.question[b]
  BY <1>0 DEF Teams, Question
<1>3. InLine(u) /\ Blocks(u)
  BY <1>0, <1>2 DEF Sound, InLine, Blocks, Leaves, Ending
<1>4. Detached(u, x) /\ Overlaps(u)
  BY <1>0, <1>2 DEF Sound, Detached, Overlaps, Aborting, Ending
<1>5. WaitKnown(u)
  BY <1>0, <1>2 DEF Sound, WaitKnown, Leaves, Ending, Known
<1>6. Waits(u)
  BY <1>0, <1>2 DEF Sound, Waits
<1>7. Asks(u)
  BY <1>0, <1>2 DEF Sound, Asks
<1>8. Opens(u) /\ Parents(u)
  BY <1>0, <1>2 DEF Sound, Opens, Parents, Known
<1>9. Rests(u, x)
  BY <1>0, <1>2 DEF Sound, Rests, Aborting, Ending
<1>10. Counted(u) = Counted(t)
  BY <1>2 DEF Counted
<1> QED
  BY <1>0, <1>1, <1>3, <1>4, <1>5, <1>6, <1>7, <1>8, <1>9, <1>10 DEF Good, Sound, Few

\* What the end of a question of a changes.
Answered(t, u, a) ==
    /\ Serves(Question(t, a, NoOne), u, a)
    /\ Ending(t, a) => Lets(Question(t, a, NoOne), u)

\* The end of a question keeps the invariant.
LEMMA EndQuestionGood ==
  ASSUME NEW t, NEW x, Good(t, x), NEW a \in Agents, t.question[a] # NoOne,
         NEW u, u = EndQuestion(t, a)
  PROVE  Good(u, x) /\ Answered(t, u, a)
<1>0. t \in Teams /\ Sound(t, x) /\ Few(t)
  BY DEF Good
<1>1. PICK d : d = Question(t, a, NoOne)
  OBVIOUS
<1>2. Good(d, x)
  BY <1>1, QuestionSound
<1>3. d \in Teams /\ Sound(d, x) /\ Few(d)
  BY <1>2 DEF Good
<1>4. d.state = t.state /\ d.stop = t.stop /\ d.question[a] = NoOne /\ d.wait = t.wait
  BY <1>0, <1>1 DEF Teams, Question
<1>5. t.state[a] = "asking" /\ t.wait[a] = NoOne
  BY <1>0 DEF Sound, Asks, Waits
<1>6. CASE Ending(t, a)
  <2>1. u = Pump(d)
    BY <1>1, <1>6 DEF EndQuestion, Question
  <2>2. u \in Teams /\ Sound(u, x) /\ Lets(d, u) /\ Few(u)
    BY <1>3, <2>1, PumpSound
  <2>3. Serves(d, u, a)
    BY <2>2, ServesMore
  <2> QED
    BY <1>1, <2>2, <2>3 DEF Good, Answered
<1>7. CASE ~Ending(t, a)
  <2>1. PICK v : v = GoOnWhenFree(d, a, "on")
    OBVIOUS
  <2>2. u = Pump(v)
    BY <1>1, <1>5, <1>7, <2>1 DEF EndQuestion, Question
  <2>3. MayGo(d, a)
    BY <1>3, <1>4, <1>5, <1>7 DEF MayGo, Known, Ending, Sound, Opens
  <2>4. v \in Teams /\ Sound(v, x) /\ Serves(d, v, a)
        /\ (Few(v) \/ Counted(v) \subseteq Counted(d) \ {a})
    <3>1. PICK how \in {"on", "rest"} : how = "on"
      OBVIOUS
    <3> QED
      BY <1>3, <2>1, <2>3, <3>1, GoOnWhenFreeSound
  <2>5. Few(v)
    BY <1>3, <2>4, FewMore
  <2>6. u \in Teams /\ Sound(u, x) /\ Lets(v, u) /\ Few(u)
    BY <2>2, <2>4, <2>5, PumpSound
  <2>7. Serves(d, u, a)
    BY <2>4, <2>6, ServesMore
  <2> QED
    BY <1>1, <1>7, <2>6, <2>7 DEF Good, Answered
<1> QED
  BY <1>6, <1>7

\* It asks, and its slot is not handed on yet.
Asked(t, a, to) == [t EXCEPT !.question[a] = to, !.state[a] = "asking"]

\* The asker gives its slot up.
LEMMA AskedGood ==
  ASSUME NEW t, NEW x, Good(t, x), NEW a \in Agents, NEW to \in Actors,
         t.state[a] \in {"running", "asking"}, t.wait[a] = NoOne, a \notin t.resting,
         t.question[a] = NoOne,
         NEW u, u = Asked(t, a, to)
  PROVE  Good(u, x) /\ u.state[a] = "asking"
<1>0. t \in Teams /\ Sound(t, x) /\ Few(t)
  BY DEF Good
<1>1. PICK v : v = [t EXCEPT !.state[a] = "asking"]
  OBVIOUS
<1>2. v \in Teams /\ Keeps(t, v) /\ v.state = [t.state EXCEPT ![a] = "asking"] /\ v.going = t.going
      /\ v.line = t.line /\ v.opening = t.opening /\ v.overlap = t.overlap /\ v.state[a] = "asking"
  BY <1>0, <1>1 DEF Teams, Keeps, SameFrames, Ending, States, LiveStates
<1>3. InLine(v)
  BY <1>0, <1>2 DEF Sound, InLine
<1>4. Ending(t, a) => a \in v.overlap \/ v.going[a] = "no"
  BY <1>0, <1>2 DEF Sound, Overlaps
<1>5. a \notin t.opening
  BY <1>0 DEF Sound, Opens
<1>6. Moves(t, v, a, "asking")
  BY <1>2, <1>3, <1>4, <1>5 DEF Moves, Known
<1>7. Sound(v, x) /\ Counted(v) \subseteq Counted(t)
  BY <1>0, <1>2, <1>6, MoveSound DEF ActiveStates
<1>8. Good(v, x)
  BY <1>0, <1>2, <1>7, FewMore DEF Good
<1>9. PICK w : w = Question(v, a, to)
  OBVIOUS
<1>10. v.wait[a] = NoOne
  BY <1>2 DEF Keeps
<1>11. Good(w, x)
  BY <1>2, <1>8, <1>9, <1>10, QuestionSound
<1>12. w = u
  BY <1>0, <1>1, <1>9 DEF Teams, Question, Asked
<1>13. w.state = v.state
  BY <1>2, <1>9 DEF Teams, Question
<1> QED
  BY <1>2, <1>11, <1>12, <1>13

\* ask keeps the invariant.
LEMMA AskGood ==
  ASSUME NEW t, NEW x, Good(t, x), NEW a \in Agents, NEW to \in Actors,
         t.state[a] \in {"running", "asking"}, t.wait[a] = NoOne, a \notin t.resting,
         t.question[a] = NoOne,
         NEW u, u = Ask(t, a, to)
  PROVE  Good(u, x)
<1>1. PICK w : w = Asked(t, a, to)
  OBVIOUS
<1>2. Good(w, x)
  BY <1>1, AskedGood
<1>3. u = Pump(w)
  BY <1>1 DEF Ask, Asked
<1> QED
  BY <1>2, <1>3, PumpSound DEF Good

\* A subagent that asks no longer blocks.
LEMMA UnblockGood ==
  ASSUME NEW t, NEW x, Good(t, x), NEW a \in Agents, NEW u, u = Unblock(t, a)
  PROVE  Good(u, x) /\ u.state = t.state /\ u.wait = t.wait /\ u.resting = t.resting
         /\ u.question = t.question /\ u.parent = t.parent /\ u.stop = t.stop
<1>0. t \in Teams /\ Sound(t, x) /\ Few(t)
  BY DEF Good
<1>1. u \in Teams
  BY <1>0 DEF Teams, Unblock
<1>2. /\ u.parent = t.parent /\ u.wait = t.wait /\ u.question = t.question
      /\ u.resting = t.resting /\ u.overlap = t.overlap /\ u.stop = t.stop
      /\ u.state = t.state /\ u.going = t.going /\ u.opening = t.opening /\ u.line = t.line
      /\ \A b \in Agents : u.blocking[b] => t.blocking[b]
  BY <1>0 DEF Teams, Unblock
<1>3. InLine(u) /\ Blocks(u)
  BY <1>0, <1>2 DEF Sound, InLine, Blocks, Leaves, Ending
<1>4. Detached(u, x)
  <2> SUFFICES ASSUME NEW b \in Agents, b # x, Aborting(u, b), u.stop[b][1].wait # NoOne,
                      u.blocking[u.stop[b][1].wait]
               PROVE  FALSE
    BY DEF Detached
  <2>1. Aborting(t, b) /\ Ending(t, b)
    BY <1>2 DEF Aborting, Ending
  <2>2. t.stop[b][1].wait \in Agents
    BY <1>0, <1>2, <2>1, FramesOf DEF Frames
  <2> QED
    BY <1>0, <1>2, <2>1, <2>2 DEF Sound, Detached
<1>5. Overlaps(u)
  BY <1>0, <1>2 DEF Sound, Overlaps, Ending
<1>6. WaitKnown(u)
  BY <1>0, <1>2 DEF Sound, WaitKnown, Leaves, Ending, Known
<1>7. Waits(u) /\ Asks(u)
  BY <1>0, <1>2 DEF Sound, Waits, Asks
<1>8. Opens(u) /\ Parents(u)
  BY <1>0, <1>2 DEF Sound, Opens, Parents, Known
<1>9. Rests(u, x)
  BY <1>0, <1>2 DEF Sound, Rests, Aborting, Ending
<1>10. Counted(u) = Counted(t)
  BY <1>2 DEF Counted
<1> QED
  BY <1>0, <1>1, <1>2, <1>3, <1>4, <1>5, <1>6, <1>7, <1>8, <1>9, <1>10 DEF Good, Sound, Few

------------------------------------------------------------------------------
(* Walks of the handlers *)

\* What holds before the walk and after every step of it holds after the walk.
LEMMA Walks ==
  ASSUME NEW n \in Nat, NEW X, NEW it, it[{}] \in X[{}],
         \A s \in SUBSET (1 .. n) : s # {} /\ it[s \ {Max(s)}] \in X[s \ {Max(s)}] => it[s] \in X[s]
  PROVE  it[1 .. n] \in X[1 .. n]
<1> DEFINE T == {s \in SUBSET (1 .. n) : it[s] \in X[s]}
<1>1. {} \in T
  OBVIOUS
<1>2. ASSUME NEW s \in SUBSET (1 .. n), s # {}, s \ {Max(s)} \in T PROVE s \in T
  BY <1>2
<1>3. SUBSET (1 .. n) \subseteq T
  <2> HIDE DEF T
  <2> QED BY <1>1, <1>2, SubsetsByMax
<1> QED
  BY <1>3

\* Every wait: true call that may return, one after another.
LEMMA FoldReturn ==
  ASSUME NEW n \in Nat, NEW line, DOMAIN line = 1 .. n, NEW X, NEW x0, x0 \in X[{}],
         \A s \in SUBSET (1 .. n) : \A i \in (1 .. n) \ s : \A x \in X[s] :
            Return(x, line[i]) \in X[s \cup {i}]
  PROVE  FoldLeft(Return, x0, line) \in X[1 .. n]
<1> DEFINE U == UNION {X[s] : s \in SUBSET (1 .. n)}
           F == [i \in 1 .. n |-> [x \in U |-> Return(x, line[i])]]
           Is(g) == g = [s \in SUBSET (1 .. n) |->
                           IF s = {} THEN x0 ELSE Return(g[s \ {Max(s)}], line[Max(s)])]
           it == CHOOSE g : Is(g)
<1>1. ASSUME NEW s \in SUBSET (1 .. n), NEW i \in (1 .. n), NEW x \in X[s]
      PROVE  F[i][x] = Return(x, line[i])
  OBVIOUS
<1>2. PICK h : Folds(h, n, F, x0)
  <2> HIDE DEF F
  <2> QED BY FoldExists
<1>3. \A s \in SUBSET (1 .. n) : h[s] \in X[s]
  <2>1. \A s \in SUBSET (1 .. n) : \A i \in (1 .. n) \ s : \A x \in X[s] : F[i][x] \in X[s \cup {i}]
    BY Zenon, <1>1
  <2> HIDE DEF F
  <2> QED BY <1>2, <2>1, FoldKeeps
<1>4. Is(h)
  <2>1. ASSUME NEW s \in SUBSET (1 .. n), s # {}
        PROVE  F[Max(s)][h[s \ {Max(s)}]] = Return(h[s \ {Max(s)}], line[Max(s)])
    <3>1. Max(s) \in 1 .. n /\ s \ {Max(s)} \in SUBSET (1 .. n)
      BY <2>1, Positions
    <3> HIDE DEF F
    <3> QED BY <1>1, <1>3, <3>1
  <2> HIDE DEF F
  <2> QED BY <1>2, <2>1 DEF Folds
<1>5. Is(it)
  BY <1>4
<1>6. it[1 .. n] \in X[1 .. n]
  <2> HIDE DEF it
  <2>1. it[{}] \in X[{}]
    BY <1>5
  <2>2. ASSUME NEW s \in SUBSET (1 .. n), s # {}, it[s \ {Max(s)}] \in X[s \ {Max(s)}]
        PROVE  it[s] \in X[s]
    <3>1. Max(s) \in (1 .. n) \ (s \ {Max(s)}) /\ (s \ {Max(s)}) \cup {Max(s)} = s
          /\ s \ {Max(s)} \in SUBSET (1 .. n)
      BY <2>2, Positions
    <3>2. it[s] = Return(it[s \ {Max(s)}], line[Max(s)])
      BY <1>5, <2>2
    <3>3. Return(it[s \ {Max(s)}], line[Max(s)]) \in X[(s \ {Max(s)}) \cup {Max(s)}]
      BY <2>2, <3>1
    <3> QED
      BY <3>1, <3>2, <3>3
  <2> QED
    BY <2>1, <2>2, Walks
<1>7. FoldLeft(Return, x0, line) = it[1 .. n]
  BY DEF FoldLeft, MapThenFoldSet
<1> QED
  BY <1>6, <1>7

\* Every asker is told, one after another.
LEMMA FoldTell ==
  ASSUME NEW a, NEW askers, NEW n \in Nat, NEW line, line = InOrder(askers), DOMAIN line = 1 .. n,
         NEW X, NEW x0, x0 \in X[{}],
         \A s \in SUBSET (1 .. n) : \A i \in (1 .. n) \ s : \A x \in X[s] :
            Deliver(x, a, line[i], TRUE) \in X[s \cup {i}]
  PROVE  TellUnanswered(x0, a, askers) \in X[1 .. n]
<1> DEFINE U == UNION {X[s] : s \in SUBSET (1 .. n)}
           F == [i \in 1 .. n |-> [x \in U |-> Deliver(x, a, line[i], TRUE)]]
           Is(g) == g = [s \in SUBSET (1 .. n) |->
                           IF s = {} THEN x0 ELSE Deliver(g[s \ {Max(s)}], a, line[Max(s)], TRUE)]
           it == CHOOSE g : Is(g)
<1>1. ASSUME NEW s \in SUBSET (1 .. n), NEW i \in (1 .. n), NEW x \in X[s]
      PROVE  F[i][x] = Deliver(x, a, line[i], TRUE)
  OBVIOUS
<1>2. PICK h : Folds(h, n, F, x0)
  <2> HIDE DEF F
  <2> QED BY FoldExists
<1>3. \A s \in SUBSET (1 .. n) : h[s] \in X[s]
  <2>1. \A s \in SUBSET (1 .. n) : \A i \in (1 .. n) \ s : \A x \in X[s] : F[i][x] \in X[s \cup {i}]
    BY Zenon, <1>1
  <2> HIDE DEF F
  <2> QED BY <1>2, <2>1, FoldKeeps
<1>4. Is(h)
  <2>1. ASSUME NEW s \in SUBSET (1 .. n), s # {}
        PROVE  F[Max(s)][h[s \ {Max(s)}]] = Deliver(h[s \ {Max(s)}], a, line[Max(s)], TRUE)
    <3>1. Max(s) \in 1 .. n /\ s \ {Max(s)} \in SUBSET (1 .. n)
      BY <2>1, Positions
    <3> HIDE DEF F
    <3> QED BY <1>1, <1>3, <3>1
  <2> HIDE DEF F
  <2> QED BY <1>2, <2>1 DEF Folds
<1>5. Is(it)
  BY <1>4
<1>6. it[1 .. n] \in X[1 .. n]
  <2> HIDE DEF it
  <2>1. it[{}] \in X[{}]
    BY <1>5
  <2>2. ASSUME NEW s \in SUBSET (1 .. n), s # {}, it[s \ {Max(s)}] \in X[s \ {Max(s)}]
        PROVE  it[s] \in X[s]
    <3>1. Max(s) \in (1 .. n) \ (s \ {Max(s)}) /\ (s \ {Max(s)}) \cup {Max(s)} = s
          /\ s \ {Max(s)} \in SUBSET (1 .. n)
      BY <2>2, Positions
    <3>2. it[s] = Deliver(it[s \ {Max(s)}], a, line[Max(s)], TRUE)
      BY <1>5, <2>2
    <3>3. Deliver(it[s \ {Max(s)}], a, line[Max(s)], TRUE) \in X[(s \ {Max(s)}) \cup {Max(s)}]
      BY <2>2, <3>1
    <3> QED
      BY <3>1, <3>2, <3>3
  <2> QED
    BY <2>1, <2>2, Walks
<1>7. TellUnanswered(x0, a, askers) = it[1 .. n]
  BY DEF TellUnanswered, FoldLeft, MapThenFoldSet
<1> QED
  BY <1>6, <1>7

\* Every question ends, one after another.
LEMMA FoldEnd ==
  ASSUME NEW a, NEW n \in Nat, NEW line,
         NEW x0, line = InOrder({x \in Agents : x0.question[x] = a /\ x # x0.parent[a]}),
         DOMAIN line = 1 .. n, NEW X, x0 \in X[{}],
         \A s \in SUBSET (1 .. n) : \A i \in (1 .. n) \ s : \A x \in X[s] :
            EndQuestion(x, line[i]) \in X[s \cup {i}]
  PROVE  EndOtherQuestions(x0, a) \in X[1 .. n]
<1> DEFINE U == UNION {X[s] : s \in SUBSET (1 .. n)}
           F == [i \in 1 .. n |-> [x \in U |-> EndQuestion(x, line[i])]]
           Is(g) == g = [s \in SUBSET (1 .. n) |->
                           IF s = {} THEN x0 ELSE EndQuestion(g[s \ {Max(s)}], line[Max(s)])]
           it == CHOOSE g : Is(g)
<1>1. ASSUME NEW s \in SUBSET (1 .. n), NEW i \in (1 .. n), NEW x \in X[s]
      PROVE  F[i][x] = EndQuestion(x, line[i])
  OBVIOUS
<1>2. PICK h : Folds(h, n, F, x0)
  <2> HIDE DEF F
  <2> QED BY FoldExists
<1>3. \A s \in SUBSET (1 .. n) : h[s] \in X[s]
  <2>1. \A s \in SUBSET (1 .. n) : \A i \in (1 .. n) \ s : \A x \in X[s] : F[i][x] \in X[s \cup {i}]
    BY Zenon, <1>1
  <2> HIDE DEF F
  <2> QED BY <1>2, <2>1, FoldKeeps
<1>4. Is(h)
  <2>1. ASSUME NEW s \in SUBSET (1 .. n), s # {}
        PROVE  F[Max(s)][h[s \ {Max(s)}]] = EndQuestion(h[s \ {Max(s)}], line[Max(s)])
    <3>1. Max(s) \in 1 .. n /\ s \ {Max(s)} \in SUBSET (1 .. n)
      BY <2>1, Positions
    <3> HIDE DEF F
    <3> QED BY <1>1, <1>3, <3>1
  <2> HIDE DEF F
  <2> QED BY <1>2, <2>1 DEF Folds
<1>5. Is(it)
  BY <1>4
<1>6. it[1 .. n] \in X[1 .. n]
  <2> HIDE DEF it
  <2>1. it[{}] \in X[{}]
    BY <1>5
  <2>2. ASSUME NEW s \in SUBSET (1 .. n), s # {}, it[s \ {Max(s)}] \in X[s \ {Max(s)}]
        PROVE  it[s] \in X[s]
    <3>1. Max(s) \in (1 .. n) \ (s \ {Max(s)}) /\ (s \ {Max(s)}) \cup {Max(s)} = s
          /\ s \ {Max(s)} \in SUBSET (1 .. n)
      BY <2>2, Positions
    <3>2. it[s] = EndQuestion(it[s \ {Max(s)}], line[Max(s)])
      BY <1>5, <2>2
    <3>3. EndQuestion(it[s \ {Max(s)}], line[Max(s)]) \in X[(s \ {Max(s)}) \cup {Max(s)}]
      BY <2>2, <3>1
    <3> QED
      BY <3>1, <3>2, <3>3
  <2> QED
    BY <2>1, <2>2, Walks
<1>7. EndOtherQuestions(x0, a) = it[1 .. n]
  BY DEF EndOtherQuestions, FoldLeft, MapThenFoldSet
<1> QED
  BY <1>6, <1>7

------------------------------------------------------------------------------
(* wait: true calls return *)

\* A wait: true call returns, before its agent goes on.
WaitEnds(t, a) == [t EXCEPT !.wait[a] = NoOne]

\* A wait: true call whose subagent no longer blocks returns.
LEMMA WaitEndsSound ==
  ASSUME NEW t, NEW x, Good(t, x), NEW a \in Agents, t.wait[a] # NoOne, ~t.blocking[t.wait[a]],
         NEW u, u = WaitEnds(t, a)
  PROVE  /\ u \in Teams /\ Sound(u, x) /\ Counted(u) \subseteq Counted(t) \cup {a}
         /\ u.state = t.state /\ (u.state[a] \notin ActiveStates => Counted(u) \subseteq Counted(t))
         /\ u.state[a] \in ActiveStates => MayGo(u, a)
<1>0. t \in Teams /\ Sound(t, x) /\ Few(t)
  BY DEF Good
<1>1. u \in Teams
  BY <1>0 DEF Teams, WaitEnds
<1>2. /\ u.parent = t.parent /\ u.blocking = t.blocking /\ u.question = t.question
      /\ u.resting = t.resting /\ u.overlap = t.overlap /\ u.stop = t.stop
      /\ u.state = t.state /\ u.going = t.going /\ u.opening = t.opening /\ u.line = t.line
      /\ u.wait[a] = NoOne /\ \A b \in Agents : b # a => u.wait[b] = t.wait[b]
  BY <1>0 DEF Teams, WaitEnds
<1>3. InLine(u)
  BY <1>0, <1>2 DEF Sound, InLine
<1>4. Blocks(u)
  <2> SUFFICES ASSUME NEW c \in Agents, u.blocking[c]
               PROVE  u.parent[c] \in Agents
                      /\ (u.wait[u.parent[c]] = c \/ Leaves(u, u.parent[c], c))
    BY DEF Blocks
  <2>1. t.parent[c] \in Agents /\ (t.wait[t.parent[c]] = c \/ Leaves(t, t.parent[c], c))
    BY <1>0, <1>2 DEF Sound, Blocks
  <2>2. CASE t.parent[c] = a /\ t.wait[a] = c
    BY <1>2, <2>2
  <2>3. CASE t.parent[c] # a \/ t.wait[a] # c
    BY <1>2, <2>1, <2>3 DEF Leaves, Ending
  <2> QED
    BY <2>2, <2>3
<1>5. Detached(u, x) /\ Overlaps(u)
  BY <1>0, <1>2 DEF Sound, Detached, Overlaps, Aborting, Ending
<1>6. WaitKnown(u)
  <2> SUFFICES ASSUME NEW b \in Agents, NEW c \in Agents, u.wait[b] = c \/ Leaves(u, b, c)
               PROVE  Known(u, c)
    BY DEF WaitKnown
  <2>1. NoOne # c
    BY NumbersOf
  <2>2. t.wait[b] = c \/ Leaves(t, b, c)
    BY <1>2, <2>1 DEF Leaves, Ending
  <2> QED
    BY <1>0, <1>2, <2>2 DEF Sound, WaitKnown, Known
<1>7. Waits(u)
  BY <1>0, <1>2 DEF Sound, Waits
<1>8. Asks(u) /\ Opens(u) /\ Parents(u)
  BY <1>0, <1>2 DEF Sound, Asks, Opens, Parents, Known
<1>9. Rests(u, x)
  <2> SUFFICES ASSUME NEW b \in u.resting
               PROVE  u.wait[b] = NoOne /\ (u.state[b] = "running" \/ (Ending(u, b)
                      /\ (b = x \/ ~Aborting(u, b))))
    BY DEF Rests
  <2>1. b \in Agents
    BY <1>1 DEF Teams
  <2> QED
    BY <1>0, <1>2, <2>1 DEF Sound, Rests, Aborting, Ending
<1>10. Counted(u) \subseteq Counted(t) \cup {a}
       /\ (u.state[a] \notin ActiveStates => Counted(u) \subseteq Counted(t))
  BY <1>2 DEF Counted
<1>11. t.state[a] \in {"running", "asking"} /\ t.question[a] = NoOne
  BY <1>0 DEF Sound, Waits
<1>12. Ending(u, a) => a \in u.overlap \/ u.state[a] = "asking"
  BY <1>2, <1>5, <1>11 DEF Overlaps
<1>13. a \notin u.opening /\ a \notin u.resting
  <2>1. a \notin t.opening
    BY <1>0, <1>11 DEF Sound, Opens
  <2>2. a \notin t.resting
    BY <1>0 DEF Sound, Rests
  <2> QED
    BY <1>2, <2>1, <2>2
<1>14. u.state[a] \in ActiveStates => MayGo(u, a)
  BY <1>2, <1>11, <1>12, <1>13 DEF MayGo, Known, ActiveStates
<1>15. Sound(u, x)
  BY <1>3, <1>4, <1>5, <1>6, <1>7, <1>8, <1>9 DEF Sound
<1> QED
  BY <1>1, <1>2, <1>10, <1>14, <1>15

\* return keeps the invariant: the agent that waited goes on once a slot is free.
LEMMA ReturnGood ==
  ASSUME NEW t, NEW x, Good(t, x), NEW a \in Agents, NEW u, u = Return(t, a)
  PROVE  Good(u, x)
<1>0. t \in Teams /\ Sound(t, x) /\ Few(t)
  BY DEF Good
<1>1. CASE ~Waited(t, a)
  BY <1>1 DEF Return
<1>2. CASE Waited(t, a)
  <2>1. PICK v : v = WaitEnds(t, a)
    OBVIOUS
  <2>2. /\ v \in Teams /\ Sound(v, x) /\ Counted(v) \subseteq Counted(t) \cup {a}
        /\ v.state[a] \notin ActiveStates => Counted(v) \subseteq Counted(t)
        /\ v.state[a] \in ActiveStates => MayGo(v, a)
    BY <1>2, <2>1, WaitEndsSound DEF Waited
  <2>3. u = AfterWait(v, a)
    BY <1>2, <2>1 DEF Return, WaitEnds
  <2>4. CASE v.state[a] \notin ActiveStates
    BY <1>0, <2>2, <2>3, <2>4, FewMore DEF AfterWait, Good
  <2>5. CASE Fits(v)
    BY <2>2, <2>3, <2>5, CountedWork DEF AfterWait, Good
  <2>6. CASE v.state[a] \in ActiveStates /\ ~Fits(v)
    <3>1. PICK how \in {"on", "rest"} : how = "on"
      OBVIOUS
    <3>2. u = GoOnWhenFree(v, a, how)
      BY <2>3, <2>6, <3>1 DEF AfterWait
    <3>3. u \in Teams /\ Sound(u, x) /\ (Few(u) \/ Counted(u) \subseteq Counted(v) \ {a})
      BY <2>2, <2>6, <3>2, GoOnWhenFreeSound
    <3>4. Counted(v) \ {a} \subseteq Counted(t)
      BY <2>2
    <3>5. Few(u)
      BY <1>0, <3>3, <3>4, FewMore
    <3> QED
      BY <3>3, <3>5 DEF Good
  <2> QED
    BY <2>4, <2>5, <2>6
<1> QED
  BY <1>1, <1>2

\* So do all returns together.
LEMMA ReturnedGood ==
  ASSUME NEW t, NEW x, Good(t, x)
  PROVE  Good(Returned(t), x)
<1> DEFINE n == MaxAgents
           G == {u \in Teams : Good(u, x)}
           X == [s \in SUBSET (1 .. n) |-> G]
<1>1. n \in Nat /\ Agents \in SUBSET Agents /\ Cardinality(Agents) = n
  BY NumbersOf
<1>2. PICK line : line = InOrder(Agents)
  OBVIOUS
<1>3. DOMAIN line = 1 .. n /\ line \in [1 .. n -> Agents]
  BY <1>1, <1>2, InOrderLists
<1>4. t \in X[{}]
  BY DEF Good
<1>5. ASSUME NEW s \in SUBSET (1 .. n), NEW i \in (1 .. n) \ s, NEW v \in X[s]
      PROVE  Return(v, line[i]) \in X[s \cup {i}]
  <2>1. Good(v, x) /\ line[i] \in Agents
    BY <1>3
  <2>2. Good(Return(v, line[i]), x)
    BY <2>1, ReturnGood
  <2> QED
    BY <2>2 DEF Good
<1>6. FoldLeft(Return, t, line) \in X[1 .. n]
  <2> HIDE DEF X, n
  <2> QED BY <1>1, <1>3, <1>4, <1>5, FoldReturn
<1> QED
  BY <1>2, <1>6 DEF Returned

------------------------------------------------------------------------------
(* Messages *)

\* What changes nothing the slots are about keeps the invariant.
LEMMA GoodSame ==
  ASSUME NEW t, NEW x, Good(t, x), NEW u \in Teams, Same(t, u)
  PROVE  Good(u, x)
BY SameSound DEF Good

\* Owed answers are such a change.
LEMMA OwedSame ==
  ASSUME NEW t \in Teams, NEW o \in [Agents -> SUBSET Agents]
  PROVE  [t EXCEPT !.owed = o] \in Teams /\ Same(t, [t EXCEPT !.owed = o])
BY DEF Teams, Same, Stays, Keeps, SameFrames, Ending

\* A paid answer is.
LEMMA PayOwedSame ==
  ASSUME NEW t \in Teams, NEW a \in Agents, NEW b
  PROVE  PayOwed(t, a, b) \in Teams /\ Same(t, PayOwed(t, a, b))
<1>1. PICK o : o = [t.owed EXCEPT ![a] = @ \ {b}]
  OBVIOUS
<1>2. o \in [Agents -> SUBSET Agents]
  BY <1>1 DEF Teams
<1>3. PayOwed(t, a, b) = [t EXCEPT !.owed = o]
  BY <1>1 DEF PayOwed, Teams
<1> QED
  BY <1>2, <1>3, OwedSame

\* All answers of an agent that ended are.
LEMMA PaidSame ==
  ASSUME NEW t \in Teams, NEW a
  PROVE  Paid(t, a) \in Teams /\ Same(t, Paid(t, a))
<1>1. PICK o : o = [y \in Agents |-> t.owed[y] \ {a}]
  OBVIOUS
<1>2. o \in [Agents -> SUBSET Agents]
  BY <1>1 DEF Teams
<1>3. Paid(t, a) = [t EXCEPT !.owed = o]
  BY <1>1 DEF Paid, Teams
<1> QED
  BY <1>2, <1>3, OwedSame

\* What main is owed is.
LEMMA MainSame ==
  ASSUME NEW t \in Teams, NEW m \in SUBSET Agents, NEW p \in SUBSET Agents
  PROVE  /\ [t EXCEPT !.owesMain = m] \in Teams /\ Same(t, [t EXCEPT !.owesMain = m])
         /\ [t EXCEPT !.owesMain = m, !.peerRuns = p] \in Teams
         /\ Same(t, [t EXCEPT !.owesMain = m, !.peerRuns = p])
BY DEF Teams, Same, Stays, Keeps, SameFrames, Ending

\* The end of a run is.
LEMMA RunEndedSame ==
  ASSUME NEW t \in Teams, NEW a
  PROVE  RunEnded(t, a) \in Teams /\ Same(t, RunEnded(t, a))
<1>1. PICK m : m = t.owesMain \ {a}
  OBVIOUS
<1>2. PICK p : p = t.peerRuns \ {a}
  OBVIOUS
<1>3. m \in SUBSET Agents /\ p \in SUBSET Agents
  BY <1>1, <1>2 DEF Teams
<1>4. PICK u : u = [t EXCEPT !.owesMain = m, !.peerRuns = p]
  OBVIOUS
<1>5. u \in Teams
  BY <1>3, <1>4 DEF Teams
<1>6. Same(t, u)
  BY <1>4 DEF Teams, Same, Stays, Keeps, SameFrames, Ending
<1>7. RunEnded(t, a) = u
  BY <1>1, <1>2, <1>4 DEF RunEnded
<1> QED
  BY <1>5, <1>6, <1>7

\* Its session may ask.
FreeToAsk(t, a) ==
    /\ t.state[a] \in {"running", "asking"} /\ t.wait[a] = NoOne
    /\ a \notin t.resting /\ t.question[a] = NoOne

\* It may still ask after a handler for another agent.
LEMMA StillAsks ==
  ASSUME NEW t, NEW u, NEW a \in Agents, FreeToAsk(t, a)
  PROVE  /\ \A b : Serves(t, u, b) /\ a # b => FreeToAsk(u, a)
         /\ Same(t, u) => FreeToAsk(u, a)
<1>1. ASSUME NEW b, Serves(t, u, b), a # b PROVE FreeToAsk(u, a)
  BY <1>1 DEF FreeToAsk, Serves, Keeps
<1>2. ASSUME Same(t, u) PROVE FreeToAsk(u, a)
  BY <1>2 DEF FreeToAsk, Same, Stays, Keeps
<1> QED
  BY <1>1, <1>2

\* deliver keeps the invariant.
LEMMA DeliverGood ==
  ASSUME NEW t, NEW x, Good(t, x), NEW from \in Actors, NEW a \in Agents,
         NEW wakes, NEW u, u = Deliver(t, from, a, wakes)
  PROVE  Good(u, x) /\ Serves(t, u, a)
BY DeliverSound DEF Good

\* So does the question of a peer,
LEMMA AskPeerGood ==
  ASSUME NEW t, NEW x, Good(t, x), NEW from \in Agents, NEW to \in Agents,
         NEW u, u = AskPeer(t, from, to)
  PROVE  Good(u, x)
<1>1. CASE u = t
  BY <1>1
<1>2. CASE u # t
  <2>1. PICK s : s = Deliver(t, from, to, TRUE)
    OBVIOUS
  <2>2. Good(s, x)
    BY <2>1, DeliverGood DEF Actors
  <2>3. PICK o : o = [s.owed EXCEPT ![from] = @ \cup {to}]
    OBVIOUS
  <2>4. s \in Teams /\ o \in [Agents -> SUBSET Agents]
    BY <2>2, <2>3 DEF Good, Teams
  <2>5. u = [s EXCEPT !.owed = o]
    BY <1>2, <2>1, <2>3, <2>4 DEF AskPeer, Teams
  <2>6. u \in Teams /\ Same(s, u)
    BY <2>4, <2>5, OwedSame
  <2> QED
    BY <2>2, <2>6, GoodSame
<1> QED
  BY <1>1, <1>2

\* a question of main,
LEMMA MainAsksGood ==
  ASSUME NEW t, NEW x, Good(t, x), NEW to \in Agents, NEW u, u = MainAsks(t, to)
  PROVE  Good(u, x)
<1>1. PICK s : s = Deliver(t, Main, to, TRUE)
  OBVIOUS
<1>2. Good(s, x)
  BY <1>1, DeliverGood DEF Actors
<1>3. PICK m : m = s.owesMain \cup {to}
  OBVIOUS
<1>4. s \in Teams /\ m \in SUBSET Agents
  BY <1>2, <1>3 DEF Good, Teams
<1>5. u = [s EXCEPT !.owesMain = m]
  BY <1>1, <1>3 DEF MainAsks
<1>6. u \in Teams /\ Same(s, u)
  BY Zenon, <1>4, <1>5, MainSame
<1> QED
  BY <1>2, <1>6, GoodSame

\* a message to main,
LEMMA ToMainGood ==
  ASSUME NEW t, NEW x, Good(t, x), NEW from \in Agents, NEW u, u = ToMain(t, from)
  PROVE  Good(u, x) /\ Same(t, u)
<1>1. PICK m : m = t.owesMain \ {from}
  OBVIOUS
<1>2. t \in Teams /\ m \in SUBSET Agents
  BY <1>1 DEF Good, Teams
<1>3. u = [t EXCEPT !.owesMain = m]
  BY <1>1 DEF ToMain
<1>4. u \in Teams /\ Same(t, u)
  BY Zenon, <1>2, <1>3, MainSame
<1> QED
  BY <1>4, GoodSame

\* and one to an agent.
LEMMA ToChildGood ==
  ASSUME NEW t, NEW x, Good(t, x), NEW from \in Actors, NEW to \in Agents, NEW ask,
         NEW u, u = ToChild(t, from, to, ask)
  PROVE  Good(u, x) /\ Serves(t, u, to)
<1>1. PICK w : w = (from \in Agents /\ to \in Agents /\ from \in t.owed[to])
  OBVIOUS
<1>2. PICK s : s = IF w THEN PayOwed(t, to, from) ELSE t
  OBVIOUS
<1>3. t \in Teams /\ Same(t, t)
  BY DEF Good, Same, Stays, Keeps, SameFrames
<1>4. s \in Teams /\ Same(t, s)
  BY <1>2, <1>3, PayOwedSame
<1>5. Good(s, x)
  BY <1>4, GoodSame
<1>6. u = Deliver(s, from, to, ask \/ w)
  BY <1>1, <1>2 DEF ToChild
<1>7. Good(u, x) /\ Serves(s, u, to)
  BY <1>5, <1>6, DeliverGood
<1> QED
  BY <1>4, <1>7, StaysServes DEF Same

\* Whatever is sent up, down or across the tree, the invariant holds.
LEMMA SendOnlyGood ==
  ASSUME NEW t, NEW x, Good(t, x), NEW from \in Actors, NEW to \in Actors, from # to,
         from = Main => to \in Agents, from \in Agents => FreeToAsk(t, from),
         NEW ask, NEW u, u = SendOnly(t, from, to, ask)
  PROVE  Good(u, x)
<1>1. (from \in Agents \/ from = Main) /\ (to \in Agents \/ to = Main) /\ Main \notin Agents
  BY NumbersOf DEF Actors
<1>2. CASE ask /\ from \in Agents /\ ~UpTheTree(t, from, to)
  <2>1. to \in Agents /\ from \in Agents
    BY <1>1, <1>2 DEF UpTheTree
  <2>2. u = AskPeer(t, from, to)
    BY <1>2 DEF SendOnly
  <2> QED
    BY <2>1, <2>2, AskPeerGood
<1>3. CASE ask /\ from = Main
  <2>1. u = MainAsks(t, to)
    BY <1>1, <1>3 DEF SendOnly
  <2> QED
    BY <1>3, <2>1, MainAsksGood
<1>4. CASE ~(ask /\ from \in Agents /\ ~UpTheTree(t, from, to)) /\ ~(ask /\ from = Main)
  <2>1. PICK s : s = IF to = Main THEN ToMain(t, from) ELSE ToChild(t, from, to, ask)
    OBVIOUS
  <2>2. Good(s, x) /\ (from \in Agents => FreeToAsk(s, from))
    <3>1. CASE to = Main
      <4>1. from \in Agents /\ s = ToMain(t, from)
        BY <1>1, <2>1, <3>1
      <4>2. Good(s, x) /\ Same(t, s)
        BY <4>1, ToMainGood
      <4> QED
        BY <4>1, <4>2, StillAsks
    <3>2. CASE to # Main
      <4>1. to \in Agents /\ s = ToChild(t, from, to, ask)
        BY <1>1, <2>1, <3>2
      <4>2. Good(s, x) /\ Serves(t, s, to)
        BY <4>1, ToChildGood
      <4> QED
        BY <4>2, StillAsks
    <3> QED
      BY <3>1, <3>2
  <2>3. CASE u = s
    BY <2>2, <2>3
  <2>4. CASE ask /\ u = Ask(s, from, to)
    <3>1. from \in Agents
      BY <1>1, <1>4, <2>4
    <3>2. FreeToAsk(s, from)
      BY <2>2, <3>1
    <3> QED
      BY <2>2, <2>4, <3>1, <3>2, AskGood DEF FreeToAsk
  <2>5. u = s \/ (ask /\ u = Ask(s, from, to))
    BY <1>4, <2>1 DEF SendOnly
  <2> QED
    BY <2>3, <2>4, <2>5
<1> QED
  BY <1>2, <1>3, <1>4

\* send keeps the invariant: answers and messages of a subagent that blocks its parent, too.
LEMMA SendGood ==
  ASSUME NEW t, NEW x, Good(t, x), NEW from \in Actors, NEW to \in Actors, from # to,
         from = Main => to \in Agents, from \in Agents => FreeToAsk(t, from),
         NEW ask, NEW u, u = Send(t, from, to, ask)
  PROVE  Good(u, x)
<1>1. CASE to \in Agents /\ t.question[to] = from
  <2>1. from # NoOne
    BY NumbersOf
  <2>2. u = EndQuestion(t, to)
    BY <1>1 DEF Send
  <2> QED
    BY <1>1, <2>1, <2>2, EndQuestionGood
<1>2. CASE u = t
  BY <1>2
<1>3. CASE u = SendOnly(t, from, to, ask)
  BY <1>3, SendOnlyGood
<1>4. CASE from \in Agents /\ u = SendOnly(Unblock(t, from), from, to, ask)
  <2>1. PICK v : v = Unblock(t, from)
    OBVIOUS
  <2>2. /\ Good(v, x) /\ v.state = t.state /\ v.wait = t.wait /\ v.resting = t.resting
        /\ v.question = t.question
    BY <1>4, <2>1, UnblockGood
  <2>3. FreeToAsk(v, from)
    BY <1>4, <2>2 DEF FreeToAsk
  <2> QED
    BY <1>4, <2>1, <2>2, <2>3, SendOnlyGood
<1> QED
  BY <1>1, <1>2, <1>3, <1>4 DEF Send, BlockedOn

------------------------------------------------------------------------------
(* Where a report goes (hand-up.ts) *)

\* The askers of an agent that ended hear of it, and the invariant holds.
LEMMA TellUnansweredGood ==
  ASSUME NEW t, NEW x, Good(t, x), NEW a \in Agents, NEW S \in SUBSET Agents
  PROVE  Good(TellUnanswered(t, a, S), x)
<1> DEFINE n == Cardinality(S)
           G == {u \in Teams : Good(u, x)}
           X == [s \in SUBSET (1 .. n) |-> G]
<1>1. PICK line : line = InOrder(S)
  OBVIOUS
<1>2. n \in Nat /\ DOMAIN line = 1 .. n /\ line \in [1 .. n -> S]
  BY <1>1, InOrderLists
<1>3. t \in X[{}]
  BY DEF Good
<1>4. ASSUME NEW s \in SUBSET (1 .. n), NEW i \in (1 .. n) \ s, NEW v \in X[s]
      PROVE  Deliver(v, a, line[i], TRUE) \in X[s \cup {i}]
  <2>1. Good(v, x) /\ line[i] \in Agents
    BY <1>2
  <2>2. PICK u : u = Deliver(v, a, line[i], TRUE)
    OBVIOUS
  <2>3. Good(u, x)
    BY <2>1, <2>2, DeliverGood DEF Actors
  <2> QED
    BY <2>2, <2>3 DEF Good
<1>5. TellUnanswered(t, a, S) \in X[1 .. n]
  <2> HIDE DEF X, n
  <2> QED BY <1>1, <1>2, <1>3, <1>4, FoldTell
<1> QED
  BY <1>5

\* So do those that wait for its answer.
LEMMA EndOtherQuestionsGood ==
  ASSUME NEW t, NEW x, Good(t, x), NEW a \in Agents
  PROVE  Good(EndOtherQuestions(t, a), x)
<1> DEFINE S == {y \in Agents : t.question[y] = a /\ y # t.parent[a]}
           n == Cardinality(S)
<1>1. PICK line : line = InOrder(S)
  OBVIOUS
<1>2. n \in Nat /\ DOMAIN line = 1 .. n /\ line \in [1 .. n -> S]
      /\ \A i, j \in 1 .. n : line[i] = line[j] => i = j
  BY <1>1, InOrderLists
<1> DEFINE X == [s \in SUBSET (1 .. n) |->
                   {u \in Teams : Good(u, x)
                   /\ \A i \in (1 .. n) \ s : u.question[line[i]] # NoOne}]
<1>3. t \in X[{}]
  <2>1. a # NoOne
    BY NumbersOf
  <2>2. \A i \in 1 .. n : t.question[line[i]] = a
    BY <1>2
  <2> HIDE DEF n, S
  <2> QED BY <2>1, <2>2 DEF Good
<1>4. ASSUME NEW s \in SUBSET (1 .. n), NEW i \in (1 .. n) \ s, NEW v \in X[s]
      PROVE  EndQuestion(v, line[i]) \in X[s \cup {i}]
  <2>1. Good(v, x) /\ line[i] \in Agents /\ v.question[line[i]] # NoOne
    BY <1>2
  <2>2. PICK u : u = EndQuestion(v, line[i])
    OBVIOUS
  <2>3. Good(u, x) /\ Answered(v, u, line[i])
    BY <2>1, <2>2, EndQuestionGood
  <2>4. \A b \in Agents : b # line[i] => u.question[b] = v.question[b]
    <3>1. u.question = Question(v, line[i], NoOne).question
      BY <2>3 DEF Answered, Serves, Keeps
    <3> QED
      BY <2>1, <3>1 DEF Question, Good, Teams
  <2>5. ASSUME NEW j \in (1 .. n) \ (s \cup {i}) PROVE u.question[line[j]] # NoOne
    <3>1. j \in 1 .. n /\ i \in 1 .. n /\ j # i /\ j \in (1 .. n) \ s
      OBVIOUS
    <3>2. line[j] # line[i] /\ line[j] \in Agents
      BY <1>2, <3>1
    <3>3. v.question[line[j]] # NoOne
      BY <3>1
    <3> QED
      BY <2>4, <3>2, <3>3
  <2> HIDE DEF n, S
  <2> QED BY <2>2, <2>3, <2>5 DEF Good
<1>5. EndOtherQuestions(t, a) \in X[1 .. n]
  <2> HIDE DEF X, n
  <2> QED BY <1>1, <1>2, <1>3, <1>4, FoldEnd
<1> QED
  BY <1>5

\* A report has somebody to go to.
LEMMA ReportTargetIs ==
  ASSUME NEW t \in Teams, NEW a \in Agents, t.parent[a] \in Actors
  PROVE  ReportTarget(t, a) \in Actors
<1>1. PICK p \in Actors : p = t.parent[a]
  OBVIOUS
<1>2. PICK L : L = {y \in Above(t, p) : Live(t, y)}
  OBVIOUS
<1>3. L \in SUBSET (1 .. MaxAgents)
  BY <1>2 DEF Above, Reach, Agents
<1>4. ASSUME L # {} PROVE (CHOOSE y \in L : \A z \in L : z <= y) \in L
  <2>1. Max(L) \in L /\ \A z \in L : z <= Max(L)
    BY <1>3, <1>4, NumbersOf, GreatestOf
  <2> QED
    BY <2>1
<1>5. ReportTarget(t, a) = IF p = Main \/ ~Ended(t, p) THEN p
                           ELSE IF L = {} THEN Main ELSE CHOOSE y \in L : \A z \in L : z <= y
  BY <1>1, <1>2 DEF ReportTarget
<1> QED
  BY <1>3, <1>4, <1>5 DEF Actors, Agents

\* reportUp keeps the invariant.
LEMMA ReportUpGood ==
  ASSUME NEW t, NEW x, Good(t, x), NEW a \in Agents, Known(t, a), NEW quiet, NEW blocking
  PROVE  Good(ReportUp(t, a, quiet, blocking), x)
<1>1. t \in Teams /\ t.parent[a] \in Actors
  BY DEF Good, Sound, Parents
<1>2. PICK to \in Actors : to = ReportTarget(t, a)
  BY <1>1, ReportTargetIs
<1>3. PICK u : u = ReportTo(t, a, to, quiet, blocking)
  OBVIOUS
<1>4. CASE u = t
  BY <1>2, <1>3, <1>4 DEF ReportUp
<1>5. CASE u = Deliver(t, a, to, ~quiet \/ to # t.parent[a]) /\ to # Main
  <2>1. to \in Agents /\ a \in Actors
    BY <1>2, <1>5 DEF Actors
  <2>2. Good(u, x)
    BY <1>5, <2>1, DeliverGood
  <2> QED
    BY <1>2, <1>3, <2>2 DEF ReportUp
<1> QED
  BY <1>3, <1>4, <1>5 DEF ReportTo

\* hand-up keeps the invariant.
LEMMA HandUpGood ==
  ASSUME NEW t, NEW x, Good(t, x), NEW a \in Agents, Known(t, a), NEW silent, NEW blocking
  PROVE  Good(HandUp(t, a, silent, blocking), x)
<1>0. t \in Teams
  BY DEF Good
<1>1. PICK e : e = RunEnded(t, a)
  OBVIOUS
<1>2. Good(e, x) /\ Known(e, a)
  <2>1. e \in Teams /\ Same(t, e)
    BY <1>0, <1>1, RunEndedSame
  <2> QED
    BY <2>1, GoodSame DEF Same, Stays, Known
<1>3. PICK p : p = Paid(e, a)
  OBVIOUS
<1>4. Good(p, x) /\ Known(p, a)
  <2>1. p \in Teams /\ Same(e, p)
    BY <1>2, <1>3, PaidSame DEF Good
  <2> QED
    BY <1>2, <2>1, GoodSame DEF Same, Stays, Known
<1>5. PICK r : r = IF silent THEN p ELSE ReportUp(p, a, Quiet(t, a), blocking)
  OBVIOUS
<1>6. Good(r, x)
  BY <1>4, <1>5, ReportUpGood
<1>7. PICK S \in SUBSET Agents : S = Askers(t, a) \ {t.parent[a]}
  BY DEF Askers
<1>8. PICK q : q = TellUnanswered(r, a, S)
  OBVIOUS
<1>9. Good(q, x)
  BY <1>6, <1>8, TellUnansweredGood
<1>10. HandUp(t, a, silent, blocking) = EndOtherQuestions(q, a)
  BY <1>1, <1>3, <1>5, <1>7, <1>8 DEF HandUp
<1> QED
  BY <1>9, <1>10, EndOtherQuestionsGood

\* So does that of a failure.
LEMMA HandUpFailureGood ==
  ASSUME NEW t, NEW x, Good(t, x), NEW a \in Agents, Known(t, a)
  PROVE  Good(HandUpFailure(t, a), x)
<1>0. t \in Teams
  BY DEF Good
<1>1. PICK b \in Actors : b = t.parent[a]
  BY DEF Good, Sound, Parents
<1>2. PICK p : p = Paid(t, a)
  OBVIOUS
<1>3. Good(p, x)
  BY <1>0, <1>2, PaidSame, GoodSame
<1>4. PICK r : r = IF b = Main THEN p ELSE Deliver(p, a, b, TRUE)
  OBVIOUS
<1>5. Good(r, x)
  <2>1. CASE b = Main
    BY <1>3, <1>4, <2>1
  <2>2. CASE b # Main
    <3>1. b \in Agents /\ a \in Actors /\ r = Deliver(p, a, b, TRUE)
      BY <1>4, <2>2 DEF Actors
    <3> QED
      BY <1>3, <3>1, DeliverGood
  <2> QED
    BY <2>1, <2>2
<1>6. PICK S \in SUBSET Agents : S = Askers(t, a) \ {b}
  BY DEF Askers
<1>7. PICK q : q = TellUnanswered(r, a, S)
  OBVIOUS
<1>8. Good(q, x)
  BY <1>5, <1>7, TellUnansweredGood
<1>9. HandUpFailure(t, a) = EndOtherQuestions(q, a)
  BY <1>1, <1>2, <1>4, <1>6, <1>7 DEF HandUpFailure
<1> QED
  BY <1>8, <1>9, EndOtherQuestionsGood

------------------------------------------------------------------------------
(* How runs end *)

\* u is t without the stop, the block and the overlap of a.
Sheds(t, u, a) ==
    /\ u.stop[a] = <<>> /\ \A b \in Agents : b # a => u.stop[b] = t.stop[b]
    /\ u.parent = t.parent /\ u.wait = t.wait /\ u.question = t.question /\ u.resting = t.resting
    /\ u.state = t.state /\ u.going = t.going /\ u.line = t.line /\ u.opening = t.opening
    /\ \A b \in Agents : u.blocking[b] => t.blocking[b]
    /\ \A b \in Agents : b # a => (b \in u.overlap <=> b \in t.overlap)
    /\ u.overlap = t.overlap \/ t.state[a] \notin ActiveStates

\* The stop of a is over.
LEMMA ShedsGood ==
  ASSUME NEW t, Good(t, NoOne), NEW a \in Agents, Ending(t, a) => Aborting(t, a),
         NEW u \in Teams, Sheds(t, u, a)
  PROVE  Good(u, NoOne)
<1>0. t \in Teams /\ Sound(t, NoOne) /\ Few(t) /\ NoOne \notin Agents
  BY NumbersOf DEF Good
<1>1. ~Ending(u, a) /\ \A b \in Agents : b # a => (Ending(u, b) <=> Ending(t, b))
  BY DEF Sheds, Ending
<1>2. InLine(u)
  BY <1>0 DEF Sound, InLine, Sheds
<1>3. Blocks(u)
  <2> SUFFICES ASSUME NEW c \in Agents, u.blocking[c]
               PROVE  u.parent[c] \in Agents
                      /\ (u.wait[u.parent[c]] = c \/ Leaves(u, u.parent[c], c))
    BY DEF Blocks
  <2>1. t.blocking[c] /\ t.parent[c] \in Agents
        /\ (t.wait[t.parent[c]] = c \/ Leaves(t, t.parent[c], c))
    BY <1>0 DEF Sound, Blocks, Sheds
  <2>2. CASE t.parent[c] = a /\ Leaves(t, a, c)
    <3>1. Aborting(t, a) /\ t.stop[a][1].wait = c /\ c # NoOne /\ a # NoOne
      BY <1>0, <2>2 DEF Leaves
    <3>2. ~t.blocking[c]
      BY <1>0, <3>1 DEF Sound, Detached
    <3> QED
      BY <2>1, <3>2
  <2>3. CASE t.parent[c] # a \/ ~Leaves(t, a, c)
    BY <1>1, <2>1, <2>3 DEF Leaves, Sheds
  <2> QED
    BY <2>2, <2>3
<1>4. Detached(u, NoOne)
  <2> SUFFICES ASSUME NEW b \in Agents, Aborting(u, b), u.stop[b][1].wait # NoOne,
                      u.blocking[u.stop[b][1].wait]
               PROVE  FALSE
    BY DEF Detached
  <2>1. b # a
    BY <1>1 DEF Aborting
  <2>2. u.stop[b] = t.stop[b] /\ Aborting(t, b) /\ Ending(t, b)
    BY <2>1 DEF Sheds, Aborting, Ending
  <2>3. t.stop[b][1].wait \in Agents
    BY <1>0, <2>2, FramesOf DEF Frames
  <2> QED
    BY <1>0, <2>2, <2>3 DEF Sound, Detached, Sheds
<1>5. Overlaps(u)
  BY <1>0, <1>1 DEF Sound, Overlaps, Sheds
<1>6. WaitKnown(u)
  BY <1>0, <1>1 DEF Sound, WaitKnown, Leaves, Sheds, Known
<1>7. Waits(u) /\ Asks(u) /\ Opens(u) /\ Parents(u)
  BY <1>0 DEF Sound, Waits, Asks, Opens, Parents, Known, Sheds
<1>8. Rests(u, NoOne)
  <2> SUFFICES ASSUME NEW b \in u.resting
               PROVE  u.wait[b] = NoOne /\ (u.state[b] = "running" \/ (Ending(u, b)
                      /\ ~Aborting(u, b)))
    BY DEF Rests
  <2>1. b \in Agents /\ b # NoOne /\ b \in t.resting
    BY <1>0 DEF Teams, Sheds
  <2>2. t.wait[b] = NoOne /\ (t.state[b] = "running" \/ (Ending(t, b) /\ ~Aborting(t, b)))
    BY <1>0, <2>1 DEF Sound, Rests
  <2>3. CASE b = a
    BY <2>2, <2>3 DEF Sheds
  <2>4. CASE b # a
    BY <1>1, <2>1, <2>2, <2>4 DEF Sheds, Aborting
  <2> QED
    BY <2>3, <2>4
<1>9. Counted(u) \subseteq Counted(t)
  BY DEF Counted, Sheds
<1>10. Few(u)
  BY <1>0, <1>9, FewMore
<1> QED
  BY <1>2, <1>3, <1>4, <1>5, <1>6, <1>7, <1>8, <1>10 DEF Good, Sound

\* The records of a run that is over, before its report goes up.
Over(t, a) ==
    [t EXCEPT !.stop[a] = <<>>, !.continuing = @ \ {a}, !.owed[a] = {},
              !.blocking[a] = FALSE, !.silent = @ \ {a}, !.overlap = @ \ {a}]

\* finish keeps the invariant: a run that ends frees its slot.
LEMMA FinishGood ==
  ASSUME NEW t, Good(t, NoOne), NEW a \in Agents, Ending(t, a) => Aborting(t, a),
         t.state[a] \notin ActiveStates, Known(t, a), NEW silent
  PROVE  Good(Finish(t, a, silent), NoOne)
<1>0. t \in Teams
  BY DEF Good
<1>1. PICK o : o = Over(t, a)
  OBVIOUS
<1>2. o \in Teams
  BY <1>0, <1>1 DEF Teams, Over, Stops
<1>3. Sheds(t, o, a)
  BY <1>0, <1>1 DEF Teams, Over, Sheds
<1>4. Good(o, NoOne)
  BY <1>2, <1>3, ShedsGood
<1>5. Known(o, a)
  BY <1>3 DEF Sheds, Known
<1>6. PICK h : h = HandUp(o, a, silent, t.blocking[a])
  OBVIOUS
<1>7. Good(h, NoOne)
  BY <1>4, <1>5, <1>6, HandUpGood
<1>8. PICK r : r = GivenBack(h, a)
  OBVIOUS
<1>9. r \in Teams /\ Same(h, r)
  BY <1>7, <1>8, ReleasedSame DEF Good
<1>10. Good(r, NoOne)
  BY <1>7, <1>9, GoodSame
<1>11. Finish(t, a, silent) = Pump(r)
  BY <1>1, <1>6, <1>8 DEF Finish, Over, Released, GivenBack
<1> QED
  BY <1>10, <1>11, PumpSound DEF Good

\* pump keeps the invariant.
LEMMA PumpIsGood == ASSUME NEW t, NEW x, Good(t, x) PROVE Good(Pump(t), x) /\ Lets(t, Pump(t))
BY PumpSound DEF Good

\* Its session has ended its prompt.
Unprompted(t, a) == [t EXCEPT !.prompting = @ \ {a}]

\* That changes nothing else.
LEMMA UnpromptedSame ==
  ASSUME NEW t \in Teams, NEW a
  PROVE  Unprompted(t, a) \in Teams /\ Same(t, Unprompted(t, a))
BY DEF Unprompted, Teams, Same, Stays, Keeps, SameFrames, Ending

\* An agent that neither waits, asks, rests nor opens takes on a state in which it does not work.
Idles(t, a) ==
    /\ Known(t, a) /\ t.wait[a] = NoOne /\ t.question[a] = NoOne /\ a \notin t.opening
    /\ a \notin t.resting /\ ~Ending(t, a)

\* The state of a is s.
Put(t, a, s) == [t EXCEPT !.state[a] = s]

\* Such an agent may stop working.
LEMMA PutGood ==
  ASSUME NEW t, NEW x, Good(t, x), NEW a \in Agents, Idles(t, a),
         NEW s \in {"waiting", "idle", "failed", "interrupted", "queued"}, NEW u, u = Put(t, a, s)
  PROVE  Good(u, x) /\ Idles(u, a) /\ u.state[a] = s
<1>0. t \in Teams /\ Sound(t, x) /\ Few(t)
  BY DEF Good
<1>1. s \in States /\ s \notin ActiveStates /\ s # "none"
  BY DEF States, LiveStates, EndedStates, ActiveStates
<1>2. u \in Teams
  BY <1>0, <1>1 DEF Teams, Put
<1>3. Keeps(t, u) /\ u.state = [t.state EXCEPT ![a] = s] /\ u.going = t.going /\ u.line = t.line
      /\ u.opening = t.opening /\ u.overlap = t.overlap /\ u.stop = t.stop /\ u.state[a] = s
  BY <1>0 DEF Teams, Put, Keeps, SameFrames, Ending
<1>4. InLine(u)
  BY <1>0, <1>3 DEF Sound, InLine
<1>5. Moves(t, u, a, s)
  BY <1>1, <1>3, <1>4 DEF Moves, Idles
<1>6. Sound(u, x) /\ Counted(u) \subseteq Counted(t)
  BY <1>0, <1>1, <1>2, <1>5, MoveSound
<1>7. Few(u)
  BY <1>0, <1>2, <1>6, FewMore
<1>8. Idles(u, a)
  BY <1>1, <1>3 DEF Idles, Known, Keeps, Ending
<1> QED
  BY <1>2, <1>3, <1>6, <1>7, <1>8 DEF Good

\* It stays such an agent when nothing else changes.
LEMMA IdlesOn ==
  ASSUME NEW t, NEW u, NEW a \in Agents, Idles(t, a), Same(t, u)
  PROVE  Idles(u, a)
BY DEF Idles, Same, Stays, Keeps, SameFrames, Known

\* settle keeps the invariant.
LEMMA SettleGood ==
  ASSUME NEW t, Good(t, NoOne), NEW a \in Agents, Idles(t, a)
  PROVE  Good(Settle(t, a), NoOne)
<1>1. PICK e : e = Unprompted(t, a)
  OBVIOUS
<1>2. e \in Teams /\ Same(t, e)
  BY <1>1, UnpromptedSame DEF Good
<1>3. Good(e, NoOne) /\ Idles(e, a)
  BY <1>2, GoodSame, IdlesOn
<1>4. PICK v : v = Put(e, a, "waiting")
  OBVIOUS
<1>5. PICK w : w = Put(e, a, "idle")
  OBVIOUS
<1>6. PICK s \in {"waiting", "idle", "failed", "interrupted", "queued"} : s = "waiting"
  OBVIOUS
<1>7. PICK r \in {"waiting", "idle", "failed", "interrupted", "queued"} : r = "idle"
  OBVIOUS
<1>8. Good(v, NoOne)
  BY <1>3, <1>4, <1>6, PutGood
<1>9. Good(w, NoOne) /\ Idles(w, a) /\ w.state[a] = "idle"
  BY <1>3, <1>5, <1>7, PutGood
<1>10. Good(Pump(v), NoOne)
  BY <1>8, PumpIsGood
<1>11. Good(Finish(w, a, a \in t.silent), NoOne)
  BY <1>9, FinishGood DEF Idles, ActiveStates
<1>12. Settle(t, a) = Pump(v) \/ Settle(t, a) = Finish(w, a, a \in t.silent)
  BY <1>1, <1>4, <1>5 DEF Settle, Unprompted, Put
<1> QED
  BY <1>10, <1>11, <1>12

------------------------------------------------------------------------------
(* A stop begins *)

\* Mail that is kept for later is not what the slots are about.
LEMMA ParkedSame ==
  ASSUME NEW t \in Teams, NEW a \in Agents
  PROVE  /\ ParkResume(t, a) \in Teams /\ Same(t, ParkResume(t, a))
         /\ UnreadLeft(t, a) \in Teams /\ Same(t, UnreadLeft(t, a))
BY DEF Teams, Same, Stays, Keeps, SameFrames, Ending, ParkResume, UnreadLeft

\* Leaving the line keeps the invariant.
LEMMA LeaveLineGood ==
  ASSUME NEW t, NEW x, Good(t, x), NEW a \in Agents, NEW u, u = LeaveLine(t, a)
  PROVE  /\ Good(u, x) /\ Keeps(t, u) /\ u.state = t.state /\ u.going[a] = "no"
         /\ u.opening = t.opening /\ u.overlap = t.overlap /\ u.stop = t.stop
<1>0. t \in Teams /\ Sound(t, x) /\ Few(t)
  BY DEF Good
<1>1. PICK l : l = RemoveFirst(t.line, a)
  OBVIOUS
<1>2. t.line \in Seq(Agents) /\ l \in Seq(Agents)
      /\ \A i \in 1 .. Len(t.line) : t.line[i] # a => \E j \in 1 .. Len(l) : l[j] = t.line[i]
  <2>1. t.line \in Seq(Agents)
    BY <1>0 DEF Teams
  <2> QED
    BY <1>1, <2>1, LineLoses
<1>3. u = [t EXCEPT !.line = l, !.going[a] = "no"]
  BY <1>1 DEF LeaveLine
<1>4. u \in Teams
  <2>1. PICK g : g = [t.going EXCEPT ![a] = "no"]
    OBVIOUS
  <2>2. g \in [Agents -> {"no", "on", "run", "rest"}]
    BY <1>0, <2>1 DEF Teams
  <2>3. u = [t EXCEPT !.line = l, !.going = g]
    BY <1>0, <1>3, <2>1 DEF Teams
  <2>4. l \in Seq(Agents)
    BY <1>2
  <2> QED
    BY ZenonT(40), <1>0, <2>2, <2>3, <2>4 DEF Teams
<1>5. /\ Keeps(t, u) /\ u.state = t.state /\ u.going = [t.going EXCEPT ![a] = "no"] /\ u.line = l
      /\ u.opening = t.opening /\ u.overlap = t.overlap /\ u.stop = t.stop /\ u.going[a] = "no"
  BY <1>0, <1>3 DEF Teams, Keeps, SameFrames, Ending
<1>6. InLine(u)
  <2> SUFFICES ASSUME NEW b \in Agents, u.going[b] # "no" PROVE \E j \in 1 .. Len(l) : l[j] = b
    BY <1>5 DEF InLine
  <2>1. b # a /\ t.going[b] # "no"
    BY <1>0, <1>5 DEF Teams
  <2>2. PICK i \in 1 .. Len(t.line) : t.line[i] = b
    BY <1>0, <2>1 DEF Sound, InLine
  <2> QED
    BY <1>2, <2>1, <2>2
<1>7. PICK s : s = t.state[a]
  OBVIOUS
<1>8. u.state = [t.state EXCEPT ![a] = s]
  BY <1>0, <1>5, <1>7 DEF Teams
<1>9. /\ Known(t, a) <=> s # "none"
      /\ Ending(t, a) => a \in u.overlap \/ (s \in {"stopped", "queued", "asking"}
         /\ u.going[a] = "no")
      /\ t.wait[a] = NoOne \/ (s \in {"running", "asking"} /\ t.question[a] = NoOne)
      /\ t.question[a] = NoOne \/ s = "asking"
      /\ a \in u.opening => s = "starting"
      /\ a \in t.resting => s = "running" \/ t.state[a] # "running"
  BY <1>0, <1>5, <1>7 DEF Known, Sound, Overlaps, Waits, Asks, Opens
<1>10. \A b \in Agents : b # a => u.going[b] \in {"no", t.going[b]}
  BY <1>0, <1>5 DEF Teams
<1>11. u.opening \subseteq t.opening \cup {a}
  BY <1>5
<1>12. Moves(t, u, a, s)
  BY <1>5, <1>6, <1>8, <1>9, <1>10, <1>11 DEF Moves
<1>13. Sound(u, x)
  BY <1>0, <1>4, <1>12, MoveSound
<1>14. Counted(u) = Counted(t)
  BY <1>5 DEF Counted, Keeps
<1> QED
  BY <1>0, <1>4, <1>5, <1>13, <1>14 DEF Good, Few

\* A stop that begins: up to its first subagent there is nothing to wait for.
Framed(t, a, f, quiet) == [t EXCEPT !.stop[a] = <<f>>, !.silent = quiet]

\* It changes the stops alone.
LEMMA FramedLeaves ==
  ASSUME NEW t \in Teams, NEW a \in Agents, NEW f \in Frames, NEW quiet \in SUBSET Agents,
         NEW u, u = Framed(t, a, f, quiet)
  PROVE  /\ u \in Teams /\ u.stop[a] = <<f>> /\ \A b \in Agents : b # a => u.stop[b] = t.stop[b]
         /\ u.parent = t.parent /\ u.blocking = t.blocking /\ u.wait = t.wait
         /\ u.question = t.question /\ u.resting = t.resting /\ u.overlap = t.overlap
         /\ u.state = t.state /\ u.going = t.going /\ u.line = t.line /\ u.opening = t.opening
<1>1. <<f>> \in Stops
  BY DEF Stops
<1>2. PICK s : s = <<f>>
  OBVIOUS
<1>3. u = [t EXCEPT !.stop[a] = s, !.silent = quiet] /\ s \in Stops
  BY <1>1, <1>2 DEF Framed
<1> DEFINE g == [t.stop EXCEPT ![a] = s]
<1>4. g \in [Agents -> Stops] /\ g[a] = s /\ \A b \in Agents : b # a => g[b] = t.stop[b]
  BY <1>3 DEF Teams
<1>5. u = [t EXCEPT !.stop = g, !.silent = quiet]
  BY <1>3 DEF Teams
<1> HIDE DEF g
<1>6. u \in Teams
  BY ZenonT(40), <1>4, <1>5 DEF Teams
<1>7. u.stop = g
  BY <1>5 DEF Teams
<1> QED
  BY <1>2, <1>4, <1>5, <1>6, <1>7 DEF Teams

\* It keeps the invariant, but that the stop has still to be brought on.
LEMMA FramedGood ==
  ASSUME NEW t, Good(t, NoOne),
         NEW a \in Agents, ~Ending(t, a), t.question[a] # NoOne, t.going[a] = "no",
         NEW f \in Frames, f.todo = <<>>, f.on = NoOne, f.wait = t.wait[a],
         NEW quiet \in SUBSET Agents, NEW u, u = Framed(t, a, f, quiet)
  PROVE  Good(u, a) /\ Ending(u, a)
<1>0. t \in Teams /\ Sound(t, NoOne) /\ Few(t) /\ NoOne \notin Agents
  BY NumbersOf DEF Good
<1>1. /\ u \in Teams /\ u.stop[a] = <<f>> /\ \A b \in Agents : b # a => u.stop[b] = t.stop[b]
      /\ u.parent = t.parent /\ u.blocking = t.blocking /\ u.wait = t.wait
      /\ u.question = t.question /\ u.resting = t.resting /\ u.overlap = t.overlap
      /\ u.state = t.state /\ u.going = t.going /\ u.line = t.line /\ u.opening = t.opening
  BY <1>0, FramedLeaves
<1>2. Ending(u, a) /\ u.stop[a][1] = f /\ \A b \in Agents : b # a => (Ending(u, b) <=> Ending(t, b))
  BY <1>1 DEF Ending
<1>3. InLine(u)
  BY <1>0, <1>1 DEF Sound, InLine
<1>4. Blocks(u)
  <2> SUFFICES ASSUME NEW c \in Agents, u.blocking[c]
               PROVE  u.parent[c] \in Agents
                      /\ (u.wait[u.parent[c]] = c \/ Leaves(u, u.parent[c], c))
    BY DEF Blocks
  <2>1. t.parent[c] \in Agents /\ (t.wait[t.parent[c]] = c \/ Leaves(t, t.parent[c], c))
    BY <1>0, <1>1 DEF Sound, Blocks
  <2> QED
    BY <1>1, <1>2, <2>1 DEF Leaves
<1>5. Detached(u, a)
  <2> SUFFICES ASSUME NEW b \in Agents, b # a, Aborting(u, b), u.stop[b][1].wait # NoOne,
                      u.blocking[u.stop[b][1].wait]
               PROVE  FALSE
    BY DEF Detached
  <2>1. u.stop[b] = t.stop[b] /\ Aborting(t, b) /\ b # NoOne
    BY <1>0, <1>1 DEF Aborting, Ending
  <2> QED
    BY <1>0, <1>1, <2>1 DEF Sound, Detached
<1>6. Overlaps(u)
  <2>1. t.state[a] = "asking"
    BY <1>0 DEF Sound, Asks
  <2> QED
    BY <1>0, <1>1, <1>2, <2>1 DEF Sound, Overlaps
<1>7. WaitKnown(u)
  <2> SUFFICES ASSUME NEW b \in Agents, NEW c \in Agents, u.wait[b] = c \/ Leaves(u, b, c)
               PROVE  Known(u, c)
    BY DEF WaitKnown
  <2>1. t.wait[b] = c \/ Leaves(t, b, c)
    BY <1>1, <1>2 DEF Leaves
  <2> QED
    BY <1>0, <1>1, <2>1 DEF Sound, WaitKnown, Known
<1>8. Waits(u) /\ Asks(u) /\ Opens(u) /\ Parents(u)
  BY <1>0, <1>1 DEF Sound, Waits, Asks, Opens, Parents, Known
<1>9. Rests(u, a)
  <2> SUFFICES ASSUME NEW b \in u.resting
               PROVE  u.wait[b] = NoOne /\ (u.state[b] = "running" \/ (Ending(u, b)
                      /\ (b = a \/ ~Aborting(u, b))))
    BY DEF Rests
  <2>1. b \in Agents /\ b # NoOne /\ b \in t.resting
    BY <1>0, <1>1 DEF Teams
  <2>2. t.wait[b] = NoOne /\ (t.state[b] = "running" \/ (Ending(t, b) /\ ~Aborting(t, b)))
    BY <1>0, <2>1 DEF Sound, Rests
  <2>3. CASE b = a
    BY <1>1, <1>2, <2>2, <2>3
  <2>4. CASE b # a
    BY <1>1, <1>2, <2>1, <2>2, <2>4 DEF Aborting
  <2> QED
    BY <2>3, <2>4
<1>10. Counted(u) = Counted(t)
  BY <1>1 DEF Counted
<1> QED
  BY <1>0, <1>1, <1>2, <1>3, <1>4, <1>5, <1>6, <1>7, <1>8, <1>9, <1>10 DEF Good, Sound, Few

\* The records of a that stop resets.
Ceased(t, a) ==
    [t EXCEPT !.state[a] = "stopped", !.opening = @ \ {a}, !.prompting = @ \ {a},
              !.wait[a] = NoOne, !.call[a] = NoOne]

\* v is p with a stopped: it works, waits and opens no more.
Stopped(p, v, a) ==
    /\ Ending(v, a) /\ v.stop[a][1].wait = p.stop[a][1].wait
    /\ \A b \in Agents : b # a => v.stop[b] = p.stop[b] /\ v.wait[b] = p.wait[b]
       /\ v.state[b] = p.state[b]
    /\ v.wait[a] = NoOne /\ v.state[a] = "stopped"
    /\ v.parent = p.parent /\ v.blocking = p.blocking
    /\ v.question = p.question /\ v.resting = p.resting /\ v.overlap = p.overlap
    /\ v.going = p.going /\ v.line = p.line /\ v.opening = p.opening \ {a}

\* What the reset leaves alone.
LEMMA CeasedLeaves ==
  ASSUME NEW p \in Teams, NEW a \in Agents, NEW u, u = Ceased(p, a)
  PROVE  /\ u \in Teams /\ u.stop = p.stop
         /\ \A b \in Agents : b # a => u.wait[b] = p.wait[b] /\ u.state[b] = p.state[b]
         /\ u.wait[a] = NoOne /\ u.state[a] = "stopped"
         /\ u.parent = p.parent /\ u.blocking = p.blocking
         /\ u.question = p.question /\ u.resting = p.resting /\ u.overlap = p.overlap
         /\ u.going = p.going /\ u.line = p.line /\ u.opening = p.opening \ {a}
<1>1. u \in Teams
  BY ZenonT(40) DEF Ceased, Teams, States, EndedStates
<1> QED
  BY <1>1 DEF Ceased, Teams

\* The subagents that the stop of a has still to stop.
Ordered(t, a, order) == [t EXCEPT !.stop[a][1].todo = order]

\* It changes the frame of a alone.
LEMMA OrderedLeaves ==
  ASSUME NEW p \in Teams, NEW a \in Agents, Ending(p, a), NEW order \in Seq(Agents),
         NEW u, u = Ordered(p, a, order)
  PROVE  /\ u \in Teams /\ u = [p EXCEPT !.stop = u.stop]
         /\ Ending(u, a) /\ u.stop[a][1].todo = order /\ u.stop[a][1].on = p.stop[a][1].on
         /\ u.stop[a][1].wait = p.stop[a][1].wait
         /\ \A b \in Agents : b # a => u.stop[b] = p.stop[b]
<1>1. PICK f \in Frames : p.stop[a] = <<f>>
  BY FramesOf
<1>2. PICK g : g = [f EXCEPT !.todo = order]
  OBVIOUS
<1>3. g \in Frames /\ g.todo = order /\ g.on = f.on /\ g.wait = f.wait
  BY <1>2 DEF Frames
<1>4. <<g>> \in Stops
  BY <1>3 DEF Stops
<1> DEFINE s == [p.stop EXCEPT ![a] = <<g>>]
<1>5. s \in [Agents -> Stops] /\ s[a] = <<g>> /\ \A b \in Agents : b # a => s[b] = p.stop[b]
  BY <1>4 DEF Teams
<1>6. [p.stop EXCEPT ![a][1].todo = order] = s
  <2>1. [<<f>> EXCEPT ![1].todo = order] = <<g>>
    BY <1>2
  <2> QED
    BY <1>1, <2>1 DEF Teams
<1> HIDE DEF s
<1>7. u = [p EXCEPT !.stop = s]
  BY <1>6 DEF Ordered, Teams
<1>8. u \in Teams
  BY ZenonT(40), <1>5, <1>7 DEF Teams
<1>9. u.stop = s
  BY <1>7 DEF Teams
<1>10. u.stop[a] = <<g>> /\ u.stop[a][1] = g /\ <<g>> # <<>>
  BY <1>5, <1>9
<1> QED
  BY <1>1, <1>3, <1>5, <1>7, <1>8, <1>9, <1>10 DEF Ending

\* The last part of Mark: a is stopped, and its subagents are in order.
LEMMA MarkLeaves ==
  ASSUME NEW p \in Teams, NEW a \in Agents, Ending(p, a),
         NEW v, v = Marked(Ceased(UnreadLeft(p, a), a), a)
  PROVE  v \in Teams /\ Stopped(p, v, a)
<1>1. PICK q : q = UnreadLeft(p, a)
  OBVIOUS
<1>2. q \in Teams /\ Same(p, q) /\ q.stop = p.stop
  <2>1. q \in Teams /\ Same(p, q)
    BY <1>1, ParkedSame
  <2>2. q.stop = p.stop
    BY <1>1 DEF UnreadLeft, Teams
  <2> QED
    BY <2>1, <2>2
<1>3. PICK r : r = Ceased(q, a)
  OBVIOUS
<1>4. /\ r \in Teams /\ r.stop = q.stop
      /\ \A b \in Agents : b # a => r.wait[b] = q.wait[b] /\ r.state[b] = q.state[b]
      /\ r.wait[a] = NoOne /\ r.state[a] = "stopped"
      /\ r.parent = q.parent /\ r.blocking = q.blocking
      /\ r.question = q.question /\ r.resting = q.resting /\ r.overlap = q.overlap
      /\ r.going = q.going /\ r.line = q.line /\ r.opening = q.opening \ {a}
  BY <1>2, <1>3, CeasedLeaves
<1>5. q.opening = p.opening
  BY <1>1 DEF UnreadLeft, Teams
<1>6. PICK order : order = StopOrder(r, Children(r, a))
  OBVIOUS
<1>7. order \in Seq(Agents)
  <2>1. Children(r, a) \in SUBSET Agents
    BY DEF Children
  <2> QED
    BY <1>6, <2>1, StopOrderTyped
<1>8. v = Ordered(r, a, order)
  BY <1>1, <1>3, <1>6 DEF Marked, Ordered
<1>9. Ending(r, a)
  BY <1>2, <1>4 DEF Ending
<1>10. /\ v \in Teams /\ v = [r EXCEPT !.stop = v.stop]
       /\ Ending(v, a) /\ v.stop[a][1].wait = r.stop[a][1].wait
       /\ \A b \in Agents : b # a => v.stop[b] = r.stop[b]
  BY <1>4, <1>7, <1>8, <1>9, OrderedLeaves
<1>11. /\ v.parent = r.parent /\ v.blocking = r.blocking /\ v.wait = r.wait /\ v.state = r.state
       /\ v.question = r.question /\ v.resting = r.resting /\ v.overlap = r.overlap
       /\ v.going = r.going /\ v.line = r.line /\ v.opening = r.opening
  <2>1. PICK f : v = [r EXCEPT !.stop = f]
    BY <1>10
  <2>2. /\ v.parent = r.parent /\ v.blocking = r.blocking /\ v.wait = r.wait /\ v.state = r.state
        /\ v.question = r.question /\ v.resting = r.resting
    BY <1>4, <2>1 DEF Teams
  <2>3. v.overlap = r.overlap /\ v.going = r.going /\ v.line = r.line /\ v.opening = r.opening
    BY <1>4, <2>1 DEF Teams
  <2> QED
    BY <2>2, <2>3
<1> QED
  BY <1>2, <1>4, <1>5, <1>10, <1>11 DEF Stopped, Same, Stays, Keeps

\* p is u with a frame of a stop of a that holds the call that a waits in.
Based(u, p, a) ==
    /\ p.parent = u.parent /\ p.blocking = u.blocking /\ p.wait = u.wait
    /\ p.question = u.question /\ p.resting = u.resting /\ p.overlap = u.overlap
    /\ p.state = u.state /\ p.going = u.going /\ p.line = u.line /\ p.opening = u.opening
    /\ \A b \in Agents : b # a => p.stop[b] = u.stop[b]
    /\ Ending(p, a)
    /\ \A c \in Agents : p.stop[a][1].wait = c <=> (u.wait[a] = c \/ Leaves(u, a, c))

\* Who stops so leaves the invariant, but for its stop.
LEMMA StoppedGood ==
  ASSUME NEW u, NEW a \in Agents, Good(u, a), Known(u, a), u.going[a] = "no", u.question[a] = NoOne,
         NEW p, Based(u, p, a), NEW v \in Teams, Stopped(p, v, a)
  PROVE  Good(v, a) /\ Ending(v, a)
<1>0. u \in Teams /\ Sound(u, a) /\ Few(u)
  BY DEF Good
<1>1. /\ v.parent = u.parent /\ v.blocking = u.blocking /\ v.question = u.question
      /\ v.resting = u.resting /\ v.overlap = u.overlap /\ v.going = u.going /\ v.line = u.line
      /\ v.opening = u.opening \ {a}
      /\ \A b \in Agents : b # a => v.stop[b] = u.stop[b] /\ v.wait[b] = u.wait[b]
         /\ v.state[b] = u.state[b]
      /\ v.wait[a] = NoOne /\ v.state[a] = "stopped" /\ Ending(v, a)
  BY DEF Based, Stopped
<1>2. \A c \in Agents : Leaves(v, a, c) <=> (u.wait[a] = c \/ Leaves(u, a, c))
  BY DEF Based, Stopped, Leaves
<1>3. \A b \in Agents : b # a =>
        /\ Ending(v, b) <=> Ending(u, b)
        /\ Aborting(v, b) <=> Aborting(u, b)
        /\ \A c \in Agents : Leaves(v, b, c) <=> Leaves(u, b, c)
  BY <1>1 DEF Ending, Aborting, Leaves
<1>4. InLine(v)
  BY <1>0, <1>1 DEF Sound, InLine
<1>5. Blocks(v)
  <2> SUFFICES ASSUME NEW c \in Agents, v.blocking[c]
               PROVE  v.parent[c] \in Agents
                      /\ (v.wait[v.parent[c]] = c \/ Leaves(v, v.parent[c], c))
    BY DEF Blocks
  <2>1. u.parent[c] \in Agents /\ (u.wait[u.parent[c]] = c \/ Leaves(u, u.parent[c], c))
    BY <1>0, <1>1 DEF Sound, Blocks
  <2>2. CASE u.parent[c] = a
    BY <1>1, <1>2, <2>1, <2>2
  <2>3. CASE u.parent[c] # a
    BY <1>1, <1>3, <2>1, <2>3
  <2> QED
    BY <2>2, <2>3
<1>6. Detached(v, a)
  <2> SUFFICES ASSUME NEW b \in Agents, b # a, Aborting(v, b), v.stop[b][1].wait # NoOne,
                      v.blocking[v.stop[b][1].wait]
               PROVE  FALSE
    BY DEF Detached
  <2> QED
    BY <1>0, <1>1, <1>3 DEF Sound, Detached
<1>7. Overlaps(v)
  BY <1>0, <1>1, <1>3 DEF Sound, Overlaps
<1>8. Parents(v)
  <2> SUFFICES ASSUME NEW b \in Agents, Known(v, b) PROVE v.parent[b] \in Actors
    BY DEF Parents
  <2>1. CASE b # a
    BY <1>0, <1>1, <2>1 DEF Sound, Parents, Known
  <2>2. CASE b = a
    BY <1>0, <1>1, <2>2 DEF Sound, Parents
  <2> QED
    BY <2>1, <2>2
<1>9. WaitKnown(v)
  <2> SUFFICES ASSUME NEW b \in Agents, NEW c \in Agents, v.wait[b] = c \/ Leaves(v, b, c)
               PROVE  Known(v, c)
    BY DEF WaitKnown
  <2>1. c # NoOne
    BY NumbersOf
  <2>2. u.wait[b] = c \/ Leaves(u, b, c)
    BY <1>1, <1>2, <1>3, <2>1
  <2>3. Known(u, c)
    BY <1>0, <2>2 DEF Sound, WaitKnown
  <2> QED
    BY <1>1, <2>3 DEF Known
<1>10. Waits(v)
  BY <1>0, <1>1 DEF Sound, Waits
<1>11. Asks(v)
  BY <1>0, <1>1 DEF Sound, Asks
<1>12. Opens(v)
  BY <1>0, <1>1 DEF Sound, Opens, Teams
<1>13. Rests(v, a)
  <2> SUFFICES ASSUME NEW b \in v.resting
               PROVE  v.wait[b] = NoOne /\ (v.state[b] = "running" \/ (Ending(v, b)
                      /\ (b = a \/ ~Aborting(v, b))))
    BY DEF Rests
  <2>1. b \in Agents /\ b \in u.resting
    BY <1>0, <1>1 DEF Teams
  <2> QED
    BY <1>0, <1>1, <1>3, <2>1 DEF Sound, Rests
<1>14. Counted(v) \subseteq Counted(u)
  BY <1>1 DEF Counted, ActiveStates
<1>15. Few(v)
  BY <1>0, <1>14, FewMore
<1>16. Sound(v, a)
  BY <1>8, <1>4, <1>5, <1>6, <1>7, <1>9, <1>10, <1>11, <1>12, <1>13 DEF Sound
<1> QED
  BY <1>1, <1>15, <1>16 DEF Good

\* It failed, and no stop of it is under way.
Failed(t, a) == t.state[a] = "failed" /\ ~Ending(t, a)

\* The question of an agent that stops ends, and the agent does not go on.
LEMMA AloneStops ==
  ASSUME NEW e,
         NEW a \in Agents, Good(e, a), Ending(e, a), e.question[a] # NoOne, e.going[a] = "no",
         NEW u, u = EndQuestion(e, a)
  PROVE  /\ Good(u, a) /\ Known(u, a) /\ u.going[a] = "no" /\ u.question[a] = NoOne
            /\ Based(u, u, a)
         /\ \A b \in Agents : /\ Ending(u, b) <=> Ending(e, b)
                              /\ e.state[b] # "queued" => u.state[b] = e.state[b]
<1>0. e \in Teams /\ Sound(e, a)
  BY DEF Good
<1>1. Good(u, a) /\ Answered(e, u, a)
  BY EndQuestionGood
<1>2. PICK q : q = Question(e, a, NoOne)
  OBVIOUS
<1>3. Lets(q, u)
  BY <1>1, <1>2 DEF Answered
<1>4. q.question[a] = NoOne /\ q.going = e.going /\ q.state = e.state /\ q.stop = e.stop
      /\ q.wait = e.wait
  BY <1>0, <1>2 DEF Question, Teams
<1>5. e.state[a] = "asking" /\ e.wait[a] = NoOne
  BY <1>0 DEF Sound, Asks, Waits
<1>6. u.question[a] = NoOne /\ u.going[a] = "no" /\ u.wait[a] = NoOne
  BY <1>3, <1>4, <1>5 DEF Lets, Keeps
<1>7. \A b \in Agents : /\ Ending(u, b) <=> Ending(e, b)
                        /\ e.state[b] # "queued" => u.state[b] = e.state[b]
  BY <1>3, <1>4 DEF Lets, Keeps, SameFrames, Ending
<1>8. Known(u, a)
  BY <1>5, <1>7 DEF Known
<1>9. Ending(u, a)
  BY <1>7
<1>10. ASSUME NEW c \in Agents PROVE u.stop[a][1].wait = c <=> (u.wait[a] = c \/ Leaves(u, a, c))
  <2>1. c # NoOne
    BY NumbersOf
  <2> QED
    BY <1>6, <1>9, <2>1 DEF Leaves
<1>11. Based(u, u, a)
  BY <1>9, <1>10 DEF Based
<1> QED
  BY <1>1, <1>6, <1>7, <1>8, <1>11

\* Who is about to bring on a stop may rely on less.
LEMMA GoodAlso ==
  ASSUME NEW t, Good(t, NoOne), NEW a
  PROVE  Good(t, a)
<1>1. NoOne \notin Agents /\ t \in Teams
  BY NumbersOf DEF Good
<1>2. Detached(t, a)
  BY <1>1 DEF Good, Sound, Detached
<1>3. Rests(t, a)
  <2> SUFFICES ASSUME NEW b \in t.resting
               PROVE  t.wait[b] = NoOne /\ (t.state[b] = "running" \/ (Ending(t, b)
                      /\ (b = a \/ ~Aborting(t, b))))
    BY DEF Rests
  <2>1. b \in Agents
    BY <1>1 DEF Teams
  <2> QED
    BY <1>1, <2>1 DEF Good, Sound, Rests
<1> QED
  BY <1>2, <1>3 DEF Good, Sound

\* Mark keeps the invariant, but for the stop that it begins, which is one more under way.
LEMMA MarkGood ==
  ASSUME NEW t, Good(t, NoOne), NEW a \in Agents, CanStop(t, a), NEW by, NEW u, u = Mark(t, a, by)
  PROVE  /\ Good(u, a) /\ Ending(u, a)
         /\ \A b \in Agents : /\ b # a => (Ending(u, b) <=> Ending(t, b))
                              /\ Failed(t, b) => Failed(u, b)
<1>0. t \in Teams /\ Sound(t, NoOne)
  BY DEF Good
<1>1. PICK l : l = LeaveLine(t, a)
  OBVIOUS
<1>2. PICK p : p = ParkResume(l, a)
  OBVIOUS
<1>3. /\ Good(l, NoOne) /\ Keeps(t, l) /\ l.state = t.state /\ l.going[a] = "no"
      /\ l.opening = t.opening /\ l.overlap = t.overlap /\ l.stop = t.stop
  BY <1>1, LeaveLineGood
<1>4. p \in Teams /\ Same(l, p)
  BY <1>2, <1>3, ParkedSame DEF Good
<1>5. Good(p, NoOne)
  BY <1>3, <1>4, GoodSame
<1>6. /\ p.going[a] = "no" /\ p.state = t.state /\ p.question = t.question /\ p.wait = t.wait
      /\ \A b \in Agents : Ending(p, b) <=> Ending(t, b)
  BY <1>3, <1>4 DEF Same, Stays, Keeps, SameFrames
<1>7. ~Ending(p, a) /\ Known(p, a) /\ t.state[a] # "failed"
  BY <1>6 DEF CanStop, Live, LiveStates, Known
<1>8. PICK f : f = [todo |-> <<>>, on |-> NoOne, own |-> TRUE, held |-> t.held[a],
           wait |-> t.wait[a]]
  OBVIOUS
<1>9. f \in Frames /\ f.todo = <<>> /\ f.on = NoOne /\ f.wait = p.wait[a]
  <2>1. <<>> \in Seq(Agents) /\ t.held[a] \in BOOLEAN /\ t.wait[a] \in Agents \cup {NoOne}
    BY <1>0 DEF Teams
  <2> QED
    BY <1>6, <1>8, <2>1 DEF Frames
<1>10. PICK quiet : quiet = IF by = t.parent[a] THEN p.silent \cup {a} ELSE p.silent
  OBVIOUS
<1>11. quiet \in SUBSET Agents
  BY <1>4, <1>10 DEF Teams
<1>12. PICK e : e = Framed(p, a, f, quiet)
  OBVIOUS
<1>13. /\ e \in Teams /\ e.stop[a] = <<f>> /\ \A b \in Agents : b # a => e.stop[b] = p.stop[b]
       /\ e.parent = p.parent /\ e.blocking = p.blocking /\ e.wait = p.wait
       /\ e.question = p.question /\ e.resting = p.resting /\ e.overlap = p.overlap
       /\ e.state = p.state /\ e.going = p.going /\ e.line = p.line /\ e.opening = p.opening
  BY <1>4, <1>9, <1>11, <1>12, FramedLeaves
<1>14. Ending(e, a) /\ e.stop[a][1] = f
       /\ \A b \in Agents : b # a => (Ending(e, b) <=> Ending(p, b))
  BY <1>13 DEF Ending
<1>15. PICK w : w = IF t.question[a] # NoOne THEN EndQuestion(e, a) ELSE e
  OBVIOUS
<1>16. u = Marked(Ceased(UnreadLeft(w, a), a), a)
  <2>1. e = [p EXCEPT !.stop[a] = <<f>>, !.silent = IF by = t.parent[a] THEN @ \cup {a} ELSE @]
    BY <1>4, <1>10, <1>12 DEF Framed, Teams
  <2> QED
    BY <1>1, <1>2, <1>8, <1>15, <2>1 DEF Mark, Ceased
<1>17. CASE t.question[a] # NoOne
  <2>1. Good(e, a)
    BY <1>5, <1>6, <1>7, <1>9, <1>11, <1>12, <1>17, FramedGood
  <2>2. w = EndQuestion(e, a) /\ e.question[a] # NoOne /\ e.going[a] = "no"
    BY <1>6, <1>13, <1>15, <1>17
  <2>3. /\ Good(w, a) /\ Known(w, a) /\ w.going[a] = "no" /\ w.question[a] = NoOne /\ Based(w, w, a)
        /\ \A b \in Agents : /\ Ending(w, b) <=> Ending(e, b)
                             /\ e.state[b] # "queued" => w.state[b] = e.state[b]
    BY <1>14, <2>1, <2>2, AloneStops
  <2>4. Ending(w, a)
    BY <1>14, <2>3
  <2>5. u \in Teams /\ Stopped(w, u, a)
    BY <1>16, <2>3, <2>4, MarkLeaves DEF Good
  <2>6. Good(u, a) /\ Ending(u, a)
    BY <2>3, <2>5, StoppedGood
  <2>7. ASSUME NEW b \in Agents PROVE /\ b # a => (Ending(u, b) <=> Ending(t, b))
                                      /\ Failed(t, b) => Failed(u, b)
    <3>1. b # a => (Ending(u, b) <=> Ending(w, b)) /\ u.state[b] = w.state[b]
      BY <2>5 DEF Stopped, Ending
    <3>2. b # a => (Ending(u, b) <=> Ending(t, b))
      BY <1>6, <1>14, <2>3, <3>1
    <3>3. b # a /\ t.state[b] = "failed" => u.state[b] = "failed"
      BY <1>6, <1>13, <2>3, <3>1
    <3> QED
      BY <1>7, <3>2, <3>3 DEF Failed
  <2> QED
    BY <2>6, <2>7
<1>18. CASE t.question[a] = NoOne
  <2>1. w = e
    BY <1>15, <1>18
  <2>2. Good(p, a)
    BY <1>5, GoodAlso
  <2>3. ASSUME NEW c \in Agents PROVE e.stop[a][1].wait = c <=> (p.wait[a] = c \/ Leaves(p, a, c))
    BY <1>7, <1>9, <1>14 DEF Leaves
  <2>4. Based(p, e, a)
    BY <1>13, <1>14, <2>3 DEF Based
  <2>5. u \in Teams /\ Stopped(e, u, a)
    BY <1>13, <1>14, <1>16, <2>1, MarkLeaves
  <2>6. Good(u, a) /\ Ending(u, a)
    BY <1>6, <1>7, <1>18, <2>2, <2>4, <2>5, StoppedGood
  <2>7. ASSUME NEW b \in Agents PROVE /\ b # a => (Ending(u, b) <=> Ending(t, b))
                                      /\ Failed(t, b) => Failed(u, b)
    <3>1. b # a => (Ending(u, b) <=> Ending(e, b)) /\ u.state[b] = e.state[b]
      BY <2>5 DEF Stopped, Ending
    <3>2. b # a => (Ending(u, b) <=> Ending(t, b))
      BY <1>6, <1>14, <3>1
    <3>3. b # a /\ t.state[b] = "failed" => u.state[b] = "failed"
      BY <1>6, <1>13, <3>1
    <3> QED
      BY <1>7, <3>2, <3>3 DEF Failed
  <2> QED
    BY <2>6, <2>7
<1> QED
  BY <1>17, <1>18

------------------------------------------------------------------------------
(* A stop goes down the tree *)

\* The stop of a goes on with its next subagent, or aborts its session.
Reframes(t, u, a) ==
    /\ u.parent = t.parent /\ u.wait = t.wait /\ u.question = t.question /\ u.overlap = t.overlap
    /\ u.state = t.state /\ u.going = t.going /\ u.line = t.line /\ u.opening = t.opening
    /\ \A b \in Agents : u.blocking[b] => t.blocking[b]
    /\ \A b \in Agents : b # a => u.stop[b] = t.stop[b]
    /\ Ending(u, a) /\ u.stop[a][1].wait = t.stop[a][1].wait
    /\ u.resting \subseteq t.resting /\ t.resting \subseteq u.resting \cup {a}
    /\ Aborting(u, a) => /\ a \notin u.resting
                         /\ u.stop[a][1].wait \in Agents => ~u.blocking[u.stop[a][1].wait]

\* Then the invariant holds again: the stop of a has been brought on.
LEMMA ReframesGood ==
  ASSUME NEW t, NEW a \in Agents, Good(t, a), Ending(t, a), NEW u \in Teams, Reframes(t, u, a)
  PROVE  /\ Good(u, NoOne)
         /\ \A b \in Agents : (Ending(u, b) <=> Ending(t, b)) /\ u.state[b] = t.state[b]
<1>0. t \in Teams /\ Sound(t, a) /\ Few(t) /\ NoOne \notin Agents
  BY NumbersOf DEF Good
<1>1. /\ Ending(u, a) /\ \A c \in Agents : Leaves(u, a, c) <=> Leaves(t, a, c)
      /\ \A b \in Agents : b # a =>
            /\ Ending(u, b) <=> Ending(t, b)
            /\ Aborting(u, b) <=> Aborting(t, b)
            /\ \A c \in Agents : Leaves(u, b, c) <=> Leaves(t, b, c)
  BY DEF Reframes, Ending, Aborting, Leaves
<1>2. InLine(u) /\ Overlaps(u) /\ Waits(u) /\ Asks(u) /\ Opens(u) /\ Parents(u)
  <2>1. InLine(u) /\ Waits(u) /\ Asks(u) /\ Opens(u) /\ Parents(u)
    BY <1>0 DEF Sound, InLine, Waits, Asks, Opens, Parents, Known, Reframes
  <2>2. Overlaps(u)
    <3> SUFFICES ASSUME NEW b \in Agents, Ending(u, b)
                 PROVE  b \in u.overlap \/ (u.state[b] \in {"stopped", "queued", "asking"}
                        /\ u.going[b] = "no")
      BY DEF Overlaps
    <3>1. Ending(t, b)
      BY <1>1
    <3> QED
      BY <1>0, <3>1 DEF Sound, Overlaps, Reframes
  <2> QED
    BY <2>1, <2>2
<1>3. Blocks(u)
  <2> SUFFICES ASSUME NEW c \in Agents, u.blocking[c]
               PROVE  u.parent[c] \in Agents
                      /\ (u.wait[u.parent[c]] = c \/ Leaves(u, u.parent[c], c))
    BY DEF Blocks
  <2>1. t.parent[c] \in Agents /\ (t.wait[t.parent[c]] = c \/ Leaves(t, t.parent[c], c))
    BY <1>0 DEF Sound, Blocks, Reframes
  <2> QED
    BY <1>1, <2>1 DEF Reframes
<1>4. Detached(u, NoOne)
  <2> SUFFICES ASSUME NEW b \in Agents, Aborting(u, b), u.stop[b][1].wait # NoOne,
                      u.blocking[u.stop[b][1].wait]
               PROVE  FALSE
    BY DEF Detached
  <2>1. u.stop[b][1].wait \in Agents
    BY FramesOf DEF Frames, Aborting
  <2>2. CASE b = a
    BY <2>1, <2>2 DEF Reframes
  <2>3. CASE b # a
    <3>1. Aborting(t, b) /\ u.stop[b] = t.stop[b]
      BY <1>1, <2>3 DEF Reframes
    <3> QED
      BY <1>0, <2>1, <2>3, <3>1 DEF Sound, Detached, Reframes
  <2> QED
    BY <2>2, <2>3
<1>5. WaitKnown(u)
  <2> SUFFICES ASSUME NEW b \in Agents, NEW c \in Agents, u.wait[b] = c \/ Leaves(u, b, c)
               PROVE  Known(u, c)
    BY DEF WaitKnown
  <2>1. t.wait[b] = c \/ Leaves(t, b, c)
    BY <1>1 DEF Reframes
  <2> QED
    BY <1>0, <2>1 DEF Sound, WaitKnown, Known, Reframes
<1>6. Rests(u, NoOne)
  <2> SUFFICES ASSUME NEW b \in u.resting
               PROVE  u.wait[b] = NoOne /\ (u.state[b] = "running" \/ (Ending(u, b)
                      /\ ~Aborting(u, b)))
    BY DEF Rests
  <2>1. b \in Agents /\ b \in t.resting
    BY <1>0 DEF Teams, Reframes
  <2>2. t.wait[b] = NoOne /\ (t.state[b] = "running" \/ (Ending(t, b)
        /\ (b = a \/ ~Aborting(t, b))))
    BY <1>0, <2>1 DEF Sound, Rests
  <2>3. CASE b = a
    BY <1>1, <2>2, <2>3 DEF Reframes
  <2>4. CASE b # a
    BY <1>1, <2>1, <2>2, <2>4 DEF Reframes
  <2> QED
    BY <2>3, <2>4
<1>7. Counted(u) \subseteq Counted(t)
  <2>1. t.state[a] \notin ActiveStates \/ a \in t.overlap
    BY <1>0 DEF Sound, Overlaps, ActiveStates
  <2> QED
    BY <2>1 DEF Counted, Reframes
<1>8. Few(u)
  BY <1>0, <1>7, FewMore
<1>9. \A b \in Agents : (Ending(u, b) <=> Ending(t, b)) /\ u.state[b] = t.state[b]
  BY <1>1 DEF Reframes
<1>10. Sound(u, NoOne)
  BY <1>2, <1>3, <1>4, <1>5, <1>6 DEF Sound
<1> QED
  BY <1>8, <1>9, <1>10 DEF Good

\* The stop of a has order left, and waits for c.
Reframed(t, a, order, c) == [t EXCEPT !.stop[a][1].todo = order, !.stop[a][1].on = c]

\* The stop of a waits for c.
Onward(t, a, c) == [t EXCEPT !.stop[a][1].on = c]

\* It changes the frame of a alone.
LEMMA OnwardLeaves ==
  ASSUME NEW p \in Teams, NEW a \in Agents, Ending(p, a), NEW c \in Agents \cup {NoOne},
         NEW u, u = Onward(p, a, c)
  PROVE  /\ u \in Teams /\ u = [p EXCEPT !.stop = u.stop]
         /\ Ending(u, a) /\ u.stop[a][1].todo = p.stop[a][1].todo /\ u.stop[a][1].on = c
         /\ u.stop[a][1].wait = p.stop[a][1].wait
         /\ \A b \in Agents : b # a => u.stop[b] = p.stop[b]
<1>1. PICK f \in Frames : p.stop[a] = <<f>>
  BY FramesOf
<1>2. PICK g : g = [f EXCEPT !.on = c]
  OBVIOUS
<1>3. g \in Frames /\ g.todo = f.todo /\ g.on = c /\ g.wait = f.wait
  BY <1>2 DEF Frames
<1>4. <<g>> \in Stops
  BY <1>3 DEF Stops
<1> DEFINE s == [p.stop EXCEPT ![a] = <<g>>]
<1>5. s \in [Agents -> Stops] /\ s[a] = <<g>> /\ \A b \in Agents : b # a => s[b] = p.stop[b]
  BY <1>4 DEF Teams
<1>6. [p.stop EXCEPT ![a][1].on = c] = s
  <2>1. [<<f>> EXCEPT ![1].on = c] = <<g>>
    BY <1>2
  <2> QED
    BY <1>1, <2>1 DEF Teams
<1> HIDE DEF s
<1>7. u = [p EXCEPT !.stop = s]
  BY <1>6 DEF Onward, Teams
<1>8. u \in Teams
  BY ZenonT(40), <1>5, <1>7 DEF Teams
<1>9. u.stop = s
  BY <1>7 DEF Teams
<1>10. u.stop[a] = <<g>> /\ u.stop[a][1] = g /\ <<g>> # <<>>
  BY <1>5, <1>9
<1> QED
  BY <1>1, <1>3, <1>5, <1>7, <1>8, <1>9, <1>10 DEF Ending

\* So does Reframed.
LEMMA ReframedLeaves ==
  ASSUME NEW p \in Teams, NEW a \in Agents, Ending(p, a), NEW order \in Seq(Agents),
         NEW c \in Agents \cup {NoOne},
         NEW u, u = Reframed(p, a, order, c)
  PROVE  /\ u \in Teams /\ u = [p EXCEPT !.stop = u.stop]
         /\ Ending(u, a) /\ u.stop[a][1].todo = order /\ u.stop[a][1].on = c
         /\ u.stop[a][1].wait = p.stop[a][1].wait
         /\ \A b \in Agents : b # a => u.stop[b] = p.stop[b]
<1>1. PICK m : m = Ordered(p, a, order)
  OBVIOUS
<1>2. /\ m \in Teams /\ m = [p EXCEPT !.stop = m.stop]
      /\ Ending(m, a) /\ m.stop[a][1].todo = order
      /\ m.stop[a][1].wait = p.stop[a][1].wait
      /\ \A b \in Agents : b # a => m.stop[b] = p.stop[b]
  BY <1>1, OrderedLeaves
<1>3. u = Onward(m, a, c)
  BY <1>1 DEF Reframed, Ordered, Onward
<1>4. /\ u \in Teams /\ u = [m EXCEPT !.stop = u.stop]
      /\ Ending(u, a) /\ u.stop[a][1].todo = m.stop[a][1].todo /\ u.stop[a][1].on = c
      /\ u.stop[a][1].wait = m.stop[a][1].wait
      /\ \A b \in Agents : b # a => u.stop[b] = m.stop[b]
  BY <1>2, <1>3, OnwardLeaves
<1>5. u = [p EXCEPT !.stop = u.stop]
  BY <1>2, <1>4 DEF Teams
<1> QED
  BY <1>2, <1>4, <1>5

\* A stop that goes on with a subagent is brought on.
LEMMA RestGood ==
  ASSUME NEW t, NEW a \in Agents, Good(t, a), Ending(t, a), NEW order \in Seq(Agents),
         NEW c \in Agents,
         NEW u, u = Reframed(t, a, order, c)
  PROVE  /\ Good(u, NoOne)
         /\ \A b \in Agents : (Ending(u, b) <=> Ending(t, b)) /\ u.state[b] = t.state[b]
<1>1. t \in Teams /\ c # NoOne
  BY NumbersOf DEF Good
<1>2. /\ u \in Teams /\ u = [t EXCEPT !.stop = u.stop]
      /\ Ending(u, a) /\ u.stop[a][1].on = c
      /\ u.stop[a][1].wait = t.stop[a][1].wait
      /\ \A b \in Agents : b # a => u.stop[b] = t.stop[b]
  BY <1>1, ReframedLeaves
<1>3. Reframes(t, u, a)
  <2>1. ~Aborting(u, a)
    BY <1>1, <1>2 DEF Aborting
  <2>2. /\ u.parent = t.parent /\ u.wait = t.wait /\ u.question = t.question
           /\ u.overlap = t.overlap
        /\ u.state = t.state /\ u.going = t.going /\ u.line = t.line /\ u.opening = t.opening
        /\ u.blocking = t.blocking /\ u.resting = t.resting
    BY SMTT(30), <1>1, <1>2 DEF Teams
  <2> QED
    BY <1>2, <2>1, <2>2 DEF Reframes
<1> QED
  BY <1>2, <1>3, ReframesGood

\* a sleeps no more.
Awake(t, a) == [t EXCEPT !.resting = @ \ {a}]

\* A stop without a subagent left aborts the session, ends the sleep and lets the call go.
LEMMA AbortGood ==
  ASSUME NEW t, NEW a \in Agents, Good(t, a), Ending(t, a),
         NEW d, d = Awake(Reframed(t, a, <<>>, NoOne), a), NEW u, u = Detach(d, t.stop[a][1].wait)
  PROVE  /\ Good(u, NoOne)
         /\ \A b \in Agents : (Ending(u, b) <=> Ending(t, b)) /\ u.state[b] = t.state[b]
<1>1. t \in Teams
  BY DEF Good
<1>2. PICK r : r = Reframed(t, a, <<>>, NoOne)
  OBVIOUS
<1>3. PICK nobody \in Agents \cup {NoOne} : nobody = NoOne
  OBVIOUS
<1>4. PICK none \in Seq(Agents) : none = <<>>
  <2>1. <<>> \in Seq(Agents)
    OBVIOUS
  <2> QED
    BY <2>1
<1>5. /\ r \in Teams /\ r = [t EXCEPT !.stop = r.stop]
      /\ Ending(r, a) /\ r.stop[a][1].wait = t.stop[a][1].wait
      /\ \A b \in Agents : b # a => r.stop[b] = t.stop[b]
  <2>1. r = Reframed(t, a, none, nobody)
    BY <1>2, <1>3, <1>4
  <2> QED
    BY <1>1, <2>1, ReframedLeaves
<1>6. /\ r.parent = t.parent /\ r.wait = t.wait /\ r.question = t.question /\ r.overlap = t.overlap
      /\ r.state = t.state /\ r.going = t.going /\ r.line = t.line /\ r.opening = t.opening
      /\ r.blocking = t.blocking /\ r.resting = t.resting
  BY <1>1, <1>5 DEF Teams
<1>7. d = Awake(r, a)
  BY <1>2
<1>8. /\ d \in Teams /\ d.stop = r.stop
      /\ d.parent = r.parent /\ d.wait = r.wait /\ d.question = r.question /\ d.overlap = r.overlap
      /\ d.state = r.state /\ d.going = r.going /\ d.line = r.line /\ d.opening = r.opening
      /\ d.blocking = r.blocking /\ d.resting = r.resting \ {a}
  <2>1. d = [r EXCEPT !.resting = r.resting \ {a}]
    BY <1>7 DEF Awake
  <2>2. r.resting \ {a} \in SUBSET Agents
    BY <1>5 DEF Teams
  <2>3. PICK q : q = r.resting \ {a}
    OBVIOUS
  <2>4. d = [r EXCEPT !.resting = q] /\ q \in SUBSET Agents
    BY <2>1, <2>2, <2>3
  <2>5. d \in Teams
    BY ZenonT(40), <1>5, <2>4 DEF Teams
  <2>6. d.resting = q
    BY <1>5, <2>4 DEF Teams
  <2>7. d.stop = r.stop /\ d.wait = r.wait /\ d.question = r.question /\ d.parent = r.parent
    BY <1>5, <2>4 DEF Teams
  <2>8. /\ d.state = r.state /\ d.going = r.going /\ d.line = r.line /\ d.opening = r.opening
        /\ d.overlap = r.overlap /\ d.blocking = r.blocking
    BY <1>5, <2>4 DEF Teams
  <2> QED
    BY <2>3, <2>5, <2>6, <2>7, <2>8
<1>9. PICK w \in Agents \cup {NoOne} : w = t.stop[a][1].wait
  BY <1>1, FramesOf DEF Frames
<1>10. /\ u \in Teams /\ u.stop = d.stop
       /\ u.parent = d.parent /\ u.wait = d.wait /\ u.question = d.question /\ u.overlap = d.overlap
       /\ u.state = d.state /\ u.going = d.going /\ u.line = d.line /\ u.opening = d.opening
       /\ (\A b \in Agents : u.blocking[b] => d.blocking[b]) /\ u.resting = d.resting
       /\ (w \in Agents => ~u.blocking[w])
  <2>1. CASE w = NoOne
    <3>1. u = d /\ w \notin Agents
      BY SMTT(30), <1>9, <2>1, NumbersOf DEF Detach
    <3> QED
      BY <1>8, <3>1
  <2>2. CASE w \in Agents
    <3>1. u = [d EXCEPT !.blocking[w] = FALSE]
      BY SMTT(30), <1>9, <2>2, NumbersOf DEF Detach
    <3> QED
      <4>0. d \in Teams
        BY <1>8
      <4>1. u \in Teams
        <5>1. PICK f : f = [d.blocking EXCEPT ![w] = FALSE]
          OBVIOUS
        <5>2. f \in [Agents -> BOOLEAN]
          BY <2>2, <4>0, <5>1 DEF Teams
        <5>3. u = [d EXCEPT !.blocking = f]
          BY <3>1, <4>0, <5>1 DEF Teams
        <5> QED
          BY ZenonT(40), <4>0, <5>2, <5>3 DEF Teams
      <4>2. u.blocking = [d.blocking EXCEPT ![w] = FALSE]
        BY <1>8, <3>1 DEF Teams
      <4>3. (\A b \in Agents : u.blocking[b] => d.blocking[b]) /\ ~u.blocking[w]
        BY ZenonT(40), <1>8, <2>2, <4>2 DEF Teams
      <4>4. /\ u.stop = d.stop
            /\ u.parent = d.parent /\ u.wait = d.wait /\ u.question = d.question
               /\ u.overlap = d.overlap
            /\ u.state = d.state /\ u.going = d.going /\ u.line = d.line /\ u.opening = d.opening
            /\ u.resting = d.resting
        BY <1>8, <3>1 DEF Teams
      <4> QED
        BY <4>1, <4>3, <4>4
  <2> QED
    BY <2>1, <2>2
<1>11. Ending(u, a) /\ u.stop[a][1].wait = w
  BY <1>5, <1>8, <1>9, <1>10 DEF Ending
<1>12. Reframes(t, u, a)
  BY <1>5, <1>6, <1>8, <1>10, <1>11 DEF Reframes
<1> QED
  BY <1>10, <1>12, ReframesGood

\* The rest of a stop, one agent after another.
LEMMA FoldStops ==
  ASSUME NEW n \in Nat, NEW line, DOMAIN line = 1 .. n, NEW X, NEW x0, x0 \in X[{}],
         \A s \in SUBSET (1 .. n) : \A i \in (1 .. n) \ s : \A x \in X[s] :
            StopsNext(x, line[i]) \in X[s \cup {i}]
  PROVE  FoldLeft(StopsNext, x0, line) \in X[1 .. n]
<1> DEFINE U == UNION {X[s] : s \in SUBSET (1 .. n)}
           F == [i \in 1 .. n |-> [x \in U |-> StopsNext(x, line[i])]]
           Is(g) == g = [s \in SUBSET (1 .. n) |->
                           IF s = {} THEN x0 ELSE StopsNext(g[s \ {Max(s)}], line[Max(s)])]
           it == CHOOSE g : Is(g)
<1>1. ASSUME NEW s \in SUBSET (1 .. n), NEW i \in (1 .. n), NEW x \in X[s]
      PROVE  F[i][x] = StopsNext(x, line[i])
  OBVIOUS
<1>2. PICK h : Folds(h, n, F, x0)
  <2> HIDE DEF F
  <2> QED BY FoldExists
<1>3. \A s \in SUBSET (1 .. n) : h[s] \in X[s]
  <2>1. \A s \in SUBSET (1 .. n) : \A i \in (1 .. n) \ s : \A x \in X[s] : F[i][x] \in X[s \cup {i}]
    BY Zenon, <1>1
  <2> HIDE DEF F
  <2> QED BY <1>2, <2>1, FoldKeeps
<1>4. Is(h)
  <2>1. ASSUME NEW s \in SUBSET (1 .. n), s # {}
        PROVE  F[Max(s)][h[s \ {Max(s)}]] = StopsNext(h[s \ {Max(s)}], line[Max(s)])
    <3>1. Max(s) \in 1 .. n /\ s \ {Max(s)} \in SUBSET (1 .. n)
      BY <2>1, Positions
    <3> HIDE DEF F
    <3> QED BY <1>1, <1>3, <3>1
  <2> HIDE DEF F
  <2> QED BY <1>2, <2>1 DEF Folds
<1>5. Is(it)
  BY <1>4
<1>6. it[1 .. n] \in X[1 .. n]
  <2> HIDE DEF it
  <2>1. it[{}] \in X[{}]
    BY <1>5
  <2>2. ASSUME NEW s \in SUBSET (1 .. n), s # {}, it[s \ {Max(s)}] \in X[s \ {Max(s)}]
        PROVE  it[s] \in X[s]
    <3>1. Max(s) \in (1 .. n) \ (s \ {Max(s)}) /\ (s \ {Max(s)}) \cup {Max(s)} = s
          /\ s \ {Max(s)} \in SUBSET (1 .. n)
      BY <2>2, Positions
    <3>2. it[s] = StopsNext(it[s \ {Max(s)}], line[Max(s)])
      BY <1>5, <2>2
    <3>3. StopsNext(it[s \ {Max(s)}], line[Max(s)]) \in X[(s \ {Max(s)}) \cup {Max(s)}]
      BY <2>2, <3>1
    <3> QED
      BY <3>1, <3>2, <3>3
  <2> QED
    BY <2>1, <2>2, Walks
<1>7. FoldLeft(StopsNext, x0, line) = it[1 .. n]
  BY DEF FoldLeft, MapThenFoldSet
<1> QED
  BY <1>6, <1>7

\* Every stop that may end, one after another.
LEMMA FoldSettle ==
  ASSUME NEW n \in Nat, NEW line, DOMAIN line = 1 .. n, NEW X, NEW x0, x0 \in X[{}],
         \A s \in SUBSET (1 .. n) : \A i \in (1 .. n) \ s : \A x \in X[s] :
            SettleNext(x, line[i]) \in X[s \cup {i}]
  PROVE  FoldLeft(SettleNext, x0, line) \in X[1 .. n]
<1> DEFINE U == UNION {X[s] : s \in SUBSET (1 .. n)}
           F == [i \in 1 .. n |-> [x \in U |-> SettleNext(x, line[i])]]
           Is(g) == g = [s \in SUBSET (1 .. n) |->
                           IF s = {} THEN x0 ELSE SettleNext(g[s \ {Max(s)}], line[Max(s)])]
           it == CHOOSE g : Is(g)
<1>1. ASSUME NEW s \in SUBSET (1 .. n), NEW i \in (1 .. n), NEW x \in X[s]
      PROVE  F[i][x] = SettleNext(x, line[i])
  OBVIOUS
<1>2. PICK h : Folds(h, n, F, x0)
  <2> HIDE DEF F
  <2> QED BY FoldExists
<1>3. \A s \in SUBSET (1 .. n) : h[s] \in X[s]
  <2>1. \A s \in SUBSET (1 .. n) : \A i \in (1 .. n) \ s : \A x \in X[s] : F[i][x] \in X[s \cup {i}]
    BY Zenon, <1>1
  <2> HIDE DEF F
  <2> QED BY <1>2, <2>1, FoldKeeps
<1>4. Is(h)
  <2>1. ASSUME NEW s \in SUBSET (1 .. n), s # {}
        PROVE  F[Max(s)][h[s \ {Max(s)}]] = SettleNext(h[s \ {Max(s)}], line[Max(s)])
    <3>1. Max(s) \in 1 .. n /\ s \ {Max(s)} \in SUBSET (1 .. n)
      BY <2>1, Positions
    <3> HIDE DEF F
    <3> QED BY <1>1, <1>3, <3>1
  <2> HIDE DEF F
  <2> QED BY <1>2, <2>1 DEF Folds
<1>5. Is(it)
  BY <1>4
<1>6. it[1 .. n] \in X[1 .. n]
  <2> HIDE DEF it
  <2>1. it[{}] \in X[{}]
    BY <1>5
  <2>2. ASSUME NEW s \in SUBSET (1 .. n), s # {}, it[s \ {Max(s)}] \in X[s \ {Max(s)}]
        PROVE  it[s] \in X[s]
    <3>1. Max(s) \in (1 .. n) \ (s \ {Max(s)}) /\ (s \ {Max(s)}) \cup {Max(s)} = s
          /\ s \ {Max(s)} \in SUBSET (1 .. n)
      BY <2>2, Positions
    <3>2. it[s] = SettleNext(it[s \ {Max(s)}], line[Max(s)])
      BY <1>5, <2>2
    <3>3. SettleNext(it[s \ {Max(s)}], line[Max(s)]) \in X[(s \ {Max(s)}) \cup {Max(s)}]
      BY <2>2, <3>1
    <3> QED
      BY <3>1, <3>2, <3>3
  <2> QED
    BY <2>1, <2>2, Walks
<1>7. FoldLeft(SettleNext, x0, line) = it[1 .. n]
  BY DEF FoldLeft, MapThenFoldSet
<1> QED
  BY <1>6, <1>7

\* The stops that fail makes.
ChildrenStopped(t, line) ==
    LET StopChild(u, c) == Stop(u, c, NoOne)
    IN  FoldLeft(StopChild, t, line)

\* Every subagent of one that failed, one after another.
LEMMA FoldChildren ==
  ASSUME NEW n \in Nat, NEW line, DOMAIN line = 1 .. n, NEW X, NEW x0, x0 \in X[{}],
         \A s \in SUBSET (1 .. n) : \A i \in (1 .. n) \ s : \A x \in X[s] :
            Stop(x, line[i], NoOne) \in X[s \cup {i}]
  PROVE  ChildrenStopped(x0, line) \in X[1 .. n]
<1> DEFINE U == UNION {X[s] : s \in SUBSET (1 .. n)}
           F == [i \in 1 .. n |-> [x \in U |-> Stop(x, line[i], NoOne)]]
           Is(g) == g = [s \in SUBSET (1 .. n) |->
                           IF s = {} THEN x0 ELSE Stop(g[s \ {Max(s)}], line[Max(s)], NoOne)]
           it == CHOOSE g : Is(g)
<1>1. ASSUME NEW s \in SUBSET (1 .. n), NEW i \in (1 .. n), NEW x \in X[s]
      PROVE  F[i][x] = Stop(x, line[i], NoOne)
  OBVIOUS
<1>2. PICK h : Folds(h, n, F, x0)
  <2> HIDE DEF F
  <2> QED BY FoldExists
<1>3. \A s \in SUBSET (1 .. n) : h[s] \in X[s]
  <2>1. \A s \in SUBSET (1 .. n) : \A i \in (1 .. n) \ s : \A x \in X[s] : F[i][x] \in X[s \cup {i}]
    BY Zenon, <1>1
  <2> HIDE DEF F
  <2> QED BY <1>2, <2>1, FoldKeeps
<1>4. Is(h)
  <2>1. ASSUME NEW s \in SUBSET (1 .. n), s # {}
        PROVE  F[Max(s)][h[s \ {Max(s)}]] = Stop(h[s \ {Max(s)}], line[Max(s)], NoOne)
    <3>1. Max(s) \in 1 .. n /\ s \ {Max(s)} \in SUBSET (1 .. n)
      BY <2>1, Positions
    <3> HIDE DEF F
    <3> QED BY <1>1, <1>3, <3>1
  <2> HIDE DEF F
  <2> QED BY <1>2, <2>1 DEF Folds
<1>5. Is(it)
  BY <1>4
<1>6. it[1 .. n] \in X[1 .. n]
  <2> HIDE DEF it
  <2>1. it[{}] \in X[{}]
    BY <1>5
  <2>2. ASSUME NEW s \in SUBSET (1 .. n), s # {}, it[s \ {Max(s)}] \in X[s \ {Max(s)}]
        PROVE  it[s] \in X[s]
    <3>1. Max(s) \in (1 .. n) \ (s \ {Max(s)}) /\ (s \ {Max(s)}) \cup {Max(s)} = s
          /\ s \ {Max(s)} \in SUBSET (1 .. n)
      BY <2>2, Positions
    <3>2. it[s] = Stop(it[s \ {Max(s)}], line[Max(s)], NoOne)
      BY <1>5, <2>2
    <3>3. Stop(it[s \ {Max(s)}], line[Max(s)], NoOne) \in X[(s \ {Max(s)}) \cup {Max(s)}]
      BY <2>2, <3>1
    <3> QED
      BY <3>1, <3>2, <3>3
  <2> QED
    BY <2>1, <2>2, Walks
<1>7. ChildrenStopped(x0, line) = it[1 .. n]
  BY DEF ChildrenStopped, FoldLeft, MapThenFoldSet
<1> QED
  BY <1>6, <1>7

\* The agents whose stop is under way.
Enders(t) == {a \in Agents : Ending(t, a)}

\* A stop goes down the tree: k agents or more are stopping, the last of them has to be brought
\* on, and who failed stays so.
OnTheWay(t0, at, k) ==
    /\ at \in [team : Teams, agent : Agents \cup {NoOne}]
    /\ Good(at.team, at.agent)
    /\ at.agent # NoOne => Ending(at.team, at.agent) /\ Cardinality(Enders(at.team)) >= k
    /\ \A b \in Agents : Failed(t0, b) => Failed(at.team, b)

\* It goes on with a subagent, and one more agent is stopping.
LEMMA NextChild ==
  ASSUME NEW t0, NEW k \in Nat, NEW t,
         NEW a \in Agents, Good(t, a), Ending(t, a), Cardinality(Enders(t)) >= k,
         \A b \in Agents : Failed(t0, b) => Failed(t, b),
         NEW child \in Agents, CanStop(t, child), NEW order \in Seq(Agents),
         NEW r, r = Reframed(t, a, order, child),
         NEW at, at = [team |-> Mark(r, child, a), agent |-> child]
  PROVE  OnTheWay(t0, at, k + 1)
<1>1. Good(r, NoOne) /\ \A b \in Agents : (Ending(r, b) <=> Ending(t, b)) /\ r.state[b] = t.state[b]
  BY RestGood
<1>2. CanStop(r, child)
  BY <1>1 DEF CanStop, Live
<1>3. PICK u : u = Mark(r, child, a)
  OBVIOUS
<1>4. /\ Good(u, child) /\ Ending(u, child)
      /\ \A b \in Agents : /\ b # child => (Ending(u, b) <=> Ending(r, b))
                           /\ Failed(r, b) => Failed(u, b)
  BY <1>1, <1>2, <1>3, MarkGood
<1>5. \A b \in Agents : Failed(t0, b) => Failed(u, b)
  BY <1>1, <1>4 DEF Failed
<1>6. child \notin Enders(t) /\ Enders(u) = Enders(t) \cup {child} /\ Enders(t) \in SUBSET Agents
  BY <1>1, <1>4 DEF Enders, CanStop
<1>7. Cardinality(Enders(u)) = Cardinality(Enders(t)) + 1 /\ Cardinality(Enders(t)) \in Nat
  BY <1>6, Counts
<1>8. Cardinality(Enders(u)) >= k + 1
  BY <1>7
<1>9. u \in Teams /\ at = [team |-> u, agent |-> child]
  BY <1>3, <1>4 DEF Good
<1> QED
  BY <1>4, <1>5, <1>8, <1>9 DEF OnTheWay

\* It comes to the agent without subagents to stop.
LEMMA LastAbort ==
  ASSUME NEW t0, NEW k \in Nat, NEW t, NEW a \in Agents, Good(t, a), Ending(t, a),
         \A b \in Agents : Failed(t0, b) => Failed(t, b),
         NEW d, d = Awake(Reframed(t, a, <<>>, NoOne), a),
         NEW at, at = [team |-> Detach(d, t.stop[a][1].wait), agent |-> NoOne]
  PROVE  OnTheWay(t0, at, k)
<1>1. PICK u : u = Detach(d, t.stop[a][1].wait)
  OBVIOUS
<1>2. Good(u, NoOne) /\ \A b \in Agents : (Ending(u, b) <=> Ending(t, b)) /\ u.state[b] = t.state[b]
  BY <1>1, AbortGood
<1>3. \A b \in Agents : Failed(t0, b) => Failed(u, b)
  BY <1>2 DEF Failed
<1>4. u \in Teams /\ at = [team |-> u, agent |-> NoOne]
  BY <1>1, <1>2 DEF Good
<1> QED
  BY <1>2, <1>3, <1>4 DEF OnTheWay

\* One step of it, whichever it is.
LEMMA StopsNextGood ==
  ASSUME NEW t0, NEW k \in Nat, NEW at, OnTheWay(t0, at, k), NEW n
  PROVE  OnTheWay(t0, StopsNext(at, n), k + 1)
<1>1. PICK t : t = at.team
  OBVIOUS
<1>2. PICK a : a = at.agent
  OBVIOUS
<1>3. PICK new : new = StopsNext(at, n)
  OBVIOUS
<1>4. CASE a = NoOne
  <2>1. new = at
    BY <1>2, <1>3, <1>4 DEF StopsNext
  <2> QED
    BY <1>2, <1>3, <1>4, <2>1 DEF OnTheWay
<1>5. CASE a # NoOne
  <2>1. /\ a \in Agents /\ t \in Teams /\ Good(t, a) /\ Ending(t, a) /\ Cardinality(Enders(t)) >= k
        /\ \A b \in Agents : Failed(t0, b) => Failed(t, b)
    BY <1>1, <1>2, <1>5 DEF OnTheWay
  <2>2. PICK todo \in Seq(Agents) : todo = t.stop[a][1].todo
    BY <2>1, FramesOf DEF Frames
  <2>3. PICK I : I = {i \in 1 .. Len(todo) : CanStop(t, todo[i])}
    OBVIOUS
  <2>4. PICK next : next = IF I # {} THEN Min(I) ELSE 0
    OBVIOUS
  <2>5. I \in SUBSET (1 .. Len(todo)) /\ Len(todo) \in Nat
    BY <2>3
  <2>6. next \in 0 .. Len(todo) /\ (I # {} => next \in I)
    BY <2>4, <2>5, Selects
  <2>7. new = IF next = 0
              THEN [team |-> Detach(Awake(Reframed(t, a, <<>>, NoOne), a), t.stop[a][1].wait),
              agent |-> NoOne]
              ELSE [team |-> Mark(Reframed(t, a, SubSeq(todo, next + 1, Len(todo)), todo[next]),
              todo[next], a),
                    agent |-> todo[next]]
    <3>1. [t EXCEPT !.stop[a][1].todo = <<>>, !.stop[a][1].on = NoOne, !.resting = @ \ {a}]
            = Awake(Reframed(t, a, <<>>, NoOne), a)
      BY <2>1 DEF Awake, Reframed, Teams
    <3> QED
      BY ZenonT(40), <1>1, <1>2, <1>3, <1>5, <2>2, <2>3, <2>4, <3>1 DEF StopsNext, SelectInSeq, Reframed
  <2>8. CASE next = 0
    <3>1. PICK d : d = Awake(Reframed(t, a, <<>>, NoOne), a)
      OBVIOUS
    <3>2. new = [team |-> Detach(d, t.stop[a][1].wait), agent |-> NoOne]
      BY <2>7, <2>8, <3>1
    <3>3. k + 1 \in Nat
      OBVIOUS
    <3>4. OnTheWay(t0, new, k + 1)
      BY <2>1, <3>1, <3>2, <3>3, LastAbort
    <3> QED
      BY <1>3, <3>4
  <2>9. CASE next # 0
    <3>1. next \in I
      BY <2>4, <2>6, <2>9
    <3>2. next \in 1 .. Len(todo) /\ CanStop(t, todo[next])
      BY <2>3, <3>1
    <3>3. PICK child \in Agents : child = todo[next]
      BY <3>2
    <3>4. PICK order : order = SubSeq(todo, next + 1, Len(todo))
      OBVIOUS
    <3>5. order \in Seq(Agents)
      BY <2>5, <3>2, <3>4
    <3>6. new = [team |-> Mark(Reframed(t, a, order, child), child, a), agent |-> child]
      BY <2>7, <2>9, <3>3, <3>4
    <3>7. CanStop(t, child)
      BY <3>2, <3>3
    <3>8. OnTheWay(t0, new, k + 1)
      BY <2>1, <3>5, <3>6, <3>7, NextChild
    <3> QED
      BY <1>3, <3>8
  <2> QED
    BY <2>8, <2>9
<1> QED
  BY <1>4, <1>5

\* A stop goes down the tree and keeps the invariant: each step stops one agent more, so it has
\* ended when all agents have had a step.
LEMMA UnwindGood ==
  ASSUME NEW t, NEW a \in Agents, Good(t, a), Ending(t, a)
  PROVE  Good(Unwind(t, a), NoOne) /\ \A b \in Agents : Failed(t, b) => Failed(Unwind(t, a), b)
<1> DEFINE n == MaxAgents
           W == [team : Teams, agent : Agents \cup {NoOne}]
           X == [s \in SUBSET (1 .. n) |-> {at \in W : OnTheWay(t, at, Cardinality(s) + 1)}]
           first == [team |-> t, agent |-> a]
<1>1. n \in Nat /\ Agents \in SUBSET Agents /\ Cardinality(Agents) = n
  BY NumbersOf
<1>2. PICK line : line = InOrder(Agents)
  OBVIOUS
<1>3. DOMAIN line = 1 .. n /\ line \in [1 .. n -> Agents]
  BY <1>1, <1>2, InOrderLists
<1>4. first \in X[{}]
  <2>1. t \in Teams
    BY DEF Good
  <2>2. Cardinality(Enders(t)) >= 1
    <3>1. Enders(t) \in SUBSET Agents /\ a \in Enders(t) /\ {} \in SUBSET Agents /\ a \notin {}
      BY DEF Enders
    <3>2. Cardinality({} \cup {a}) = Cardinality({}) + 1
      BY <3>1, Counts
    <3>3. {} \cup {a} \in SUBSET Enders(t)
      BY <3>1
    <3>4. Cardinality({} \cup {a}) <= Cardinality(Enders(t)) /\ Cardinality(Enders(t)) \in Nat
      BY <3>1, <3>3, Counts
    <3>5. Cardinality({}) = 0
      BY FS_EmptySet
    <3> QED
      BY <3>2, <3>4, <3>5
  <2>3. first \in W /\ first.team = t /\ first.agent = a
    BY <2>1
  <2>4. Cardinality({}) + 1 = 1
    BY FS_EmptySet
  <2>5. OnTheWay(t, first, 1)
    BY <2>2, <2>3 DEF OnTheWay
  <2>6. {} \in SUBSET (1 .. n)
    OBVIOUS
  <2> HIDE DEF n, W, first
  <2> QED
    BY <2>3, <2>4, <2>5, <2>6
<1>5. ASSUME NEW s \in SUBSET (1 .. n), NEW i \in (1 .. n) \ s, NEW at \in X[s]
      PROVE  StopsNext(at, line[i]) \in X[s \cup {i}]
  <2>1. at \in W /\ OnTheWay(t, at, Cardinality(s) + 1)
    OBVIOUS
  <2>2. IsFiniteSet(s) /\ Cardinality(s) \in Nat /\ s \cup {i} \in SUBSET (1 .. n)
    BY <1>1, Positions
  <2>3. Cardinality(s \cup {i}) = Cardinality(s) + 1
    BY <2>2, FS_AddElement
  <2>4. PICK new : new = StopsNext(at, line[i])
    OBVIOUS
  <2>5. OnTheWay(t, new, Cardinality(s) + 1 + 1)
    BY <2>1, <2>2, <2>4, StopsNextGood
  <2>6. new \in W
    BY <2>5 DEF OnTheWay
  <2>7. OnTheWay(t, new, Cardinality(s \cup {i}) + 1)
    BY <2>2, <2>3, <2>5
  <2> HIDE DEF n, W
  <2> QED
    BY <2>2, <2>4, <2>6, <2>7
<1>6. PICK last : last = FoldLeft(StopsNext, first, line)
  OBVIOUS
<1>7. last \in X[1 .. n]
  <2> HIDE DEF X, n, first
  <2> QED BY <1>1, <1>3, <1>4, <1>5, <1>6, FoldStops
<1>8. OnTheWay(t, last, n + 1)
  <2>1. OnTheWay(t, last, Cardinality(1 .. n) + 1)
    BY <1>7
  <2>2. Cardinality(1 .. n) = n
    BY <1>1, FS_Interval
  <2> QED
    BY <2>1, <2>2
<1>9. last.agent = NoOne
  <2>1. Enders(last.team) \in SUBSET Agents
    BY DEF Enders
  <2>2. Cardinality(Enders(last.team)) <= n /\ Cardinality(Enders(last.team)) \in Nat
    BY <2>1, Counts
  <2>3. ~(Cardinality(Enders(last.team)) >= n + 1)
    BY <1>1, <2>2
  <2> QED
    BY <1>8, <2>3 DEF OnTheWay
<1>10. Unwind(t, a) = last.team
  BY <1>2, <1>6 DEF Unwind
<1> QED
  BY <1>8, <1>9, <1>10 DEF OnTheWay

\* stop keeps the invariant.
LEMMA StopGood ==
  ASSUME NEW t, Good(t, NoOne), NEW a \in Agents, NEW by
  PROVE  Good(Stop(t, a, by), NoOne) /\ \A b \in Agents : Failed(t, b) => Failed(Stop(t, a, by), b)
<1>1. CASE ~CanStop(t, a)
  BY <1>1 DEF Stop
<1>2. CASE CanStop(t, a)
  <2>1. PICK m : m = Mark(t, a, by)
    OBVIOUS
  <2>2. Good(m, a) /\ Ending(m, a) /\ \A b \in Agents : Failed(t, b) => Failed(m, b)
    BY <1>2, <2>1, MarkGood
  <2>3. PICK u : u = Unwind(m, a)
    OBVIOUS
  <2>4. Good(u, NoOne) /\ \A b \in Agents : Failed(m, b) => Failed(u, b)
    BY <2>2, <2>3, UnwindGood
  <2>5. Stop(t, a, by) = u
    BY <1>2, <2>1, <2>3 DEF Stop
  <2> QED
    BY <2>2, <2>4, <2>5
<1> QED
  BY <1>1, <1>2

\* The stop_subagent calls that waited for the stop of a return.
LEMMA CallEndsGood ==
  ASSUME NEW t, NEW x, Good(t, x), NEW a
  PROVE  Good(CallEnds(t, a), x)
<1>1. PICK c : c = [y \in Agents |-> IF t.call[y] = a THEN NoOne ELSE t.call[y]]
  OBVIOUS
<1>2. t \in Teams /\ c \in [Agents -> Agents \cup {NoOne}]
  BY <1>1 DEF Good, Teams
<1>3. CallEnds(t, a) = [t EXCEPT !.call = c]
  BY <1>1, <1>2 DEF CallEnds, Teams
<1>4. CallEnds(t, a) \in Teams /\ Same(t, CallEnds(t, a))
  BY ZenonT(40), <1>2, <1>3 DEF Teams, Same, Stays, Keeps, SameFrames, Ending
<1> QED
  BY <1>4, GoodSame

\* The stop of the parent goes on.
LEMMA GoesOnGood ==
  ASSUME NEW t, Good(t, NoOne), NEW parent, NEW a
  PROVE  Good(GoesOn(t, parent, a), NoOne)
<1>1. CASE parent \in Agents /\ Ending(t, parent) /\ t.stop[parent][1].on = a
  <2>1. Good(t, parent)
    BY GoodAlso
  <2> QED
    BY <1>1, <2>1, UnwindGood DEF GoesOn
<1>2. CASE ~(parent \in Agents /\ Ending(t, parent) /\ t.stop[parent][1].on = a)
  BY <1>2 DEF GoesOn
<1> QED
  BY <1>1, <1>2

\* The stop of a is over, and a message has relaunched it.
StopOver(t, a) == [t EXCEPT !.stop[a] = <<>>, !.silent = @ \ {a}]

\* The end of a stop keeps the invariant, whether or not a run overlaps it.
LEMMA EndStopGood ==
  ASSUME NEW t, Good(t, NoOne), NEW a \in Agents, Aborting(t, a)
  PROVE  Good(EndStop(t, a), NoOne)
<1>0. t \in Teams
  BY DEF Good
<1>1. PICK o : o = StopOver(t, a)
  OBVIOUS
<1>2. o \in Teams /\ Sheds(t, o, a)
  <2>1. o \in Teams
    BY <1>0, <1>1 DEF Teams, StopOver, Stops
  <2>2. Sheds(t, o, a)
    BY <1>0, <1>1 DEF Teams, StopOver, Sheds
  <2> QED
    BY <2>1, <2>2
<1>3. Good(o, NoOne)
  BY <1>2, ShedsGood
<1>4. PICK e : e = IF t.stop[a][1].own /\ t.state[a] = "stopped"
                   THEN Finish(t, a, a \in t.silent) ELSE Pump(o)
  OBVIOUS
<1>5. Good(e, NoOne)
  <2>1. CASE t.stop[a][1].own /\ t.state[a] = "stopped"
    <3>1. t.state[a] \notin ActiveStates /\ Known(t, a)
      BY <2>1 DEF ActiveStates, Known
    <3> QED
      BY <1>4, <2>1, <3>1, FinishGood
  <2>2. CASE ~(t.stop[a][1].own /\ t.state[a] = "stopped")
    BY <1>3, <1>4, <2>2, PumpIsGood
  <2> QED
    BY <2>1, <2>2
<1>6. EndStop(t, a) = GoesOn(CallEnds(e, a), t.parent[a], a)
  BY <1>1, <1>4 DEF EndStop, StopOver
<1> QED
  BY <1>5, <1>6, CallEndsGood, GoesOnGood

\* So does the end of one stop that had nothing to abort,
LEMMA SettleNextGood ==
  ASSUME NEW t, Good(t, NoOne), NEW n
  PROVE  Good(SettleNext(t, n), NoOne)
<1>1. PICK ready : ready = {a \in Agents : Aborting(t, a) /\ ~t.stop[a][1].held}
  OBVIOUS
<1>2. CASE ready = {}
  BY <1>1, <1>2 DEF SettleNext
<1>3. CASE ready # {}
  <2>1. ready \in SUBSET Nat
    BY <1>1, NumbersOf
  <2>2. \E a \in ready : \A b \in ready : a <= b
    BY <1>3, <2>1, LeastOf
  <2>3. PICK a : a = CHOOSE c \in ready : \A b \in ready : c <= b
    OBVIOUS
  <2>4. a \in ready
    BY <2>2, <2>3
  <2>5. SettleNext(t, n) = EndStop(t, a)
    BY <1>1, <1>3, <2>3 DEF SettleNext
  <2> QED
    BY <1>1, <2>4, <2>5, EndStopGood
<1> QED
  BY <1>2, <1>3

\* and of all of them.
LEMMA SettledGood ==
  ASSUME NEW t, Good(t, NoOne)
  PROVE  Good(Settled(t), NoOne)
<1> DEFINE n == MaxAgents
           G == {u \in Teams : Good(u, NoOne)}
           X == [s \in SUBSET (1 .. n) |-> G]
<1>1. n \in Nat /\ Agents \in SUBSET Agents /\ Cardinality(Agents) = n
  BY NumbersOf
<1>2. PICK line : line = InOrder(Agents)
  OBVIOUS
<1>3. DOMAIN line = 1 .. n
  BY <1>1, <1>2, InOrderLists
<1>4. t \in X[{}]
  BY DEF Good
<1>5. ASSUME NEW s \in SUBSET (1 .. n), NEW i \in (1 .. n) \ s, NEW v \in X[s]
      PROVE  SettleNext(v, line[i]) \in X[s \cup {i}]
  <2>1. Good(SettleNext(v, line[i]), NoOne)
    BY SettleNextGood
  <2> QED
    BY <2>1 DEF Good
<1>6. FoldLeft(SettleNext, t, line) \in X[1 .. n]
  <2> HIDE DEF X, n
  <2> QED BY <1>1, <1>3, <1>4, <1>5, FoldSettle
<1> QED
  BY <1>2, <1>6 DEF Settled

\* The subagents of an agent that fails stop, and it stays failed.
LEMMA ChildrenStoppedGood ==
  ASSUME NEW t, Good(t, NoOne), NEW line \in Seq(Agents)
  PROVE  /\ Good(ChildrenStopped(t, line), NoOne)
         /\ \A b \in Agents : Failed(t, b) => Failed(ChildrenStopped(t, line), b)
<1> DEFINE n == Len(line)
           G == {u \in Teams : Good(u, NoOne) /\ \A b \in Agents : Failed(t, b) => Failed(u, b)}
           X == [s \in SUBSET (1 .. n) |-> G]
<1>1. n \in Nat /\ DOMAIN line = 1 .. n /\ \A i \in 1 .. n : line[i] \in Agents
  OBVIOUS
<1>2. t \in X[{}]
  BY DEF Good
<1>3. ASSUME NEW s \in SUBSET (1 .. n), NEW i \in (1 .. n) \ s, NEW v \in X[s]
      PROVE  Stop(v, line[i], NoOne) \in X[s \cup {i}]
  <2>1. v \in G /\ line[i] \in Agents
    BY <1>1
  <2>2. PICK u : u = Stop(v, line[i], NoOne)
    OBVIOUS
  <2>3. Good(u, NoOne) /\ \A b \in Agents : Failed(v, b) => Failed(u, b)
    BY <2>1, <2>2, StopGood
  <2>4. u \in G
    BY <2>1, <2>3 DEF Good
  <2> HIDE DEF G
  <2> QED
    BY <2>2, <2>4
<1>4. ChildrenStopped(t, line) \in X[1 .. n]
  <2> HIDE DEF X, n
  <2> QED BY <1>1, <1>2, <1>3, FoldChildren
<1> QED
  BY <1>4

------------------------------------------------------------------------------
(* Failures, launches and spawns *)

\* Who joins the line is let go by the next pump.
LEMMA EnqueuedGood ==
  ASSUME NEW t, Good(t, NoOne), NEW a \in Agents, NEW first \in BOOLEAN
  PROVE  Good(Pump(Enqueue(t, a, first)), NoOne)
<1>1. PICK u : u = Enqueue(t, a, first)
  OBVIOUS
<1>2. u \in Teams /\ Sound(u, NoOne) /\ Counted(u) = Counted(t)
  BY <1>1, EnqueueSound DEF Good
<1>3. Good(u, NoOne)
  BY <1>2 DEF Good, Few
<1> QED
  BY <1>1, <1>3, PumpIsGood

\* fail keeps the invariant.
LEMMA FailGood ==
  ASSUME NEW t, Good(t, NoOne), NEW a \in Agents, Idles(t, a)
  PROVE  Good(Fail(t, a), NoOne)
<1>1. PICK r : r = UnreadLeft(t, a)
  OBVIOUS
<1>2. r \in Teams /\ Same(t, r)
  BY <1>1, ParkedSame DEF Good
<1>3. PICK e : e = Unprompted(r, a)
  OBVIOUS
<1>4. e \in Teams /\ Same(r, e)
  BY <1>2, <1>3, UnpromptedSame
<1>5. Good(e, NoOne) /\ Idles(e, a)
  BY <1>2, <1>4, GoodSame, IdlesOn
<1>6. PICK f : f = Put(e, a, "failed")
  OBVIOUS
<1>7. PICK s \in {"waiting", "idle", "failed", "interrupted", "queued"} : s = "failed"
  OBVIOUS
<1>8. Good(f, NoOne) /\ Idles(f, a) /\ f.state[a] = "failed"
  BY <1>5, <1>6, <1>7, PutGood
<1>9. Failed(f, a)
  BY <1>8 DEF Failed, Idles
<1>10. PICK line : line = StopOrder(t, Children(t, a))
  OBVIOUS
<1>11. line \in Seq(Agents)
  <2>1. Children(t, a) \in SUBSET Agents
    BY DEF Children
  <2> QED
    BY <1>10, <2>1, StopOrderTyped
<1>12. PICK c : c = ChildrenStopped(f, line)
  OBVIOUS
<1>13. Good(c, NoOne) /\ Failed(c, a)
  BY <1>8, <1>9, <1>11, <1>12, ChildrenStoppedGood
<1>14. Good(Finish(c, a, a \in t.silent), NoOne)
  <2>1. c.state[a] \notin ActiveStates /\ Known(c, a) /\ ~Ending(c, a)
    BY <1>13 DEF Failed, ActiveStates, Known
  <2> QED
    BY <1>13, <2>1, FinishGood
<1>15. [r EXCEPT !.state[a] = "failed", !.prompting = @ \ {a}] = f
  BY <1>2, <1>3, <1>6 DEF Unprompted, Put, Teams
<1>16. Fail(t, a) = Finish(c, a, a \in t.silent)
  BY Zenon, <1>1, <1>10, <1>12, <1>15 DEF Fail, ChildrenStopped
<1> QED
  BY <1>14, <1>16

\* Its prompt failed, and the run is to go on with a fallback model.
Left(t, a) == [t EXCEPT !.prompting = @ \ {a}, !.held[a] = FALSE, !.continuing = @ \cup {a}]

\* No fallback model is left.
Quits(t, a) == [t EXCEPT !.continuing = @ \ {a}]

\* Its launch is over.
Closed(t, a) == [t EXCEPT !.opening = @ \ {a}]

\* None of these is what the slots are about.
LEMMA LeftSame ==
  ASSUME NEW t \in Teams, NEW a \in Agents
  PROVE  /\ Left(t, a) \in Teams /\ Same(t, Left(t, a))
         /\ Quits(t, a) \in Teams /\ Same(t, Quits(t, a))
         /\ Closed(t, a) \in Teams /\ Same(t, Closed(t, a))
<1>1. Left(t, a) \in Teams /\ Same(t, Left(t, a))
  BY DEF Left, Teams, Same, Stays, Keeps, SameFrames, Ending
<1>2. Quits(t, a) \in Teams /\ Same(t, Quits(t, a))
  BY DEF Quits, Teams, Same, Stays, Keeps, SameFrames, Ending
<1>3. Closed(t, a) \in Teams /\ Same(t, Closed(t, a))
  BY DEF Closed, Teams, Same, Stays, Keeps, SameFrames, Ending
<1> QED
  BY <1>1, <1>2, <1>3

\* A run that falls back joins the line, and frees its slot.
LEMMA FallBackGood ==
  ASSUME NEW t, Good(t, NoOne), NEW a \in Agents, Idles(t, a)
  PROVE  Good(FallBack(t, a), NoOne)
<1>1. PICK r : r = UnreadLeft(t, a)
  OBVIOUS
<1>2. r \in Teams /\ Same(t, r)
  BY <1>1, ParkedSame DEF Good
<1>3. PICK e : e = Left(r, a)
  OBVIOUS
<1>4. e \in Teams /\ Same(r, e)
  BY <1>2, <1>3, LeftSame
<1>5. Good(e, NoOne) /\ Idles(e, a)
  BY <1>2, <1>4, GoodSame, IdlesOn
<1>6. PICK f : f = Put(e, a, "queued")
  OBVIOUS
<1>7. PICK s \in {"waiting", "idle", "failed", "interrupted", "queued"} : s = "queued"
  OBVIOUS
<1>8. Good(f, NoOne)
  BY <1>5, <1>6, <1>7, PutGood
<1>9. f = [r EXCEPT !.state[a] = "queued", !.prompting = @ \ {a}, !.held[a] = FALSE,
                    !.continuing = @ \cup {a}]
  BY <1>2, <1>3, <1>6 DEF Left, Put, Teams
<1>10. FallBack(t, a) = Pump(Enqueue(f, a, FALSE))
  BY <1>1, <1>9 DEF FallBack
<1> QED
  BY <1>8, <1>10, EnqueuedGood

\* A run without a fallback fails.
LEMMA FailRunGood ==
  ASSUME NEW t, Good(t, NoOne), NEW a \in Agents, Idles(t, a)
  PROVE  Good(FailRun(t, a), NoOne)
<1>1. PICK q : q = Quits(t, a)
  OBVIOUS
<1>2. q \in Teams /\ Same(t, q)
  BY <1>1, LeftSame DEF Good
<1>3. PICK p : p = ParkResume(q, a)
  OBVIOUS
<1>4. p \in Teams /\ Same(q, p)
  BY <1>2, <1>3, ParkedSame
<1>5. Good(p, NoOne) /\ Idles(p, a)
  BY <1>2, <1>4, GoodSame, IdlesOn
<1>6. FailRun(t, a) = Fail(p, a)
  BY <1>1, <1>3 DEF FailRun, Quits
<1> QED
  BY <1>5, <1>6, FailGood

\* A resumed run that cannot be launched is interrupted.
LEMMA ResumeFailedGood ==
  ASSUME NEW t, Good(t, NoOne), NEW a \in Agents, Idles(t, a)
  PROVE  Good(ResumeFailed(t, a), NoOne)
<1>1. PICK e : e = RunEnded(t, a)
  OBVIOUS
<1>2. e \in Teams /\ Same(t, e)
  BY <1>1, RunEndedSame DEF Good
<1>3. PICK p : p = ParkResume(e, a)
  OBVIOUS
<1>4. p \in Teams /\ Same(e, p)
  BY <1>2, <1>3, ParkedSame
<1>5. Good(p, NoOne) /\ Idles(p, a)
  BY <1>2, <1>4, GoodSame, IdlesOn
<1>6. PICK s \in {"waiting", "idle", "failed", "interrupted", "queued"} : s = "interrupted"
  OBVIOUS
<1>7. PICK w : w = Put(p, a, "interrupted")
  OBVIOUS
<1>8. Good(w, NoOne) /\ Idles(w, a)
  BY <1>5, <1>6, <1>7, PutGood
<1>9. PICK u : u = Unblock(w, a)
  OBVIOUS
<1>10. Good(u, NoOne) /\ u.state = w.state
  BY <1>8, <1>9, UnblockGood
<1>11. Known(u, a)
  BY <1>8, <1>10 DEF Known, Idles
<1>12. PICK h : h = HandUpFailure(u, a)
  OBVIOUS
<1>13. Good(h, NoOne)
  BY <1>10, <1>11, <1>12, HandUpFailureGood
<1>14. u = [p EXCEPT !.state[a] = "interrupted", !.blocking[a] = FALSE]
  BY <1>7, <1>9 DEF Put, Unblock
<1>15. ResumeFailed(t, a) = Pump(h)
  BY <1>1, <1>3, <1>12, <1>14 DEF ResumeFailed
<1> QED
  BY <1>13, <1>15, PumpIsGood

\* Only who rests changes.
LEMMA RestingGood ==
  ASSUME NEW t, Good(t, NoOne), NEW R \in SUBSET Agents, NEW u, u = [t EXCEPT !.resting = R],
         Rests(u, NoOne)
  PROVE  /\ u \in Teams /\ Sound(u, NoOne) /\ (Counted(u) \subseteq Counted(t) => Good(u, NoOne))
         /\ u.state = t.state /\ u.wait = t.wait /\ u.question = t.question
         /\ u.opening = t.opening /\ u.overlap = t.overlap /\ u.stop = t.stop /\ u.resting = R
<1>0. t \in Teams /\ Sound(t, NoOne) /\ Few(t)
  BY DEF Good
<1>1. u \in Teams
  BY <1>0 DEF Teams
<1>2. /\ u.parent = t.parent /\ u.blocking = t.blocking /\ u.wait = t.wait
         /\ u.question = t.question
      /\ u.overlap = t.overlap /\ u.state = t.state /\ u.going = t.going /\ u.line = t.line
      /\ u.opening = t.opening /\ u.stop = t.stop /\ u.resting = R
  BY <1>0 DEF Teams
<1>3. InLine(u) /\ Waits(u) /\ Asks(u) /\ Opens(u) /\ Parents(u)
  BY <1>0, <1>2 DEF Sound, InLine, Waits, Asks, Opens, Parents, Known
<1>4. Blocks(u) /\ WaitKnown(u)
  BY <1>0, <1>2 DEF Sound, Blocks, WaitKnown, Leaves, Ending, Known
<1>5. Detached(u, NoOne) /\ Overlaps(u)
  BY <1>0, <1>2 DEF Sound, Detached, Overlaps, Aborting, Ending
<1>6. Sound(u, NoOne)
  BY <1>3, <1>4, <1>5 DEF Sound
<1>7. ASSUME Counted(u) \subseteq Counted(t) PROVE Few(u)
  BY <1>0, <1>1, <1>7, FewMore
<1> QED
  BY <1>1, <1>2, <1>6, <1>7 DEF Good

\* The records of a new agent.
Joins(t, a, by, after, blocking) ==
    [t EXCEPT !.state[a] = "queued", !.parent[a] = by, !.after[a] = after, !.blocking[a] = blocking]

\* by waits in a wait: true call for a.
WaitFor(t, by, a) == [t EXCEPT !.wait[by] = a]

\* What a new agent leaves alone.
LEMMA JoinsLeaves ==
  ASSUME NEW t \in Teams, NEW a \in Agents, NEW by \in Actors, NEW after \in SUBSET Agents,
         NEW blocking \in BOOLEAN, NEW u, u = Joins(t, a, by, after, blocking)
  PROVE  /\ u \in Teams /\ u.stop = t.stop /\ u.wait = t.wait /\ u.question = t.question
         /\ u.resting = t.resting /\ u.overlap = t.overlap /\ u.going = t.going /\ u.line = t.line
         /\ u.opening = t.opening
         /\ u.state[a] = "queued" /\ u.parent[a] = by /\ u.blocking[a] = blocking
         /\ \A b \in Agents : b # a => /\ u.state[b] = t.state[b] /\ u.parent[b] = t.parent[b]
                                       /\ u.blocking[b] = t.blocking[b]
<1>1. PICK s : s = [t.state EXCEPT ![a] = "queued"]
  OBVIOUS
<1>2. PICK p : p = [t.parent EXCEPT ![a] = by]
  OBVIOUS
<1>3. PICK f : f = [t.after EXCEPT ![a] = after]
  OBVIOUS
<1>4. PICK b : b = [t.blocking EXCEPT ![a] = blocking]
  OBVIOUS
<1>5. s \in [Agents -> States] /\ s[a] = "queued" /\ \A c \in Agents : c # a => s[c] = t.state[c]
  BY <1>1 DEF Teams, States, LiveStates
<1>6. p \in [Agents -> Actors \cup {NoOne}] /\ p[a] = by
      /\ \A c \in Agents : c # a => p[c] = t.parent[c]
  BY <1>2 DEF Teams
<1>7. f \in [Agents -> SUBSET Agents]
  BY <1>3 DEF Teams
<1>8. b \in [Agents -> BOOLEAN] /\ b[a] = blocking
      /\ \A c \in Agents : c # a => b[c] = t.blocking[c]
  BY <1>4 DEF Teams
<1>9. u = [t EXCEPT !.state = s, !.parent = p, !.after = f, !.blocking = b]
  BY <1>1, <1>2, <1>3, <1>4 DEF Joins, Teams
<1>10. u \in Teams
  <2>1. PICK v : v = [t EXCEPT !.state = s, !.parent = p]
    OBVIOUS
  <2>2. v \in Teams
    BY <1>5, <1>6, <2>1 DEF Teams
  <2>3. PICK w : w = [v EXCEPT !.after = f]
    OBVIOUS
  <2>4. u = [w EXCEPT !.blocking = b]
    BY <1>9, <2>1, <2>3
  <2>5. w \in Teams
    BY <1>7, <2>2, <2>3 DEF Teams
  <2>6. b \in [Agents -> BOOLEAN]
    BY <1>8
  <2> QED
    BY ZenonT(40), <2>4, <2>5, <2>6 DEF Teams
<1>11. /\ u.state = s /\ u.parent = p /\ u.blocking = b
       /\ u.stop = t.stop /\ u.wait = t.wait /\ u.question = t.question
       /\ u.resting = t.resting /\ u.overlap = t.overlap /\ u.going = t.going /\ u.line = t.line
       /\ u.opening = t.opening
  BY <1>9 DEF Teams
<1> QED
  BY <1>5, <1>6, <1>8, <1>10, <1>11

\* The waits of the others are unchanged.
OthersWait(t, u, a) == \A b \in Agents : b # a => u.wait[b] = t.wait[b]

\* What the call leaves alone.
LEMMA WaitForLeaves ==
  ASSUME NEW t \in Teams, NEW a \in Agents, NEW by \in Agents, NEW u, u = WaitFor(t, by, a)
  PROVE  /\ u \in Teams /\ u.stop = t.stop /\ u.question = t.question
         /\ u.resting = t.resting /\ u.overlap = t.overlap /\ u.going = t.going /\ u.line = t.line
         /\ u.opening = t.opening /\ u.state = t.state /\ u.parent = t.parent
            /\ u.blocking = t.blocking
         /\ u.wait[by] = a /\ OthersWait(t, u, by)
<1>1. PICK w : w = [t.wait EXCEPT ![by] = a]
  OBVIOUS
<1>2. w \in [Agents -> Agents \cup {NoOne}] /\ w[by] = a
      /\ \A b \in Agents : b # by => w[b] = t.wait[b]
  BY <1>1 DEF Teams
<1>3. u = [t EXCEPT !.wait = w]
  BY <1>1 DEF WaitFor, Teams
<1>4. u \in Teams
  BY ZenonT(40), <1>2, <1>3 DEF Teams
<1>5. /\ u.stop = t.stop /\ u.question = t.question
      /\ u.resting = t.resting /\ u.overlap = t.overlap /\ u.going = t.going /\ u.line = t.line
      /\ u.opening = t.opening /\ u.state = t.state /\ u.parent = t.parent
         /\ u.blocking = t.blocking
      /\ u.wait = w
  BY <1>3 DEF Teams
<1> QED
  BY <1>2, <1>4, <1>5 DEF OthersWait

\* A spawn keeps the invariant: who waits for its subagent gives its slot up.
LEMMA SpawnGood ==
  ASSUME NEW t, Good(t, NoOne), NEW a \in Agents, ~Known(t, a), NEW by \in Actors,
         NEW after \in SUBSET Agents, NEW blocking \in BOOLEAN,
         blocking => by \in Agents /\ FreeToAsk(t, by),
         NEW put, put = Joins(t, a, by, after, blocking),
         NEW u, u = IF blocking THEN WaitFor(put, by, a) ELSE put
  PROVE  Good(u, NoOne)
<1>0. t \in Teams /\ Sound(t, NoOne) /\ Few(t) /\ t.state[a] = "none"
  BY DEF Good, Known
<1>1. /\ put \in Teams /\ put.stop = t.stop /\ put.wait = t.wait /\ put.question = t.question
      /\ put.resting = t.resting /\ put.overlap = t.overlap /\ put.going = t.going
         /\ put.line = t.line
      /\ put.opening = t.opening
      /\ put.state[a] = "queued" /\ put.parent[a] = by /\ put.blocking[a] = blocking
      /\ \A b \in Agents : b # a => /\ put.state[b] = t.state[b] /\ put.parent[b] = t.parent[b]
                                    /\ put.blocking[b] = t.blocking[b]
  BY <1>0, JoinsLeaves
<1>2. /\ u \in Teams /\ u.stop = t.stop /\ u.question = t.question
      /\ u.resting = t.resting /\ u.overlap = t.overlap /\ u.going = t.going /\ u.line = t.line
      /\ u.opening = t.opening
      /\ u.state[a] = "queued" /\ u.parent[a] = by /\ u.blocking[a] = blocking
      /\ \A b \in Agents : b # a => /\ u.state[b] = t.state[b] /\ u.parent[b] = t.parent[b]
                                    /\ u.blocking[b] = t.blocking[b]
      /\ \A b \in Agents : u.wait[b] = t.wait[b] \/ (blocking /\ b = by /\ u.wait[b] = a)
      /\ blocking => u.wait[by] = a
  <2>1. CASE blocking
    <3>1. PICK who \in Agents : who = by
      BY <2>1
    <3>2. PICK v : v = WaitFor(put, who, a)
      OBVIOUS
    <3>3. put \in Teams
      BY <1>1
    <3>4. /\ v \in Teams /\ v.stop = put.stop /\ v.question = put.question
          /\ v.resting = put.resting /\ v.overlap = put.overlap /\ v.going = put.going
             /\ v.line = put.line
          /\ v.opening = put.opening /\ v.state = put.state /\ v.parent = put.parent
          /\ v.blocking = put.blocking
          /\ v.wait[who] = a /\ OthersWait(put, v, who)
      BY <3>1, <3>2, <3>3, WaitForLeaves
    <3>5. u = v
      BY <2>1, <3>1, <3>2
    <3>6. \A b \in Agents : u.wait[b] = t.wait[b] \/ (blocking /\ b = by /\ u.wait[b] = a)
      <4> SUFFICES ASSUME NEW b \in Agents
                   PROVE  u.wait[b] = t.wait[b] \/ (blocking /\ b = by /\ u.wait[b] = a)
        OBVIOUS
      <4>1. CASE b = who
        BY <2>1, <3>1, <3>4, <3>5, <4>1
      <4>2. CASE b # who
        <5>1. put.wait = t.wait
          BY <1>1
        <5> QED
          BY <3>4, <3>5, <4>2, <5>1 DEF OthersWait
      <4> QED
        BY <4>1, <4>2
    <3>7. u.wait[by] = a
      BY <3>1, <3>4, <3>5
    <3>8. /\ u \in Teams /\ u.stop = t.stop /\ u.question = t.question
          /\ u.resting = t.resting /\ u.overlap = t.overlap /\ u.going = t.going /\ u.line = t.line
          /\ u.opening = t.opening
      BY <1>1, <3>4, <3>5
    <3>9. /\ u.state[a] = "queued" /\ u.parent[a] = by /\ u.blocking[a] = blocking
          /\ \A b \in Agents : b # a => /\ u.state[b] = t.state[b] /\ u.parent[b] = t.parent[b]
                                        /\ u.blocking[b] = t.blocking[b]
      BY <1>1, <3>4, <3>5
    <3> QED
      BY <3>6, <3>7, <3>8, <3>9
  <2>2. CASE ~blocking
    BY <1>1, <2>2
  <2> QED
    BY <2>1, <2>2
<1>3. blocking => by # a /\ by \in Agents /\ t.wait[by] = NoOne
  BY <1>0 DEF FreeToAsk
<1>4. \A b \in Agents : /\ Ending(u, b) <=> Ending(t, b)
                        /\ Aborting(u, b) <=> Aborting(t, b)
                        /\ \A c \in Agents : Leaves(u, b, c) <=> Leaves(t, b, c)
  BY <1>2 DEF Ending, Aborting, Leaves
<1>5. InLine(u)
  BY <1>0, <1>2 DEF Sound, InLine
<1>6. \A b \in Agents : t.wait[b] # a /\ ~Leaves(t, b, a)
  BY <1>0 DEF Sound, WaitKnown, Known
<1>7. Blocks(u)
  <2> SUFFICES ASSUME NEW c \in Agents, u.blocking[c]
               PROVE  u.parent[c] \in Agents
                      /\ (u.wait[u.parent[c]] = c \/ Leaves(u, u.parent[c], c))
    BY DEF Blocks
  <2>1. CASE c = a
    BY <1>2, <1>3, <2>1
  <2>2. CASE c # a
    <3>1. u.parent[c] = t.parent[c] /\ t.parent[c] \in Agents
          /\ (t.wait[t.parent[c]] = c \/ Leaves(t, t.parent[c], c))
      BY <1>0, <1>2, <2>2 DEF Sound, Blocks
    <3>2. c # NoOne
      BY NumbersOf
    <3>3. t.wait[t.parent[c]] = c => u.wait[t.parent[c]] = c
      BY <1>2, <1>3, <3>1, <3>2
    <3> QED
      BY <1>4, <3>1, <3>3
  <2> QED
    BY <2>1, <2>2
<1>8. Detached(u, NoOne)
  <2> SUFFICES ASSUME NEW b \in Agents, b # NoOne, Aborting(u, b), u.stop[b][1].wait # NoOne,
                      u.blocking[u.stop[b][1].wait]
               PROVE  FALSE
    BY DEF Detached
  <2>1. Aborting(t, b) /\ Ending(t, b) /\ u.stop[b][1].wait = t.stop[b][1].wait
    BY <1>2, <1>4 DEF Aborting
  <2>2. t.stop[b][1].wait \in Agents
    BY <1>0, <1>2, <2>1, FramesOf DEF Frames
  <2>3. t.stop[b][1].wait # a
    BY <1>6, <2>1 DEF Leaves
  <2> QED
    BY <1>0, <1>2, <2>1, <2>2, <2>3 DEF Sound, Detached
<1>9. Overlaps(u)
  BY <1>0, <1>2, <1>4 DEF Sound, Overlaps
<1>10. WaitKnown(u)
  <2> SUFFICES ASSUME NEW b \in Agents, NEW c \in Agents, u.wait[b] = c \/ Leaves(u, b, c), c # a
               PROVE  Known(u, c)
    BY <1>2 DEF WaitKnown, Known
  <2>1. t.wait[b] = c \/ Leaves(t, b, c)
    BY <1>2, <1>4
  <2> QED
    BY <1>0, <1>2, <2>1 DEF Sound, WaitKnown, Known
<1>11. Waits(u)
  <2> SUFFICES ASSUME NEW b \in Agents, u.wait[b] # NoOne
               PROVE  u.state[b] \in {"running", "asking"} /\ u.question[b] = NoOne
    BY DEF Waits
  <2>1. CASE blocking /\ b = by
    BY <1>2, <1>3, <2>1 DEF FreeToAsk
  <2>2. CASE ~(blocking /\ b = by)
    <3>1. t.wait[b] # NoOne
      BY <1>2, <2>2
    <3>2. t.state[b] \in {"running", "asking"} /\ t.question[b] = NoOne
      BY <1>0, <3>1 DEF Sound, Waits
    <3> QED
      BY <1>0, <1>2, <3>2
  <2> QED
    BY <2>1, <2>2
<1>12. Asks(u)
  BY <1>0, <1>2 DEF Sound, Asks
<1>13. Opens(u)
  <2> SUFFICES ASSUME NEW b \in u.opening PROVE u.state[b] = "starting"
    BY DEF Opens
  <2>1. b \in Agents /\ t.state[b] = "starting"
    BY <1>0, <1>2 DEF Sound, Opens, Teams
  <2> QED
    BY <1>0, <1>2, <2>1
<1>14. Rests(u, NoOne)
  <2> SUFFICES ASSUME NEW b \in u.resting
               PROVE  u.wait[b] = NoOne /\ (u.state[b] = "running" \/ (Ending(u, b)
                      /\ (b = NoOne \/ ~Aborting(u, b))))
    BY DEF Rests
  <2>1. b \in Agents /\ b \in t.resting
    BY <1>0, <1>2 DEF Teams
  <2>2. t.wait[b] = NoOne /\ (t.state[b] = "running" \/ (Ending(t, b)
        /\ (b = NoOne \/ ~Aborting(t, b))))
    BY <1>0, <2>1 DEF Sound, Rests
  <2>3. ~(blocking /\ b = by)
    BY <2>1 DEF FreeToAsk
  <2>4. u.wait[b] = NoOne
    BY <1>2, <2>1, <2>2, <2>3
  <2> QED
    BY <1>0, <1>2, <1>4, <2>1, <2>2, <2>4
<1>15. Parents(u)
  BY <1>0, <1>2 DEF Sound, Parents, Known
<1>16. Counted(u) \subseteq Counted(t)
  <2> SUFFICES ASSUME NEW b \in Counted(u) PROVE b \in Counted(t)
    OBVIOUS
  <2>1. b \in Agents /\ u.state[b] \in ActiveStates /\ u.wait[b] = NoOne /\ b \notin u.resting
        /\ b \notin u.overlap
    BY DEF Counted
  <2>2. b # a /\ a # NoOne
    BY <1>2, <2>1, NumbersOf DEF ActiveStates
  <2> QED
    BY <1>2, <2>1, <2>2 DEF Counted
<1>17. Few(u)
  BY <1>0, <1>2, <1>16, FewMore
<1>18. Sound(u, NoOne)
  BY <1>5, <1>7, <1>8, <1>9, <1>10, <1>11, <1>12, <1>13, <1>14, <1>15 DEF Sound
<1> QED
  BY <1>2, <1>17, <1>18 DEF Good

------------------------------------------------------------------------------
(* The handlers *)

\* What every handler does last keeps the invariant.
LEMMA BecomesGood ==
  ASSUME NEW t, Good(t, NoOne)
  PROVE  Good(Returned(t), NoOne) /\ Good(Returned(Settled(t)), NoOne)
BY SettledGood, ReturnedGood

\* Who may call a tool waits for nothing.
LEMMA ActingIdles ==
  ASSUME NEW t, Good(t, NoOne), NEW a \in Agents, Acting(t, a)
  PROVE  /\ FreeToAsk(t, a) /\ ~Ending(t, a) => Idles(t, a)
         /\ a \notin t.opening /\ FreeToAsk(t, a) /\ Known(t, a)
<1>1. t.state[a] \in {"running", "asking"} /\ t.wait[a] = NoOne /\ a \notin t.resting
      /\ t.question[a] = NoOne
  BY DEF Acting, Prompted
<1>2. a \notin t.opening /\ Known(t, a)
  BY <1>1 DEF Good, Sound, Opens, Known
<1> QED
  BY <1>1, <1>2 DEF FreeToAsk, Idles

\* A message that is sent.
LEMMA MessageGood ==
  ASSUME Good(team, NoOne), NEW from \in Actors, NEW to \in Actors, Message(from, to)
  PROVE  Good(team', NoOne)
<1>1. PICK ask \in BOOLEAN : Becomes(Send(team, from, to, ask))
  BY DEF Message
<1>2. from # to /\ (from = Main => to \in Agents) /\ (from = Main \/ Acting(team, from))
  BY DEF Message, Calls
<1>3. from \in Agents => FreeToAsk(team, from)
  BY <1>2, ActingIdles, NumbersOf
<1>4. PICK u : u = Send(team, from, to, ask)
  OBVIOUS
<1>5. Good(u, NoOne)
  BY <1>2, <1>3, <1>4, SendGood
<1> QED
  BY <1>1, <1>4, <1>5, BecomesGood DEF Becomes

\* spawn keeps the invariant.
LEMMA SpawnsGood ==
  ASSUME Good(team, NoOne), NEW by \in Actors, Spawn(by)
  PROVE  Good(team', NoOne)
<1>1. PICK new : new = {c \in Agents : ~Known(team, c)}
  OBVIOUS
<1>2. PICK a : a = CHOOSE c \in new : \A y \in new : c <= y
  OBVIOUS
<1>3. new # {}
  BY <1>1 DEF Spawn
<1>4. a \in Agents /\ ~Known(team, a)
  <2>1. new \in SUBSET Nat
    BY <1>1, NumbersOf
  <2>2. \E c \in new : \A y \in new : c <= y
    BY <1>3, <2>1, LeastOf
  <2>3. a \in new
    BY <1>2, <2>2
  <2> QED
    BY <1>1, <2>3
<1>5. PICK after \in SUBSET Agents, blocking \in BOOLEAN :
        /\ blocking => MayBlock /\ by # Main
        /\ LET put == Joins(team, a, by, after, blocking)
               called == IF blocking THEN WaitFor(put, by, a) ELSE put
           IN  Becomes(Pump(Enqueue(called, a, blocking)))
  BY Zenon, <1>1, <1>2 DEF Spawn, Joins, WaitFor
<1>6. blocking => by \in Agents /\ FreeToAsk(team, by)
  <2> SUFFICES ASSUME blocking PROVE by \in Agents /\ FreeToAsk(team, by)
    OBVIOUS
  <2>1. by # Main /\ by \in Agents
    BY <1>5 DEF Actors
  <2>2. Acting(team, by)
    BY <2>1 DEF Spawn, Calls
  <2> QED
    BY <2>1, <2>2, ActingIdles
<1>7. PICK put : put = Joins(team, a, by, after, blocking)
  OBVIOUS
<1>8. PICK called : called = IF blocking THEN WaitFor(put, by, a) ELSE put
  OBVIOUS
<1>9. Good(called, NoOne)
  BY <1>4, <1>6, <1>7, <1>8, SpawnGood
<1>10. PICK u : u = Pump(Enqueue(called, a, blocking))
  OBVIOUS
<1>11. Good(u, NoOne)
  BY <1>4, <1>9, <1>10, EnqueuedGood
<1>12. team' = Returned(u)
  BY <1>5, <1>7, <1>8, <1>10 DEF Becomes
<1> QED
  BY <1>11, <1>12, BecomesGood

\* Its session has read its mail.
ReadAll(t, a) == [t EXCEPT !.unread[a] = {}]

\* Its next prompt has its mail.
ReadMore(t, a) == [t EXCEPT !.unread[a] = {}, !.inbox[a] = {}]

\* Its session goes.
SessionGone(t, a) == [t EXCEPT !.held[a] = FALSE]

\* by waits in a stop_subagent call for the stop of a.
CallsStop(t, by, a) == [t EXCEPT !.call[by] = a]

\* None of these is what the slots are about.
LEMMA ReadSame ==
  ASSUME NEW t \in Teams, NEW a \in Agents, NEW b \in Agents
  PROVE  /\ ReadAll(t, a) \in Teams /\ Same(t, ReadAll(t, a))
         /\ ReadMore(t, a) \in Teams /\ Same(t, ReadMore(t, a))
         /\ SessionGone(t, a) \in Teams /\ Same(t, SessionGone(t, a))
         /\ CallsStop(t, b, a) \in Teams /\ Same(t, CallsStop(t, b, a))
<1>1. ReadAll(t, a) \in Teams /\ Same(t, ReadAll(t, a))
  BY DEF ReadAll, Teams, Same, Stays, Keeps, SameFrames, Ending
<1>2. ReadMore(t, a) \in Teams /\ Same(t, ReadMore(t, a))
  BY DEF ReadMore, Teams, Same, Stays, Keeps, SameFrames, Ending
<1>3. SessionGone(t, a) \in Teams /\ Same(t, SessionGone(t, a))
  BY DEF SessionGone, Teams, Same, Stays, Keeps, SameFrames, Ending
<1>4. CallsStop(t, b, a) \in Teams /\ Same(t, CallsStop(t, b, a))
  BY DEF CallsStop, Teams, Same, Stays, Keeps, SameFrames, Ending
<1> QED
  BY <1>1, <1>2, <1>3, <1>4

\* Prompts, whether they end, fail or go on, keep the invariant.
LEMMA PromptsGood ==
  ASSUME Good(team, NoOne), NEW a \in Agents,
         SessionReads(a) \/ PromptEnds(a) \/ PromptFails(a) \/ IdleRelease(a)
  PROVE  Good(team', NoOne)
<1>0. team \in Teams
  BY DEF Good
<1>1. CASE SessionReads(a)
  <2>1. team' = ReadAll(team, a)
    BY <1>1 DEF SessionReads, ReadAll
  <2> QED
    BY <1>0, <2>1, ReadSame, GoodSame
<1>2. CASE IdleRelease(a)
  <2>1. team' = SessionGone(team, a)
    BY <1>2 DEF IdleRelease, SessionGone
  <2> QED
    BY <1>0, <2>1, ReadSame, GoodSame
<1>3. CASE PromptEnds(a)
  <2>1. CASE team' = ReadMore(team, a)
    BY <1>0, <2>1, ReadSame, GoodSame
  <2>2. CASE Becomes(Settle(team, a))
    <3>1. Idles(team, a)
      BY <1>3, ActingIdles DEF PromptEnds
    <3>2. Good(Settle(team, a), NoOne)
      BY <3>1, SettleGood
    <3> QED
      BY <2>2, <3>2, BecomesGood DEF Becomes
  <2> QED
    BY <1>3, <2>1, <2>2 DEF PromptEnds, ReadMore
<1>4. CASE PromptFails(a)
  <2>1. Idles(team, a)
    BY <1>4, ActingIdles DEF PromptFails
  <2>2. Good(FallBack(team, a), NoOne) /\ Good(FailRun(team, a), NoOne)
    BY <2>1, FallBackGood, FailRunGood
  <2>3. Becomes(FallBack(team, a)) \/ Becomes(Settled(FailRun(team, a)))
    BY <1>4 DEF PromptFails
  <2> QED
    BY <2>2, <2>3, BecomesGood DEF Becomes
<1> QED
  BY <1>1, <1>2, <1>3, <1>4

\* The records of a launch that is done, before run.
Launched(t, a) ==
    [t EXCEPT !.opening = @ \ {a}, !.held[a] = TRUE, !.inbox[a] = {}, !.resume[a] = {}]

\* It runs in the slot that it had while it started.
LEMMA LaunchGood ==
  ASSUME NEW t, Good(t, NoOne), NEW a \in t.opening
  PROVE  Good(Run(Launched(t, a), a), NoOne)
<1>0. t \in Teams /\ Sound(t, NoOne) /\ a \in Agents
  BY DEF Good, Teams
<1>1. PICK v : v = Launched(t, a)
  OBVIOUS
<1>2. v \in Teams /\ Same(t, v) /\ v.held[a] /\ a \notin v.opening
  <2>1. v \in Teams
    BY <1>0, <1>1 DEF Launched, Teams
  <2>2. Same(t, v)
    BY <1>0, <1>1 DEF Launched, Teams, Same, Stays, Keeps, SameFrames, Ending
  <2>3. v.held = [t.held EXCEPT ![a] = TRUE] /\ v.opening = t.opening \ {a}
    BY <1>0, <1>1 DEF Launched, Teams
  <2>4. v.held[a] /\ a \notin v.opening
    BY <1>0, <2>3 DEF Teams
  <2> QED
    BY <2>1, <2>2, <2>4
<1>3. Good(v, NoOne)
  BY <1>2, GoodSame
<1>4. v.state[a] = "starting"
  BY <1>0, <1>2 DEF Sound, Opens, Same, Stays
<1>5. PICK u : u = Run(v, a)
  OBVIOUS
<1>6. u \in Teams
  BY <1>0, <1>2, <1>5, RunTyped
<1>7. /\ u.state = [v.state EXCEPT ![a] = "running"]
      /\ Keeps(v, u) /\ u.line = v.line /\ u.going = v.going /\ u.opening = v.opening
      /\ u.overlap = v.overlap
  BY <1>0, <1>2, <1>5, RunLeaves
<1>8. Sound(v, NoOne)
  BY <1>3 DEF Good
<1>9. InLine(u)
  BY <1>7, <1>8 DEF Sound, InLine
<1>10. /\ Known(v, a) /\ v.wait[a] = NoOne /\ v.question[a] = NoOne
       /\ Ending(v, a) => a \in v.overlap
  BY <1>0, <1>4, <1>8 DEF Known, Sound, Waits, Asks, Overlaps
<1>11. Moves(v, u, a, "running")
  BY <1>2, <1>7, <1>9, <1>10 DEF Moves
<1>12. Sound(u, NoOne)
  <2>1. PICK s : s = "running"
    OBVIOUS
  <2> QED
    BY <1>0, <1>2, <1>6, <1>8, <1>11, <2>1, MoveSound
<1>13. Counted(u) \subseteq Counted(v)
  <2> SUFFICES ASSUME NEW b \in Counted(u) PROVE b \in Counted(v)
    OBVIOUS
  <2>1. b \in Agents /\ u.state[b] \in ActiveStates /\ u.wait[b] = NoOne /\ b \notin u.resting
        /\ b \notin u.overlap
    BY DEF Counted
  <2>2. v.wait[b] = NoOne /\ b \notin v.resting /\ b \notin v.overlap
    BY <1>7, <2>1 DEF Keeps
  <2>3. v.state[b] \in ActiveStates
    BY <1>2, <1>4, <1>7, <2>1 DEF ActiveStates, Teams
  <2> QED
    BY <2>1, <2>2, <2>3 DEF Counted
<1>14. Few(u)
  BY <1>2, <1>3, <1>6, <1>13, FewMore DEF Good
<1> QED
  BY <1>1, <1>5, <1>6, <1>12, <1>14 DEF Good

\* Launches keep the invariant, done or failed.
LEMMA LaunchesGood ==
  ASSUME Good(team, NoOne), NEW a \in Agents, LaunchDone(a) \/ LaunchFails(a)
  PROVE  Good(team', NoOne)
<1>0. team \in Teams /\ Sound(team, NoOne)
  BY DEF Good
<1>1. CASE LaunchDone(a)
  <2>1. a \in team.opening /\ team' = Returned(Run(Launched(team, a), a))
    BY <1>1 DEF LaunchDone, Becomes, Launched
  <2>2. PICK u : u = Run(Launched(team, a), a)
    OBVIOUS
  <2>3. Good(u, NoOne)
    BY <2>1, <2>2, LaunchGood
  <2> QED
    BY <2>1, <2>2, <2>3, BecomesGood
<1>2. CASE LaunchFails(a)
  <2>1. PICK v : v = Closed(team, a)
    OBVIOUS
  <2>2. v \in Teams /\ Same(team, v)
    BY <1>0, <2>1, LeftSame
  <2>3. a \in team.opening /\ ~Ending(team, a)
    BY <1>2 DEF LaunchFails
  <2>4. team.state[a] = "starting"
    BY <1>0, <2>3 DEF Sound, Opens
  <2>5. /\ team.wait[a] = NoOne /\ team.question[a] = NoOne /\ a \notin team.resting
    BY <1>0, <2>3, <2>4 DEF Sound, Waits, Asks, Rests
  <2>6. a \notin v.opening
    BY <1>0, <2>1 DEF Closed, Teams
  <2>7. Good(v, NoOne) /\ Idles(v, a)
    <3>1. Good(v, NoOne)
      BY <2>2, GoodSame
    <3>2. Idles(v, a)
      BY <2>2, <2>3, <2>4, <2>5, <2>6 DEF Idles, Same, Stays, Keeps, SameFrames, Known
    <3> QED
      BY <3>1, <3>2
  <2>8. \/ Becomes(FallBack(v, a)) \/ Becomes(Settled(FailRun(v, a)))
        \/ Becomes(ResumeFailed(v, a)) \/ Becomes(Settled(Fail(v, a)))
    BY <1>2, <2>1 DEF LaunchFails, Closed
  <2>9. /\ Good(FallBack(v, a), NoOne) /\ Good(FailRun(v, a), NoOne)
        /\ Good(ResumeFailed(v, a), NoOne) /\ Good(Fail(v, a), NoOne)
    BY <2>7, FallBackGood, FailRunGood, ResumeFailedGood, FailGood
  <2> QED
    BY <2>8, <2>9, BecomesGood DEF Becomes
<1> QED
  BY <1>1, <1>2

\* A stop by a tool or the user keeps it.
LEMMA StopsGood ==
  ASSUME Good(team, NoOne), NEW a \in Agents,
         NEW by \in Actors \cup {NoOne}, StopAgent(by, a)
  PROVE  Good(team', NoOne)
<1>1. PICK s : s = Settled(Stop(team, a, by))
  OBVIOUS
<1>2. Good(s, NoOne)
  BY <1>1, StopGood, SettledGood
<1>3. PICK c : c = CallWaits(s, by, a)
  OBVIOUS
<1>4. Good(c, NoOne)
  <2>1. CASE by \in Agents /\ Ending(s, a)
    <3>1. c = CallsStop(s, by, a)
      BY <1>3, <2>1 DEF CallWaits, CallsStop
    <3>2. c \in Teams /\ Same(s, c)
      BY <1>2, <2>1, <3>1, ReadSame DEF Good
    <3> QED
      BY <1>2, <3>2, GoodSame
  <2>2. CASE ~(by \in Agents /\ Ending(s, a))
    BY <1>2, <1>3, <2>2 DEF CallWaits
  <2> QED
    BY <2>1, <2>2
<1>5. team' = Returned(c)
  BY <1>1, <1>3 DEF StopAgent, Becomes
<1> QED
  BY <1>4, <1>5, BecomesGood

\* Aborts that settle and questions that end keep it.
LEMMA EndsGood ==
  ASSUME Good(team, NoOne), NEW a \in Agents, Aborted(a) \/ QuestionEnds(a)
  PROVE  Good(team', NoOne)
<1>1. CASE Aborted(a)
  <2>1. Good(EndStop(team, a), NoOne)
    BY <1>1, EndStopGood DEF Aborted
  <2> QED
    BY <1>1, <2>1, BecomesGood DEF Aborted, Becomes
<1>2. CASE QuestionEnds(a)
  <2>1. PICK u : u = EndQuestion(team, a)
    OBVIOUS
  <2>2. Good(u, NoOne)
    BY <1>2, <2>1, EndQuestionGood DEF QuestionEnds
  <2> QED
    BY <1>2, <2>1, <2>2, BecomesGood DEF QuestionEnds, Becomes
<1> QED
  BY <1>1, <1>2

\* Who sleeps lends its slot out.
LEMMA LendsGood ==
  ASSUME NEW t, Good(t, NoOne), NEW a \in Agents, t.state[a] = "running", t.wait[a] = NoOne,
         NEW u, u = [t EXCEPT !.resting = @ \cup {a}]
  PROVE  Good(u, NoOne)
<1>0. t \in Teams /\ Sound(t, NoOne)
  BY DEF Good
<1>1. PICK R : R = t.resting \cup {a}
  OBVIOUS
<1>2. R \in SUBSET Agents
  BY <1>0, <1>1 DEF Teams
<1>3. u = [t EXCEPT !.resting = R]
  BY <1>1
<1>4. u.state = t.state /\ u.wait = t.wait /\ u.resting = R /\ u.stop = t.stop
      /\ u.overlap = t.overlap
  BY <1>0, <1>3 DEF Teams
<1>5. Rests(u, NoOne)
  <2> SUFFICES ASSUME NEW b \in R
               PROVE  u.wait[b] = NoOne /\ (u.state[b] = "running" \/ (Ending(u, b)
                      /\ (b = NoOne \/ ~Aborting(u, b))))
    BY <1>4 DEF Rests
  <2>1. CASE b = a
    BY <1>4, <2>1
  <2>2. CASE b # a
    BY <1>0, <1>1, <1>4, <2>2 DEF Sound, Rests, Aborting, Ending
  <2> QED
    BY <2>1, <2>2
<1>6. Counted(u) \subseteq Counted(t)
  BY <1>1, <1>4 DEF Counted
<1> QED
  BY <1>2, <1>3, <1>5, <1>6, RestingGood

\* A sleep keeps the invariant.
LEMMA RestBeginsGood ==
  ASSUME Good(team, NoOne), NEW a \in Agents, RestBegins(a)
  PROVE  Good(team', NoOne)
<1>1. PICK u : u = [team EXCEPT !.resting = @ \cup {a}]
  OBVIOUS
<1>2. Good(u, NoOne)
  BY <1>1, LendsGood DEF RestBegins, Acting
<1>3. Good(Pump(u), NoOne)
  BY <1>2, PumpIsGood
<1>4. team' = Returned(Pump(u))
  BY <1>1 DEF RestBegins, Becomes
<1> QED
  BY <1>3, <1>4, BecomesGood

\* Who wakes goes on only in a free slot.
LEMMA WakesGood ==
  ASSUME NEW t, Good(t, NoOne), NEW a \in Agents, a \in t.resting, NEW R \in SUBSET Agents,
         \A b \in Agents : b \in R <=> (b \in t.resting /\ b # a), NEW u, u = [t EXCEPT !.resting = R],
         NEW v, v = IF t.state[a] # "running" \/ Fits(u) THEN u ELSE GoOnWhenFree(u, a, "rest")
  PROVE  /\ Good(v, NoOne) /\ u \in Teams /\ Sound(u, NoOne)
         /\ v # u => /\ u.state[a] = "running" /\ Serves(u, v, a)
                     /\ v = GoOnWhenFree(u, a, "rest")
<1>0. t \in Teams /\ Sound(t, NoOne) /\ Few(t)
  BY DEF Good, Teams
<1>4. u.state = t.state /\ u.wait = t.wait /\ u.resting = R /\ u.stop = t.stop
      /\ u.overlap = t.overlap
  BY <1>0 DEF Teams
<1>5. Rests(u, NoOne)
  BY <1>0, <1>4 DEF Sound, Rests, Aborting, Ending
<1>6. /\ u \in Teams /\ Sound(u, NoOne) /\ (Counted(u) \subseteq Counted(t) => Good(u, NoOne))
      /\ u.question = t.question /\ u.opening = t.opening
  BY <1>5, RestingGood
<1>8. t.wait[a] = NoOne /\ (t.state[a] = "running" \/ Ending(t, a))
  BY <1>0 DEF Sound, Rests
<1>9. \A b \in Agents : b # a /\ b \in Counted(u) => b \in Counted(t)
  BY <1>4 DEF Counted
<1>10. CASE t.state[a] # "running"
  <2>1. a \notin Counted(u)
    <3>1. Ending(t, a)
      BY <1>8, <1>10
    <3>2. a \in t.overlap \/ t.state[a] \in {"stopped", "queued", "asking"}
      BY <1>0, <3>1 DEF Sound, Overlaps
    <3> QED
      BY <1>4, <3>2 DEF Counted, ActiveStates
  <2>2. Counted(u) \subseteq Counted(t)
    BY <1>9, <2>1 DEF Counted
  <2> QED
    BY <1>6, <1>10, <2>2
<1>11. CASE Fits(u)
  <2>1. Good(u, NoOne)
    BY <1>6, <1>11, CountedWork DEF Good
  <2> QED
    BY <1>6, <1>11, <2>1
<1>12. CASE t.state[a] = "running" /\ ~Fits(u)
  <2>1. PICK how \in {"on", "rest"} : how = "rest"
    OBVIOUS
  <2>2. v = GoOnWhenFree(u, a, how)
    BY <1>12, <2>1
  <2>3. MayGo(u, a)
    <3>1. u.state[a] = "running" /\ u.wait[a] = NoOne /\ a \notin u.resting
      BY <1>4, <1>8, <1>12
    <3>2. u.question[a] = NoOne /\ a \notin u.opening /\ (Ending(u, a) => a \in u.overlap)
      <4>1. u.question[a] = NoOne
        BY <1>6, <3>1 DEF Sound, Asks
      <4>2. a \notin u.opening
        BY <1>6, <3>1 DEF Sound, Opens
      <4>3. Ending(u, a) => a \in u.overlap
        BY <1>6, <3>1 DEF Sound, Overlaps
      <4> QED
        BY <4>1, <4>2, <4>3
    <3> QED
      BY <3>1, <3>2 DEF MayGo, Known
  <2>4. v \in Teams /\ Sound(v, NoOne) /\ Serves(u, v, a) /\ (Few(v) \/ Counted(v) \subseteq Counted(u) \ {a})
    BY <1>6, <2>1, <2>2, <2>3, GoOnWhenFreeSound
  <2>5. Counted(u) \ {a} \subseteq Counted(t)
    BY <1>9 DEF Counted
  <2>6. Few(v)
    BY <1>0, <2>4, <2>5, FewMore
  <2>7. Good(v, NoOne)
    BY <2>4, <2>6 DEF Good
  <2> QED
    BY <1>4, <1>6, <1>12, <2>1, <2>2, <2>4, <2>7
<1> QED
  BY <1>10, <1>11, <1>12

\* The end of a sleep keeps the invariant.
LEMMA RestEndsGood ==
  ASSUME Good(team, NoOne), NEW a \in Agents, RestEnds(a)
  PROVE  Good(team', NoOne)
<1>0. PICK R : R = team.resting \ {a}
  OBVIOUS
<1>1. PICK u : u = [team EXCEPT !.resting = R]
  OBVIOUS
<1>2. PICK v : v = IF team.state[a] # "running" \/ Fits(u) THEN u ELSE GoOnWhenFree(u, a, "rest")
  OBVIOUS
<1>3. a \in team.resting /\ team' = Returned(v)
  BY <1>0, <1>1, <1>2 DEF RestEnds, Becomes
<1>4. R \in SUBSET Agents /\ \A b \in Agents : b \in R <=> (b \in team.resting /\ b # a)
  BY <1>0 DEF Good, Teams
<1>5. Good(v, NoOne)
  BY <1>1, <1>2, <1>3, <1>4, WakesGood
<1> QED
  BY <1>3, <1>5, BecomesGood

------------------------------------------------------------------------------
(* The team *)

\* Nobody works at first.
LEMMA StartsGood == Init => Good(team, NoOne)
<1> SUFFICES ASSUME Init PROVE Good(team, NoOne)
  OBVIOUS
<1>0. NoOne \notin Agents
  BY NumbersOf
<1>1. team = NoAgents
  BY DEF Init
<1>2. team \in Teams
  <2>1. <<>> \in Stops /\ <<>> \in Seq(Agents)
    BY DEF Stops
  <2>2. "none" \in States /\ "no" \in {"no", "on", "run", "rest"}
    BY DEF States
  <2> QED
    BY <1>1, <2>1, <2>2 DEF NoAgents, Teams, Actors
<1>3. /\ team.state = [a \in Agents |-> "none"] /\ team.blocking = [a \in Agents |-> FALSE]
      /\ team.wait = [a \in Agents |-> NoOne] /\ team.going = [a \in Agents |-> "no"]
      /\ team.question = [a \in Agents |-> NoOne] /\ team.stop = [a \in Agents |-> <<>>]
      /\ team.opening = {} /\ team.resting = {}
  BY <1>1 DEF NoAgents
<1>4. \A a \in Agents : ~Ending(team, a) /\ ~Known(team, a)
  BY <1>3 DEF Ending, Known
<1>5. InLine(team) /\ Blocks(team) /\ Waits(team) /\ Asks(team) /\ Opens(team) /\ Rests(team, NoOne)
  BY <1>3 DEF InLine, Blocks, Waits, Asks, Opens, Rests
<1>6. Detached(team, NoOne) /\ Overlaps(team) /\ Parents(team)
  BY <1>4 DEF Detached, Overlaps, Parents, Aborting
<1>7. WaitKnown(team)
  BY <1>0, <1>3, <1>4 DEF WaitKnown, Leaves
<1>8. Few(team)
  <2>1. Counted(team) = {}
    BY <1>3 DEF Counted, ActiveStates
  <2>2. Cardinality({}) = 0
    BY FS_EmptySet
  <2> QED
    BY <2>1, <2>2, NumbersOf DEF Few
<1> QED
  BY <1>2, <1>5, <1>6, <1>7, <1>8 DEF Good, Sound

\* Every step keeps the invariant, action by action.
LEMMA StepsGood == Good(team, NoOne) /\ [Next]_vars => Good(team, NoOne)'
<1> SUFFICES ASSUME Good(team, NoOne), [Next]_vars PROVE Good(team', NoOne)
  BY DEF NoOne
<1>1. ASSUME NEW by \in Actors, Spawn(by) PROVE Good(team', NoOne)
  BY <1>1, SpawnsGood
<1>2. ASSUME NEW from \in Actors, NEW to \in Actors, Message(from, to) PROVE Good(team', NoOne)
  BY <1>2, MessageGood
<1>3. ASSUME NEW a \in Agents, SessionReads(a) \/ PromptEnds(a) \/ PromptFails(a) \/ IdleRelease(a)
      PROVE  Good(team', NoOne)
  BY <1>3, PromptsGood
<1>4. ASSUME NEW a \in Agents, LaunchDone(a) \/ LaunchFails(a) PROVE Good(team', NoOne)
  BY <1>4, LaunchesGood
<1>5. ASSUME NEW a \in Agents, NEW by \in Actors \cup {NoOne}, StopAgent(by, a)
      PROVE  Good(team', NoOne)
  BY <1>5, StopsGood
<1>6. ASSUME NEW a \in Agents, Aborted(a) \/ QuestionEnds(a) PROVE Good(team', NoOne)
  BY <1>6, EndsGood
<1>7. ASSUME NEW a \in Agents, RestBegins(a) PROVE Good(team', NoOne)
  BY <1>7, RestBeginsGood
<1>8. ASSUME NEW a \in Agents, RestEnds(a) PROVE Good(team', NoOne)
  BY <1>8, RestEndsGood
<1>9. ASSUME UNCHANGED vars PROVE Good(team', NoOne)
  <2>1. team' = team
    BY <1>9 DEF vars
  <2> QED
    BY <2>1
<1> QED
  BY <1>1, <1>2, <1>3, <1>4, <1>5, <1>6, <1>7, <1>8, <1>9 DEF Next

\* The invariant gives the slots,
LEMMA GoodSlots == Good(team, NoOne) => SlotsHold
<1>1. AtWork \ team.overlap = Counted(team)
  BY DEF AtWork, Counted
<1> QED
  BY <1>1 DEF SlotsHold, Good, Few

\* and the types.
LEMMA GoodTypes == Good(team, NoOne) => TypeOK
<1> SUFFICES ASSUME Good(team, NoOne) PROVE TypeOK
  OBVIOUS
<1>0. team \in Teams
  BY DEF Good
<1>1. ASSUME NEW f \in {"blocking", "ran", "held"} PROVE team[f] \in [Agents -> BOOLEAN]
  BY <1>0 DEF Teams
<1>2. ASSUME NEW f \in {"after", "owed"} PROVE team[f] \in [Agents -> SUBSET Agents]
  BY <1>0 DEF Teams
<1>3. ASSUME NEW f \in {"inbox", "unread", "resume"} PROVE team[f] \in [Agents -> SUBSET Actors]
  BY <1>0 DEF Teams
<1>4. ASSUME NEW f \in {"wait", "call"} PROVE team[f] \in [Agents -> Agents \cup {NoOne}]
  BY <1>0 DEF Teams
<1>5. ASSUME NEW f \in {"opening", "prompting", "resting", "continuing", "silent",
                        "peerRuns", "owesMain", "overlap"}
      PROVE  team[f] \subseteq Agents
  BY <1>0 DEF Teams
<1>6. /\ team.state \in [Agents -> States] /\ team.parent \in [Agents -> Actors \cup {NoOne}]
      /\ team.question \in [Agents -> Actors \cup {NoOne}]
      /\ team.going \in [Agents -> {"no", "on", "run", "rest"}]
  BY <1>0 DEF Teams
<1>7. \A a \in Agents : Ending(team, a) => Len(team.stop[a]) = 1
  BY <1>0, FramesOf
<1>8. InLine(team)
  BY DEF Good, Sound
<1> QED
  BY <1>1, <1>2, <1>3, <1>4, <1>5, <1>6, <1>7, <1>8 DEF TypeOK, InLine

------------------------------------------------------------------------------
(* Mail is kept *)

\* What the mail of a goes by: only who waits in the line goes on, only who holds its session
\* goes on with a message, and only who waits for its launch has a prompt ready.
PostedOf(t, a) ==
    /\ t.going[a] # "no" => t.state[a] = "queued"
    /\ t.going[a] = "run" => t.held[a]
    /\ t.resume[a] # {} => t.state[a] \in {"queued", "starting"} /\ t.going[a] = "no"
Posted(t) == \A a \in Agents : PostedOf(t, a)

\* Its session works on a prompt, and waits for no subagent.
Works(t, a) == Prompted(t, a) /\ t.wait[a] = NoOne

\* What the fields of a say of each other: an idle agent blocks nobody, who runs or asks has a
\* prompt, also in the line, who starts has a launch, and who asks has an open question, unless
\* its run overlaps a stop.
Tidy(t, a) ==
    /\ t.state[a] = "idle" => ~t.blocking[a]
    /\ t.state[a] \in {"running", "asking"} => a \in t.prompting
    /\ t.going[a] \in {"on", "rest"} => a \in t.prompting
    /\ a \in t.prompting => t.state[a] \in {"queued", "running", "asking"}
    /\ t.state[a] = "starting" => a \in t.opening
    /\ t.state[a] = "asking" => t.question[a] # NoOne \/ a \in t.overlap
    /\ t.state[a] = "asking" /\ Ending(t, a) => a \in t.overlap

\* a stays so, and is set to work or to wait for a slot, if it moves at all.
TidyOf(t, u, a) ==
    /\ Tidy(t, a) => Tidy(u, a)
    /\ u.state[a] \in {t.state[a], "queued", "starting", "running"}

\* Nobody's mail is lost from t to u but into a prompt, nobody that works stops working, and no
\* answer is owed that was not.
KeptOf(t, u, a) ==
    /\ TidyOf(t, u, a)
    /\ MayGetPrompt(u, a) => MayGetPrompt(t, a)
    /\ Mail(t, a) \subseteq Mail(u, a) \/ (MayGetPrompt(t, a) /\ Works(u, a))
    /\ Works(t, a) => Works(u, a)
    /\ u.owed[a] \subseteq t.owed[a]
Kept(t, u) == \A a \in Agents : KeptOf(t, u, a)

\* One after another.
LEMMA KeptMore ==
  ASSUME NEW t, NEW u, NEW v
  PROVE  Kept(t, t) /\ (Kept(t, u) /\ Kept(u, v) => Kept(t, v))
<1>1. Kept(t, t)
  BY DEF Kept, KeptOf, TidyOf
<1>2. ASSUME Kept(t, u), Kept(u, v), NEW a \in Agents PROVE KeptOf(t, v, a)
  <2>1. KeptOf(t, u, a) /\ KeptOf(u, v, a)
    BY <1>2 DEF Kept
  <2> QED
    BY <2>1 DEF KeptOf, TidyOf
<1> QED
  BY <1>1, <1>2 DEF Kept

\* What mail goes by is the same for b in t and u.
AlikeOf(t, u, b) ==
    /\ u.inbox[b] = t.inbox[b] /\ u.unread[b] = t.unread[b] /\ u.resume[b] = t.resume[b]
    /\ u.held[b] = t.held[b] /\ u.going[b] = t.going[b] /\ u.state[b] = t.state[b]
    /\ u.question[b] = t.question[b] /\ u.wait[b] = t.wait[b] /\ u.owed[b] = t.owed[b]
    /\ b \in u.prompting <=> b \in t.prompting
    /\ b \in u.opening <=> b \in t.opening
    /\ u.blocking[b] => t.blocking[b]
    /\ b \in t.overlap => b \in u.overlap
    /\ Ending(u, b) => Ending(t, b)
Alike(t, u) == \A b \in Agents : AlikeOf(t, u, b)
Apart(t, u, a) == \A b \in Agents : b # a => AlikeOf(t, u, b)

\* Then it is kept.
LEMMA AlikeKept ==
  ASSUME NEW t, NEW u, Posted(t)
  PROVE  /\ Alike(t, u) => Posted(u) /\ Kept(t, u)
         /\ \A a \in Agents : Apart(t, u, a) /\ PostedOf(u, a) /\ KeptOf(t, u, a)
                                 => Posted(u) /\ Kept(t, u)
<1>1. ASSUME NEW b \in Agents, AlikeOf(t, u, b)
      PROVE  PostedOf(u, b) /\ KeptOf(t, u, b)
  BY <1>1 DEF AlikeOf, Posted, PostedOf, KeptOf, MayGetPrompt, Mail, Works, Prompted, TidyOf, Tidy
<1>2. Alike(t, u) => Posted(u) /\ Kept(t, u)
  BY <1>1 DEF Alike, Posted, Kept
<1>3. ASSUME NEW a \in Agents, Apart(t, u, a), PostedOf(u, a), KeptOf(t, u, a)
      PROVE  Posted(u) /\ Kept(t, u)
  <2>1. \A b \in Agents : PostedOf(u, b) /\ KeptOf(t, u, b)
    BY <1>1, <1>3 DEF Apart
  <2> QED
    BY <2>1 DEF Posted, Kept
<1> QED
  BY <1>2, <1>3

\* An agent that works on.
Onwards(t, a) == [t EXCEPT !.state[a] = "running"]

\* It only runs.
LEMMA RunningIs ==
  ASSUME NEW t \in Teams, NEW a \in Agents, NEW w, w = Onwards(t, a)
  PROVE  /\ w \in Teams /\ w.state = [t.state EXCEPT ![a] = "running"] /\ w.going = t.going
         /\ w.inbox = t.inbox /\ w.unread = t.unread /\ w.resume = t.resume /\ w.held = t.held
         /\ w.question = t.question /\ w.wait = t.wait /\ w.owed = t.owed
         /\ w.prompting = t.prompting
         /\ w.blocking = t.blocking /\ w.opening = t.opening /\ w.overlap = t.overlap
         /\ w.stop = t.stop
<1>1. PICK s : s = [t.state EXCEPT ![a] = "running"]
  OBVIOUS
<1>2. s \in [Agents -> States]
  BY <1>1 DEF Teams, States, LiveStates
<1>3. w = [t EXCEPT !.state = s]
  BY <1>1 DEF Teams, Onwards
<1>4. w \in Teams
  BY ZenonT(40), <1>2, <1>3 DEF Teams
<1>5. w.state = s
  BY <1>3 DEF Teams
<1>6. /\ w.going = t.going /\ w.inbox = t.inbox /\ w.unread = t.unread /\ w.resume = t.resume
      /\ w.held = t.held /\ w.question = t.question /\ w.wait = t.wait /\ w.owed = t.owed
  BY <1>3 DEF Teams
<1>7. /\ w.prompting = t.prompting /\ w.blocking = t.blocking /\ w.opening = t.opening
      /\ w.overlap = t.overlap /\ w.stop = t.stop
  BY <1>3 DEF Teams
<1> QED
  BY <1>1, <1>4, <1>5, <1>6, <1>7

\* Mail that is put in an inbox.
LEMMA InboxTyped ==
  ASSUME NEW t \in Teams, NEW f \in [Agents -> SUBSET Actors], NEW u, u = [t EXCEPT !.inbox = f]
  PROVE  u \in Teams
BY DEF Teams

\* Who goes on from the line gets the mail of its inbox, or keeps it.
LEMMA GoKept ==
  ASSUME NEW t \in Teams, NEW x, Sound(t, x), Posted(t), NEW a \in Agents, t.state[a] = "queued",
         NEW how, how = t.going[a], how # "no", NEW v, v = Dropped(t, a), NEW u, u = Go(v, a, how)
  PROVE  Posted(u) /\ Kept(t, u)
<1>1. how \in {"on", "run", "rest"}
  BY DEF Teams
<1>2. t.wait[a] = NoOne /\ t.question[a] = NoOne /\ t.resume[a] = {} /\ (how = "run" => t.held[a])
  BY DEF Sound, Waits, Asks, Posted, PostedOf
<1>3. /\ v \in Teams /\ v.state = t.state /\ v.going = [t.going EXCEPT ![a] = "no"]
      /\ v.inbox = t.inbox /\ v.unread = t.unread /\ v.resume = t.resume /\ v.held = t.held
      /\ v.question = t.question /\ v.wait = t.wait /\ v.owed = t.owed
      /\ v.prompting = t.prompting
      /\ v.blocking = t.blocking /\ v.opening = t.opening /\ v.overlap = t.overlap
      /\ v.stop = t.stop
  BY DEF Teams, Dropped
<1>4. CASE how = "on"
  <2>1. u = [v EXCEPT !.state[a] = "running"]
    BY <1>4 DEF Go
  <2>2. /\ u.state = [t.state EXCEPT ![a] = "running"] /\ u.going = [t.going EXCEPT ![a] = "no"]
        /\ u.inbox = t.inbox /\ u.unread = t.unread /\ u.resume = t.resume /\ u.held = t.held
        /\ u.question = t.question /\ u.wait = t.wait /\ u.owed = t.owed
        /\ u.prompting = t.prompting
        /\ u.blocking = t.blocking /\ u.opening = t.opening /\ u.overlap = t.overlap
        /\ u.stop = t.stop
    BY <1>3, <2>1 DEF Teams
  <2>3. Apart(t, u, a) /\ u.state[a] = "running" /\ u.going[a] = "no"
    BY <2>2 DEF Teams, Apart, AlikeOf, Ending
  <2>4. PostedOf(u, a) /\ KeptOf(t, u, a)
    BY <1>2, <1>4, <2>2, <2>3
       DEF PostedOf, KeptOf, MayGetPrompt, Mail, Works, Prompted, TidyOf, Tidy, Ending
  <2> QED
    BY <2>3, <2>4, AlikeKept
<1>5. CASE how = "run"
  <2>1. PICK w : w = [v EXCEPT !.inbox[a] = {}]
    OBVIOUS
  <2>2. /\ w.state = t.state /\ w.going = [t.going EXCEPT ![a] = "no"]
        /\ w.inbox = [t.inbox EXCEPT ![a] = {}]
        /\ w.unread = t.unread /\ w.resume = t.resume /\ w.held = t.held
        /\ w.question = t.question /\ w.wait = t.wait /\ w.owed = t.owed
        /\ w.prompting = t.prompting /\ w \in Teams
        /\ w.blocking = t.blocking /\ w.opening = t.opening /\ w.overlap = t.overlap
        /\ w.stop = t.stop
    <3>1. PICK f : f = [v.inbox EXCEPT ![a] = {}]
      OBVIOUS
    <3>2. w = [v EXCEPT !.inbox = f]
      BY <1>3, <2>1, <3>1 DEF Teams
    <3>3. w \in Teams
      <4>1. v.inbox \in [Agents -> SUBSET Actors]
        BY <1>3 DEF Teams
      <4>2. f \in [Agents -> SUBSET Actors]
        BY <3>1, <4>1
      <4> QED
        BY <1>3, <3>2, <4>2, InboxTyped
    <3>4. w.inbox = f
      BY <1>3, <3>2 DEF Teams
    <3>5. /\ w.state = v.state /\ w.going = v.going /\ w.unread = v.unread /\ w.resume = v.resume
          /\ w.held = v.held /\ w.question = v.question /\ w.wait = v.wait /\ w.owed = v.owed
          /\ w.prompting = v.prompting /\ w.blocking = v.blocking /\ w.opening = v.opening
          /\ w.overlap = v.overlap /\ w.stop = v.stop
      BY <1>3, <3>2 DEF Teams
    <3> QED
      BY <1>3, <3>1, <3>3, <3>4, <3>5
  <2>3. u = Run(w, a)
    BY <1>5, <2>1 DEF Go
  <2>4. /\ u.state = [t.state EXCEPT ![a] = "running"] /\ u.going = [t.going EXCEPT ![a] = "no"]
        /\ u.inbox = [t.inbox EXCEPT ![a] = {}]
        /\ u.unread = t.unread /\ u.resume = t.resume /\ u.held = t.held
        /\ u.question = t.question /\ u.wait = t.wait /\ u.owed = t.owed
        /\ u.prompting = t.prompting \cup {a}
        /\ u.blocking = t.blocking /\ u.opening = t.opening /\ u.overlap = t.overlap
        /\ u.stop = t.stop
    <3>1. w.held[a]
      BY <1>2, <1>5, <2>2
    <3>2. u = [w EXCEPT !.state[a] = "running", !.ran[a] = TRUE, !.prompting = @ \cup {a},
                        !.continuing = @ \ {a}]
      BY <2>3, <3>1 DEF Run
    <3> QED
      BY <2>2, <3>2 DEF Teams
  <2>5. Apart(t, u, a) /\ u.state[a] = "running" /\ u.going[a] = "no" /\ u.inbox[a] = {}
    BY <2>4 DEF Teams, Apart, AlikeOf, Ending
  <2>6. MayGetPrompt(t, a) /\ Works(u, a)
    BY <1>2, <1>5, <2>4, <2>5 DEF MayGetPrompt, Works, Prompted
  <2>7. PostedOf(u, a) /\ KeptOf(t, u, a)
    BY <1>2, <2>4, <2>5, <2>6 DEF PostedOf, KeptOf, TidyOf, Tidy, Ending
  <2> QED
    BY <2>5, <2>7, AlikeKept
<1>6. CASE how = "rest"
  <2>1. PICK w : w = Onwards(v, a)
    OBVIOUS
  <2>2. /\ w.state = [t.state EXCEPT ![a] = "running"] /\ w.going = [t.going EXCEPT ![a] = "no"]
        /\ w.inbox = t.inbox /\ w.unread = t.unread /\ w.resume = t.resume /\ w.held = t.held
        /\ w.question = t.question /\ w.wait = t.wait /\ w.owed = t.owed
        /\ w.prompting = t.prompting /\ w \in Teams
        /\ w.blocking = t.blocking /\ w.opening = t.opening /\ w.overlap = t.overlap
        /\ w.stop = t.stop
    <3>1. /\ w \in Teams /\ w.state = [v.state EXCEPT ![a] = "running"] /\ w.going = v.going
          /\ w.inbox = v.inbox /\ w.unread = v.unread /\ w.resume = v.resume /\ w.held = v.held
          /\ w.question = v.question /\ w.wait = v.wait /\ w.owed = v.owed
          /\ w.prompting = v.prompting
          /\ w.blocking = v.blocking /\ w.opening = v.opening /\ w.overlap = v.overlap
          /\ w.stop = v.stop
      BY SMTT(30), <1>3, <2>1, RunningIs
    <3> QED
      BY <1>3, <3>1
  <2>3. u = SteerInbox(w, a)
    BY <1>6, <2>1 DEF Go, Onwards
  <2>4. /\ u.state = [t.state EXCEPT ![a] = "running"] /\ u.going = [t.going EXCEPT ![a] = "no"]
        /\ u.resume = t.resume /\ u.held = t.held
        /\ u.question = t.question /\ u.wait = t.wait /\ u.owed = t.owed
        /\ u.prompting = t.prompting
        /\ u.blocking = t.blocking /\ u.opening = t.opening /\ u.overlap = t.overlap
        /\ u.stop = t.stop
        /\ \A b \in Agents : b # a => u.inbox[b] = t.inbox[b] /\ u.unread[b] = t.unread[b]
        /\ u.inbox[a] \cup u.unread[a] = t.inbox[a] \cup t.unread[a]
    BY <2>2, <2>3 DEF SteerInbox, Teams
  <2>5. Apart(t, u, a) /\ u.state[a] = "running" /\ u.going[a] = "no"
    BY <2>4 DEF Teams, Apart, AlikeOf, Ending
  <2>6. Mail(u, a) = Mail(t, a)
    BY <2>4 DEF Mail
  <2>7. PostedOf(u, a) /\ KeptOf(t, u, a)
    BY <1>2, <1>6, <2>4, <2>5, <2>6
       DEF PostedOf, KeptOf, MayGetPrompt, Works, Prompted, TidyOf, Tidy, Ending
  <2> QED
    BY <2>5, <2>7, AlikeKept
<1> QED
  BY <1>1, <1>4, <1>5, <1>6

\* Who starts from the line keeps its mail for the launch.
LEMMA StartKept ==
  ASSUME NEW t \in Teams, NEW x, Sound(t, x), Posted(t), NEW a \in Agents, t.state[a] = "queued",
         t.going[a] = "no", NEW u, u = Start(t, a)
  PROVE  Posted(u) /\ Kept(t, u)
<1>1. /\ u.state = [t.state EXCEPT ![a] = "starting"] /\ u.going = t.going
      /\ u.inbox = t.inbox /\ u.unread = t.unread /\ u.resume = t.resume /\ u.held = t.held
      /\ u.question = t.question /\ u.wait = t.wait /\ u.owed = t.owed
      /\ u.prompting = t.prompting \ {a}
  <2>1. u.state = [t.state EXCEPT ![a] = "starting"] /\ u.prompting = t.prompting \ {a}
    BY DEF Teams, Start
  <2>2. u.going = t.going /\ u.inbox = t.inbox /\ u.unread = t.unread /\ u.resume = t.resume
    BY DEF Teams, Start
  <2>3. u.held = t.held /\ u.question = t.question /\ u.wait = t.wait /\ u.owed = t.owed
    BY DEF Teams, Start
  <2> QED
    BY <2>1, <2>2, <2>3
<1>2. /\ u.opening = t.opening \cup {a} /\ u.blocking = t.blocking
      /\ \A b \in Agents : (b \in t.overlap => b \in u.overlap) /\ (Ending(u, b) => Ending(t, b))
  BY ZenonT(40), StartLeaves DEF Keeps, SameFrames
<1>3. Apart(t, u, a) /\ u.state[a] = "starting"
  BY <1>1, <1>2 DEF Teams, Apart, AlikeOf
<1>4. PostedOf(u, a)
  BY <1>1, <1>3 DEF Posted, PostedOf
<1>5. TidyOf(t, u, a)
  BY <1>1, <1>2, <1>3 DEF TidyOf, Tidy
<1>6. KeptOf(t, u, a)
  BY <1>1, <1>3, <1>5 DEF KeptOf, MayGetPrompt, Mail, Works, Prompted
<1> QED
  BY <1>3, <1>4, <1>6, AlikeKept

\* A step of the line keeps mail.
LEMMA LetGoKept ==
  ASSUME NEW t0 \in Teams, NEW x, NEW s \in SUBSET (1 .. Len(t0.line)),
         NEW acc \in Taken(t0, x, s), Posted(acc.team), NEW a \in Agents,
         NEW new, new = LetGo(acc, a)
  PROVE  Posted(new.team) /\ Kept(acc.team, new.team)
<1> DEFINE t == acc.team
           how == t.going[a]
<1>1. acc \in Walk /\ t \in Teams /\ Sound(t, x)
  BY DEF Taken, Walk
<1>2. CASE new = [acc EXCEPT !.kept = Append(@, a)]
  BY <1>1, <1>2, KeptMore DEF Walk
<1>3. CASE t.state[a] # "queued" /\ new = [acc EXCEPT !.team.going[a] = "no"]
  <2>1. new.team = [t EXCEPT !.going[a] = "no"]
    BY <1>1, <1>3 DEF Walk
  <2>2. t.going[a] = "no"
    BY <1>3 DEF Posted, PostedOf
  <2>3. Alike(t, new.team)
    BY <1>1, <2>1, <2>2 DEF Teams, Alike, AlikeOf, Ending
  <2> QED
    BY <2>3, AlikeKept
<1>4. CASE /\ t.state[a] = "queued" /\ how # "no"
           /\ new = [acc EXCEPT !.active = @ + 1, !.team = Go([t EXCEPT !.going[a] = "no"], a, how)]
  <2>1. new.team = Go(Dropped(t, a), a, how)
    BY <1>1, <1>4 DEF Walk, Dropped
  <2> QED
    BY <1>1, <1>4, <2>1, GoKept
<1>5. CASE /\ t.state[a] = "queued" /\ how = "no"
           /\ new = [acc EXCEPT !.active = @ + 1, !.team = Start(t, a)]
  <2>1. new.team = Start(t, a)
    BY <1>1, <1>5 DEF Walk
  <2> QED
    BY <1>1, <1>5, <2>1, StartKept
<1> QED
  BY <1>2, <1>3, <1>4, <1>5 DEF LetGo

\* pump keeps mail.
LEMMA PumpKept ==
  ASSUME NEW t0 \in Teams, NEW x, Sound(t0, x), Posted(t0), NEW u, u = Pump(t0)
  PROVE  Posted(u) /\ Kept(t0, u)
<1> DEFINE n == Len(t0.line)
           X == [s \in SUBSET (1 .. n) |->
                   {acc \in Taken(t0, x, s) : Posted(acc.team) /\ Kept(t0, acc.team)}]
           x0 == [team |-> t0, active |-> Used(t0), kept |-> <<>>]
           end == FoldLeft(LetGo, x0, t0.line)
<1>1. t0.line \in Seq(Agents) /\ n \in Nat /\ DOMAIN t0.line = 1 .. n
  BY DEF Teams
<1>2. x0 \in Taken(t0, x, {})
  BY StartsTaken
<1>3. ASSUME NEW s \in SUBSET (1 .. n), NEW i \in (1 .. n) \ s, NEW acc \in X[s]
      PROVE  LetGo(acc, t0.line[i]) \in X[s \cup {i}]
  <2>1. acc \in Taken(t0, x, s) /\ Posted(acc.team) /\ Kept(t0, acc.team) /\ t0.line[i] \in Agents
    BY <1>1
  <2>2. PICK new : new = LetGo(acc, t0.line[i])
    OBVIOUS
  <2>3. new \in Taken(t0, x, s \cup {i})
    BY <2>1, <2>2, LetGoKeeps
  <2>4. Posted(new.team) /\ Kept(t0, new.team)
    BY <2>1, <2>2, LetGoKept, KeptMore
  <2>5. s \cup {i} \in SUBSET (1 .. n)
    OBVIOUS
  <2> QED
    BY <2>2, <2>3, <2>4, <2>5
<1>4. x0 \in X[{}]
  BY <1>2, KeptMore
<1> HIDE DEF x0
<1>5. end \in X[1 .. n]
  <2> HIDE DEF X, n
  <2> QED BY <1>1, <1>3, <1>4, FoldLetGo
<1>6. end \in Taken(t0, x, 1 .. n) /\ Posted(end.team) /\ Kept(t0, end.team)
  BY <1>5
<1>7. u = [end.team EXCEPT !.line = end.kept]
  BY DEF Pump, Pumped, x0
<1> HIDE DEF end
<1>8. end.team \in Teams
  BY <1>6 DEF Taken, Walk
<1>9. Alike(end.team, u)
  BY <1>7, <1>8 DEF Teams, Alike, AlikeOf, Ending
<1> QED
  BY <1>6, <1>9, AlikeKept, KeptMore

------------------------------------------------------------------------------
(* No slot is left idle *)

\* No stop is under way.
Calm(t) == \A a \in Agents : ~Ending(t, a)

\* Then no slot is free for an agent in the line that may take it.
Tight(t) == Calm(t) /\ Free(t) => \A i \in 1 .. Len(t.line) : Held(t, t.line[i])

\* Whoever works still does, and the line is the same.
Busy(t, u) ==
    /\ \A b \in Agents : /\ Ending(t, b) => Ending(u, b)
                         /\ Held(t, b) => Held(u, b)
    /\ Calm(t) => Working(t) \subseteq Working(u)
    /\ u.line = t.line

\* More at work use more slots.
LEMMA WorkingMore ==
  ASSUME NEW t, NEW u
  PROVE  /\ Used(t) \in Nat /\ IsFiniteSet(Working(t))
         /\ Working(t) \subseteq Working(u) => Used(t) <= Used(u)
<1>1. /\ Working(t) \in SUBSET Agents /\ Working(u) \in SUBSET Agents
  BY DEF Working
<1>2. IsFiniteSet(Working(t)) /\ IsFiniteSet(Working(u))
  BY <1>1, NumbersOf, FS_Subset
<1>3. Used(t) \in Nat
  BY <1>2, FS_CardinalityType DEF Used
<1>4. Working(t) \subseteq Working(u) => Used(t) <= Used(u)
  BY <1>2, FS_Subset DEF Used
<1> QED
  BY <1>2, <1>3, <1>4

\* A handler that frees no slot leaves none idle.
LEMMA BusyTight ==
  ASSUME NEW t, t \in Teams, NEW u, Busy(t, u), Tight(t)
  PROVE  Tight(u)
<1> SUFFICES ASSUME Calm(u), Free(u), NEW i \in 1 .. Len(u.line) PROVE Held(u, u.line[i])
  BY DEF Tight
<1>1. Calm(t)
  BY DEF Calm, Busy
<1>2. Used(t) <= Used(u) /\ Used(t) \in Nat /\ Used(u) \in Nat
  BY <1>1, WorkingMore DEF Busy
<1>3. Free(t)
  BY <1>2, NumbersOf DEF Free
<1>4. u.line[i] \in Agents /\ u.line = t.line
  BY DEF Busy, Teams
<1>5. Held(t, u.line[i])
  BY <1>1, <1>3, <1>4 DEF Tight
<1> QED
  BY <1>4, <1>5 DEF Busy

\* While no stop is under way, an agent in line shares its slot with nobody.
LEMMA Unshared ==
  ASSUME NEW t \in Teams, NEW x, Sound(t, x), Calm(t), NEW a \in Agents,
         t.state[a] \notin {"running", "asking"}
  PROVE  a \notin Blocked(t) /\ a \notin t.resting
<1>1. a \notin t.resting
  BY DEF Sound, Rests, Calm
<1>2. ASSUME NEW c \in Agents, t.blocking[c], t.parent[c] = a PROVE FALSE
  <2>1. t.wait[a] = c
    BY <1>2 DEF Sound, Blocks, Leaves, Calm
  <2>2. c # NoOne
    BY NumbersOf
  <2> QED
    BY <2>1, <2>2 DEF Sound, Waits
<1>3. a \notin Blocked(t)
  BY <1>2 DEF Blocked
<1> QED
  BY <1>1, <1>3

\* Who is put off in the line.
PutOff(t, b) == t.state[b] = "queued" /\ t.going[b] = "no" /\ WaitingFor(t, b) # {}

\* Who is set to work from the line takes a slot, and those put off stay so.
LEMMA TakesSlot ==
  ASSUME NEW t \in Teams, NEW x, Sound(t, x), Calm(t), NEW a \in Agents, t.state[a] = "queued",
         NEW u \in Teams, Keeps(t, u), NEW s \in ActiveStates, u.state = [t.state EXCEPT ![a] = s],
         \A b \in Agents : b # a => u.ran[b] = t.ran[b] /\ u.going[b] = t.going[b]
  PROVE  /\ Used(t) + 1 <= Used(u)
         /\ \A b \in Agents : b # a /\ PutOff(t, b) => PutOff(u, b)
<1>1. \A b \in Agents : b # a => u.state[b] = t.state[b]
  BY DEF Teams
<1>2. u.state[a] = s /\ s \in {"starting", "running"}
  BY DEF Teams, ActiveStates
<1>3. \A b \in Agents : Live(u, b) <=> Live(t, b)
  BY <1>1, <1>2 DEF Live, LiveStates
<1>4. u.parent = t.parent /\ u.blocking = t.blocking /\ u.resting = t.resting /\ u.after = t.after
  BY DEF Keeps
<1>5. Blocked(u) = Blocked(t)
  BY <1>3, <1>4 DEF Blocked
<1>6. a \notin Blocked(t) /\ a \notin t.resting
  BY Unshared
<1>7. Working(u) = Working(t) \cup {a} /\ a \notin Working(t)
  BY <1>1, <1>2, <1>4, <1>5, <1>6 DEF Working, ActiveStates
<1>8. IsFiniteSet(Working(t)) /\ Used(t) \in Nat
  BY WorkingMore
<1>9. Used(u) = Used(t) + 1
  BY <1>7, <1>8, FS_AddElement DEF Used
<1>10. ASSUME NEW b \in Agents, b # a, PutOff(t, b) PROVE PutOff(u, b)
  <2>1. WaitingFor(u, b) = WaitingFor(t, b)
    <3>1. u.ran[b] = t.ran[b] /\ u.after[b] = t.after[b] /\ t.after[b] \in SUBSET Agents
      BY <1>4, <1>10 DEF Teams
    <3> QED
      BY <1>3, <3>1 DEF WaitingFor
  <2> QED
    BY <1>1, <1>10, <2>1 DEF PutOff
<1> QED
  BY <1>8, <1>9, <1>10

\* Going on and starting are such steps.
LEMMA GoRuns ==
  ASSUME NEW t \in Teams, NEW x, Sound(t, x), Posted(t), NEW a \in Agents, t.state[a] = "queued",
         NEW how, how = t.going[a], how # "no", NEW u, u = Go(Dropped(t, a), a, how)
  PROVE  /\ u \in Teams /\ Keeps(t, u) /\ u.state = [t.state EXCEPT ![a] = "running"]
         /\ \A b \in Agents : b # a => u.ran[b] = t.ran[b] /\ u.going[b] = t.going[b]
<1>1. how \in {"on", "run", "rest"}
  BY DEF Teams
<1>2. PICK v : v = Dropped(t, a)
  OBVIOUS
<1>3. /\ v \in Teams /\ v.state = t.state /\ v.going = [t.going EXCEPT ![a] = "no"]
      /\ v.ran = t.ran /\ v.held = t.held
  BY <1>2 DEF Teams, Dropped
<1>4. /\ u \in Teams /\ Moves(t, u, a, u.state[a]) /\ \A b \in Agents : b # a => u.going[b] = t.going[b]
  BY <1>1, GoMoves
<1>5. Keeps(t, u)
  BY <1>4 DEF Moves
<1>6. CASE how = "on"
  <2>1. u = [v EXCEPT !.state[a] = "running"]
    BY <1>2, <1>6 DEF Go
  <2>2. u.state = [v.state EXCEPT ![a] = "running"] /\ u.ran = v.ran
    BY <1>3, <2>1 DEF Teams
  <2> QED
    BY <1>3, <1>4, <1>5, <2>2
<1>7. CASE how = "rest"
  <2>1. PICK w : w = Onwards(v, a)
    OBVIOUS
  <2>2. w.state = [t.state EXCEPT ![a] = "running"] /\ w.ran = t.ran /\ w \in Teams
    <3>1. w \in Teams /\ w.state = [v.state EXCEPT ![a] = "running"]
      BY <1>3, <2>1, RunningIs
    <3>2. w.ran = v.ran
      BY <1>3, <2>1 DEF Onwards, Teams
    <3> QED
      BY <1>3, <3>1, <3>2
  <2>3. u = SteerInbox(w, a)
    BY <1>2, <1>7, <2>1 DEF Go, Onwards
  <2>4. u.state = w.state /\ u.ran = w.ran
    BY <2>2, <2>3 DEF SteerInbox, Teams
  <2> QED
    BY <1>4, <1>5, <2>2, <2>4
<1>8. CASE how = "run"
  <2>1. PICK w : w = [v EXCEPT !.inbox[a] = {}]
    OBVIOUS
  <2>2. w \in Teams /\ w.state = t.state /\ w.ran = t.ran /\ w.held = t.held
    BY <1>3, <2>1 DEF Teams
  <2>3. u = Run(w, a) /\ w.held[a]
    BY <1>2, <1>8, <2>1, <2>2 DEF Go, Posted, PostedOf
  <2>4. u.state = [w.state EXCEPT ![a] = "running"] /\ u.ran = [w.ran EXCEPT ![a] = TRUE]
    <3>1. u = [w EXCEPT !.state[a] = "running", !.ran[a] = TRUE, !.prompting = @ \cup {a},
                        !.continuing = @ \ {a}]
      BY <2>3 DEF Run
    <3>2. u.state = [w.state EXCEPT ![a] = "running"]
      BY <2>2, <3>1 DEF Teams
    <3>3. u.ran = [w.ran EXCEPT ![a] = TRUE]
      BY <2>2, <3>1 DEF Teams
    <3> QED
      BY <3>2, <3>3
  <2>5. \A b \in Agents : b # a => u.ran[b] = t.ran[b]
    BY <2>2, <2>4 DEF Teams
  <2> QED
    BY <1>4, <1>5, <2>2, <2>4, <2>5
<1> QED
  BY <1>1, <1>6, <1>7, <1>8

\* What the walk along the line knows of the slots.
Full(t0, acc) ==
    Calm(t0) =>
        /\ acc.active <= Used(acc.team)
        /\ \/ acc.active >= MaxConcurrent
           \/ \A j \in 1 .. Len(acc.kept) : PutOff(acc.team, acc.kept[j])

\* A step of it.
LEMMA LetGoFull ==
  ASSUME NEW t0 \in Teams, NEW x, NEW s \in SUBSET (1 .. Len(t0.line)),
         NEW acc \in Taken(t0, x, s), Posted(acc.team), Full(t0, acc), NEW a \in Agents,
         NEW new, new = LetGo(acc, a)
  PROVE  Full(t0, new)
<1> SUFFICES ASSUME Calm(t0)
             PROVE  /\ new.active <= Used(new.team)
                    /\ \/ new.active >= MaxConcurrent
                       \/ \A j \in 1 .. Len(new.kept) : PutOff(new.team, new.kept[j])
  BY DEF Full
<1> DEFINE t == acc.team
           how == t.going[a]
<1>1. /\ acc \in Walk /\ t \in Teams /\ Sound(t, x) /\ acc.active \in Nat /\ acc.kept \in Seq(Agents)
      /\ Used(t) \in Nat /\ MaxConcurrent \in Nat
  BY WorkingMore, NumbersOf DEF Taken, Walk
<1>2. Calm(t)
  BY DEF Taken, Lets, Keeps, SameFrames, Calm
<1>3. /\ acc.active <= Used(t)
      /\ acc.active >= MaxConcurrent \/ \A j \in 1 .. Len(acc.kept) : PutOff(t, acc.kept[j])
  BY DEF Full
<1>4. CASE acc.active >= MaxConcurrent
  <2>1. new = [acc EXCEPT !.kept = Append(@, a)]
    BY <1>4 DEF LetGo
  <2>2. new.active = acc.active /\ new.team = t
    BY <1>1, <2>1 DEF Walk
  <2> QED
    BY <1>3, <1>4, <2>2
<1>5. CASE ~(acc.active >= MaxConcurrent) /\ t.state[a] # "queued"
  <2>1. new = [acc EXCEPT !.team.going[a] = "no"]
    BY <1>5 DEF LetGo
  <2>2. new.active = acc.active /\ new.kept = acc.kept /\ new.team = [t EXCEPT !.going[a] = "no"]
    BY <1>1, <2>1 DEF Walk
  <2>3. PICK u : u = new.team
    OBVIOUS
  <2>4. /\ u.state = t.state /\ u.parent = t.parent /\ u.blocking = t.blocking
        /\ u.resting = t.resting /\ u.after = t.after /\ u.ran = t.ran
        /\ \A b \in Agents : u.going[b] \in {"no", t.going[b]}
    BY <1>1, <2>2, <2>3 DEF Teams
  <2>5. Used(u) = Used(t)
    BY <2>4 DEF Used, Working, Blocked, Live
  <2>6. ASSUME NEW b \in Agents, PutOff(t, b) PROVE PutOff(u, b)
    BY <2>4, <2>6 DEF PutOff, WaitingFor, Live
  <2>7. \A j \in 1 .. Len(acc.kept) : acc.kept[j] \in Agents
    BY <1>1
  <2> QED
    BY <1>3, <1>5, <2>2, <2>3, <2>5, <2>6, <2>7
<1>6. CASE ~(acc.active >= MaxConcurrent) /\ t.state[a] = "queued" /\ ~PutOff(t, a)
  <2>1. PICK u : u = IF how # "no" THEN Go([t EXCEPT !.going[a] = "no"], a, how) ELSE Start(t, a)
    OBVIOUS
  <2>2. new = [[acc EXCEPT !.active = @ + 1] EXCEPT !.team = u]
    BY <1>6, <2>1 DEF LetGo, PutOff
  <2>3. new.active = acc.active + 1 /\ new.kept = acc.kept /\ new.team = u
    BY <1>1, <2>2 DEF Walk
  <2>4. PICK v \in ActiveStates :
           /\ u \in Teams /\ Keeps(t, u) /\ u.state = [t.state EXCEPT ![a] = v]
           /\ \A b \in Agents : b # a => u.ran[b] = t.ran[b] /\ u.going[b] = t.going[b]
    <3>1. CASE how # "no"
      <4>1. u = Go(Dropped(t, a), a, how)
        BY <2>1, <3>1 DEF Dropped
      <4>2. /\ u \in Teams /\ Keeps(t, u) /\ u.state = [t.state EXCEPT ![a] = "running"]
            /\ \A b \in Agents : b # a => u.ran[b] = t.ran[b] /\ u.going[b] = t.going[b]
        BY <1>1, <1>6, <3>1, <4>1, GoRuns
      <4> QED
        BY <4>2 DEF ActiveStates
    <3>2. CASE how = "no"
      <4>1. u = Start(t, a)
        BY <2>1, <3>2
      <4>2. u \in Teams
        BY <1>1, <4>1, StartTyped
      <4>3. Keeps(t, u) /\ u.state = [t.state EXCEPT ![a] = "starting"] /\ u.going = t.going
        <5>1. a \in Agents /\ t \in Teams
          BY <1>1
        <5> HIDE DEF t
        <5> QED
          BY <4>1, <5>1, StartLeaves
      <4>4. u.ran = t.ran
        BY <1>1, <4>1 DEF Start, Teams
      <4> QED
        BY <4>2, <4>3, <4>4 DEF ActiveStates
    <3> QED
      BY <3>1, <3>2
  <2>5. /\ Used(t) + 1 <= Used(u)
        /\ \A b \in Agents : b # a /\ PutOff(t, b) => PutOff(u, b)
    BY <1>1, <1>2, <1>6, <2>4, TakesSlot
  <2>6. Used(u) \in Nat
    BY WorkingMore
  <2>7. \A j \in 1 .. Len(acc.kept) : PutOff(t, acc.kept[j]) /\ acc.kept[j] \in Agents
    BY <1>1, <1>3, <1>6
  <2>8. \A j \in 1 .. Len(new.kept) : PutOff(new.team, new.kept[j])
    BY <1>6, <2>3, <2>5, <2>7
  <2>9. new.active <= Used(new.team)
    BY <1>1, <1>3, <2>3, <2>5, <2>6
  <2> QED
    BY <2>8, <2>9
<1>7. CASE ~(acc.active >= MaxConcurrent) /\ PutOff(t, a)
  <2>1. new = [acc EXCEPT !.kept = Append(@, a)]
    BY <1>7 DEF LetGo, PutOff
  <2>2. new.active = acc.active /\ new.team = t /\ new.kept = Append(acc.kept, a)
    BY <1>1, <2>1 DEF Walk
  <2>3. \A j \in 1 .. Len(acc.kept) : PutOff(t, acc.kept[j])
    BY <1>3, <1>7
  <2>4. ASSUME NEW j \in 1 .. Len(new.kept) PROVE PutOff(t, new.kept[j])
    <3>1. Len(new.kept) = Len(acc.kept) + 1 /\ Len(acc.kept) \in Nat
      BY <1>1, <2>2
    <3>2. CASE j = Len(acc.kept) + 1
      <4>1. new.kept[j] = a
        BY <1>1, <2>2, <3>2
      <4> QED
        BY <1>7, <4>1
    <3>3. CASE j # Len(acc.kept) + 1
      <4>1. j \in 1 .. Len(acc.kept) /\ new.kept[j] = acc.kept[j]
        BY <1>1, <2>2, <3>1, <3>3
      <4> QED
        BY <2>3, <4>1
    <3> QED
      BY <3>2, <3>3
  <2> QED
    BY <1>3, <2>2, <2>4
<1> QED
  BY <1>4, <1>5, <1>6, <1>7 DEF PutOff

\* pump leaves no slot idle.
LEMMA PumpTight ==
  ASSUME NEW t0 \in Teams, NEW x, Sound(t0, x), Posted(t0), NEW u, u = Pump(t0)
  PROVE  Tight(u)
<1> DEFINE n == Len(t0.line)
           X == [s \in SUBSET (1 .. n) |->
                   {acc \in Taken(t0, x, s) : Posted(acc.team) /\ Full(t0, acc)}]
           x0 == [team |-> t0, active |-> Used(t0), kept |-> <<>>]
           end == FoldLeft(LetGo, x0, t0.line)
<1>1. t0.line \in Seq(Agents) /\ n \in Nat /\ DOMAIN t0.line = 1 .. n
  BY DEF Teams
<1>2. x0 \in Taken(t0, x, {}) /\ Full(t0, x0)
  <2>1. x0 \in Taken(t0, x, {})
    BY StartsTaken
  <2>2. Full(t0, x0)
    BY WorkingMore DEF Full
  <2> QED
    BY <2>1, <2>2
<1>3. ASSUME NEW s \in SUBSET (1 .. n), NEW i \in (1 .. n) \ s, NEW acc \in X[s]
      PROVE  LetGo(acc, t0.line[i]) \in X[s \cup {i}]
  <2>1. /\ acc \in Taken(t0, x, s) /\ Posted(acc.team) /\ Full(t0, acc) /\ t0.line[i] \in Agents
    BY <1>1
  <2>2. PICK new : new = LetGo(acc, t0.line[i])
    OBVIOUS
  <2>3. new \in Taken(t0, x, s \cup {i})
    BY <2>1, <2>2, LetGoKeeps
  <2>4. Posted(new.team) /\ Full(t0, new)
    BY <2>1, <2>2, LetGoKept, LetGoFull
  <2>5. s \cup {i} \in SUBSET (1 .. n)
    OBVIOUS
  <2> QED
    BY <2>2, <2>3, <2>4, <2>5
<1>4. x0 \in X[{}]
  BY <1>2
<1> HIDE DEF x0
<1>5. end \in X[1 .. n]
  <2> HIDE DEF X, n
  <2> QED BY <1>1, <1>3, <1>4, FoldLetGo
<1>6. end \in Taken(t0, x, 1 .. n) /\ Full(t0, end)
  BY <1>5
<1>7. u = [end.team EXCEPT !.line = end.kept]
  BY DEF Pump, Pumped, x0
<1> HIDE DEF end
<1>8. end \in Walk /\ end.team \in Teams /\ Keeps(t0, end.team)
  BY <1>6 DEF Taken, Walk, Lets
<1>9. PICK t : t = end.team
  OBVIOUS
<1>10. /\ u.line = end.kept /\ u.state = t.state /\ u.parent = t.parent /\ u.blocking = t.blocking
       /\ u.resting = t.resting /\ u.after = t.after /\ u.ran = t.ran /\ u.stop = t.stop
  BY <1>7, <1>8, <1>9 DEF Teams
<1> SUFFICES ASSUME Calm(u), Free(u), NEW j \in 1 .. Len(u.line) PROVE Held(u, u.line[j])
  BY DEF Tight
<1>11. Calm(t0)
  BY <1>8, <1>9, <1>10 DEF Keeps, SameFrames, Calm, Ending
<1>12. Used(u) = Used(t)
  BY <1>10 DEF Used, Working, Blocked, Live
<1>13. ~(end.active >= MaxConcurrent)
  <2>1. end.active <= Used(t) /\ Used(t) \in Nat /\ end.active \in Nat /\ MaxConcurrent \in Nat
    BY <1>6, <1>8, <1>9, <1>11, WorkingMore, NumbersOf DEF Full, Walk
  <2> QED
    BY <1>12, <2>1 DEF Free
<1>14. PutOff(t, end.kept[j])
  BY <1>6, <1>9, <1>10, <1>11, <1>13 DEF Full
<1> QED
  BY <1>10, <1>14 DEF PutOff, Held, WaitingFor, Live

\* The slots are shared by no more agents, and the line is the same.
Shares(t, u) ==
    /\ u.state = t.state /\ u.parent = t.parent /\ u.after = t.after /\ u.ran = t.ran
    /\ u.line = t.line /\ u.resting \subseteq t.resting
    /\ \A b \in Agents : /\ u.blocking[b] => t.blocking[b]
                         /\ Ending(t, b) => Ending(u, b)

\* Then no slot comes free.
LEMMA SharesTight ==
  ASSUME NEW t, t \in Teams, NEW u, Shares(t, u), Tight(t)
  PROVE  Tight(u)
<1>1. \A b \in Agents : Live(u, b) <=> Live(t, b)
  BY DEF Shares, Live
<1>2. Blocked(u) \subseteq Blocked(t)
  BY <1>1 DEF Blocked, Shares
<1>3. Working(t) \subseteq Working(u)
  BY <1>2 DEF Working, Shares
<1>4. ASSUME NEW b \in Agents, Held(t, b) PROVE Held(u, b)
  <2>1. t.after[b] \in SUBSET Agents
    BY DEF Teams
  <2> QED
    BY <1>1, <1>4, <2>1 DEF Held, WaitingFor, Shares
<1>5. Busy(t, u)
  BY <1>3, <1>4 DEF Busy, Shares
<1> QED
  BY <1>5, BusyTight

\* So does what the slots are not about.
LEMMA SameTight ==
  ASSUME NEW t, t \in Teams, Tight(t), NEW u, Same(t, u), u.ran = t.ran
  PROVE  Tight(u)
<1>1. Shares(t, u)
  BY DEF Same, Stays, Keeps, SameFrames, Shares
<1> QED
  BY <1>1, SharesTight

\* An agent that gives back the one slot too many leaves none idle.
LEMMA LateTight ==
  ASSUME NEW t, t \in Teams, ~Fits(t), NEW a \in Agents, t.state[a] \in ActiveStates,
         NEW how \in {"on", "rest"}, NEW u, u = GoOnWhenFree(t, a, how)
  PROVE  Tight(u)
<1>1. Used(t) \in Nat /\ MaxConcurrent \in Nat /\ IsFiniteSet(Working(t))
  BY WorkingMore, NumbersOf
<1>2. Used(t) > MaxConcurrent
  BY <1>1 DEF Fits
<1>3. PICK v : v = [t EXCEPT !.state[a] = "queued"]
  OBVIOUS
<1>4. u = GoOn(v, a, how)
  BY <1>1, <1>2, <1>3 DEF GoOnWhenFree, Free
<1>5. PICK l : u = [v EXCEPT !.going[a] = how, !.line = l]
  BY Zenon, <1>4 DEF GoOn
<1>6. /\ u.state = [t.state EXCEPT ![a] = "queued"] /\ u.parent = t.parent
      /\ u.blocking = t.blocking /\ u.resting = t.resting
  BY <1>3, <1>5 DEF Teams
<1>7. \A b \in Agents : Live(u, b) <=> Live(t, b)
  BY <1>6 DEF Live, LiveStates, ActiveStates, Teams
<1>8. Blocked(u) = Blocked(t)
  BY <1>6, <1>7 DEF Blocked
<1>9. Working(t) \ {a} \subseteq Working(u)
  BY <1>6, <1>8 DEF Working, Teams
<1>10. PICK w : w = Working(t) \ {a}
  OBVIOUS
<1>11. IsFiniteSet(w) /\ Cardinality(w) >= Used(t) - 1 /\ Cardinality(w) \in Nat
  <2>1. IsFiniteSet(w) /\ Cardinality(w) \in Nat
    BY <1>1, <1>10, FS_RemoveElement, FS_CardinalityType
  <2>2. CASE a \in Working(t)
    <3>1. Cardinality(w) = Cardinality(Working(t)) - 1
      BY <1>1, <1>10, <2>2, FS_RemoveElement
    <3> QED
      BY <1>1, <2>1, <3>1 DEF Used
  <2>3. CASE a \notin Working(t)
    <3>1. w = Working(t)
      BY <1>10, <2>3
    <3> QED
      BY <1>1, <2>1, <3>1 DEF Used
  <2> QED
    BY <2>2, <2>3
<1>12. Cardinality(w) <= Used(u) /\ Used(u) \in Nat
  <2>1. IsFiniteSet(Working(u)) /\ Used(u) \in Nat
    BY WorkingMore
  <2> QED
    BY <1>9, <1>10, <2>1, FS_Subset DEF Used
<1>13. ~Free(u)
  BY <1>1, <1>2, <1>11, <1>12 DEF Free
<1> QED
  BY <1>13 DEF Tight

\* A wait: true call that returns leaves no slot idle.
LEMMA ReturnTight ==
  ASSUME NEW t, t \in Teams, Tight(t), NEW a \in Agents, NEW u, u = Return(t, a)
  PROVE  Tight(u)
<1>1. CASE ~Waited(t, a)
  BY <1>1 DEF Return
<1>2. CASE Waited(t, a)
  <2>1. PICK v : v = WaitEnds(t, a)
    OBVIOUS
  <2>2. v \in Teams /\ Shares(t, v)
    BY <2>1 DEF Teams, WaitEnds, Shares, Ending
  <2>3. Tight(v)
    BY <2>2, SharesTight
  <2>4. CASE v.state[a] \in ActiveStates /\ ~Fits(v)
    <3>1. PICK how \in {"on", "rest"} : how = "on"
      OBVIOUS
    <3>2. u = GoOnWhenFree(v, a, how)
      BY <1>2, <2>1, <2>4, <3>1 DEF Return, AfterWait, WaitEnds
    <3> QED
      BY <2>2, <2>4, <3>1, <3>2, LateTight
  <2>5. CASE ~(v.state[a] \in ActiveStates /\ ~Fits(v))
    <3>1. u = v
      BY <1>2, <2>1, <2>5 DEF Return, AfterWait, WaitEnds
    <3> QED
      BY <2>3, <3>1
  <2> QED
    BY <2>4, <2>5
<1> QED
  BY <1>1, <1>2

\* An agent that is resumed takes a free slot, or waits for one.
LEMMA RevivesTight ==
  ASSUME NEW t, t \in Teams, Tight(t), NEW a \in Agents, t.state[a] \in {"idle", "waiting"},
         t.state[a] = "idle" => ~t.blocking[a], NEW s \in {"running", "queued"},
         NEW u, u.state = [t.state EXCEPT ![a] = s], u.parent = t.parent, u.blocking = t.blocking,
         u.resting = t.resting, u.after = t.after, \A b \in Agents : b # a => u.ran[b] = t.ran[b],
         \A b \in Agents : Ending(t, b) => Ending(u, b),
         IF s = "running" THEN u.line = t.line ELSE ~Free(t)
  PROVE  Tight(u)
<1>1. u.state[a] = s /\ \A b \in Agents : b # a => u.state[b] = t.state[b]
  BY DEF Teams
<1>2. \A b \in Agents : Live(t, b) => Live(u, b)
  BY <1>1 DEF Live, LiveStates
<1>3. \A b \in Agents : u.blocking[b] /\ Live(u, b) => Live(t, b)
  BY <1>1 DEF Live, LiveStates
<1>4. Blocked(u) \subseteq Blocked(t)
  BY <1>3 DEF Blocked
<1>5. Working(t) \subseteq Working(u)
  BY <1>1, <1>4 DEF Working, ActiveStates
<1>6. CASE s = "running"
  <2>1. ASSUME NEW b \in Agents, Held(t, b) PROVE Held(u, b)
    <3>1. b # a /\ t.after[b] \in SUBSET Agents
      BY <2>1 DEF Teams, Held
    <3> QED
      BY <1>1, <1>2, <2>1, <3>1 DEF Held, WaitingFor
  <2>2. Busy(t, u)
    BY <1>5, <1>6, <2>1 DEF Busy
  <2> QED
    BY <2>2, BusyTight
<1>7. CASE s = "queued"
  <2>1. Used(t) <= Used(u) /\ Used(t) \in Nat /\ Used(u) \in Nat /\ MaxConcurrent \in Nat
    BY <1>5, WorkingMore, NumbersOf
  <2>2. ~Free(u)
    BY <1>7, <2>1 DEF Free
  <2> QED
    BY <2>2 DEF Tight
<1> QED
  BY <1>6, <1>7

\* a is in line to go on as `how` says, and keeps its mail.
Lined(t, u, a, how) ==
    /\ u.state = [t.state EXCEPT ![a] = "queued"] /\ u.going = [t.going EXCEPT ![a] = how]
    /\ u.inbox = t.inbox /\ u.unread = t.unread /\ u.resume = t.resume /\ u.held = t.held
    /\ u.question = t.question /\ u.wait = t.wait /\ u.owed = t.owed /\ u.prompting = t.prompting
    /\ u.blocking = t.blocking /\ u.opening = t.opening /\ u.overlap = t.overlap
    /\ u.stop = t.stop

\* goOn lines it up.
LEMMA GoOnLined ==
  ASSUME NEW t \in Teams, NEW a \in Agents, NEW how \in {"on", "run", "rest"},
         NEW v, v = [t EXCEPT !.state[a] = "queued"], NEW u, u = GoOn(v, a, how)
  PROVE  Lined(t, u, a, how)
<1>1. PICK l : u = [v EXCEPT !.going[a] = how, !.line = l]
  BY Zenon DEF GoOn
<1> QED
  BY <1>1 DEF Teams, Lined

\* Who works on when a slot is free keeps its mail, and gets none as a prompt.
LEMMA GoOnWhenFreeKept ==
  ASSUME NEW t \in Teams, Posted(t), NEW a \in Agents, t.state[a] \in {"running", "asking"},
         NEW how \in {"on", "rest"}, NEW u, u = GoOnWhenFree(t, a, how)
  PROVE  /\ Posted(u) /\ Apart(t, u, a) /\ Mail(t, a) \subseteq Mail(u, a)
         /\ ~MayGetPrompt(u, a) /\ u.owed = t.owed
         /\ u.state[a] \in {"queued", "running"} /\ (a \in t.prompting => Tidy(u, a))
<1>1. t.going[a] = "no" /\ t.resume[a] = {}
  BY DEF Posted, PostedOf
<1>2. CASE u = Go(t, a, how) /\ how = "on"
  <2>1. u = [t EXCEPT !.state[a] = "running"]
    BY <1>2 DEF Go
  <2>2. /\ u.state = [t.state EXCEPT ![a] = "running"] /\ u.going = t.going
        /\ u.inbox = t.inbox /\ u.unread = t.unread /\ u.resume = t.resume /\ u.held = t.held
        /\ u.question = t.question /\ u.wait = t.wait /\ u.owed = t.owed
        /\ u.prompting = t.prompting
        /\ u.blocking = t.blocking /\ u.opening = t.opening /\ u.overlap = t.overlap
        /\ u.stop = t.stop
    BY <2>1 DEF Teams
  <2>3. Apart(t, u, a) /\ u.state[a] = "running"
    BY <2>2 DEF Teams, Apart, AlikeOf, Ending
  <2>4. PostedOf(u, a) /\ Mail(t, a) \subseteq Mail(u, a) /\ ~MayGetPrompt(u, a)
    BY <1>1, <2>2, <2>3 DEF PostedOf, MayGetPrompt, Mail
  <2>5. Posted(u)
    BY <2>3, <2>4 DEF Posted, PostedOf, Apart, AlikeOf, Ending
  <2>6. a \in t.prompting => Tidy(u, a)
    BY <1>1, <2>2, <2>3 DEF Tidy
  <2> QED
    BY <2>2, <2>3, <2>4, <2>5, <2>6
<1>3. CASE u = Go(t, a, how) /\ how = "rest"
  <2>1. PICK w : w = Onwards(t, a)
    OBVIOUS
  <2>2. /\ w.state = [t.state EXCEPT ![a] = "running"] /\ w.going = t.going
        /\ w.inbox = t.inbox /\ w.unread = t.unread /\ w.resume = t.resume /\ w.held = t.held
        /\ w.question = t.question /\ w.wait = t.wait /\ w.owed = t.owed
        /\ w.prompting = t.prompting /\ w \in Teams
        /\ w.blocking = t.blocking /\ w.opening = t.opening /\ w.overlap = t.overlap
        /\ w.stop = t.stop
    BY <2>1, RunningIs
  <2>3. u = SteerInbox(w, a)
    BY <1>3, <2>1 DEF Go, Onwards
  <2>4. /\ u.state = [t.state EXCEPT ![a] = "running"] /\ u.going = t.going
        /\ u.resume = t.resume /\ u.held = t.held
        /\ u.question = t.question /\ u.wait = t.wait /\ u.owed = t.owed
        /\ u.prompting = t.prompting
        /\ u.blocking = t.blocking /\ u.opening = t.opening /\ u.overlap = t.overlap
        /\ u.stop = t.stop
        /\ \A b \in Agents : b # a => u.inbox[b] = t.inbox[b] /\ u.unread[b] = t.unread[b]
        /\ u.inbox[a] \cup u.unread[a] = t.inbox[a] \cup t.unread[a]
    BY <2>2, <2>3 DEF SteerInbox, Teams
  <2>5. Apart(t, u, a) /\ u.state[a] = "running" /\ Mail(u, a) = Mail(t, a)
    BY <2>4 DEF Teams, Apart, AlikeOf, Ending, Mail
  <2>6. PostedOf(u, a) /\ ~MayGetPrompt(u, a)
    BY <1>1, <2>4, <2>5 DEF PostedOf, MayGetPrompt
  <2>7. Posted(u)
    BY <2>5, <2>6 DEF Posted, PostedOf, Apart, AlikeOf, Ending
  <2>8. a \in t.prompting => Tidy(u, a)
    BY <1>1, <2>4, <2>5 DEF Tidy
  <2> QED
    BY <2>4, <2>5, <2>6, <2>7, <2>8
<1>4. CASE u = GoOn([t EXCEPT !.state[a] = "queued"], a, how)
  <2>1. Lined(t, u, a, how)
    BY <1>4, GoOnLined
  <2>2. Apart(t, u, a) /\ u.state[a] = "queued" /\ u.going[a] = how
    BY <2>1 DEF Teams, Apart, AlikeOf, Ending, Lined
  <2>3. PostedOf(u, a) /\ Mail(t, a) \subseteq Mail(u, a) /\ ~MayGetPrompt(u, a)
    BY <1>1, <2>1, <2>2 DEF PostedOf, MayGetPrompt, Mail, Lined
  <2>4. Posted(u)
    BY <2>2, <2>3 DEF Posted, PostedOf, Apart, AlikeOf, Ending
  <2>5. a \in t.prompting => Tidy(u, a)
    BY <2>1, <2>2 DEF Tidy, Lined
  <2> QED
    BY <2>1, <2>2, <2>3, <2>4, <2>5 DEF Lined
<1> QED
  BY <1>2, <1>3, <1>4 DEF GoOnWhenFree

\* A wait: true call that returns keeps mail.
LEMMA ReturnKept ==
  ASSUME NEW t, NEW x, Good(t, x), Posted(t), NEW a \in Agents, NEW u, u = Return(t, a)
  PROVE  Posted(u) /\ Kept(t, u)
<1>0. t \in Teams /\ Sound(t, x)
  BY DEF Good
<1>1. CASE ~Waited(t, a)
  BY <1>1, KeptMore DEF Return
<1>2. CASE Waited(t, a)
  <2>1. PICK v : v = WaitEnds(t, a)
    OBVIOUS
  <2>2. /\ v \in Teams /\ v.state = t.state /\ v.going = t.going
        /\ v.inbox = t.inbox /\ v.unread = t.unread /\ v.resume = t.resume /\ v.held = t.held
        /\ v.question = t.question /\ v.owed = t.owed /\ v.prompting = t.prompting
        /\ v.blocking = t.blocking /\ v.opening = t.opening /\ v.overlap = t.overlap
        /\ v.stop = t.stop
        /\ v.wait = [t.wait EXCEPT ![a] = NoOne]
    BY <1>0, <2>1 DEF Teams, WaitEnds
  <2>3. t.wait[a] # NoOne /\ t.state[a] \in {"running", "asking"}
    BY <1>0, <1>2 DEF Waited, Sound, Waits
  <2>4. Apart(t, v, a) /\ Posted(v)
    BY <1>0, <2>2 DEF Teams, Apart, AlikeOf, Ending, Posted, PostedOf
  <2>5. u = v \/ u = GoOnWhenFree(v, a, "on")
    BY <1>2, <2>1 DEF Return, AfterWait, WaitEnds
  <2>6. CASE u = v
    <3>1. PostedOf(u, a) /\ KeptOf(t, u, a)
      BY <2>2, <2>3, <2>4, <2>6 DEF Posted, KeptOf, MayGetPrompt, Mail, Works, TidyOf, Tidy, Ending
    <3> QED
      BY <2>4, <2>6, <3>1, AlikeKept
  <2>7. CASE u = GoOnWhenFree(v, a, "on")
    <3>1. PICK how \in {"on", "rest"} : how = "on"
      OBVIOUS
    <3>2. /\ Posted(u) /\ Apart(v, u, a) /\ Mail(v, a) \subseteq Mail(u, a)
          /\ ~MayGetPrompt(u, a) /\ u.owed = v.owed
          /\ u.state[a] \in {"queued", "running"} /\ (a \in v.prompting => Tidy(u, a))
      BY <2>2, <2>3, <2>4, <2>7, <3>1, GoOnWhenFreeKept
    <3>3. Apart(t, u, a)
      BY <2>4, <3>2 DEF Apart, AlikeOf, Ending
    <3>4. TidyOf(t, u, a)
      <4>1. Tidy(t, a) => a \in v.prompting
        BY <2>2, <2>3 DEF Tidy
      <4> QED
        BY <3>2, <4>1 DEF TidyOf
    <3>5. KeptOf(t, u, a)
      BY <2>2, <2>3, <3>2, <3>4 DEF KeptOf, Mail, Works
    <3> QED
      BY <3>2, <3>3, <3>5, AlikeKept DEF Posted
  <2> QED
    BY <2>5, <2>6, <2>7
<1> QED
  BY <1>1, <1>2

\* All that may return keep it.
LEMMA ReturnedKept ==
  ASSUME NEW t, NEW x, Good(t, x), Posted(t)
  PROVE  Posted(Returned(t)) /\ Kept(t, Returned(t))
<1> DEFINE n == Cardinality(Agents)
           G == {u \in Teams : Good(u, x) /\ Posted(u) /\ Kept(t, u)}
           X == [s \in SUBSET (1 .. n) |-> G]
<1>1. PICK line : line = InOrder(Agents)
  OBVIOUS
<1>2. n \in Nat /\ DOMAIN line = 1 .. n /\ line \in [1 .. n -> Agents]
  BY <1>1, InOrderLists
<1>3. t \in X[{}]
  BY KeptMore DEF Good
<1>4. ASSUME NEW s \in SUBSET (1 .. n), NEW i \in (1 .. n) \ s, NEW v \in X[s]
      PROVE  Return(v, line[i]) \in X[s \cup {i}]
  <2>1. Good(v, x) /\ Posted(v) /\ Kept(t, v) /\ line[i] \in Agents
    BY <1>2
  <2>2. PICK u : u = Return(v, line[i])
    OBVIOUS
  <2>3. Good(u, x)
    BY <2>1, <2>2, ReturnGood
  <2>4. Posted(u) /\ Kept(v, u)
    BY <2>1, <2>2, ReturnKept
  <2>5. Kept(t, u)
    BY <2>1, <2>4, KeptMore
  <2> QED
    BY <2>2, <2>3, <2>4, <2>5 DEF Good
<1>5. FoldLeft(Return, t, line) \in X[1 .. n]
  <2> HIDE DEF X, n
  <2> QED BY <1>2, <1>3, <1>4, FoldReturn
<1> QED
  BY <1>1, <1>5 DEF Returned

\* The end of a question keeps mail.
LEMMA EndQuestionKept ==
  ASSUME NEW t, NEW x, Good(t, x), Posted(t), NEW a \in Agents, t.question[a] # NoOne,
         NEW u, u = EndQuestion(t, a)
  PROVE  Posted(u) /\ Kept(t, u) /\ Tight(u)
<1>0. t \in Teams /\ Sound(t, x) /\ Few(t)
  BY DEF Good
<1>1. PICK d : d = Question(t, a, NoOne)
  OBVIOUS
<1>2. Good(d, x)
  BY <1>1, QuestionSound
<1>3. d \in Teams /\ Sound(d, x) /\ Few(d)
  BY <1>2 DEF Good
<1>4. /\ d.state = t.state /\ d.going = t.going
      /\ d.inbox = t.inbox /\ d.unread = t.unread /\ d.resume = t.resume /\ d.held = t.held
      /\ d.question = [t.question EXCEPT ![a] = NoOne] /\ d.wait = t.wait /\ d.owed = t.owed
      /\ d.prompting = t.prompting /\ d.stop = t.stop
      /\ d.blocking = t.blocking /\ d.opening = t.opening /\ d.overlap = t.overlap
      /\ d.stop = t.stop
  BY <1>0, <1>1 DEF Teams, Question
<1>5. t.state[a] = "asking"
  BY <1>0 DEF Sound, Asks
<1>6. Apart(t, d, a) /\ Posted(d)
  BY <1>0, <1>4 DEF Teams, Apart, AlikeOf, Ending, Posted, PostedOf
<1>9. CASE Ending(t, a) /\ u = Pump(d)
  <2>1. TidyOf(t, d, a)
    BY <1>4, <1>9 DEF TidyOf, Tidy, Ending
  <2>2. KeptOf(t, d, a)
    BY <1>4, <2>1 DEF KeptOf, MayGetPrompt, Mail, Works, Prompted
  <2>3. Kept(t, d)
    BY <1>6, <2>2, AlikeKept DEF Posted
  <2> QED
    BY <1>3, <1>6, <1>9, <2>3, PumpKept, PumpTight, KeptMore
<1>10. CASE ~Ending(t, a) /\ u = Pump(GoOnWhenFree(d, a, "on"))
  <2>1. PICK how \in {"on", "rest"} : how = "on"
    OBVIOUS
  <2>2. PICK v : v = GoOnWhenFree(d, a, how)
    OBVIOUS
  <2>3. /\ Posted(v) /\ Apart(d, v, a) /\ Mail(d, a) \subseteq Mail(v, a)
        /\ ~MayGetPrompt(v, a) /\ v.owed = d.owed
        /\ v.state[a] \in {"queued", "running"} /\ (a \in d.prompting => Tidy(v, a))
    BY <1>3, <1>4, <1>5, <1>6, <2>2, GoOnWhenFreeKept
  <2>4. Apart(t, v, a)
    BY <1>6, <2>3 DEF Apart, AlikeOf, Ending
  <2>5. KeptOf(t, v, a)
    <3>1. TidyOf(t, v, a)
      BY <1>4, <1>5, <2>3 DEF TidyOf, Tidy
    <3> QED
      BY <1>4, <2>3, <3>1 DEF KeptOf, Mail, Works, Prompted
  <2>6. Kept(t, v)
    BY <2>3, <2>4, <2>5, AlikeKept DEF Posted
  <2>7. MayGo(d, a)
    <3>1. d.question[a] = NoOne /\ d.wait[a] = NoOne
      BY <1>0, <1>4 DEF Teams, Sound, Waits
    <3> QED
      BY <1>3, <1>4, <1>5, <1>10, <3>1 DEF MayGo, Known, Ending, Sound, Opens
  <2>8. v \in Teams /\ Sound(v, x)
    BY <1>3, <2>2, <2>7, GoOnWhenFreeSound
  <2>9. u = Pump(v)
    BY <1>10, <2>1, <2>2
  <2> QED
    BY <2>3, <2>6, <2>8, <2>9, PumpKept, PumpTight, KeptMore
<1> QED
  BY <1>1, <1>5, <1>9, <1>10 DEF EndQuestion, Question

\* Who started a run is not what mail goes by.
LEMMA StartedByAlike ==
  ASSUME NEW t \in Teams, NEW a \in Agents, NEW peer, NEW u, u = StartedBy(t, a, peer)
  PROVE  Alike(t, u)
<1>1. CASE peer
  BY <1>1 DEF StartedBy, Teams, Alike, AlikeOf, Ending
<1>2. CASE ~peer
  BY <1>2 DEF StartedBy, Teams, Alike, AlikeOf, Ending
<1> QED
  BY <1>1, <1>2

\* relaunch keeps mail: its inbox is the prompt of the launch.
LEMMA RelaunchKept ==
  ASSUME NEW t \in Teams, NEW x, Sound(t, x), Few(t), Posted(t), NEW a \in Agents, Pauses(t, a),
         NEW from \in Actors, NEW peer, NEW u, u = Relaunch(t, a, from, peer)
  PROVE  Posted(u) /\ Kept(t, u) /\ Tight(u)
<1>1. PICK s : s = IF t.state[a] = "waiting" THEN t ELSE StartedBy(t, a, peer)
  OBVIOUS
<1>2. s \in Teams /\ Alike(t, s)
  <2>1. Alike(t, t)
    BY DEF Alike, AlikeOf, Ending
  <2> QED
    BY <1>1, <2>1, StartedBySame, StartedByAlike
<1>3. PICK v : v = Resumed(t, a, from, s)
  OBVIOUS
<1>4. PICK b, mail : b = Reenters(t, a) /\ mail = t.inbox[a] \cup {from}
  OBVIOUS
<1>5. v = [s EXCEPT !.resume[a] = mail, !.inbox[a] = {},
                    !.state[a] = "queued", !.reentered = @ \/ b]
  BY <1>3, <1>4 DEF Resumed
<1>6. /\ v.state = [s.state EXCEPT ![a] = "queued"] /\ v.going = s.going
      /\ v.inbox = [s.inbox EXCEPT ![a] = {}] /\ v.unread = s.unread
      /\ v.resume = [s.resume EXCEPT ![a] = mail] /\ v.held = s.held
      /\ v.question = s.question /\ v.wait = s.wait /\ v.owed = s.owed
      /\ v.prompting = s.prompting
      /\ v.blocking = s.blocking /\ v.opening = s.opening /\ v.overlap = s.overlap
      /\ v.stop = s.stop
  BY <1>2, <1>5 DEF Teams
<1>7. Apart(s, v, a) /\ v.state[a] = "queued" /\ v.resume[a] = mail
  BY <1>2, <1>6 DEF Teams, Apart, AlikeOf, Ending
<1>8. Apart(t, v, a)
  BY <1>2, <1>7 DEF Apart, Alike, AlikeOf, Ending
<1>9. t.going[a] = "no" /\ t.resume[a] = {} /\ t.state[a] \notin {"queued", "running", "asking"}
  BY DEF Posted, PostedOf, Pauses
<1>10. AlikeOf(t, s, a)
  BY <1>2 DEF Alike
<1>11. PostedOf(v, a) /\ KeptOf(t, v, a)
  BY <1>4, <1>6, <1>7, <1>9, <1>10
     DEF AlikeOf, PostedOf, KeptOf, MayGetPrompt, Mail, Works, Prompted, TidyOf, Tidy, Ending
<1>12. Posted(v) /\ Kept(t, v)
  BY <1>8, <1>11, AlikeKept
<1>13. PICK w : w = Enqueue(v, a, FALSE)
  OBVIOUS
<1>14. w \in Teams /\ Sound(w, x)
  BY <1>1, <1>3, <1>13, ResumedSound
<1>15. Alike(v, w)
  BY <1>13 DEF Enqueue, Alike, AlikeOf, Ending
<1>16. u = Pump(w)
  BY <1>1, <1>3, <1>13 DEF Relaunch, Resumed
<1> QED
  <2>1. Posted(w) /\ Kept(t, w)
    BY <1>12, <1>15, AlikeKept, KeptMore
  <2>2. Posted(u) /\ Kept(w, u) /\ Tight(u)
    BY <1>14, <1>16, <2>1, PumpKept, PumpTight
  <2> QED
    BY <2>1, <2>2, KeptMore

\* Its session works on a prompt, or it is in line to do so with its mail.
LEMMA RunIs ==
  ASSUME NEW t \in Teams, NEW a \in Agents, t.held[a], NEW u, u = Run(t, a)
  PROVE  /\ u.state = [t.state EXCEPT ![a] = "running"] /\ u.going = t.going
         /\ u.inbox = t.inbox /\ u.unread = t.unread /\ u.resume = t.resume
         /\ u.held = t.held /\ u.question = t.question /\ u.wait = t.wait
         /\ u.owed = t.owed /\ u.prompting = t.prompting \cup {a}
         /\ u.blocking = t.blocking /\ u.opening = t.opening /\ u.overlap = t.overlap
         /\ u.stop = t.stop
BY DEF Teams, Run

\* It is in line to run with its mail.
AwaitsRun(t, a, mail, l) ==
    [t EXCEPT !.inbox[a] = @ \cup mail, !.state[a] = "queued", !.going[a] = "run", !.line = l]

\* That is all that changes.
LEMMA AwaitsIs ==
  ASSUME NEW t \in Teams, NEW a \in Agents, NEW mail, NEW l, NEW u, u = AwaitsRun(t, a, mail, l)
  PROVE  /\ u.state = [t.state EXCEPT ![a] = "queued"]
         /\ u.going = [t.going EXCEPT ![a] = "run"]
         /\ u.inbox = [t.inbox EXCEPT ![a] = t.inbox[a] \cup mail]
         /\ u.unread = t.unread /\ u.resume = t.resume
         /\ u.held = t.held /\ u.question = t.question /\ u.wait = t.wait
         /\ u.owed = t.owed /\ u.prompting = t.prompting
         /\ u.blocking = t.blocking /\ u.opening = t.opening /\ u.overlap = t.overlap
         /\ u.stop = t.stop
BY DEF Teams, AwaitsRun

\* A session that goes on with a message, at once or from the line, has the mail of its inbox.
LEMMA RunWhenFreeKept ==
  ASSUME NEW t \in Teams, NEW x, Sound(t, x), Posted(t), NEW a \in Agents, t.held[a],
         t.state[a] \in {"idle", "waiting"}, NEW s \in Teams, Alike(t, s),
         NEW mail \in SUBSET Actors, t.inbox[a] \subseteq mail, NEW v, v = Fresh(t, a, s, {}),
         NEW u, u = RunWhenFree(v, a, mail)
  PROVE  Posted(u) /\ Kept(t, u)
<1>1. PICK b : b = Reenters(t, a)
  OBVIOUS
<1>2. v = Mended(s, a, {}, b) /\ b \in BOOLEAN
  BY <1>1 DEF Fresh, Mended, Reenters
<1>3. v \in Teams
  BY <1>2, MendedSame
<1>4. /\ v.state = s.state /\ v.going = s.going
      /\ v.inbox = [s.inbox EXCEPT ![a] = {}] /\ v.unread = s.unread
      /\ v.resume = s.resume /\ v.held = s.held
      /\ v.question = s.question /\ v.wait = s.wait /\ v.owed = s.owed
      /\ v.prompting = s.prompting
      /\ v.blocking = s.blocking /\ v.opening = s.opening /\ v.overlap = s.overlap
      /\ v.stop = s.stop
  BY <1>2 DEF Teams, Mended
<1>5. Apart(t, v, a) /\ v.inbox[a] = {}
  BY <1>4 DEF Teams, Apart, Alike, AlikeOf, Ending
<1>6. AlikeOf(t, s, a) /\ t.going[a] = "no" /\ t.resume[a] = {}
      /\ t.question[a] = NoOne /\ t.wait[a] = NoOne /\ MayGetPrompt(t, a)
  BY DEF Alike, Posted, PostedOf, MayGetPrompt, Sound, Asks, Waits
<1>7. CASE u = Run(v, a)
  <2>1. v.held[a]
    BY <1>4, <1>6 DEF AlikeOf
  <2>3. /\ u.state = [v.state EXCEPT ![a] = "running"] /\ u.going = v.going
        /\ u.inbox = v.inbox /\ u.unread = v.unread /\ u.resume = v.resume /\ u.held = v.held
        /\ u.question = v.question /\ u.wait = v.wait /\ u.owed = v.owed
        /\ u.prompting = v.prompting \cup {a}
        /\ u.blocking = v.blocking /\ u.opening = v.opening /\ u.overlap = v.overlap
        /\ u.stop = v.stop
    BY <1>3, <1>7, <2>1, RunIs
  <2>4. Apart(v, u, a) /\ u.state[a] = "running"
    BY <1>3, <2>3 DEF Teams, Apart, AlikeOf, Ending
  <2>5. Apart(t, u, a)
    BY <1>5, <2>4 DEF Apart, AlikeOf, Ending
  <2>6. PostedOf(u, a) /\ KeptOf(t, u, a)
    BY <1>4, <1>6, <2>3, <2>4 DEF AlikeOf, PostedOf, KeptOf, Works, Prompted, TidyOf, Tidy, Ending
  <2> QED
    BY <2>5, <2>6, AlikeKept
<1>8. CASE u = GoOn([v EXCEPT !.inbox[a] = @ \cup mail, !.state[a] = "queued"], a, "run")
  <2>1. PICK l : u = AwaitsRun(v, a, mail, l)
    BY Zenon, <1>8 DEF GoOn, AwaitsRun
  <2>2. /\ u.state = [v.state EXCEPT ![a] = "queued"] /\ u.going = [v.going EXCEPT ![a] = "run"]
        /\ u.inbox = [v.inbox EXCEPT ![a] = v.inbox[a] \cup mail] /\ u.unread = v.unread
        /\ u.resume = v.resume /\ u.held = v.held
        /\ u.question = v.question /\ u.wait = v.wait /\ u.owed = v.owed
        /\ u.prompting = v.prompting
        /\ u.blocking = v.blocking /\ u.opening = v.opening /\ u.overlap = v.overlap
        /\ u.stop = v.stop
    BY SMTT(30), <1>3, <2>1, AwaitsIs
  <2>3. Apart(v, u, a) /\ u.state[a] = "queued" /\ u.going[a] = "run"
        /\ u.inbox[a] = v.inbox[a] \cup mail
    BY <1>3, <2>2 DEF Teams, Apart, AlikeOf, Ending
  <2>4. Apart(t, u, a)
    BY <1>5, <2>3 DEF Apart, AlikeOf, Ending
  <2>5. Mail(t, a) \subseteq Mail(u, a)
    <3>1. u.unread[a] = t.unread[a] /\ t.resume[a] = {}
      BY <1>4, <1>6, <2>2 DEF AlikeOf
    <3>2. t.inbox[a] \subseteq u.inbox[a]
      BY <2>3
    <3> QED
      BY <3>1, <3>2 DEF Mail
  <2>6. u.held[a] /\ u.resume[a] = {} /\ u.owed[a] = t.owed[a]
    <3>1. s.held[a] = t.held[a] /\ s.resume[a] = t.resume[a] /\ s.owed[a] = t.owed[a]
      BY <1>6 DEF AlikeOf
    <3>2. u.held = s.held /\ u.resume = s.resume /\ u.owed = s.owed
      BY <1>4, <2>2
    <3>3. t.resume[a] = {}
      BY <1>6
    <3> QED
      BY <3>1, <3>2, <3>3
  <2>7. PostedOf(u, a)
    BY <2>3, <2>6 DEF PostedOf
  <2>8. KeptOf(t, u, a)
    <3>1. TidyOf(t, u, a)
      BY <2>3 DEF TidyOf, Tidy
    <3> QED
      BY <1>6, <2>5, <2>6, <3>1 DEF KeptOf, Works, Prompted
  <2> QED
    BY <2>4, <2>7, <2>8, AlikeKept
<1> QED
  BY <1>7, <1>8 DEF RunWhenFree

\* Mail that waits is kept, and so is that of an agent that gives its session back.
LEMMA MailKept ==
  ASSUME NEW t \in Teams, Posted(t), NEW a \in Agents, NEW mail \in SUBSET Actors
  PROVE  /\ t.inbox[a] \subseteq mail => Posted(Inbox(t, a, mail)) /\ Kept(t, Inbox(t, a, mail))
         /\ t.unread[a] \subseteq mail => Posted(Unread(t, a, mail)) /\ Kept(t, Unread(t, a, mail))
<1>1. ASSUME NEW u, u = Inbox(t, a, mail), t.inbox[a] \subseteq mail PROVE Posted(u) /\ Kept(t, u)
  <2>1. /\ u.state = t.state /\ u.going = t.going
        /\ u.inbox = [t.inbox EXCEPT ![a] = mail] /\ u.unread = t.unread
        /\ u.resume = t.resume /\ u.held = t.held
        /\ u.question = t.question /\ u.wait = t.wait /\ u.owed = t.owed
        /\ u.prompting = t.prompting
        /\ u.blocking = t.blocking /\ u.opening = t.opening /\ u.overlap = t.overlap
        /\ u.stop = t.stop
    BY <1>1 DEF Teams, Inbox
  <2>2. Apart(t, u, a) /\ u.inbox[a] = mail
    BY <2>1 DEF Teams, Apart, AlikeOf, Ending
  <2>3. PostedOf(u, a) /\ KeptOf(t, u, a)
    BY <1>1, <2>1, <2>2
        DEF Posted, PostedOf, KeptOf, MayGetPrompt, Mail, Works, Prompted, TidyOf, Tidy, Ending
  <2> QED
    BY <2>2, <2>3, AlikeKept
<1>2. ASSUME NEW u, u = Unread(t, a, mail), t.unread[a] \subseteq mail PROVE Posted(u) /\ Kept(t, u)
  <2>1. /\ u.state = t.state /\ u.going = t.going
        /\ u.unread = [t.unread EXCEPT ![a] = mail] /\ u.inbox = t.inbox
        /\ u.resume = t.resume /\ u.held = t.held
        /\ u.question = t.question /\ u.wait = t.wait /\ u.owed = t.owed
        /\ u.prompting = t.prompting
        /\ u.blocking = t.blocking /\ u.opening = t.opening /\ u.overlap = t.overlap
        /\ u.stop = t.stop
    BY <1>2 DEF Teams, Unread
  <2>2. Apart(t, u, a) /\ u.unread[a] = mail
    BY <2>1 DEF Teams, Apart, AlikeOf, Ending
  <2>3. PostedOf(u, a) /\ KeptOf(t, u, a)
    BY <1>2, <2>1, <2>2
        DEF Posted, PostedOf, KeptOf, MayGetPrompt, Mail, Works, Prompted, TidyOf, Tidy, Ending
  <2> QED
    BY <2>2, <2>3, AlikeKept
<1> QED
  BY <1>1, <1>2

\* Giving the session of an agent that ended back keeps mail.
LEMMA GivenBackKept ==
  ASSUME NEW t \in Teams, Posted(t), NEW a \in Agents, NEW u, u = GivenBack(t, a)
  PROVE  Posted(u) /\ Kept(t, u)
<1>1. PICK b : b = (t.held[a] /\ ~Ended(t, a))
  OBVIOUS
<1>2. u = [t EXCEPT !.held[a] = b]
  BY <1>1 DEF GivenBack
<1>3. /\ u.state = t.state /\ u.going = t.going /\ u.unread = t.unread /\ u.inbox = t.inbox
      /\ u.resume = t.resume /\ u.held = [t.held EXCEPT ![a] = b]
      /\ u.question = t.question /\ u.wait = t.wait /\ u.owed = t.owed
      /\ u.prompting = t.prompting
      /\ u.blocking = t.blocking /\ u.opening = t.opening /\ u.overlap = t.overlap
      /\ u.stop = t.stop
  BY <1>2 DEF Teams
<1>4. Apart(t, u, a) /\ u.held[a] = b
  BY <1>3 DEF Teams, Apart, AlikeOf, Ending
<1>5. PostedOf(t, a)
  BY DEF Posted
<1>6. PostedOf(u, a)
  BY <1>1, <1>3, <1>4, <1>5 DEF PostedOf, Ended, EndedStates
<1>7. KeptOf(t, u, a)
  BY <1>1, <1>3, <1>4 DEF KeptOf, MayGetPrompt, Mail, Works, Prompted, TidyOf, Tidy, Ending
<1> QED
  BY <1>4, <1>6, <1>7, AlikeKept

\* wake keeps mail.
LEMMA WakeKept ==
  ASSUME NEW t \in Teams, NEW x, Sound(t, x), Few(t), Posted(t), NEW from \in Actors,
         NEW a \in Agents, NEW resumes, NEW peer, NEW u, u = Wake(t, from, a, resumes, peer)
  PROVE  Posted(u) /\ Kept(t, u)
<1>1. PICK mail : mail = t.inbox[a] \cup {from}
  OBVIOUS
<1>2. mail \in SUBSET Actors /\ t.inbox[a] \subseteq mail
  BY <1>1 DEF Teams
<1>3. PICK r : r = GivenBack(t, a)
  OBVIOUS
<1>4. r \in Teams /\ Same(t, r) /\ r.state = t.state /\ (r.held[a] => t.held[a] /\ ~Ended(t, a))
  BY <1>3, ReleasedSame
<1>5. CASE u = Inbox(t, a, mail)
  BY <1>2, <1>5, MailKept
<1>6. CASE (t.state[a] \in Paused \/ Ended(t, a)) /\ u = Relaunch(r, a, from, peer)
  <2>1. Sound(r, x) /\ Few(r)
    BY <1>4, SameServes
  <2>2. Pauses(r, a)
    BY <1>4, <1>6 DEF Pauses, Paused, Ended, EndedStates
  <2>3. Posted(r) /\ Kept(t, r)
    BY <1>3, GivenBackKept
  <2>4. Posted(u) /\ Kept(r, u)
    BY <1>4, <1>6, <2>1, <2>2, <2>3, RelaunchKept
  <2> QED
    BY <2>3, <2>4, KeptMore
<1>7. CASE /\ t.state[a] \in Paused \/ Ended(t, a)
           /\ r.held[a] /\ t.state[a] # "interrupted"
           /\ u = RunWhenFree(Fresh(t, a, IF t.state[a] = "idle"
                                          THEN StartedBy(t, a, peer) ELSE t, {}), a, mail)
  <2>1. PICK s : s = IF t.state[a] = "idle" THEN StartedBy(t, a, peer) ELSE t
    OBVIOUS
  <2>2. Alike(t, t)
    BY DEF Alike, AlikeOf, Ending
  <2>3. s \in Teams /\ Alike(t, s)
    BY <2>1, <2>2, StartedBySame, StartedByAlike
  <2>4. t.held[a] /\ t.state[a] \in {"idle", "waiting"}
    BY <1>4, <1>7 DEF Paused
  <2> QED
    BY <1>2, <1>7, <2>1, <2>3, <2>4, RunWhenFreeKept
<1>8. u = IF ~resumes \/ ~(t.state[a] \in Paused \/ Ended(t, a))
          THEN Inbox(t, a, mail)
        ELSE IF ~r.held[a]
          THEN Relaunch(r, a, from, peer)
        ELSE IF t.state[a] # "interrupted"
          THEN RunWhenFree(Fresh(t, a, IF t.state[a] = "idle"
                                       THEN StartedBy(t, a, peer) ELSE t, {}), a, mail)
        ELSE Inbox(t, a, mail)
  BY <1>1, <1>3 DEF Wake, GivenBack, Fresh, Inbox
<1> QED
  BY <1>5, <1>6, <1>7, <1>8

\* So does deliver.
LEMMA DeliverKept ==
  ASSUME NEW t, NEW x, Good(t, x), Posted(t), NEW from \in Actors, NEW a \in Agents,
         NEW wakes, NEW u, u = Deliver(t, from, a, wakes)
  PROVE  Posted(u) /\ Kept(t, u)
<1>0. t \in Teams /\ Sound(t, x) /\ Few(t)
  BY DEF Good
<1>1. PICK s : s = IF from \in {Main, t.parent[a]} THEN [t EXCEPT !.peerRuns = @ \ {a}] ELSE t
  OBVIOUS
<1>2. s \in Teams /\ Same(t, s) /\ Alike(t, s)
  <2>1. CASE from \in {Main, t.parent[a]}
    BY <1>0, <1>1, <2>1 DEF Teams, Same, Stays, Keeps, SameFrames, Ending, Alike, AlikeOf, Ending
  <2>2. CASE from \notin {Main, t.parent[a]}
    BY <1>0, <1>1, <2>2 DEF Same, Stays, Keeps, SameFrames, Alike, AlikeOf, Ending
  <2> QED
    BY <2>1, <2>2
<1>3. Sound(s, x) /\ Few(s) /\ Posted(s) /\ Kept(t, s)
  BY <1>0, <1>2, SameServes, AlikeKept
<1>4. CASE u = t
  BY <1>4, KeptMore
<1>5. CASE u = Unread(s, a, s.unread[a] \cup {from})
  <2>1. PICK mail : mail = s.unread[a] \cup {from}
    OBVIOUS
  <2>2. mail \in SUBSET Actors /\ s.unread[a] \subseteq mail
    BY <1>2, <2>1 DEF Teams
  <2>3. Posted(u) /\ Kept(s, u)
    BY <1>2, <1>3, <1>5, <2>1, <2>2, MailKept
  <2> QED
    BY <1>3, <2>3, KeptMore
<1>6. CASE u = Wake(s, from, a, wakes \/ from \in {Main, t.parent[a]}, IsPeer(t, from, a))
  <2>1. Posted(u) /\ Kept(s, u)
    BY <1>2, <1>3, <1>6, WakeKept
  <2> QED
    BY <1>3, <2>1, KeptMore
<1>7. \/ u = t
      \/ u = Unread(s, a, s.unread[a] \cup {from})
      \/ u = Wake(s, from, a, wakes \/ from \in {Main, t.parent[a]}, IsPeer(t, from, a))
  BY <1>1 DEF Deliver, Unread
<1> QED
  BY <1>4, <1>5, <1>6, <1>7

\* A session that goes on with a message leaves no slot idle.
LEMMA RunWhenFreeTight ==
  ASSUME NEW t, t \in Teams, Tight(t), NEW a \in Agents, t.held[a],
         t.state[a] \in {"idle", "waiting"}, t.state[a] = "idle" => ~t.blocking[a],
         NEW mail, NEW u, u = RunWhenFree(t, a, mail)
  PROVE  Tight(u)
<1>1. CASE Free(t)
  <2>1. u = Run(t, a)
    BY <1>1 DEF RunWhenFree
  <2>2. /\ u.state = [t.state EXCEPT ![a] = "running"] /\ u.ran = [t.ran EXCEPT ![a] = TRUE]
        /\ u.parent = t.parent /\ u.blocking = t.blocking /\ u.resting = t.resting
        /\ u.after = t.after /\ u.stop = t.stop /\ u.line = t.line
    BY <2>1 DEF Run, Teams
  <2>3. \A b \in Agents : b # a => u.ran[b] = t.ran[b]
    BY <2>2 DEF Teams
  <2>4. PICK s \in {"running", "queued"} : s = "running"
    OBVIOUS
  <2>5. /\ u.state = [t.state EXCEPT ![a] = s] /\ \A b \in Agents : Ending(t, b) => Ending(u, b)
        /\ IF s = "running" THEN u.line = t.line ELSE ~Free(t)
    BY <2>2, <2>4 DEF Ending
  <2> QED
    BY ZenonT(40), <2>2, <2>3, <2>5, RevivesTight
<1>2. CASE ~Free(t)
  <2>1. u = GoOn([t EXCEPT !.inbox[a] = @ \cup mail, !.state[a] = "queued"], a, "run")
    BY <1>2 DEF RunWhenFree
  <2>2. PICK l : u = AwaitsRun(t, a, mail, l)
    BY Zenon, <2>1 DEF GoOn, AwaitsRun
  <2>3. /\ u.state = [t.state EXCEPT ![a] = "queued"] /\ u.ran = t.ran
        /\ u.parent = t.parent /\ u.blocking = t.blocking /\ u.resting = t.resting
        /\ u.after = t.after /\ u.stop = t.stop
    <3>1. u.state = [t.state EXCEPT ![a] = "queued"]
      BY <2>2 DEF AwaitsRun, Teams
    <3>2. u.ran = t.ran /\ u.parent = t.parent /\ u.blocking = t.blocking
      BY <2>2 DEF AwaitsRun, Teams
    <3>3. u.resting = t.resting /\ u.after = t.after /\ u.stop = t.stop
      BY <2>2 DEF AwaitsRun, Teams
    <3> QED
      BY <3>1, <3>2, <3>3
  <2>4. PICK s \in {"running", "queued"} : s = "queued"
    OBVIOUS
  <2>5. /\ u.state = [t.state EXCEPT ![a] = s] /\ \A b \in Agents : Ending(t, b) => Ending(u, b)
        /\ IF s = "running" THEN u.line = t.line ELSE ~Free(t)
        /\ \A b \in Agents : b # a => u.ran[b] = t.ran[b]
    BY <1>2, <2>3, <2>4 DEF Ending
  <2> QED
    BY <2>3, <2>5, RevivesTight
<1> QED
  BY <1>1, <1>2

\* Neither does wake.
LEMMA WakeTight ==
  ASSUME NEW t, t \in Teams, NEW x, Sound(t, x), Few(t), Posted(t), Tight(t), NEW from \in Actors,
         NEW a \in Agents, t.state[a] = "idle" => ~t.blocking[a], NEW resumes, NEW peer,
         NEW u, u = Wake(t, from, a, resumes, peer)
  PROVE  Tight(u)
<1>1. PICK mail : mail = t.inbox[a] \cup {from}
  OBVIOUS
<1>2. PICK r : r = GivenBack(t, a)
  OBVIOUS
<1>3. r \in Teams /\ Same(t, r) /\ r.state = t.state /\ (r.held[a] => t.held[a] /\ ~Ended(t, a))
  BY <1>2, ReleasedSame
<1>4. CASE u = Inbox(t, a, mail)
  <2>1. u.ran = t.ran /\ Shares(t, u)
    BY <1>4 DEF Inbox, Teams, Shares, Ending
  <2> QED
    BY <2>1, SharesTight
<1>5. CASE (t.state[a] \in Paused \/ Ended(t, a)) /\ u = Relaunch(r, a, from, peer)
  <2>1. Sound(r, x) /\ Few(r)
    BY <1>3, SameServes
  <2>2. Pauses(r, a)
    BY <1>3, <1>5 DEF Pauses, Paused, Ended, EndedStates
  <2>3. Posted(r)
    BY <1>2, GivenBackKept
  <2> QED
    BY <1>3, <1>5, <2>1, <2>2, <2>3, RelaunchKept
<1>6. CASE /\ t.state[a] \in Paused \/ Ended(t, a)
           /\ r.held[a] /\ t.state[a] # "interrupted"
           /\ u = RunWhenFree(Fresh(t, a, IF t.state[a] = "idle"
                                          THEN StartedBy(t, a, peer) ELSE t, {}), a, mail)
  <2>1. PICK s : s = IF t.state[a] = "idle" THEN StartedBy(t, a, peer) ELSE t
    OBVIOUS
  <2>2. s \in Teams /\ Same(t, s) /\ s.ran = t.ran /\ s.held = t.held
    <3>1. CASE s = t
      BY <3>1 DEF Same, Stays, Keeps, SameFrames
    <3>2. CASE s = StartedBy(t, a, peer)
      <4>1. s.ran = t.ran /\ s.held = t.held
        BY <3>2 DEF StartedBy, Teams
      <4> QED
        BY <3>2, <4>1, StartedBySame
    <3> QED
      BY <2>1, <3>1, <3>2
  <2>3. PICK b : b = Reenters(t, a)
    OBVIOUS
  <2>4. PICK none \in SUBSET Actors : none = {}
    OBVIOUS
  <2>5. PICK v : v = Mended(s, a, none, b)
    OBVIOUS
  <2>6. b \in BOOLEAN
    BY <2>3 DEF Reenters
  <2>7. v \in Teams /\ Same(s, v)
    BY <2>2, <2>5, <2>6, MendedSame
  <2>8. v.ran = s.ran /\ v.held = s.held
    BY <2>2, <2>5 DEF Mended, Teams
  <2>9. Tight(s)
    BY <2>2, SameTight
  <2>10. Tight(v)
    BY <2>2, <2>7, <2>8, <2>9, SameTight
  <2>11. u = RunWhenFree(v, a, mail)
    BY <1>6, <2>1, <2>3, <2>4, <2>5 DEF Fresh, Mended
  <2>12. v.state = t.state /\ v.blocking = t.blocking /\ v.held = t.held
    BY <2>2, <2>7, <2>8 DEF Same, Stays, Keeps
  <2>13. v.held[a] /\ v.state[a] \in {"idle", "waiting"}
    BY <1>3, <1>6, <2>12 DEF Paused
  <2> QED
    BY <2>7, <2>10, <2>11, <2>12, <2>13, RunWhenFreeTight
<1>7. u = IF ~resumes \/ ~(t.state[a] \in Paused \/ Ended(t, a))
          THEN Inbox(t, a, mail)
        ELSE IF ~r.held[a]
          THEN Relaunch(r, a, from, peer)
        ELSE IF t.state[a] # "interrupted"
          THEN RunWhenFree(Fresh(t, a, IF t.state[a] = "idle"
                                       THEN StartedBy(t, a, peer) ELSE t, {}), a, mail)
        ELSE Inbox(t, a, mail)
  BY <1>1, <1>2 DEF Wake, GivenBack, Fresh, Inbox
<1> QED
  BY <1>4, <1>5, <1>6, <1>7

\* Nor deliver.
LEMMA DeliverTight ==
  ASSUME NEW t, NEW x, Good(t, x), Posted(t), Tight(t), NEW from \in Actors, NEW a \in Agents,
         t.state[a] = "idle" => ~t.blocking[a], NEW wakes, NEW u, u = Deliver(t, from, a, wakes)
  PROVE  Tight(u)
<1>0. t \in Teams /\ Sound(t, x) /\ Few(t)
  BY DEF Good
<1>1. PICK s : s = IF from \in {Main, t.parent[a]} THEN [t EXCEPT !.peerRuns = @ \ {a}] ELSE t
  OBVIOUS
<1>2. s \in Teams /\ Same(t, s) /\ Alike(t, s) /\ s.ran = t.ran
  <2>1. CASE from \in {Main, t.parent[a]}
    BY <1>0, <1>1, <2>1 DEF Teams, Same, Stays, Keeps, SameFrames, Ending, Alike, AlikeOf, Ending
  <2>2. CASE from \notin {Main, t.parent[a]}
    BY <1>0, <1>1, <2>2 DEF Same, Stays, Keeps, SameFrames, Alike, AlikeOf, Ending
  <2> QED
    BY <2>1, <2>2
<1>3. Sound(s, x) /\ Few(s) /\ Posted(s)
  BY <1>0, <1>2, SameServes, AlikeKept
<1>4. Tight(s) /\ s.state = t.state /\ s.blocking = t.blocking
  BY <1>0, <1>2, SameTight DEF Same, Stays, Keeps
<1>5. CASE u = Unread(s, a, s.unread[a] \cup {from})
  <2>1. Shares(s, u)
    BY <1>2, <1>5 DEF Unread, Teams, Shares, Ending
  <2> QED
    BY <1>2, <1>4, <2>1, SharesTight
<1>6. CASE u = Wake(s, from, a, wakes \/ from \in {Main, t.parent[a]}, IsPeer(t, from, a))
  BY <1>2, <1>3, <1>4, <1>6, WakeTight
<1>7. \/ u = t
      \/ u = Unread(s, a, s.unread[a] \cup {from})
      \/ u = Wake(s, from, a, wakes \/ from \in {Main, t.parent[a]}, IsPeer(t, from, a))
  BY <1>1 DEF Deliver, Unread
<1> QED
  BY <1>5, <1>6, <1>7

------------------------------------------------------------------------------
(* What the handlers share keeps mail, slots and answers *)

\* A parent owes its subagent no answer (the subagent's question waits for it), and nothing is
\* owed to an agent that is not there.
Debts(t) == \A a, b \in Agents : b \in t.owed[a] => Known(t, a) /\ t.parent[a] # b

\* What a stop still has to stop is below it.
Todo(t) ==
    \A a \in Agents : Ending(t, a) =>
        \A i \in 1 .. Len(t.stop[a][1].todo) : t.stop[a][1].todo[i] \in Children(t, a)

\* The team is sound between and within the handlers.
Tends(t, x) == Good(t, x) /\ Posted(t) /\ Debts(t) /\ Todo(t)

\* Nobody's parent changes, nobody disappears, and no stop begins.
Firm(t, u) ==
    /\ u.parent = t.parent
    /\ \A b \in Agents : /\ Known(t, b) => Known(u, b)
                         /\ Ending(u, b) => /\ Ending(t, b)
                                            /\ u.stop[b][1].todo = t.stop[b][1].todo

\* Nobody that ended starts again.
Lasts(t, u) == \A b \in Agents : Ended(t, b) => u.state[b] = t.state[b]

\* What the calls that follow an event do, stops left aside.
Steady(t, u) == Kept(t, u) /\ Firm(t, u) /\ Lasts(t, u)

\* One after another.
LEMMA SteadyMore ==
  ASSUME NEW t, NEW u, NEW v
  PROVE  /\ Steady(t, t) /\ (Steady(t, u) /\ Steady(u, v) => Steady(t, v))
         /\ Firm(t, t) /\ (Firm(t, u) /\ Firm(u, v) => Firm(t, v))
<1>1. Firm(t, t) /\ Lasts(t, t)
  BY DEF Firm, Lasts
<1>2. ASSUME Firm(t, u), Firm(u, v) PROVE Firm(t, v)
  BY <1>2 DEF Firm
<1>3. ASSUME Lasts(t, u), Lasts(u, v) PROVE Lasts(t, v)
  BY <1>3 DEF Lasts, Ended
<1> QED
  BY <1>1, <1>2, <1>3, KeptMore DEF Steady

\* What is steady keeps what is owed and what stops have to do.
LEMMA FirmTends ==
  ASSUME NEW t, NEW x, Tends(t, x), NEW y, NEW u, Good(u, y), Posted(u), Kept(t, u), Firm(t, u)
  PROVE  Tends(u, y)
<1>1. Debts(u)
  BY DEF Tends, Debts, Kept, KeptOf, Firm
<1>2. Todo(u)
  <2> SUFFICES ASSUME NEW a \in Agents, Ending(u, a), NEW i \in 1 .. Len(u.stop[a][1].todo)
               PROVE  u.stop[a][1].todo[i] \in Children(u, a)
    BY DEF Todo
  <2>1. Ending(t, a) /\ u.stop[a][1].todo = t.stop[a][1].todo
    BY DEF Firm
  <2>2. t.stop[a][1].todo[i] \in Children(t, a)
    BY <2>1 DEF Tends, Todo
  <2> QED
    BY <2>1, <2>2 DEF Firm, Children
<1> QED
  BY <1>1, <1>2 DEF Tends

\* What the slots' own relations say of it.
LEMMA FirmBy ==
  ASSUME NEW t, NEW u
  PROVE  /\ Lets(t, u) => Firm(t, u) /\ Lasts(t, u)
         /\ Same(t, u) => Firm(t, u) /\ Lasts(t, u)
         /\ \A a \in Agents : /\ Serves(t, u, a) /\ (Known(t, a) => Known(u, a)) => Firm(t, u)
                              /\ Serves(t, u, a) /\ ~Ended(t, a) => Lasts(t, u)
<1>1. ASSUME Keeps(t, u), NEW b \in Agents, Ending(u, b)
      PROVE  Ending(t, b) /\ u.stop[b][1].todo = t.stop[b][1].todo
  BY <1>1 DEF Keeps, SameFrames
<1>2. ASSUME Lets(t, u) PROVE Firm(t, u) /\ Lasts(t, u)
  <2>1. Keeps(t, u)
    BY <1>2 DEF Lets
  <2>2. Firm(t, u)
    BY <1>1, <1>2, <2>1 DEF Firm, Lets, Keeps
  <2>3. Lasts(t, u)
    BY <1>2 DEF Lasts, Lets, Ended, EndedStates
  <2> QED
    BY <2>2, <2>3
<1>3. ASSUME Same(t, u) PROVE Firm(t, u) /\ Lasts(t, u)
  <2>1. Keeps(t, u) /\ u.state = t.state
    BY <1>3 DEF Same, Stays
  <2> QED
    BY <1>1, <2>1 DEF Firm, Lasts, Keeps, Known
<1>4. ASSUME NEW a \in Agents, Serves(t, u, a), Known(t, a) => Known(u, a) PROVE Firm(t, u)
  <2>1. Keeps(t, u)
    BY <1>4 DEF Serves
  <2> QED
    BY <1>1, <1>4, <2>1 DEF Firm, Serves, Keeps
<1>5. ASSUME NEW a \in Agents, Serves(t, u, a), ~Ended(t, a) PROVE Lasts(t, u)
  BY <1>5 DEF Lasts, Serves, Ended, EndedStates
<1> QED
  BY <1>2, <1>3, <1>4, <1>5

\* pump is steady.
LEMMA PumpSteady ==
  ASSUME NEW t, NEW x, Tends(t, x), NEW u, u = Pump(t)
  PROVE  Tends(u, x) /\ Steady(t, u) /\ Tight(u)
<1>1. Good(u, x) /\ Lets(t, u)
  BY PumpIsGood DEF Tends
<1>2. Posted(u) /\ Kept(t, u) /\ Tight(u)
  BY PumpKept, PumpTight DEF Tends, Good
<1>3. Firm(t, u) /\ Lasts(t, u)
  BY <1>1, FirmBy
<1> QED
  BY <1>1, <1>2, <1>3, FirmTends DEF Steady

\* So is what changes nothing that the slots or the mail are about.
LEMMA AlikeSteady ==
  ASSUME NEW t, NEW x, Tends(t, x), NEW u \in Teams, Same(t, u), Alike(t, u)
  PROVE  Tends(u, x) /\ Steady(t, u)
<1>1. Good(u, x)
  BY GoodSame DEF Tends
<1>2. Posted(u) /\ Kept(t, u)
  BY AlikeKept DEF Tends
<1>3. Firm(t, u) /\ Lasts(t, u)
  BY FirmBy
<1> QED
  BY <1>1, <1>2, <1>3, FirmTends DEF Steady

\* So is a wait: true call that returns.
LEMMA ReturnSteady ==
  ASSUME NEW t, NEW x, Tends(t, x), NEW a \in Agents, NEW u, u = Return(t, a)
  PROVE  Tends(u, x) /\ Steady(t, u) /\ (Tight(t) => Tight(u))
<1>0. Good(t, x) /\ t \in Teams /\ Sound(t, x) /\ Posted(t)
  BY DEF Tends, Good
<1>1. Good(u, x)
  BY <1>0, ReturnGood
<1>2. Posted(u) /\ Kept(t, u)
  BY <1>0, ReturnKept
<1>3. Firm(t, u) /\ Lasts(t, u)
  <2>1. CASE ~Waited(t, a)
    BY <2>1, SteadyMore DEF Return, Steady
  <2>2. CASE Waited(t, a)
    <3>1. PICK v : v = WaitEnds(t, a)
      OBVIOUS
    <3>2. v \in Teams /\ Sound(v, x) /\ (v.state[a] \in ActiveStates => MayGo(v, a))
      BY <1>0, <2>2, <3>1, WaitEndsSound DEF Waited
    <3>3. v.state = t.state /\ v.parent = t.parent /\ v.stop = t.stop
      BY <1>0, <3>1 DEF Teams, WaitEnds
    <3>4. Firm(t, v) /\ Lasts(t, v)
      BY <3>3 DEF Firm, Lasts, Known, Ending
    <3>5. CASE u = v
      BY <3>4, <3>5
    <3>6. CASE v.state[a] \in ActiveStates /\ u = GoOnWhenFree(v, a, "on")
      <4>1. PICK how \in {"on", "rest"} : how = "on"
        OBVIOUS
      <4>2. Serves(v, u, a) /\ u \in Teams /\ Sound(u, x)
        BY <3>2, <3>6, <4>1, GoOnWhenFreeSound
      <4>3. ~Ended(v, a) /\ (Known(v, a) => Known(u, a))
        BY <3>6, <4>2 DEF ActiveStates, Ended, EndedStates, Serves
      <4>4. Firm(v, u) /\ Lasts(v, u)
        BY <4>2, <4>3, FirmBy
      <4> QED
        BY <3>3, <3>4, <4>4, SteadyMore DEF Lasts, Ended
    <3> QED
      BY <2>2, <3>1, <3>5, <3>6 DEF Return, AfterWait, WaitEnds
  <2> QED
    BY <2>1, <2>2
<1>4. Tight(t) => Tight(u)
  BY <1>0, ReturnTight
<1> QED
  BY <1>1, <1>2, <1>3, <1>4, FirmTends DEF Steady

\* All that may return are.
LEMMA ReturnedSteady ==
  ASSUME NEW t, NEW x, Tends(t, x)
  PROVE  /\ Tends(Returned(t), x) /\ Steady(t, Returned(t))
         /\ Tight(t) => Tight(Returned(t))
<1> DEFINE n == Cardinality(Agents)
           G == {u \in Teams : Tends(u, x) /\ Steady(t, u) /\ (Tight(t) => Tight(u))}
           X == [s \in SUBSET (1 .. n) |-> G]
<1>1. PICK line : line = InOrder(Agents)
  OBVIOUS
<1>2. n \in Nat /\ DOMAIN line = 1 .. n /\ line \in [1 .. n -> Agents]
  BY <1>1, InOrderLists
<1>3. t \in X[{}]
  BY SteadyMore DEF Tends, Good
<1>4. ASSUME NEW s \in SUBSET (1 .. n), NEW i \in (1 .. n) \ s, NEW v \in X[s]
      PROVE  Return(v, line[i]) \in X[s \cup {i}]
  <2>1. Tends(v, x) /\ Steady(t, v) /\ line[i] \in Agents
    BY <1>2
  <2>2. PICK u : u = Return(v, line[i])
    OBVIOUS
  <2>3. Tends(u, x) /\ Steady(v, u) /\ (Tight(t) => Tight(u))
    BY <2>1, <2>2, ReturnSteady
  <2>4. Steady(t, u)
    BY <2>1, <2>3, SteadyMore
  <2> QED
    BY <2>2, <2>3, <2>4 DEF Tends, Good
<1>5. FoldLeft(Return, t, line) \in X[1 .. n]
  <2> HIDE DEF X, n
  <2> QED BY <1>2, <1>3, <1>4, FoldReturn
<1> QED
  BY <1>1, <1>5 DEF Returned

\* The end of a question is, and ends no other one.
LEMMA EndQuestionSteady ==
  ASSUME NEW t, NEW x, Tends(t, x), NEW a \in Agents, t.question[a] # NoOne,
         NEW u, u = EndQuestion(t, a)
  PROVE  /\ Tends(u, x) /\ Steady(t, u) /\ Tight(u)
         /\ \A b \in Agents : b # a => u.question[b] = t.question[b]
<1>0. Good(t, x) /\ t \in Teams /\ Posted(t)
  BY DEF Tends, Good
<1>1. Good(u, x) /\ Answered(t, u, a)
  BY <1>0, EndQuestionGood
<1>2. Posted(u) /\ Kept(t, u) /\ Tight(u)
  BY <1>0, EndQuestionKept
<1>3. PICK d : d = Question(t, a, NoOne)
  OBVIOUS
<1>4. d.state = t.state /\ d.parent = t.parent /\ d.stop = t.stop
      /\ d.question = [t.question EXCEPT ![a] = NoOne]
  BY <1>0, <1>3 DEF Teams, Question
<1>5. Serves(d, u, a) /\ Keeps(d, u)
  BY <1>1, <1>3 DEF Answered, Serves
<1>6. t.state[a] = "asking"
  BY <1>0 DEF Good, Sound, Asks
<1>7. ~Ended(d, a) /\ (Known(d, a) => Known(u, a))
  BY <1>4, <1>5, <1>6 DEF Ended, EndedStates, Serves
<1>8. Firm(d, u) /\ Lasts(d, u)
  BY <1>5, <1>7, FirmBy
<1>9. Firm(t, u) /\ Lasts(t, u)
  BY <1>4, <1>8 DEF Firm, Lasts, Known, Ended, Ending
<1>10. \A b \in Agents : b # a => u.question[b] = t.question[b]
  BY <1>0, <1>4, <1>5 DEF Teams, Keeps
<1> QED
  BY <1>1, <1>2, <1>9, <1>10, FirmTends DEF Steady

\* deliver is, but for whom it resumes that ended.
LEMMA DeliverSteady ==
  ASSUME NEW t, NEW x, Tends(t, x), NEW from \in Actors, NEW a \in Agents,
         NEW wakes, NEW u, u = Deliver(t, from, a, wakes)
  PROVE  /\ Tends(u, x) /\ Kept(t, u) /\ Firm(t, u)
         /\ (Ended(t, a) => ~Delivers(t, from, a)) => Steady(t, u)
         /\ Tight(t) /\ (t.state[a] = "idle" => ~t.blocking[a]) => Tight(u)
<1>0. Good(t, x) /\ Posted(t)
  BY DEF Tends
<1>1. Good(u, x) /\ Serves(t, u, a)
  BY <1>0, DeliverGood
<1>2. Posted(u) /\ Kept(t, u)
  BY <1>0, DeliverKept
<1>3. Firm(t, u)
  <2>1. Known(t, a) => Known(u, a)
    BY <1>1 DEF Serves
  <2> QED
    BY <1>1, <2>1, FirmBy
<1>4. ASSUME Ended(t, a) => ~Delivers(t, from, a) PROVE Lasts(t, u)
  <2>1. CASE Ended(t, a)
    <3>1. u = t
      BY <1>4, <2>1 DEF Deliver
    <3> QED
      BY <3>1, SteadyMore DEF Steady
  <2>2. CASE ~Ended(t, a)
    BY <1>1, <2>2, FirmBy
  <2> QED
    BY <2>1, <2>2
<1>5. Tight(t) /\ (t.state[a] = "idle" => ~t.blocking[a]) => Tight(u)
  BY <1>0, DeliverTight
<1> QED
  BY <1>1, <1>2, <1>3, <1>4, <1>5, FirmTends DEF Steady

\* So is what pays answers that are owed.
LEMMA OwedSteady ==
  ASSUME NEW t, NEW x, Tends(t, x), NEW o \in [Agents -> SUBSET Agents],
         \A b \in Agents : o[b] \subseteq t.owed[b], NEW u, u = [t EXCEPT !.owed = o]
  PROVE  Tends(u, x) /\ Steady(t, u) /\ (Tight(t) => Tight(u))
<1>0. Good(t, x) /\ t \in Teams /\ Posted(t)
  BY DEF Tends, Good
<1>1. u \in Teams /\ Same(t, u)
  BY <1>0, OwedSame
<1>2. Good(u, x)
  BY <1>0, <1>1, GoodSame
<1>3. /\ u.state = t.state /\ u.going = t.going /\ u.inbox = t.inbox /\ u.unread = t.unread
      /\ u.resume = t.resume /\ u.held = t.held /\ u.question = t.question /\ u.wait = t.wait
      /\ u.owed = o /\ u.prompting = t.prompting
      /\ u.blocking = t.blocking /\ u.opening = t.opening /\ u.overlap = t.overlap
      /\ u.stop = t.stop
  BY <1>0 DEF Teams
<1>4. \A b \in Agents : PostedOf(u, b) /\ KeptOf(t, u, b)
  BY <1>0, <1>3 DEF Posted, PostedOf, KeptOf, MayGetPrompt, Mail, Works, Prompted, TidyOf,
                        Tidy, Ending
<1>5. Posted(u) /\ Kept(t, u)
  BY <1>4 DEF Posted, Kept
<1>6. Firm(t, u) /\ Lasts(t, u)
  BY <1>1, FirmBy
<1>7. Tight(t) => Tight(u)
  <2>1. u.ran = t.ran
    BY <1>0 DEF Teams
  <2> QED
    BY <1>0, <1>1, <2>1, SameTight
<1> QED
  BY <1>2, <1>5, <1>6, <1>7, FirmTends DEF Steady

\* A paid answer is steady, and so are all that an agent owed.
LEMMA PaySteady ==
  ASSUME NEW t, NEW x, Tends(t, x), NEW a
  PROVE  /\ Tends(Paid(t, a), x) /\ Steady(t, Paid(t, a))
         /\ \A b \in Agents : /\ Tends(PayOwed(t, b, a), x) /\ Steady(t, PayOwed(t, b, a))
                              /\ Tight(t) => Tight(PayOwed(t, b, a))
<1>0. t \in Teams
  BY DEF Tends, Good
<1>1. Tends(Paid(t, a), x) /\ Steady(t, Paid(t, a))
  <2>1. PICK o : o = [y \in Agents |-> t.owed[y] \ {a}]
    OBVIOUS
  <2>2. o \in [Agents -> SUBSET Agents] /\ \A b \in Agents : o[b] \subseteq t.owed[b]
    BY <1>0, <2>1 DEF Teams
  <2>3. Paid(t, a) = [t EXCEPT !.owed = o]
    BY <1>0, <2>1 DEF Paid, Teams
  <2> QED
    BY <2>2, <2>3, OwedSteady
<1>2. ASSUME NEW b \in Agents
      PROVE  /\ Tends(PayOwed(t, b, a), x) /\ Steady(t, PayOwed(t, b, a))
             /\ Tight(t) => Tight(PayOwed(t, b, a))
  <2>1. PICK o : o = [t.owed EXCEPT ![b] = @ \ {a}]
    OBVIOUS
  <2>2. o \in [Agents -> SUBSET Agents] /\ \A c \in Agents : o[c] \subseteq t.owed[c]
    BY <1>0, <2>1 DEF Teams
  <2>3. PayOwed(t, b, a) = [t EXCEPT !.owed = o]
    BY <1>0, <2>1 DEF PayOwed, Teams
  <2> QED
    BY <2>2, <2>3, OwedSteady
<1> QED
  BY <1>1, <1>2

\* So is the end of a run, and what main is owed.
LEMMA RunEndedSteady ==
  ASSUME NEW t, NEW x, Tends(t, x), NEW a
  PROVE  /\ Tends(RunEnded(t, a), x) /\ Steady(t, RunEnded(t, a))
         /\ \A m \in SUBSET Agents : /\ Tends([t EXCEPT !.owesMain = m], x)
                                     /\ Steady(t, [t EXCEPT !.owesMain = m])
                                     /\ Tight(t) => Tight([t EXCEPT !.owesMain = m])
<1>0. t \in Teams
  BY DEF Tends, Good
<1>1. PICK u : u = RunEnded(t, a)
  OBVIOUS
<1>2. Alike(t, u)
  BY <1>0, <1>1 DEF Teams, RunEnded, Alike, AlikeOf, Ending
<1>3. u \in Teams /\ Same(t, u)
  BY <1>0, <1>1, RunEndedSame
<1>4. ASSUME NEW m \in SUBSET Agents, NEW v, v = [t EXCEPT !.owesMain = m]
      PROVE  Tends(v, x) /\ Steady(t, v) /\ (Tight(t) => Tight(v))
  <2>1. Alike(t, v)
    BY <1>0, <1>4 DEF Teams, Alike, AlikeOf, Ending
  <2>2. v \in Teams /\ Same(t, v)
    BY Zenon, <1>0, <1>4, MainSame
  <2>3. v.ran = t.ran
    BY <1>0, <1>4 DEF Teams
  <2> QED
    BY <1>0, <2>1, <2>2, <2>3, AlikeSteady, SameTight
<1> QED
  BY <1>1, <1>2, <1>3, <1>4, AlikeSteady

\* So are those that are told of an answer that will not come: none of them is below a.
LEMMA TellUnansweredSteady ==
  ASSUME NEW t, NEW x, Tends(t, x), NEW a \in Agents, NEW S \in SUBSET Agents,
         \A b \in S : t.parent[b] # a
  PROVE  Tends(TellUnanswered(t, a, S), x) /\ Steady(t, TellUnanswered(t, a, S))
<1> DEFINE n == Cardinality(S)
           G == {u \in Teams : Tends(u, x) /\ Steady(t, u)}
           X == [s \in SUBSET (1 .. n) |-> G]
<1>1. PICK line : line = InOrder(S)
  OBVIOUS
<1>2. n \in Nat /\ DOMAIN line = 1 .. n /\ line \in [1 .. n -> S]
  BY <1>1, InOrderLists
<1>3. t \in X[{}]
  BY SteadyMore DEF Tends, Good
<1>4. ASSUME NEW s \in SUBSET (1 .. n), NEW i \in (1 .. n) \ s, NEW v \in X[s]
      PROVE  Deliver(v, a, line[i], TRUE) \in X[s \cup {i}]
  <2>1. Tends(v, x) /\ Steady(t, v) /\ line[i] \in S /\ line[i] \in Agents /\ a \in Actors
    BY <1>2 DEF Actors
  <2>2. PICK u : u = Deliver(v, a, line[i], TRUE)
    OBVIOUS
  <2>3. v.parent[line[i]] # a /\ a # Main
    BY <2>1, NumbersOf DEF Steady, Firm
  <2>4. Ended(v, line[i]) => ~Delivers(v, a, line[i])
    BY <2>3 DEF Delivers
  <2>5. Tends(u, x) /\ Steady(v, u)
    BY <2>1, <2>2, <2>4, DeliverSteady
  <2>6. Steady(t, u)
    BY <2>1, <2>5, SteadyMore
  <2> QED
    BY <2>2, <2>5, <2>6 DEF Tends, Good
<1>5. TellUnanswered(t, a, S) \in X[1 .. n]
  <2> HIDE DEF X, n
  <2> QED BY <1>1, <1>2, <1>3, <1>4, FoldTell
<1> QED
  BY <1>5

\* So are the ends of the questions to a.
LEMMA EndOtherQuestionsSteady ==
  ASSUME NEW t, NEW x, Tends(t, x), NEW a \in Agents
  PROVE  Tends(EndOtherQuestions(t, a), x) /\ Steady(t, EndOtherQuestions(t, a))
<1> DEFINE S == {y \in Agents : t.question[y] = a /\ y # t.parent[a]}
           n == Cardinality(S)
<1>1. PICK line : line = InOrder(S)
  OBVIOUS
<1>2. n \in Nat /\ DOMAIN line = 1 .. n /\ line \in [1 .. n -> S]
      /\ \A i, j \in 1 .. n : line[i] = line[j] => i = j
  BY <1>1, InOrderLists
<1> DEFINE X == [s \in SUBSET (1 .. n) |->
                   {u \in Teams : /\ Tends(u, x) /\ Steady(t, u)
                                  /\ \A i \in (1 .. n) \ s : u.question[line[i]] # NoOne}]
<1>3. t \in X[{}]
  <2>1. a # NoOne
    BY NumbersOf
  <2>2. \A i \in 1 .. n : t.question[line[i]] = a
    BY <1>2
  <2> HIDE DEF n, S
  <2> QED BY <2>1, <2>2, SteadyMore DEF Tends, Good
<1>4. ASSUME NEW s \in SUBSET (1 .. n), NEW i \in (1 .. n) \ s, NEW v \in X[s]
      PROVE  EndQuestion(v, line[i]) \in X[s \cup {i}]
  <2>1. Tends(v, x) /\ Steady(t, v) /\ line[i] \in Agents /\ v.question[line[i]] # NoOne
    BY <1>2
  <2>2. PICK u : u = EndQuestion(v, line[i])
    OBVIOUS
  <2>3. /\ Tends(u, x) /\ Steady(v, u)
        /\ \A b \in Agents : b # line[i] => u.question[b] = v.question[b]
    BY <2>1, <2>2, EndQuestionSteady
  <2>4. Steady(t, u)
    BY <2>1, <2>3, SteadyMore
  <2>5. ASSUME NEW j \in (1 .. n) \ (s \cup {i}) PROVE u.question[line[j]] # NoOne
    <3>1. j \in 1 .. n /\ i \in 1 .. n /\ j # i /\ j \in (1 .. n) \ s
      OBVIOUS
    <3>2. line[j] # line[i] /\ line[j] \in Agents
      BY <1>2, <3>1
    <3>3. v.question[line[j]] # NoOne
      BY <3>1
    <3> QED
      BY <2>3, <3>2, <3>3
  <2> HIDE DEF n, S
  <2> QED BY <2>2, <2>3, <2>4, <2>5 DEF Tends, Good
<1>5. EndOtherQuestions(t, a) \in X[1 .. n]
  <2> HIDE DEF X, n
  <2> QED BY <1>1, <1>2, <1>3, <1>4, FoldEnd
<1> QED
  BY <1>5

\* A report does not go to an agent that ended.
LEMMA ReportTargetLives ==
  ASSUME NEW t \in Teams, NEW a \in Agents, t.parent[a] \in Actors, NEW to, to = ReportTarget(t, a)
  PROVE  to \in Actors /\ (to \in Agents => ~Ended(t, to))
<1>1. PICK p \in Actors : p = t.parent[a]
  OBVIOUS
<1>2. PICK Q : Q = {y \in Above(t, p) : Live(t, y)}
  OBVIOUS
<1>3. Q \in SUBSET (1 .. MaxAgents) /\ \A y \in Q : ~Ended(t, y)
  BY <1>2 DEF Above, Reach, Agents, Live, LiveStates, Ended, EndedStates
<1>4. ASSUME Q # {} PROVE (CHOOSE y \in Q : \A z \in Q : z <= y) \in Q
  <2>1. Max(Q) \in Q /\ \A z \in Q : z <= Max(Q)
    BY <1>3, <1>4, NumbersOf, GreatestOf
  <2> QED
    BY <2>1
<1>5. to = IF p = Main \/ ~Ended(t, p) THEN p
           ELSE IF Q = {} THEN Main ELSE CHOOSE y \in Q : \A z \in Q : z <= y
  BY <1>1, <1>2 DEF ReportTarget
<1>6. to \in Actors
  BY ReportTargetIs
<1> QED
  BY <1>3, <1>4, <1>5, <1>6, NumbersOf

\* reportUp is steady.
LEMMA ReportUpSteady ==
  ASSUME NEW t, NEW x, Tends(t, x), NEW a \in Agents, Known(t, a), NEW quiet, NEW blocking,
         NEW u, u = ReportUp(t, a, quiet, blocking)
  PROVE  Tends(u, x) /\ Steady(t, u)
<1>1. t \in Teams /\ t.parent[a] \in Actors
  BY DEF Tends, Good, Sound, Parents
<1>2. PICK to : to = ReportTarget(t, a)
  OBVIOUS
<1>3. to \in Actors /\ (to \in Agents => ~Ended(t, to))
  BY <1>1, <1>2, ReportTargetLives
<1>4. CASE u = t
  BY <1>4, SteadyMore
<1>5. CASE u = Deliver(t, a, to, ~quiet \/ to # t.parent[a]) /\ to # Main
  <2>1. to \in Agents /\ a \in Actors /\ ~Ended(t, to)
    BY <1>3, <1>5 DEF Actors
  <2> QED
    BY <1>5, <2>1, DeliverSteady
<1>6. u = ReportTo(t, a, to, quiet, blocking)
  BY <1>2 DEF ReportUp
<1> QED
  BY <1>4, <1>5, <1>6 DEF ReportTo

\* hand-up is.
LEMMA HandUpSteady ==
  ASSUME NEW t, NEW x, Tends(t, x), NEW a \in Agents, Known(t, a), NEW silent, NEW blocking,
         NEW u, u = HandUp(t, a, silent, blocking)
  PROVE  Tends(u, x) /\ Steady(t, u)
<1>1. PICK e : e = RunEnded(t, a)
  OBVIOUS
<1>2. Tends(e, x) /\ Steady(t, e)
  BY <1>1, RunEndedSteady
<1>3. PICK p : p = Paid(e, a)
  OBVIOUS
<1>4. Tends(p, x) /\ Steady(t, p)
  BY <1>2, <1>3, PaySteady, SteadyMore
<1>5. Known(p, a)
  BY <1>4 DEF Steady, Firm
<1>6. PICK r : r = IF silent THEN p ELSE ReportUp(p, a, Quiet(t, a), blocking)
  OBVIOUS
<1>7. Tends(r, x) /\ Steady(t, r)
  <2>1. CASE r = p
    BY <1>4, <2>1
  <2>2. CASE r = ReportUp(p, a, Quiet(t, a), blocking)
    <3>1. Tends(r, x) /\ Steady(p, r)
      BY <1>4, <1>5, <2>2, ReportUpSteady
    <3> QED
      BY <1>4, <3>1, SteadyMore
  <2> QED
    BY <1>6, <2>1, <2>2
<1>8. PICK S : S = Askers(t, a) \ {t.parent[a]}
  OBVIOUS
<1>9. S \in SUBSET Agents /\ \A b \in S : r.parent[b] # a
  <2>1. S \in SUBSET Agents /\ \A b \in S : a \in t.owed[b]
    BY <1>8 DEF Askers
  <2>2. \A b \in S : t.parent[b] # a
    BY <2>1 DEF Tends, Debts
  <2> QED
    BY <1>7, <2>1, <2>2 DEF Steady, Firm
<1>10. PICK q : q = TellUnanswered(r, a, S)
  OBVIOUS
<1>11. Tends(q, x) /\ Steady(t, q)
  BY <1>7, <1>9, <1>10, TellUnansweredSteady, SteadyMore
<1>12. u = EndOtherQuestions(q, a)
  BY <1>1, <1>3, <1>6, <1>8, <1>10 DEF HandUp
<1> QED
  BY <1>11, <1>12, EndOtherQuestionsSteady, SteadyMore

\* finish is: what it resets is not what mail goes by.
LEMMA FinishSteady ==
  ASSUME NEW t, Tends(t, NoOne), NEW a \in Agents, Ending(t, a) => Aborting(t, a),
         t.state[a] \notin ActiveStates \cup {"asking"}, Known(t, a), NEW silent,
         NEW u, u = Finish(t, a, silent)
  PROVE  Tends(u, NoOne) /\ Steady(t, u) /\ Tight(u) /\ (Tidy(Over(t, a), a) => Tidy(u, a))
<1>0. t \in Teams /\ Good(t, NoOne) /\ Posted(t)
  BY DEF Tends, Good
<1>1. PICK o : o = Over(t, a)
  OBVIOUS
<1>2. o \in Teams
  BY <1>0, <1>1 DEF Teams, Over, Stops
<1>3. Sheds(t, o, a)
  BY <1>0, <1>1 DEF Teams, Over, Sheds
<1>4. Good(o, NoOne)
  BY <1>0, <1>2, <1>3, ShedsGood
<1>5. /\ o.state = t.state /\ o.going = t.going /\ o.inbox = t.inbox /\ o.unread = t.unread
      /\ o.resume = t.resume /\ o.held = t.held /\ o.question = t.question /\ o.wait = t.wait
      /\ o.owed = [t.owed EXCEPT ![a] = {}] /\ o.prompting = t.prompting
      /\ o.blocking = [t.blocking EXCEPT ![a] = FALSE] /\ o.opening = t.opening
      /\ o.overlap = t.overlap \ {a} /\ o.stop = [t.stop EXCEPT ![a] = <<>>]
  BY <1>0, <1>1 DEF Teams, Over
<1>6. o.owed \in [Agents -> SUBSET Agents] /\ \A b \in Agents : o.owed[b] \subseteq t.owed[b]
  BY <1>0, <1>5 DEF Teams
<1>7. ASSUME NEW b \in Agents PROVE PostedOf(o, b) /\ KeptOf(t, o, b)
  <2>1. PostedOf(o, b) /\ (TidyOf(t, o, b) => KeptOf(t, o, b))
    BY <1>0, <1>5, <1>6 DEF Posted, PostedOf, KeptOf, MayGetPrompt, Mail, Works, Prompted
  <2>2. o.blocking[b] => t.blocking[b]
    BY <1>0, <1>5 DEF Teams
  <2>3. Ending(o, b) => Ending(t, b)
    BY <1>0, <1>5 DEF Teams, Ending
  <2>4. t.state[b] = "asking" /\ b \in t.overlap => b \in o.overlap
    BY <1>5
  <2>5. TidyOf(t, o, b)
    BY <1>5, <2>2, <2>3, <2>4 DEF TidyOf, Tidy
  <2> QED
    BY <2>1, <2>5
<1>8. Posted(o) /\ Kept(t, o)
  BY <1>7 DEF Posted, Kept
<1>9. Firm(t, o) /\ Lasts(t, o)
  BY <1>3, <1>5 DEF Sheds, Firm, Lasts, Known, Ending
<1>10. Tends(o, NoOne) /\ Steady(t, o)
  BY <1>4, <1>8, <1>9, FirmTends DEF Steady
<1>11. PICK h : h = HandUp(o, a, silent, t.blocking[a])
  OBVIOUS
<1>12. Tends(h, NoOne) /\ Steady(o, h)
  <2>1. Known(o, a)
    BY <1>5 DEF Known
  <2> QED
    BY <1>10, <1>11, <2>1, HandUpSteady
<1>13. PICK r : r = GivenBack(h, a)
  OBVIOUS
<1>14. Tends(r, NoOne) /\ Steady(o, r)
  <2>1. h \in Teams /\ Posted(h) /\ Good(h, NoOne)
    BY <1>12 DEF Tends, Good
  <2>2. r \in Teams /\ Same(h, r)
    BY <1>13, <2>1, ReleasedSame
  <2>3. Posted(r) /\ Kept(h, r)
    BY <1>13, <2>1, GivenBackKept
  <2>4. Good(r, NoOne)
    BY <2>1, <2>2, GoodSame
  <2>5. Firm(h, r) /\ Lasts(h, r)
    BY <2>2, FirmBy
  <2>6. Tends(r, NoOne) /\ Steady(h, r)
    BY <1>12, <2>3, <2>4, <2>5, FirmTends DEF Steady
  <2> QED
    BY <1>12, <2>6, SteadyMore
<1>15. u = Pump(r)
  BY <1>1, <1>11, <1>13 DEF Finish, Over, Released, GivenBack
<1>16. Tends(u, NoOne) /\ Steady(o, u) /\ Tight(u)
  BY <1>14, <1>15, PumpSteady, SteadyMore
<1>17. Steady(t, u)
  BY <1>10, <1>16, SteadyMore
<1>18. TidyOf(o, u, a)
  BY <1>16 DEF Steady, Kept, KeptOf
<1> QED
  BY <1>1, <1>16, <1>17, <1>18 DEF TidyOf

------------------------------------------------------------------------------
(* Nobody waits in a ring *)

\* Who has worked, may work on, or goes on from the line has had its first run.
RanOf(t, a) ==
    /\ t.state[a] \in {"running", "asking", "waiting", "idle"} => t.ran[a]
    /\ a \in t.prompting \/ a \in t.continuing \/ t.going[a] # "no" => t.ran[a]

\* Nobody waits for itself, or for one that was never spawned.
ElseOf(t, a) ==
    /\ t.parent[a] # a /\ (t.parent[a] \in Agents => Known(t, t.parent[a]))
    /\ \A b \in t.owed[a] \cup t.after[a] : b \in Agents /\ b # a /\ Known(t, b)

\* What the waits of the agents rest on.
Ranked(t) == \A a \in Agents : RanOf(t, a) /\ ElseOf(t, a)

\* Among any agents there is one that waits for none of them.
Loopless(t) ==
    t.reentered \/ \A S \in SUBSET Agents : S # {} => \E a \in S : Blockers(t, a) \cap S = {}

\* b is in the line for its first run.
Unran(t, b) == t.state[b] = "queued" /\ ~t.ran[b]

\* Nothing that b waits for, or that waits for b, is added.
EasesOf(t, u, b) ==
    /\ Live(u, b) => Live(t, b)
    /\ Known(t, b) => Known(u, b)
    /\ u.parent[b] = t.parent[b] /\ u.after[b] = t.after[b] /\ u.owed[b] \subseteq t.owed[b]
    /\ RanOf(t, b) => RanOf(u, b) /\ (Unran(u, b) => Unran(t, b))
Eases(t, u) == (t.reentered => u.reentered) /\ \A b \in Agents : EasesOf(t, u, b)

\* A part of a handler closes no ring.
Unties(t, u) == Ranked(t) => Ranked(u) /\ (Loopless(t) => Loopless(u))

\* One after another.
LEMMA UntiesMore ==
  ASSUME NEW t, NEW u, NEW v
  PROVE  Unties(t, t) /\ (Unties(t, u) /\ Unties(u, v) => Unties(t, v))
BY DEF Unties

\* Likewise.
LEMMA EasesMore ==
  ASSUME NEW t, NEW u, NEW v
  PROVE  Eases(t, t) /\ (Eases(t, u) /\ Eases(u, v) => Eases(t, v))
<1>1. Eases(t, t)
  BY DEF Eases, EasesOf
<1>2. ASSUME NEW b \in Agents, EasesOf(t, u, b), EasesOf(u, v, b) PROVE EasesOf(t, v, b)
  BY <1>2 DEF EasesOf
<1> QED
  BY <1>1, <1>2 DEF Eases

\* Who b waits for.
LEMMA BlockersOf ==
  ASSUME NEW t, NEW a \in Agents, NEW b
  PROVE  b \in Blockers(t, a) <=>
           /\ Live(t, b)
           /\ \/ b \in Agents /\ t.parent[b] = a
              \/ b \in t.owed[a]
              \/ Unran(t, a) /\ b \in t.after[a]
<1>1. Live(t, b) => Known(t, b)
  BY DEF Live, Known, LiveStates
<1>2. b \in LiveChildren(t, a) <=> b \in Agents /\ Live(t, b) /\ t.parent[b] = a
  BY <1>1 DEF LiveChildren, Children
<1>3. b \in OwedLive(t, a) <=> b \in t.owed[a] /\ Live(t, b)
  BY DEF OwedLive
<1>4. b \in (IF t.state[a] = "queued" THEN WaitingFor(t, a) ELSE {})
        <=> Unran(t, a) /\ b \in t.after[a] /\ Live(t, b)
  BY DEF WaitingFor, Unran
<1> QED
  BY <1>2, <1>3, <1>4 DEF Blockers, WaitsOf

\* Who is eased waits for no more.
LEMMA EasedBlockers ==
  ASSUME NEW t, NEW u, Ranked(t), Eases(t, u), NEW a \in Agents
  PROVE  Blockers(u, a) \subseteq Blockers(t, a)
<1> SUFFICES ASSUME NEW b \in Blockers(u, a) PROVE b \in Blockers(t, a)
  OBVIOUS
<1>1. Live(u, b) /\ \/ b \in Agents /\ u.parent[b] = a
                    \/ b \in u.owed[a]
                    \/ Unran(u, a) /\ b \in u.after[a]
  BY BlockersOf
<1>2. EasesOf(t, u, a) /\ RanOf(t, a) /\ ElseOf(t, a)
  BY DEF Eases, Ranked
<1>3. b \in Agents
  BY <1>1, <1>2 DEF EasesOf, ElseOf
<1>4. EasesOf(t, u, b)
  BY <1>3 DEF Eases
<1>5. Live(t, b)
  BY <1>1, <1>4 DEF EasesOf
<1>6. \/ t.parent[b] = a \/ b \in t.owed[a] \/ (Unran(t, a) /\ b \in t.after[a])
  BY <1>1, <1>2, <1>4 DEF EasesOf
<1> QED
  BY <1>3, <1>5, <1>6, BlockersOf

\* What eases closes no ring.
LEMMA EasesUnties == ASSUME NEW t, NEW u, Eases(t, u) PROVE Unties(t, u)
<1> SUFFICES ASSUME Ranked(t) PROVE Ranked(u) /\ (Loopless(t) => Loopless(u))
  BY DEF Unties
<1>1. Ranked(u)
  <2> SUFFICES ASSUME NEW a \in Agents PROVE RanOf(u, a) /\ ElseOf(u, a)
    BY DEF Ranked
  <2>1. EasesOf(t, u, a) /\ RanOf(t, a) /\ ElseOf(t, a)
    BY DEF Eases, Ranked
  <2> QED
    BY <2>1 DEF EasesOf, ElseOf, Eases
<1>2. Loopless(t) => Loopless(u)
  <2>1. \A a \in Agents : Blockers(u, a) \subseteq Blockers(t, a)
    BY EasedBlockers
  <2> QED
    BY <2>1 DEF Loopless, Eases
<1> QED
  BY <1>1, <1>2

\* What an agent does not depend on stands outside a set that holds it and all they wait for.
LEMMA DependsOf ==
  ASSUME NEW t, NEW a \in Agents, NEW b \in Agents
  PROVE  /\ ~DependsOn(t, a, b) => \E C \in SUBSET Agents : /\ a \in C /\ b \notin C
                                                          /\ \A x \in C : Blockers(t, x) \subseteq C
         /\ DependsOn(t, a, b) => \A C \in SUBSET Agents :
                a \in C /\ (\A x \in C : Blockers(t, x) \subseteq C) => b \in C
BY DEF DependsOn, Reach

\* An agent reaches itself, and whomever those it reaches wait for.
LEMMA ReachesOn ==
  ASSUME NEW t, Ranked(t), NEW a \in Agents
  PROVE  /\ DependsOn(t, a, a)
         /\ \A y \in Agents : \A z : DependsOn(t, a, y) /\ z \in Blockers(t, y) => DependsOn(t, a, z)
<1>1. DependsOn(t, a, a)
  BY DependsOf
<1>2. ASSUME NEW y \in Agents, NEW z, DependsOn(t, a, y), z \in Blockers(t, y)
      PROVE  DependsOn(t, a, z)
  <2>1. z \in Agents
    BY <1>2, BlockersOf DEF Ranked, ElseOf
  <2>2. SUFFICES ASSUME ~DependsOn(t, a, z) PROVE FALSE
    OBVIOUS
  <2>3. PICK C \in SUBSET Agents : /\ a \in C /\ z \notin C
                                   /\ \A x \in C : Blockers(t, x) \subseteq C
    BY <2>1, <2>2, DependsOf
  <2>4. y \in C
    BY <1>2, <2>3, DependsOf
  <2> QED
    BY <1>2, <2>3, <2>4
<1> QED
  BY <1>1, <1>2

\* Without a set that is stuck there is no ring.
LEMMA LooplessDepends ==
  ASSUME NEW t, Ranked(t), Loopless(t), ~t.reentered, NEW a \in Agents, NEW b \in Blockers(t, a)
  PROVE  ~DependsOn(t, b, a)
<1> SUFFICES ASSUME DependsOn(t, b, a) PROVE FALSE
  OBVIOUS
<1>1. b \in Agents
  BY BlockersOf DEF Ranked, ElseOf
<1> DEFINE S == {x \in Agents : DependsOn(t, b, x) /\ DependsOn(t, x, a)}
<1>2. a \in S /\ b \in S
  BY <1>1, ReachesOn
<1>3. PICK m \in S : Blockers(t, m) \cap S = {}
  BY <1>2 DEF Loopless
<1>4. m # a
  BY <1>2, <1>3
<1> DEFINE C == {m} \cup {y \in Agents : \E z \in Blockers(t, m) : DependsOn(t, z, y)}
<1>5. \A z \in Blockers(t, m) : z \in Agents
  BY <1>3, BlockersOf DEF Ranked, ElseOf
<1>6. ASSUME NEW x \in C, NEW z \in Blockers(t, x) PROVE z \in C
  <2>0. x \in Agents
    BY <1>3
  <2>1. z \in Agents
    BY <2>0, <1>6, BlockersOf DEF Ranked, ElseOf
  <2>2. CASE x = m
    BY <1>6, <2>1, <2>2, ReachesOn
  <2>3. CASE x # m
    <3>1. PICK w \in Blockers(t, m) : DependsOn(t, w, x)
      BY <2>3
    <3>2. DependsOn(t, w, z)
      BY <1>5, <1>6, <2>0, <3>1, ReachesOn
    <3> QED
      BY <2>1, <3>1, <3>2
  <2> QED
    BY <2>2, <2>3
<1>7. a \in C
  <2>1. C \in SUBSET Agents /\ m \in C
    BY <1>3
  <2>2. \A x \in C : Blockers(t, x) \subseteq C
    BY <1>6
  <2>3. DependsOn(t, m, a) /\ m \in Agents
    BY <1>3
  <2> HIDE DEF C
  <2> QED
    BY <2>1, <2>2, <2>3, DependsOf
<1>8. PICK z \in Blockers(t, m) : DependsOn(t, z, a)
  BY <1>4, <1>7
<1>9. DependsOn(t, b, z)
  BY <1>1, <1>3, <1>8, ReachesOn
<1> QED
  BY <1>3, <1>5, <1>8, <1>9

\* An agent that owes an answer to one that it does not depend on closes no ring.
LEMMA OwesUnties ==
  ASSUME NEW t, Ranked(t), NEW a \in Agents, NEW b \in Agents, a # b, Known(t, b),
         NEW C \in SUBSET Agents, b \in C, a \notin C,
         t.reentered \/ \A x \in C : Blockers(t, x) \subseteq C,
         t.owed \in [Agents -> SUBSET Agents],
         NEW u, u = [t EXCEPT !.owed[a] = @ \cup {b}]
  PROVE  Ranked(u) /\ (Loopless(t) => Loopless(u))
<1>1. /\ u.state = t.state /\ u.parent = t.parent /\ u.after = t.after /\ u.ran = t.ran
      /\ u.going = t.going /\ u.prompting = t.prompting /\ u.continuing = t.continuing
      /\ u.reentered = t.reentered
      /\ u.owed[a] = t.owed[a] \cup {b} /\ \A x \in Agents : x # a => u.owed[x] = t.owed[x]
  OBVIOUS
<1>2. Ranked(u)
  <2> SUFFICES ASSUME NEW x \in Agents PROVE RanOf(u, x) /\ ElseOf(u, x)
    BY DEF Ranked
  <2>1. RanOf(t, x) /\ ElseOf(t, x)
    BY DEF Ranked
  <2>2. RanOf(u, x)
    BY <1>1, <2>1 DEF RanOf
  <2>3. ElseOf(u, x)
    BY <1>1, <2>1 DEF ElseOf, Known
  <2> QED
    BY <2>2, <2>3
<1>3. \A x : (Unran(u, x) <=> Unran(t, x)) /\ (Live(u, x) <=> Live(t, x))
  BY <1>1 DEF Unran, Live
<1>4. ASSUME NEW x \in Agents, NEW y
      PROVE  /\ x # a => (y \in Blockers(u, x) <=> y \in Blockers(t, x))
             /\ y \in Blockers(u, a) => y \in Blockers(t, a) \/ y = b
  <2>1. \A z \in Agents : y \in Blockers(u, z) <=>
           Live(t, y) /\ \/ y \in Agents /\ t.parent[y] = z
                         \/ y \in u.owed[z]
                         \/ Unran(t, z) /\ y \in t.after[z]
    <3> SUFFICES ASSUME NEW z \in Agents
                 PROVE  y \in Blockers(u, z) <=>
                          Live(t, y) /\ \/ y \in Agents /\ t.parent[y] = z
                                        \/ y \in u.owed[z]
                                        \/ Unran(t, z) /\ y \in t.after[z]
      OBVIOUS
    <3>1. y \in Blockers(u, z) <=>
            Live(u, y) /\ \/ y \in Agents /\ u.parent[y] = z
                          \/ y \in u.owed[z]
                          \/ Unran(u, z) /\ y \in u.after[z]
      BY BlockersOf
    <3>2. (Live(u, y) <=> Live(t, y)) /\ (Unran(u, z) <=> Unran(t, z))
      BY <1>3
    <3> QED
      BY <1>1, <3>1, <3>2
  <2>2. \A z \in Agents : y \in Blockers(t, z) <=>
           Live(t, y) /\ \/ y \in Agents /\ t.parent[y] = z
                         \/ y \in t.owed[z]
                         \/ Unran(t, z) /\ y \in t.after[z]
    BY BlockersOf
  <2> QED
    BY <1>1, <2>1, <2>2
<1>6. Loopless(t) => Loopless(u)
  <2> SUFFICES ASSUME Loopless(t), ~t.reentered, NEW S \in SUBSET Agents, S # {}
               PROVE  \E x \in S : Blockers(u, x) \cap S = {}
    BY <1>1 DEF Loopless
  <2>1. CASE S \cap C = {}
    <3>1. PICK x \in S : Blockers(t, x) \cap S = {}
      BY DEF Loopless
    <3>2. ASSUME NEW y \in Blockers(u, x) \cap S PROVE FALSE
      <4>1. x \in Agents /\ y # b
        BY <2>1
      <4> QED
        BY <1>4, <3>1, <3>2, <4>1
    <3> QED
      BY <3>1, <3>2
  <2>2. CASE S \cap C # {}
    <3>1. PICK x \in S \cap C : Blockers(t, x) \cap (S \cap C) = {}
      BY <2>2 DEF Loopless
    <3>2. x \in Agents /\ x # a /\ Blockers(t, x) \subseteq C
      BY <3>1
    <3>3. ASSUME NEW y \in Blockers(u, x) \cap S PROVE FALSE
      BY <1>4, <3>1, <3>2, <3>3
    <3> QED
      BY <3>1, <3>3
  <2> QED
    BY <2>1, <2>2
<1> QED
  BY <1>2, <1>6

\* a, that was not live, works again, and that is noted if it waits for anyone.
Revives(t, u, a) ==
    /\ \A b \in Agents : b # a => EasesOf(t, u, b)
    /\ Known(u, a) /\ u.parent[a] = t.parent[a] /\ u.after[a] = t.after[a] /\ u.owed[a] = t.owed[a]
    /\ RanOf(t, a) => RanOf(u, a)
    /\ t.ran[a] => u.ran[a]
    /\ ~Live(t, a)
    /\ t.reentered \/ Reenters(t, a) => u.reentered

\* Then nobody waits for more but for a, and a for nobody.
LEMMA RevivesBlockers ==
  ASSUME NEW t, NEW u, Ranked(t), NEW a \in Agents, Revives(t, u, a), ~u.reentered
  PROVE  Blockers(u, a) = {} /\ \A x \in Agents : Blockers(u, x) \subseteq Blockers(t, x) \cup {a}
<1>1. ElseOf(t, a) /\ RanOf(t, a)
  BY DEF Ranked
<1>2. ASSUME NEW b \in Blockers(u, a) PROVE FALSE
  <2>1. Live(u, b) /\ \/ b \in Agents /\ u.parent[b] = a
                      \/ b \in u.owed[a]
                      \/ Unran(u, a) /\ b \in u.after[a]
    BY <1>2, BlockersOf
  <2>2. b \in Agents /\ b # a
    BY <1>1, <2>1 DEF Revives, ElseOf
  <2>3. Live(t, b) /\ (u.parent[b] = t.parent[b])
    BY <2>1, <2>2 DEF Revives, EasesOf
  <2>4. Known(t, b)
    BY <2>3 DEF Live, Known, LiveStates
  <2>5. b \notin LiveChildren(t, a) \cup OwedLive(t, a) \cup WaitingFor(t, a)
    BY DEF Revives, Reenters
  <2>6. t.parent[b] # a /\ b \notin t.owed[a] /\ (b \in t.after[a] => t.ran[a])
    BY <2>2, <2>3, <2>4, <2>5 DEF LiveChildren, Children, OwedLive, WaitingFor
  <2> QED
    BY <2>1, <2>3, <2>6 DEF Revives, Unran
<1>3. ASSUME NEW x \in Agents, NEW b \in Blockers(u, x), b # a PROVE b \in Blockers(t, x)
  <2>0. x # a
    BY <1>2, <1>3
  <2>1. Live(u, b) /\ \/ b \in Agents /\ u.parent[b] = x
                      \/ b \in u.owed[x]
                      \/ Unran(u, x) /\ b \in u.after[x]
    BY <1>3, BlockersOf
  <2>2. EasesOf(t, u, x) /\ RanOf(t, x) /\ ElseOf(t, x)
    BY <2>0 DEF Revives, Ranked
  <2>3. b \in Agents
    BY <2>1, <2>2 DEF EasesOf, ElseOf
  <2>4. EasesOf(t, u, b)
    BY <1>3, <2>3 DEF Revives
  <2>5. Live(t, b)
    BY <2>1, <2>4 DEF EasesOf
  <2>6. \/ t.parent[b] = x \/ b \in t.owed[x] \/ (Unran(t, x) /\ b \in t.after[x])
    BY <2>1, <2>2, <2>4 DEF EasesOf
  <2> QED
    BY <2>3, <2>5, <2>6, BlockersOf
<1> QED
  BY <1>2, <1>3

\* So it closes no ring.
LEMMA RevivesUnties ==
  ASSUME NEW t, NEW u, NEW a \in Agents, Revives(t, u, a)
  PROVE  Unties(t, u)
<1> SUFFICES ASSUME Ranked(t) PROVE Ranked(u) /\ (Loopless(t) => Loopless(u))
  BY DEF Unties
<1>1. Ranked(u)
  <2> SUFFICES ASSUME NEW x \in Agents PROVE RanOf(u, x) /\ ElseOf(u, x)
    BY DEF Ranked
  <2>1. RanOf(t, x) /\ ElseOf(t, x)
    BY DEF Ranked
  <2>2. \A b \in Agents : Known(t, b) => Known(u, b)
    BY DEF Revives, EasesOf
  <2>3. CASE x = a
    BY <2>1, <2>2, <2>3 DEF Revives, ElseOf
  <2>4. CASE x # a
    <3>1. EasesOf(t, u, x)
      BY <2>4 DEF Revives
    <3> QED
      BY <2>1, <2>2, <3>1 DEF EasesOf, ElseOf
  <2> QED
    BY <2>3, <2>4
<1>2. ASSUME Loopless(t), ~u.reentered, NEW S \in SUBSET Agents, S # {}
      PROVE  \E x \in S : Blockers(u, x) \cap S = {}
  <2>1. ~t.reentered
    BY <1>2 DEF Revives
  <2>2. Blockers(u, a) = {} /\ \A x \in Agents : Blockers(u, x) \subseteq Blockers(t, x) \cup {a}
    BY <1>2, RevivesBlockers
  <2>3. CASE a \in S
    BY <2>2, <2>3
  <2>4. CASE a \notin S
    <3>1. PICK x \in S : Blockers(t, x) \cap S = {}
      BY <1>2, <2>1 DEF Loopless
    <3> QED
      BY <2>2, <2>4, <3>1
  <2> QED
    BY <2>3, <2>4
<1> QED
  BY <1>1, <1>2 DEF Loopless

\* a is new in the line, and all else that the waits rest on is as it was.
Newly(t, u, a, by, after) ==
    /\ u.state = [t.state EXCEPT ![a] = "queued"] /\ u.parent = [t.parent EXCEPT ![a] = by]
    /\ u.after = [t.after EXCEPT ![a] = after] /\ u.ran = t.ran /\ u.owed = t.owed
    /\ u.going = t.going /\ u.prompting = t.prompting /\ u.continuing = t.continuing
    /\ u.reentered = t.reentered

\* An agent that is spawned after others, none of which waits for its parent, closes no ring
\* (after.ts afterError).
LEMMA SpawnUnties ==
  ASSUME NEW t \in Teams, Ranked(t), Parents(t), Debts(t),
         NEW a \in Agents, ~Known(t, a), NEW by \in Actors, by = Main \/ Known(t, by),
         NEW after \in SUBSET Agents, after # {} => MayFollow(t, by, after),
         NEW u, Newly(t, u, a, by, after)
  PROVE  Ranked(u) /\ (Loopless(t) => Loopless(u))
<1> USE DEF Newly
<1>0. Main \notin Agents
  BY NumbersOf
<1>1. /\ u.state[a] = "queued" /\ u.parent[a] = by /\ u.after[a] = after
      /\ \A x \in Agents : x # a => /\ u.state[x] = t.state[x] /\ u.parent[x] = t.parent[x]
                                    /\ u.after[x] = t.after[x]
  BY DEF Teams
<1>2. ~Live(t, a) /\ t.state[a] = "none" /\ t.owed[a] = {}
  <2>1. t.state[a] = "none"
    BY DEF Known
  <2>2. t.owed[a] \in SUBSET Agents
    BY DEF Teams
  <2>3. \A b \in t.owed[a] : FALSE
    BY <2>2 DEF Debts
  <2> QED
    BY <2>1, <2>3 DEF Live, LiveStates
<1>3. \A x \in Agents : (Known(u, x) <=> Known(t, x) \/ x = a) /\ (x # a => (Live(u, x) <=> Live(t, x)))
  BY <1>1 DEF Known, Live
<1>4. by # a
  BY <1>0
<1>5. \A x \in after : Known(t, x) /\ x # by /\ x # a /\ x \in Agents
  BY DEF MayFollow
<1>6. Ranked(u)
  <2> SUFFICES ASSUME NEW x \in Agents PROVE RanOf(u, x) /\ ElseOf(u, x)
    BY DEF Ranked
  <2>1. RanOf(t, x) /\ ElseOf(t, x)
    BY DEF Ranked
  <2>2. RanOf(u, x)
    <3>1. u.state[x] \in {"running", "asking", "waiting", "idle"} => u.state[x] = t.state[x]
      BY <1>1
    <3> QED
      BY <2>1, <3>1 DEF RanOf
  <2>3. ElseOf(u, x)
    <3>1. CASE x = a
      <4>1. by \in Agents => Known(u, by)
        BY <1>0, <1>3
      <4>2. u.owed[a] = {} /\ \A b \in after : Known(u, b)
        BY <1>2, <1>3, <1>5
      <4> QED
        BY <1>1, <1>4, <1>5, <3>1, <4>1, <4>2 DEF ElseOf
    <3>2. CASE x # a
      BY <1>1, <1>3, <2>1, <3>2 DEF ElseOf
    <3> QED
      BY <3>1, <3>2
  <2> QED
    BY <2>2, <2>3
<1> DEFINE C == {y \in Agents : y # a /\ \E x \in after : DependsOn(t, x, y)}
<1>7. \A x \in Agents : a \notin Blockers(t, x)
  BY <1>2, BlockersOf
<1>8. ASSUME NEW y \in C, NEW z \in Blockers(t, y) PROVE z \in C
  <2>1. z \in Agents /\ z # a
    BY <1>7, BlockersOf DEF Ranked, ElseOf
  <2>2. PICK x \in after : DependsOn(t, x, y)
    OBVIOUS
  <2>3. DependsOn(t, x, z)
    BY <1>8, <2>2, ReachesOn
  <2> QED
    BY <2>1, <2>2, <2>3
<1>9. \A x \in after : x \in C
  BY <1>5, ReachesOn
<1>10. by \notin C /\ a \notin C
  BY DEF MayFollow
<1>11. ASSUME NEW x \in Agents, NEW y \in Blockers(u, x)
       PROVE  /\ x = a => y \in C
              /\ x # a => y \in Blockers(t, x) \/ (y = a /\ x = by)
  <2>1. Live(u, y) /\ \/ y \in Agents /\ u.parent[y] = x
                      \/ y \in t.owed[x]
                      \/ Unran(u, x) /\ y \in u.after[x]
    BY <1>11, BlockersOf
  <2>2. y \in Agents
    BY <1>6, <2>1 DEF Ranked, ElseOf
  <2>3. CASE x = a
    <3>1. y # a
      BY <1>6, <1>11, <2>1, <2>3 DEF Ranked, ElseOf
    <3>2. Live(t, y) /\ Known(t, y) /\ u.parent[y] = t.parent[y]
      BY <1>1, <1>3, <2>1, <2>2, <3>1 DEF Live, Known, LiveStates
    <3>3. t.parent[y] # a
      BY <2>2 DEF Ranked, ElseOf
    <3> QED
      BY <1>1, <1>2, <1>9, <2>1, <2>3, <3>2, <3>3
  <2>4. CASE x # a /\ y = a
    <3>1. a \notin t.owed[x] /\ a \notin t.after[x]
      BY DEF Ranked, ElseOf
    <3> QED
      BY <1>1, <2>1, <2>4, <3>1
  <2>5. CASE x # a /\ y # a
    <3>1. Live(t, y) /\ u.parent[y] = t.parent[y] /\ u.after[x] = t.after[x]
      BY <1>1, <1>3, <2>1, <2>2, <2>5
    <3>2. Unran(u, x) <=> Unran(t, x)
      BY <1>1, <2>5 DEF Unran
    <3> QED
      BY <2>1, <2>2, <2>5, <3>1, <3>2, BlockersOf
  <2> QED
    BY <2>3, <2>4, <2>5
<1> HIDE DEF C
<1>12. Loopless(t) => Loopless(u)
  <2> SUFFICES ASSUME Loopless(t), ~t.reentered, NEW S \in SUBSET Agents, S # {}
               PROVE  \E x \in S : \A y \in Blockers(u, x) : y \notin S
    BY DEF Loopless
  <2>1. CASE S \cap C # {}
    <3>1. PICK x \in S \cap C : Blockers(t, x) \cap (S \cap C) = {}
      BY <2>1 DEF Loopless
    <3>2. x \in Agents /\ x # by /\ x # a
      BY <1>10, <3>1
    <3>3. ASSUME NEW y \in Blockers(u, x) PROVE y \notin S
      BY <1>8, <1>11, <3>1, <3>2, <3>3
    <3> QED
      BY <3>1, <3>3
  <2>2. CASE S \cap C = {} /\ a \in S
    BY <1>11, <2>2
  <2>3. CASE a \notin S
    <3>1. PICK x \in S : Blockers(t, x) \cap S = {}
      BY DEF Loopless
    <3> QED
      BY <1>11, <2>3, <3>1
  <2> QED
    BY <2>1, <2>2, <2>3
<1> QED
  BY <1>6, <1>12

------------------------------------------------------------------------------
(* Calls that add no wait *)

\* What the waits rest on is as it was, but for the states of the agents and who works.
Level(t, u) ==
    /\ u.parent = t.parent /\ u.after = t.after /\ u.owed = t.owed
    /\ t.reentered => u.reentered
AsOf(t, u, b) ==
    /\ u.state[b] = t.state[b] /\ u.ran[b] = t.ran[b] /\ u.going[b] = t.going[b]
    /\ b \in u.prompting => b \in t.prompting
    /\ b \in u.continuing => b \in t.continuing

\* What is about one agent at most.
LEMMA EasesAt ==
  ASSUME NEW t, NEW u, Level(t, u), NEW a, \A b \in Agents : b # a => AsOf(t, u, b),
         a \in Agents => (Live(u, a) => Live(t, a)) /\ (Known(t, a) => Known(u, a)),
         a \in Agents => (RanOf(t, a) => RanOf(u, a) /\ (Unran(u, a) => Unran(t, a)))
  PROVE  Eases(t, u)
<1> SUFFICES ASSUME NEW b \in Agents PROVE EasesOf(t, u, b)
  BY DEF Eases, Level
<1>1. CASE b = a
  BY <1>1 DEF EasesOf, Level
<1>2. CASE b # a
  <2>1. AsOf(t, u, b)
    BY <1>2
  <2>2. (Live(u, b) <=> Live(t, b)) /\ (Known(t, b) <=> Known(u, b)) /\ (Unran(u, b) <=> Unran(t, b))
    BY <2>1 DEF AsOf, Live, Known, Unran
  <2>3. RanOf(t, b) => RanOf(u, b)
    BY <2>1 DEF AsOf, RanOf
  <2> QED
    BY <2>2, <2>3 DEF EasesOf, Level
<1> QED
  BY <1>1, <1>2

\* What is about none.
LEMMA AsideEases ==
  ASSUME NEW t, NEW u, Level(t, u), u.state = t.state, u.ran = t.ran, u.going = t.going,
         u.prompting \subseteq t.prompting, u.continuing \subseteq t.continuing
  PROVE  Eases(t, u)
<1>1. \A b \in Agents : AsOf(t, u, b)
  BY DEF AsOf
<1>2. NoOne \notin Agents
  BY DEF NoOne, Agents
<1> QED
  BY <1>1, <1>2, EasesAt

\* Who goes on has had its first run.
LEMMA GoEases ==
  ASSUME NEW t \in Teams, NEW x, Sound(t, x), Posted(t), NEW a \in Agents, t.state[a] = "queued",
         NEW how, how = t.going[a], how # "no", NEW u, u = Go(Dropped(t, a), a, how)
  PROVE  Eases(t, u)
<1>1. u.state = [t.state EXCEPT ![a] = "running"] /\ Keeps(t, u)
  BY GoRuns
<1>2. PICK v : v = Dropped(t, a)
  OBVIOUS
<1>3. /\ v \in Teams /\ v.owed = t.owed /\ v.reentered = t.reentered /\ v.ran = t.ran
      /\ v.prompting = t.prompting /\ v.continuing = t.continuing /\ v.held = t.held
      /\ v.going[a] = "no" /\ \A b \in Agents : b # a => v.going[b] = t.going[b]
  BY <1>2 DEF Teams, Dropped
<1>4. /\ u.owed = t.owed /\ u.reentered = t.reentered /\ u.going = v.going
      /\ u.continuing \subseteq t.continuing
      /\ \A b \in Agents : b # a => u.ran[b] = t.ran[b] /\ (b \in u.prompting => b \in t.prompting)
      /\ t.ran[a] => u.ran[a]
  <2>1. CASE how = "on"
    <3>1. u = [v EXCEPT !.state[a] = "running"]
      BY <1>2, <2>1 DEF Go
    <3> QED
      BY <1>3, <3>1 DEF Teams
  <2>2. CASE how = "rest"
    <3>1. PICK w : w = Onwards(v, a)
      OBVIOUS
    <3>2. /\ w \in Teams /\ w.owed = v.owed /\ w.reentered = v.reentered /\ w.ran = v.ran
          /\ w.prompting = v.prompting /\ w.continuing = v.continuing /\ w.going = v.going
      <4>1. w \in Teams
        BY <1>3, <3>1, RunningIs
      <4> QED
        BY ZenonT(40), <1>3, <3>1, <4>1 DEF Onwards, Teams
    <3>3. u = SteerInbox(w, a)
      BY <1>2, <2>2, <3>1 DEF Go, Onwards
    <3> QED
      BY <1>3, <3>2, <3>3 DEF SteerInbox, Teams
  <2>3. CASE how = "run"
    <3>1. PICK w : w = [v EXCEPT !.inbox[a] = {}]
      OBVIOUS
    <3>2. /\ w \in Teams /\ w.owed = v.owed /\ w.reentered = v.reentered /\ w.ran = v.ran
          /\ w.prompting = v.prompting /\ w.continuing = v.continuing /\ w.going = v.going
      BY <1>3, <3>1 DEF Teams
    <3>3. u = Run(w, a)
      BY <1>2, <2>3, <3>1 DEF Go
    <3> QED
      BY <1>3, <3>2, <3>3 DEF Run, Teams
  <2>4. how \in {"on", "run", "rest"}
    BY DEF Teams
  <2> QED
    BY <2>1, <2>2, <2>3, <2>4
<1>5. u.state[a] = "running" /\ \A b \in Agents : b # a => u.state[b] = t.state[b]
  BY <1>1 DEF Teams
<1>6. Level(t, u)
  BY <1>1, <1>4 DEF Level, Keeps
<1>7. \A b \in Agents : b # a => AsOf(t, u, b)
  BY <1>3, <1>4, <1>5 DEF AsOf
<1>8. Live(t, a) /\ Known(u, a)
  BY <1>5 DEF Live, Known, LiveStates
<1>9. RanOf(t, a) => RanOf(u, a)
  BY <1>4 DEF RanOf
<1>10. ~Unran(u, a)
  BY <1>5 DEF Unran
<1> QED
  BY <1>6, <1>7, <1>8, <1>9, <1>10, EasesAt

\* Starting.
LEMMA StartEases ==
  ASSUME NEW t \in Teams, NEW a \in Agents, t.state[a] = "queued", NEW u, u = Start(t, a)
  PROVE  Eases(t, u)
<1>1. u.state = [t.state EXCEPT ![a] = "starting"] /\ Keeps(t, u) /\ u.going = t.going
  BY StartLeaves
<1>2. /\ u.owed = t.owed /\ u.reentered = t.reentered /\ u.ran = t.ran
      /\ u.prompting \subseteq t.prompting /\ u.continuing = t.continuing
  BY DEF Start, Teams
<1>3. u.state[a] = "starting" /\ \A b \in Agents : b # a => u.state[b] = t.state[b]
  BY <1>1 DEF Teams
<1>4. Level(t, u)
  BY <1>1, <1>2 DEF Level, Keeps
<1>5. \A b \in Agents : b # a => AsOf(t, u, b)
  BY <1>1, <1>2, <1>3 DEF AsOf
<1>6. Live(t, a) /\ Known(u, a) /\ ~Unran(u, a)
  BY <1>3 DEF Live, Known, LiveStates, Unran
<1>7. RanOf(t, a) => RanOf(u, a)
  BY <1>1, <1>2, <1>3 DEF RanOf
<1> QED
  BY <1>4, <1>5, <1>6, <1>7, EasesAt

\* pump.
LEMMA PumpEases ==
  ASSUME NEW t0 \in Teams, NEW x, Sound(t0, x), Posted(t0), NEW u, u = Pump(t0)
  PROVE  Eases(t0, u)
<1> DEFINE n == Len(t0.line)
           X == [s \in SUBSET (1 .. n) |->
                   {acc \in Taken(t0, x, s) : Posted(acc.team) /\ Eases(t0, acc.team)}]
           x0 == [team |-> t0, active |-> Used(t0), kept |-> <<>>]
           end == FoldLeft(LetGo, x0, t0.line)
<1>1. t0.line \in Seq(Agents) /\ n \in Nat /\ DOMAIN t0.line = 1 .. n
  BY DEF Teams
<1>2. x0 \in Taken(t0, x, {}) /\ Eases(t0, x0.team)
  BY StartsTaken, EasesMore
<1>3. ASSUME NEW s \in SUBSET (1 .. n), NEW i \in (1 .. n) \ s, NEW acc \in X[s]
      PROVE  LetGo(acc, t0.line[i]) \in X[s \cup {i}]
  <2>1. /\ acc \in Taken(t0, x, s) /\ Posted(acc.team) /\ Eases(t0, acc.team) /\ t0.line[i] \in Agents
    BY <1>1
  <2>2. PICK new, a : a = t0.line[i] /\ new = LetGo(acc, a)
    OBVIOUS
  <2>3. new \in Taken(t0, x, s \cup {i})
    BY <2>1, <2>2, LetGoKeeps
  <2>4. Posted(new.team)
    BY SMTT(30), <2>1, <2>2, LetGoKept
  <2>5. Eases(acc.team, new.team)
    <3>1. PICK t, how : t = acc.team /\ how = t.going[a]
      OBVIOUS
    <3>2. acc \in Walk /\ t \in Teams /\ Sound(t, x) /\ Posted(t) /\ a \in Agents
      BY <2>1, <2>2, <3>1 DEF Taken, Walk
    <3>3. CASE new = [acc EXCEPT !.kept = Append(@, a)]
      BY <3>2, <3>3, EasesMore DEF Walk
    <3>4. CASE t.state[a] # "queued" /\ new = [acc EXCEPT !.team.going[a] = "no"]
      <4>1. PICK v : v = Dropped(t, a)
        OBVIOUS
      <4>2. new.team = v
        BY <3>1, <3>2, <3>4, <4>1 DEF Walk, Dropped
      <4>3. /\ v.state = t.state /\ v.ran = t.ran /\ v.prompting = t.prompting
            /\ v.continuing = t.continuing /\ v.parent = t.parent /\ v.after = t.after
            /\ v.owed = t.owed /\ v.reentered = t.reentered
            /\ v.going[a] = "no" /\ \A b \in Agents : b # a => v.going[b] = t.going[b]
        BY <3>2, <4>1 DEF Dropped, Teams
      <4>4. Level(t, v) /\ \A b \in Agents : b # a => AsOf(t, v, b)
        BY <4>3 DEF Level, AsOf
      <4>5. /\ (Live(v, a) <=> Live(t, a)) /\ (Known(v, a) <=> Known(t, a))
            /\ (Unran(v, a) <=> Unran(t, a)) /\ (RanOf(t, a) => RanOf(v, a))
        BY <4>3 DEF Live, Known, Unran, RanOf
      <4> QED
        BY <3>1, <4>2, <4>4, <4>5, EasesAt
    <3>5. CASE /\ t.state[a] = "queued" /\ how # "no"
               /\ new = [acc EXCEPT !.active = @ + 1, !.team = Go([t EXCEPT !.going[a] = "no"], a, how)]
      <4>1. PICK v : v = Go(Dropped(t, a), a, how)
        OBVIOUS
      <4>2. new.team = v
        BY <3>2, <3>5, <4>1 DEF Walk, Dropped
      <4>3. Eases(t, v)
        BY <3>1, <3>2, <3>5, <4>1, GoEases
      <4> QED
        BY <3>1, <4>2, <4>3
    <3>6. CASE /\ t.state[a] = "queued" /\ how = "no"
               /\ new = [acc EXCEPT !.active = @ + 1, !.team = Start(t, a)]
      <4>1. new.team = Start(t, a)
        BY <3>2, <3>6 DEF Walk
      <4> QED
        BY <3>1, <3>2, <3>6, <4>1, StartEases
    <3> QED
      BY <2>2, <3>1, <3>3, <3>4, <3>5, <3>6 DEF LetGo
  <2>6. Eases(t0, new.team)
    BY <2>1, <2>5, EasesMore
  <2> QED
    BY <2>2, <2>3, <2>4, <2>6
<1>4. x0 \in X[{}]
  BY <1>2
<1> HIDE DEF x0
<1>5. end \in X[1 .. n]
  <2> HIDE DEF X, n
  <2> QED BY <1>1, <1>3, <1>4, FoldLetGo
<1>6. end \in Taken(t0, x, 1 .. n) /\ Eases(t0, end.team)
  BY <1>5
<1>7. u = [end.team EXCEPT !.line = end.kept]
  BY DEF Pump, Pumped, x0
<1> HIDE DEF end
<1>8. PICK t : t = end.team
  OBVIOUS
<1>9. t \in Teams
  BY <1>6, <1>8 DEF Taken, Walk
<1>10. /\ u.state = t.state /\ u.ran = t.ran /\ u.going = t.going /\ u.prompting = t.prompting
       /\ u.continuing = t.continuing /\ Level(t, u)
  BY <1>7, <1>8, <1>9 DEF Teams, Level
<1>11. Eases(t, u)
  BY <1>10, AsideEases
<1> QED
  BY <1>6, <1>8, <1>11, EasesMore

\* What goOn leaves.
LEMMA GoOnLevels ==
  ASSUME NEW t \in Teams, NEW a \in Agents, NEW how \in {"on", "run", "rest"},
         NEW v, v = [t EXCEPT !.state[a] = "queued"], NEW u, u = GoOn(v, a, how)
  PROVE  /\ Level(t, u) /\ \A b \in Agents : b # a => AsOf(t, u, b)
         /\ u.state[a] = "queued" /\ u.ran = t.ran /\ u.reentered = t.reentered
         /\ u.prompting = t.prompting /\ u.continuing = t.continuing
<1>1. PICK l : u = [v EXCEPT !.going[a] = how, !.line = l]
  BY Zenon DEF GoOn
<1>2. u.state = [t.state EXCEPT ![a] = "queued"] /\ u.going = [t.going EXCEPT ![a] = how]
  BY <1>1 DEF Teams
<1>3. /\ u.ran = t.ran /\ u.prompting = t.prompting /\ u.continuing = t.continuing
      /\ u.parent = t.parent /\ u.after = t.after /\ u.owed = t.owed /\ u.reentered = t.reentered
  BY <1>1 DEF Teams
<1>4. /\ u.state[a] = "queued"
      /\ \A b \in Agents : b # a => u.state[b] = t.state[b] /\ u.going[b] = t.going[b]
  BY ZenonT(40), <1>2 DEF Teams
<1>5. Level(t, u)
  BY <1>3 DEF Level
<1>6. \A b \in Agents : b # a => AsOf(t, u, b)
  BY <1>3, <1>4 DEF AsOf
<1> QED
  BY <1>3, <1>4, <1>5, <1>6

\* Who works goes on, at once or from the line.
LEMMA GoOnWhenFreeEases ==
  ASSUME NEW t \in Teams, NEW a \in Agents, t.state[a] \in {"running", "asking"},
         NEW how \in {"on", "rest"}, NEW u, u = GoOnWhenFree(t, a, how)
  PROVE  Eases(t, u)
<1>1. Live(t, a)
  BY DEF Live, LiveStates
<1>2. CASE u = Go(t, a, how)
  <2>1. PICK w : w = Onwards(t, a)
    OBVIOUS
  <2>2. /\ w \in Teams /\ w.state = [t.state EXCEPT ![a] = "running"] /\ w.going = t.going
        /\ w.prompting = t.prompting /\ w.owed = t.owed
    BY <2>1, RunningIs
  <2>3. /\ w.ran = t.ran /\ w.continuing = t.continuing /\ w.parent = t.parent /\ w.after = t.after
        /\ w.reentered = t.reentered
    BY <2>1 DEF Onwards, Teams
  <2>4. u = w \/ u = SteerInbox(w, a)
    BY <1>2, <2>1 DEF Go, Onwards
  <2>5. /\ u.state = w.state /\ u.going = w.going /\ u.prompting = w.prompting /\ u.ran = w.ran
        /\ u.continuing = w.continuing /\ Level(w, u)
    <3>1. CASE u = w
      BY <3>1 DEF Level
    <3>2. CASE u = SteerInbox(w, a)
      BY <2>2, <3>2 DEF SteerInbox, Teams, Level
    <3> QED
      BY <2>4, <3>1, <3>2
  <2>6. u.state[a] = "running" /\ \A b \in Agents : b # a => u.state[b] = t.state[b]
    BY <2>2, <2>5 DEF Teams
  <2>7. Level(t, u) /\ \A b \in Agents : b # a => AsOf(t, u, b)
    BY <2>2, <2>3, <2>5, <2>6 DEF Level, AsOf
  <2>8. Known(u, a) /\ ~Unran(u, a)
    BY <2>6 DEF Known, Unran
  <2>9. RanOf(t, a) => RanOf(u, a)
    BY <2>2, <2>3, <2>5 DEF RanOf
  <2> QED
    BY <1>1, <2>7, <2>8, <2>9, EasesAt
<1>3. CASE u = GoOn([t EXCEPT !.state[a] = "queued"], a, how)
  <2>1. PICK v : v = [t EXCEPT !.state[a] = "queued"]
    OBVIOUS
  <2>2. /\ Level(t, u) /\ \A b \in Agents : b # a => AsOf(t, u, b)
        /\ u.state[a] = "queued" /\ u.ran = t.ran
    <3>1. PICK way \in {"on", "run", "rest"} : way = how
      OBVIOUS
    <3>2. PICK w : w = GoOn(v, a, way)
      OBVIOUS
    <3>3. /\ Level(t, w) /\ \A b \in Agents : b # a => AsOf(t, w, b)
          /\ w.state[a] = "queued" /\ w.ran = t.ran
      BY <2>1, <3>2, GoOnLevels
    <3>4. u = w
      BY <1>3, <2>1, <3>1, <3>2
    <3> QED
      BY <3>3, <3>4
  <2>3. Known(u, a) /\ (RanOf(t, a) => RanOf(u, a) /\ ~Unran(u, a))
    BY <2>2 DEF RanOf, Known, Unran
  <2> QED
    BY <1>1, <2>2, <2>3, EasesAt
<1> QED
  BY <1>2, <1>3 DEF GoOnWhenFree

\* A wait: true call that returns.
LEMMA ReturnEases ==
  ASSUME NEW t, NEW x, Good(t, x), Posted(t), NEW a \in Agents, NEW u, u = Return(t, a)
  PROVE  Eases(t, u)
<1>0. t \in Teams /\ Sound(t, x)
  BY DEF Good
<1>1. CASE ~Waited(t, a)
  BY <1>1, EasesMore DEF Return
<1>2. CASE Waited(t, a)
  <2>1. PICK v : v = WaitEnds(t, a)
    OBVIOUS
  <2>2. /\ v \in Teams /\ v.state = t.state /\ v.ran = t.ran /\ v.going = t.going
        /\ v.prompting = t.prompting /\ v.continuing = t.continuing /\ Level(t, v)
    BY <1>0, <2>1 DEF Teams, WaitEnds, Level
  <2>3. t.state[a] \in {"running", "asking"}
    BY <1>0, <1>2 DEF Waited, Sound, Waits
  <2>4. Eases(t, v)
    BY <2>2, AsideEases
  <2>5. u = v \/ u = GoOnWhenFree(v, a, "on")
    BY <1>2, <2>1 DEF Return, AfterWait, WaitEnds
  <2>6. CASE u = GoOnWhenFree(v, a, "on")
    <3>1. PICK how \in {"on", "rest"} : how = "on"
      OBVIOUS
    <3>2. Eases(v, u)
      BY <2>2, <2>3, <2>6, <3>1, GoOnWhenFreeEases
    <3> QED
      BY <2>4, <3>2, EasesMore
  <2> QED
    BY <2>4, <2>5, <2>6
<1> QED
  BY <1>1, <1>2

\* All that may return.
LEMMA ReturnedEases ==
  ASSUME NEW t, NEW x, Tends(t, x)
  PROVE  Eases(t, Returned(t))
<1> DEFINE n == Cardinality(Agents)
           G == {u \in Teams : Tends(u, x) /\ Eases(t, u)}
           X == [s \in SUBSET (1 .. n) |-> G]
<1>1. PICK line : line = InOrder(Agents)
  OBVIOUS
<1>2. n \in Nat /\ DOMAIN line = 1 .. n /\ line \in [1 .. n -> Agents]
  BY <1>1, InOrderLists
<1>3. t \in X[{}]
  BY EasesMore DEF Good, Tends
<1>4. ASSUME NEW s \in SUBSET (1 .. n), NEW i \in (1 .. n) \ s, NEW v \in X[s]
      PROVE  Return(v, line[i]) \in X[s \cup {i}]
  <2>1. Tends(v, x) /\ Eases(t, v) /\ line[i] \in Agents
    BY <1>2
  <2>2. PICK u : u = Return(v, line[i])
    OBVIOUS
  <2>3. Tends(u, x)
    BY <2>1, <2>2, ReturnSteady
  <2>4. Eases(v, u)
    BY <2>1, <2>2, ReturnEases DEF Tends
  <2>5. Eases(t, u)
    BY <2>1, <2>4, EasesMore
  <2> QED
    BY <2>2, <2>3, <2>5 DEF Good, Tends
<1>5. FoldLeft(Return, t, line) \in X[1 .. n]
  <2> HIDE DEF X, n
  <2> QED BY <1>2, <1>3, <1>4, FoldReturn
<1> QED
  BY <1>1, <1>5 DEF Returned

\* The end of a question.
LEMMA EndQuestionEases ==
  ASSUME NEW t, NEW x, Good(t, x), Posted(t), NEW a \in Agents, t.question[a] # NoOne,
         NEW u, u = EndQuestion(t, a)
  PROVE  Eases(t, u)
<1>0. t \in Teams /\ Sound(t, x) /\ Few(t)
  BY DEF Good
<1>1. PICK d : d = Question(t, a, NoOne)
  OBVIOUS
<1>2. Good(d, x)
  BY <1>1, QuestionSound
<1>3. d \in Teams /\ Sound(d, x) /\ Few(d)
  BY <1>2 DEF Good
<1>4. /\ d.state = t.state /\ d.going = t.going /\ d.held = t.held /\ d.resume = t.resume
      /\ d.question = [t.question EXCEPT ![a] = NoOne] /\ d.wait = t.wait
      /\ d.ran = t.ran /\ d.prompting = t.prompting /\ d.continuing = t.continuing /\ Level(t, d)
  BY <1>0, <1>1 DEF Teams, Question, Level
<1>5. t.state[a] = "asking"
  BY <1>0 DEF Sound, Asks
<1>6. Eases(t, d) /\ Posted(d)
  BY <1>4, AsideEases DEF Posted, PostedOf
<1>9. CASE Ending(t, a) /\ u = Pump(d)
  BY <1>3, <1>6, <1>9, PumpEases, EasesMore
<1>10. CASE ~Ending(t, a) /\ u = Pump(GoOnWhenFree(d, a, "on"))
  <2>1. PICK how \in {"on", "rest"} : how = "on"
    OBVIOUS
  <2>2. PICK v : v = GoOnWhenFree(d, a, how)
    OBVIOUS
  <2>3. Posted(v)
    BY <1>3, <1>4, <1>5, <1>6, <2>2, GoOnWhenFreeKept
  <2>4. Eases(d, v)
    BY <1>3, <1>4, <1>5, <2>2, GoOnWhenFreeEases
  <2>7. MayGo(d, a)
    <3>1. d.question[a] = NoOne /\ d.wait[a] = NoOne
      BY <1>0, <1>4 DEF Teams, Sound, Waits
    <3>2. ~Ending(d, a)
      BY <1>0, <1>1, <1>10 DEF Ending, Question, Teams
    <3> QED
      BY <1>3, <1>4, <1>5, <3>1, <3>2 DEF MayGo, Known, Sound, Opens
  <2>8. v \in Teams /\ Sound(v, x)
    BY <1>3, <2>2, <2>7, GoOnWhenFreeSound
  <2>9. u = Pump(v)
    BY <1>10, <2>1, <2>2
  <2>10. Eases(v, u)
    BY <2>3, <2>8, <2>9, PumpEases
  <2> QED
    BY <1>6, <2>4, <2>10, EasesMore
<1> QED
  BY <1>1, <1>5, <1>9, <1>10 DEF EndQuestion, Question

------------------------------------------------------------------------------
(* Mail that resumes *)

\* A message that works an agent adds waits for that one at most.
Rouses(t, u, a) ==
    /\ Unties(t, u)
    /\ t.reentered => u.reentered
    /\ Ranked(t) => u.reentered \/ \A b \in Agents : Blockers(u, b) \subseteq Blockers(t, b) \cup {a}

\* One after another.
LEMMA RousesMore ==
  ASSUME NEW t, NEW u, NEW v, NEW a
  PROVE  Rouses(t, t, a) /\ (Rouses(t, u, a) /\ Rouses(u, v, a) => Rouses(t, v, a))
<1>1. Rouses(t, t, a)
  BY UntiesMore DEF Rouses
<1>2. ASSUME Rouses(t, u, a), Rouses(u, v, a) PROVE Rouses(t, v, a)
  <2>1. Unties(t, v) /\ (t.reentered => v.reentered)
    BY <1>2, UntiesMore DEF Rouses
  <2>2. ASSUME Ranked(t), ~v.reentered, NEW b \in Agents
        PROVE  Blockers(v, b) \subseteq Blockers(t, b) \cup {a}
    <3>1. Ranked(u) /\ ~u.reentered
      BY <1>2, <2>2 DEF Rouses, Unties
    <3>2. Blockers(v, b) \subseteq Blockers(u, b) \cup {a}
      BY <1>2, <2>2, <3>1 DEF Rouses
    <3>3. Blockers(u, b) \subseteq Blockers(t, b) \cup {a}
      BY <1>2, <2>2, <3>1 DEF Rouses
    <3> QED
      BY <3>2, <3>3
  <2> QED
    BY <2>1, <2>2 DEF Rouses
<1> QED
  BY <1>1, <1>2

\* What eases, and what works one again that is noted.
LEMMA EasesRouses == ASSUME NEW t, NEW u, Eases(t, u), NEW a PROVE Rouses(t, u, a)
<1>1. Unties(t, u) /\ (t.reentered => u.reentered)
  BY EasesUnties DEF Eases
<1>2. Ranked(t) => \A b \in Agents : Blockers(u, b) \subseteq Blockers(t, b)
  BY EasedBlockers
<1> QED
  BY <1>1, <1>2 DEF Rouses

LEMMA RevivesRouses ==
  ASSUME NEW t, NEW u, NEW a \in Agents, Revives(t, u, a) PROVE Rouses(t, u, a)
<1>1. Unties(t, u) /\ (t.reentered => u.reentered)
  BY RevivesUnties DEF Revives
<1>2. Ranked(t) /\ ~u.reentered => \A b \in Agents : Blockers(u, b) \subseteq Blockers(t, b) \cup {a}
  BY RevivesBlockers
<1> QED
  BY <1>1, <1>2 DEF Rouses

\* Who works again.
LEMMA RevivesAt ==
  ASSUME NEW t, NEW u, Level(t, u), NEW a \in Agents, \A b \in Agents : b # a => AsOf(t, u, b),
         ~Live(t, a), Known(u, a), RanOf(t, a) => RanOf(u, a), t.ran[a] => u.ran[a],
         Reenters(t, a) => u.reentered
  PROVE  Revives(t, u, a)
<1>1. ASSUME NEW b \in Agents, b # a PROVE EasesOf(t, u, b)
  <2>1. AsOf(t, u, b)
    BY <1>1
  <2>2. (Live(u, b) <=> Live(t, b)) /\ (Known(t, b) <=> Known(u, b)) /\ (Unran(u, b) <=> Unran(t, b))
    BY <2>1 DEF AsOf, Live, Known, Unran
  <2>3. RanOf(t, b) => RanOf(u, b)
    BY <2>1 DEF AsOf, RanOf
  <2> QED
    BY <2>2, <2>3 DEF EasesOf, Level
<1> QED
  BY <1>1 DEF Revives, Level

\* relaunch.
LEMMA RelaunchRouses ==
  ASSUME NEW t \in Teams, NEW x, Sound(t, x), Few(t), Posted(t), NEW a \in Agents, Pauses(t, a),
         NEW from \in Actors, NEW peer, NEW u, u = Relaunch(t, a, from, peer)
  PROVE  Rouses(t, u, a)
<1>1. PICK s : s = IF t.state[a] = "waiting" THEN t ELSE StartedBy(t, a, peer)
  OBVIOUS
<1>2. s \in Teams
  BY <1>1, StartedBySame
<1>3. /\ s.state = t.state /\ s.parent = t.parent /\ s.after = t.after /\ s.owed = t.owed
      /\ s.ran = t.ran /\ s.prompting = t.prompting /\ s.continuing = t.continuing
      /\ s.reentered = t.reentered /\ s.going = t.going /\ s.held = t.held /\ s.resume = t.resume
  <2>1. s = t \/ s = StartedBy(t, a, peer)
    BY <1>1
  <2>2. CASE s = StartedBy(t, a, peer)
    BY <2>2 DEF StartedBy, Teams
  <2> QED
    BY <2>1, <2>2
<1>4. PICK v : v = Resumed(t, a, from, s)
  OBVIOUS
<1>5. PICK b, mail : b = Reenters(t, a) /\ mail = t.inbox[a] \cup {from}
  OBVIOUS
<1>6. v = [s EXCEPT !.resume[a] = mail, !.inbox[a] = {},
                    !.state[a] = "queued", !.reentered = @ \/ b]
  BY <1>4, <1>5 DEF Resumed
<1>7. b \in BOOLEAN /\ mail \in SUBSET Actors
  BY <1>5 DEF Reenters, Teams
<1>8. v \in Teams
  BY Zenon, <1>2, <1>6, <1>7, ResumedTyped
<1>9. /\ v.state = [s.state EXCEPT ![a] = "queued"] /\ v.going = s.going /\ v.held = s.held
      /\ v.parent = s.parent /\ v.after = s.after /\ v.owed = s.owed /\ v.ran = s.ran
      /\ v.prompting = s.prompting /\ v.continuing = s.continuing
      /\ v.resume = [s.resume EXCEPT ![a] = mail]
  BY <1>2, <1>6 DEF Teams
<1>r. v.reentered = (s.reentered \/ b)
  BY <1>2, <1>6 DEF Teams
<1>10. t.state[a] # "queued" /\ t.going[a] = "no"
  BY DEF Posted, PostedOf, Pauses
<1>11. PICK first \in BOOLEAN : first = FALSE
  OBVIOUS
<1>w. PICK w : w = Enqueue(v, a, first)
  OBVIOUS
<1>12. /\ w \in Teams /\ w.state = v.state /\ w.going = v.going /\ w.held = v.held
       /\ w.resume = v.resume /\ w.parent = v.parent /\ w.after = v.after /\ w.owed = v.owed
       /\ w.ran = v.ran /\ w.prompting = v.prompting /\ w.continuing = v.continuing
       /\ w.reentered = v.reentered
  <2>1. w \in Teams
    BY <1>8, <1>w, EnqueueTyped
  <2> QED
    BY ZenonT(40), <1>8, <1>w, <2>1 DEF Enqueue, Teams
<1>13. Sound(w, x)
  BY <1>1, <1>4, <1>11, <1>w, ResumedSound
<1>q. w.state[a] = "queued" /\ \A c \in Agents : c # a => w.state[c] = t.state[c]
  BY <1>3, <1>9, <1>12 DEF Teams
<1>14. Posted(w)
  <2>2. \A c \in Agents : c # a => PostedOf(w, c)
    BY <1>2, <1>3, <1>9, <1>12 DEF Posted, PostedOf, Teams
  <2>3. PostedOf(w, a)
    BY <1>3, <1>9, <1>10, <1>12, <1>q DEF PostedOf
  <2> QED
    BY <2>2, <2>3 DEF Posted
<1>15. u = Pump(w)
  BY <1>1, <1>4, <1>11, <1>w DEF Relaunch, Resumed
<1>16. Rouses(w, u, a)
  BY <1>12, <1>13, <1>14, <1>15, PumpEases, EasesRouses
<1>17. Level(t, w) /\ w.ran = t.ran /\ (Reenters(t, a) => w.reentered)
  BY <1>3, <1>5, <1>9, <1>r, <1>12 DEF Level
<1>18. \A c \in Agents : c # a => AsOf(t, w, c)
  BY <1>3, <1>9, <1>12, <1>q DEF AsOf
<1>19. RanOf(t, a) => RanOf(w, a)
  BY <1>3, <1>9, <1>12, <1>q DEF RanOf
<1>20. Known(w, a)
  BY <1>q DEF Known
<1>21. CASE t.state[a] = "waiting"
  <2>1. Live(t, a) /\ (RanOf(t, a) => ~Unran(w, a))
    BY <1>17, <1>21 DEF Live, LiveStates, RanOf, Unran
  <2>2. Eases(t, w)
    BY <1>17, <1>18, <1>19, <1>20, <2>1, EasesAt
  <2> QED
    BY <1>16, <2>2, EasesRouses, RousesMore
<1>22. CASE t.state[a] # "waiting"
  <2>1. ~Live(t, a)
    BY <1>22 DEF Pauses, Live, LiveStates
  <2>2. Revives(t, w, a)
    BY <1>17, <1>18, <1>19, <1>20, <2>1, RevivesAt
  <2> QED
    BY <1>16, <2>2, RevivesRouses, RousesMore
<1> QED
  BY <1>21, <1>22

\* What runWhenFree leaves.
LEMMA RunWhenFreeLevel ==
  ASSUME NEW t \in Teams, NEW a \in Agents, t.held[a], t.state[a] \in {"idle", "waiting"},
         NEW mail \in SUBSET Actors, NEW u, u = RunWhenFree(t, a, mail)
  PROVE  /\ Level(t, u) /\ u.reentered = t.reentered
         /\ \A b \in Agents : b # a => AsOf(t, u, b)
         /\ u.state[a] \in {"running", "queued"}
         /\ t.ran[a] => u.ran[a]
         /\ RanOf(t, a) => RanOf(u, a)
<1>1. CASE u = Run(t, a)
  <2>1. u.state = [t.state EXCEPT ![a] = "running"] /\ u.owed = t.owed /\ u.going = t.going
        /\ u.prompting = t.prompting \cup {a}
    BY <1>1, RunIs
  <2>2. /\ u.ran = [t.ran EXCEPT ![a] = TRUE] /\ u.continuing = t.continuing \ {a}
        /\ u.parent = t.parent /\ u.after = t.after /\ u.reentered = t.reentered
    BY <1>1 DEF Run, Teams
  <2>3. /\ u.state[a] = "running" /\ u.ran[a]
        /\ \A b \in Agents : b # a => u.state[b] = t.state[b] /\ u.ran[b] = t.ran[b]
    BY <2>1, <2>2 DEF Teams
  <2>4. Level(t, u) /\ \A b \in Agents : b # a => AsOf(t, u, b)
    BY <2>1, <2>2, <2>3 DEF Level, AsOf
  <2> QED
    BY <2>2, <2>3, <2>4 DEF RanOf
<1>2. CASE u = GoOn([t EXCEPT !.inbox[a] = @ \cup mail, !.state[a] = "queued"], a, "run")
  <2>1. PICK how \in {"on", "run", "rest"} : how = "run"
    OBVIOUS
  <2>v. PICK v : v = [t EXCEPT !.inbox[a] = @ \cup mail, !.state[a] = "queued"]
    OBVIOUS
  <2>2. PICK w : w = Inbox(t, a, t.inbox[a] \cup mail)
    OBVIOUS
  <2>3. w \in Teams
    BY <2>2 DEF Teams, Inbox
  <2>4. /\ w.state = t.state /\ w.parent = t.parent /\ w.after = t.after /\ w.owed = t.owed
        /\ w.ran = t.ran /\ w.going = t.going /\ w.prompting = t.prompting
        /\ w.continuing = t.continuing /\ w.reentered = t.reentered
    BY <2>2 DEF Teams, Inbox
  <2>5. v = [w EXCEPT !.state[a] = "queued"]
    BY <2>v, <2>2 DEF Teams, Inbox
  <2>6. u = GoOn(v, a, how)
    BY <1>2, <2>1, <2>v
  <2>7. /\ Level(w, u) /\ \A b \in Agents : b # a => AsOf(w, u, b)
        /\ u.state[a] = "queued" /\ u.ran = w.ran /\ u.reentered = w.reentered
    BY <2>3, <2>5, <2>6, GoOnLevels
  <2>8. Level(t, u)
    BY <2>4, <2>7 DEF Level
  <2>9. \A b \in Agents : b # a => AsOf(t, u, b)
    BY <2>4, <2>7 DEF AsOf
  <2>10. RanOf(t, a) => RanOf(u, a)
    BY <2>4, <2>7 DEF RanOf
  <2> QED
    BY <2>4, <2>7, <2>8, <2>9, <2>10
<1> QED
  BY <1>1, <1>2 DEF RunWhenFree

\* wake.
LEMMA WakeRouses ==
  ASSUME NEW t \in Teams, NEW x, Sound(t, x), Few(t), Posted(t), NEW from \in Actors,
         NEW a \in Agents, NEW resumes, NEW peer, NEW u, u = Wake(t, from, a, resumes, peer)
  PROVE  Rouses(t, u, a)
<1>1. PICK mail : mail = t.inbox[a] \cup {from}
  OBVIOUS
<1>2. mail \in SUBSET Actors
  BY <1>1 DEF Teams
<1>3. PICK r : r = GivenBack(t, a)
  OBVIOUS
<1>4. r \in Teams /\ Same(t, r) /\ r.state = t.state /\ (r.held[a] => t.held[a] /\ ~Ended(t, a))
  BY <1>3, ReleasedSame
<1>5. ASSUME u = Inbox(t, a, mail) PROVE Rouses(t, u, a)
  <2>1. /\ u.state = t.state /\ u.ran = t.ran /\ u.going = t.going /\ u.prompting = t.prompting
        /\ u.continuing = t.continuing /\ Level(t, u)
    BY <1>5 DEF Teams, Inbox, Level
  <2> QED
    BY <2>1, AsideEases, EasesRouses
<1>6. CASE (t.state[a] \in Paused \/ Ended(t, a)) /\ u = Relaunch(r, a, from, peer)
  <2>1. Sound(r, x) /\ Few(r)
    BY <1>4, SameServes
  <2>2. Pauses(r, a)
    BY <1>4, <1>6 DEF Pauses, Paused, Ended, EndedStates
  <2>3. Posted(r)
    BY <1>3, GivenBackKept
  <2>4. Rouses(r, u, a)
    BY <1>4, <1>6, <2>1, <2>2, <2>3, RelaunchRouses
  <2>5. /\ r.ran = t.ran /\ r.going = t.going /\ r.prompting = t.prompting
        /\ r.continuing = t.continuing /\ Level(t, r)
    BY <1>3 DEF Teams, GivenBack, Level
  <2>6. Rouses(t, r, a)
    BY <1>4, <2>5, AsideEases, EasesRouses
  <2> QED
    BY <2>4, <2>6, RousesMore
<1>7. CASE /\ t.state[a] \in Paused \/ Ended(t, a)
           /\ r.held[a] /\ t.state[a] # "interrupted"
           /\ u = RunWhenFree(Fresh(t, a, IF t.state[a] = "idle"
                                          THEN StartedBy(t, a, peer) ELSE t, {}), a, mail)
  <2>1. PICK s : s = IF t.state[a] = "idle" THEN StartedBy(t, a, peer) ELSE t
    OBVIOUS
  <2>2. s \in Teams /\ s.held = t.held
    BY <2>1, StartedBySame
  <2>3. /\ s.state = t.state /\ s.ran = t.ran /\ s.going = t.going /\ s.prompting = t.prompting
        /\ s.continuing = t.continuing /\ s.parent = t.parent /\ s.after = t.after
        /\ s.owed = t.owed /\ s.reentered = t.reentered
    <3>1. s = t \/ s = StartedBy(t, a, peer)
      BY <2>1
    <3>2. CASE s = StartedBy(t, a, peer)
      BY <3>2 DEF StartedBy, Teams
    <3> QED
      BY <3>1, <3>2
  <2>4. t.held[a] /\ t.state[a] \in {"idle", "waiting"}
    BY <1>4, <1>7 DEF Paused
  <2>5. PICK none \in SUBSET Actors : none = {}
    OBVIOUS
  <2>6. PICK v : v = Fresh(t, a, s, none)
    OBVIOUS
  <2>7. v \in Teams
    BY <2>2, <2>6, FreshSame
  <2>8. /\ v.state = s.state /\ v.ran = s.ran /\ v.going = s.going /\ v.prompting = s.prompting
        /\ v.continuing = s.continuing /\ v.parent = s.parent /\ v.after = s.after
        /\ v.owed = s.owed /\ v.held = s.held
    BY <2>2, <2>6 DEF Teams, Fresh
  <2>r. v.reentered = (s.reentered \/ Reenters(t, a))
    BY <2>2, <2>6 DEF Teams, Fresh
  <2>9. u = RunWhenFree(v, a, mail)
    BY <1>7, <2>1, <2>5, <2>6
  <2>10. v.held[a] /\ v.state[a] \in {"idle", "waiting"}
    BY <2>2, <2>3, <2>4, <2>8
  <2>11. /\ Level(v, u) /\ u.reentered = v.reentered
         /\ \A b \in Agents : b # a => AsOf(v, u, b)
         /\ u.state[a] \in {"running", "queued"}
         /\ v.ran[a] => u.ran[a]
         /\ RanOf(v, a) => RanOf(u, a)
    BY <1>2, <2>7, <2>9, <2>10, RunWhenFreeLevel
  <2>12. Level(t, u) /\ (Reenters(t, a) => u.reentered) /\ (t.ran[a] => u.ran[a])
    BY <2>3, <2>8, <2>r, <2>11 DEF Level
  <2>13. \A b \in Agents : b # a => AsOf(t, u, b)
    BY <2>3, <2>8, <2>11 DEF AsOf
  <2>14. RanOf(t, a) => RanOf(u, a)
    <3>1. RanOf(t, a) => RanOf(v, a)
      BY <2>3, <2>8 DEF RanOf
    <3> QED
      BY <2>11, <3>1
  <2>15. Known(u, a)
    BY <2>11 DEF Known
  <2>16. CASE t.state[a] = "waiting"
    <3>1. Live(t, a) /\ (RanOf(t, a) => ~Unran(u, a))
      BY <2>12, <2>16 DEF Live, LiveStates, RanOf, Unran
    <3>2. Eases(t, u)
      BY <2>12, <2>13, <2>14, <2>15, <3>1, EasesAt
    <3> QED
      BY <3>2, EasesRouses
  <2>17. CASE t.state[a] = "idle"
    <3>1. ~Live(t, a)
      BY <2>17 DEF Live, LiveStates
    <3>2. Revives(t, u, a)
      BY <2>12, <2>13, <2>14, <2>15, <3>1, RevivesAt
    <3> QED
      BY <3>2, RevivesRouses
  <2> QED
    BY <2>4, <2>16, <2>17
<1>8. u = IF ~resumes \/ ~(t.state[a] \in Paused \/ Ended(t, a))
          THEN Inbox(t, a, mail)
        ELSE IF ~r.held[a]
          THEN Relaunch(r, a, from, peer)
        ELSE IF t.state[a] # "interrupted"
          THEN RunWhenFree(Fresh(t, a, IF t.state[a] = "idle"
                                       THEN StartedBy(t, a, peer) ELSE t, {}), a, mail)
        ELSE Inbox(t, a, mail)
  BY <1>1, <1>3 DEF Wake, GivenBack, Fresh, Inbox
<1> QED
  BY <1>5, <1>6, <1>7, <1>8

\* deliver.
LEMMA DeliverRouses ==
  ASSUME NEW t, NEW x, Good(t, x), Posted(t), NEW from \in Actors, NEW a \in Agents,
         NEW wakes, NEW u, u = Deliver(t, from, a, wakes)
  PROVE  Rouses(t, u, a)
<1>0. t \in Teams /\ Sound(t, x) /\ Few(t)
  BY DEF Good
<1>1. PICK s : s = IF from \in {Main, t.parent[a]} THEN [t EXCEPT !.peerRuns = @ \ {a}] ELSE t
  OBVIOUS
<1>2. s \in Teams /\ Same(t, s) /\ Alike(t, s)
  <2>1. CASE from \in {Main, t.parent[a]}
    BY <1>0, <1>1, <2>1 DEF Teams, Same, Stays, Keeps, SameFrames, Ending, Alike, AlikeOf, Ending
  <2>2. CASE from \notin {Main, t.parent[a]}
    BY <1>0, <1>1, <2>2 DEF Same, Stays, Keeps, SameFrames, Alike, AlikeOf, Ending
  <2> QED
    BY <2>1, <2>2
<1>3. Sound(s, x) /\ Few(s) /\ Posted(s)
  BY <1>0, <1>2, SameServes, AlikeKept
<1>a. /\ s.state = t.state /\ s.ran = t.ran /\ s.going = t.going /\ s.prompting = t.prompting
      /\ s.continuing = t.continuing /\ Level(t, s)
  BY <1>0, <1>1 DEF Teams, Level
<1>b. Rouses(t, s, a)
  BY <1>a, AsideEases, EasesRouses
<1>4. ASSUME u = t PROVE Rouses(t, u, a)
  BY <1>4, RousesMore
<1>5. ASSUME u = Unread(s, a, s.unread[a] \cup {from}) PROVE Rouses(t, u, a)
  <2>1. /\ u.state = s.state /\ u.ran = s.ran /\ u.going = s.going /\ u.prompting = s.prompting
        /\ u.continuing = s.continuing /\ Level(s, u)
    BY <1>2, <1>5 DEF Teams, Unread, Level
  <2>2. Rouses(s, u, a)
    BY <2>1, AsideEases, EasesRouses
  <2> QED
    BY <1>b, <2>2, RousesMore
<1>6. ASSUME u = Wake(s, from, a, wakes \/ from \in {Main, t.parent[a]}, IsPeer(t, from, a))
      PROVE  Rouses(t, u, a)
  <2>1. PICK resumes, peer :
            resumes = (wakes \/ from \in {Main, t.parent[a]}) /\ peer = IsPeer(t, from, a)
    OBVIOUS
  <2>2. u = Wake(s, from, a, resumes, peer)
    BY <1>6, <2>1
  <2>3. Rouses(s, u, a)
    BY <1>2, <1>3, <2>2, WakeRouses
  <2> QED
    BY <1>b, <2>3, RousesMore
<1>7. \/ u = t
      \/ u = Unread(s, a, s.unread[a] \cup {from})
      \/ u = Wake(s, from, a, wakes \/ from \in {Main, t.parent[a]}, IsPeer(t, from, a))
  BY <1>1 DEF Deliver, Unread
<1> QED
  BY <1>4, <1>5, <1>6, <1>7
=============================================================================

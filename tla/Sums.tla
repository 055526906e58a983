-------------------------------- MODULE Sums --------------------------------
(***************************************************************************)
(* Facts about sums over a finite set, the seats a set of threads has      *)
(* booked or the units a set of students holds: SumFunctionOnSet(f, S) of  *)
(* the Functions module is a fold, that is a recursive function on the     *)
(* subsets of S.  The facts rest on one principle, that a family of finite *)
(* sets has a smallest member, which replaces induction over the sets.     *)
(* From it also follow least and greatest numbers of a set, functions that *)
(* are computed round by round, and a count of things by their anchors.    *)
(***************************************************************************)
EXTENDS Integers, FiniteSets, Functions, FiniteSetTheorems, FunctionTheorems,
        WellFoundedInduction, TLAPS

\* A family of finite sets has a member that contains no other one.
LEMMA MinimalSet ==
    ASSUME NEW F, F # {}, \A X \in F : IsFiniteSet(X)
    PROVE  \E X \in F : \A Y \in F : Y \subseteq X => Y = X
<1> DEFINE S == UNION F
<1>1. IsWellFoundedOn(StrictSubsetOrdering(S), FiniteSubsetsOf(S))
  BY FS_StrictSubsetOrderingWellFounded
<1>2. F \subseteq FiniteSubsetsOf(S)
  BY DEF FiniteSubsetsOf
<1>3. \E X \in F : \A Y \in F : ~ (<<Y, X>> \in StrictSubsetOrdering(S))
  BY <1>1, <1>2, WFMin
<1> QED BY <1>2, <1>3 DEF StrictSubsetOrdering

\* A set of natural numbers that is not empty has a least element.
LEMMA LeastNat ==
    ASSUME NEW T, T \subseteq Nat, T # {}
    PROVE  \E n \in T : \A m \in T : n <= m
<1> DEFINE F == {0..n : n \in T}
<1>1. (\A X \in F : IsFiniteSet(X)) /\ F # {}
  <2>1. \A n \in T : IsFiniteSet(0..n)
    BY FS_Interval
  <2> QED BY <2>1
<1>2. PICK X \in F : \A Y \in F : Y \subseteq X => Y = X
  <2> HIDE DEF F
  <2> QED BY <1>1, MinimalSet
<1>3. PICK n \in T : X = 0..n
  OBVIOUS
<1>4. ASSUME NEW m \in T, m < n PROVE FALSE
  <2>1. 0..m \subseteq 0..n /\ 0..m \in F
    BY <1>4
  <2>2. 0..m = 0..n
    BY <2>1, <1>2, <1>3
  <2> QED BY <2>2, <1>4
<1> QED BY <1>4

-----------------------------------------------------------------------------
(* The fold is well defined                                                *)

\* The element the fold takes out of a set.
Pick(s) == CHOOSE x \in s : TRUE

\* g holds, for every subset of S, the sum of f over it.
IsTable(f, S, g) ==
    g = [s \in SUBSET S |-> IF s = {} THEN 0
                            ELSE f[Pick(s)] + g[s \ {Pick(s)}]]

\* The sum is an entry of such a table.
LEMMA SumIsEntry ==
    ASSUME NEW f, NEW S
    PROVE  SumFunctionOnSet(f, S) = (CHOOSE g : IsTable(f, S, g))[S]
BY DEF SumFunctionOnSet, FoldFunctionOnSet, MapThenFoldSet, IsTable, Pick

\* An element is picked out of a set that has one.
LEMMA PickIn ==
    ASSUME NEW s, s # {}
    PROVE  Pick(s) \in s
BY DEF Pick

\* The entries of a table.
LEMMA TableEntry ==
    ASSUME NEW f, NEW S, NEW g, IsTable(f, S, g), NEW s \in SUBSET S
    PROVE  g[s] = IF s = {} THEN 0 ELSE f[Pick(s)] + g[s \ {Pick(s)}]
BY DEF IsTable

\* Two tables agree on the sets both have an entry for.
LEMMA TablesCoincide ==
    ASSUME NEW f, NEW S, IsFiniteSet(S), NEW T \in SUBSET S, NEW g, NEW h,
           IsTable(f, S, g), IsTable(f, T, h)
    PROVE  \A s \in SUBSET T : g[s] = h[s]
<1> DEFINE F == {s \in SUBSET T : g[s] # h[s]}
<1>1. SUFFICES ASSUME F # {} PROVE FALSE
  OBVIOUS
<1>2. \A X \in F : IsFiniteSet(X)
  BY FS_Subset
<1>3. PICK X \in F : \A Y \in F : Y \subseteq X => Y = X
  <2> HIDE DEF F
  <2> QED BY <1>1, <1>2, MinimalSet
<1>4. X \in SUBSET T /\ X \in SUBSET S /\ g[X] # h[X]
  OBVIOUS
<1>5. /\ g[X] = IF X = {} THEN 0 ELSE f[Pick(X)] + g[X \ {Pick(X)}]
      /\ h[X] = IF X = {} THEN 0 ELSE f[Pick(X)] + h[X \ {Pick(X)}]
  BY <1>4, TableEntry
<1>6. X # {}
  BY <1>4, <1>5
<1>7. g[X \ {Pick(X)}] = h[X \ {Pick(X)}]
  BY <1>3, <1>4, <1>6, PickIn
<1> QED BY <1>4, <1>5, <1>7

\* The sums of f over the subsets of a finite set have a table.
LEMMA TableExists ==
    ASSUME NEW f, NEW S, IsFiniteSet(S)
    PROVE  \E g : IsTable(f, S, g)
<1> DEFINE F == {T \in SUBSET S : ~ \E g : IsTable(f, T, g)}
<1>1. SUFFICES ASSUME F # {} PROVE FALSE
  OBVIOUS
<1>2. \A X \in F : IsFiniteSet(X)
  BY FS_Subset
<1>3. PICK T \in F : \A Y \in F : Y \subseteq T => Y = T
  <2> HIDE DEF F
  <2> QED BY <1>1, <1>2, MinimalSet
<1> DEFINE G(s) == CHOOSE g : IsTable(f, s, g)
           Rest(s) == s \ {Pick(s)}
           V == [s \in SUBSET T |-> IF s = {} THEN 0
                                    ELSE f[Pick(s)] + G(Rest(s))[Rest(s)]]
<1>4. ASSUME NEW r \in SUBSET T, r # T PROVE IsTable(f, r, G(r))
  <2>1. \E g : IsTable(f, r, g)
    BY <1>3, <1>4
  <2> QED BY <2>1
<1>5. ASSUME NEW r \in SUBSET T, r # T PROVE V[r] = G(r)[r]
  <2>1. G(r)[r] = IF r = {} THEN 0 ELSE f[Pick(r)] + G(r)[Rest(r)]
    BY <1>4, <1>5, TableEntry
  <2>2. CASE r = {}
    BY <2>1, <2>2
  <2>3. CASE r # {}
    <3>1. Rest(r) \in SUBSET r /\ Rest(r) # T /\ IsFiniteSet(r)
      BY <2>3, <1>2, PickIn, FS_Subset
    <3>2. IsTable(f, r, G(r)) /\ IsTable(f, Rest(r), G(Rest(r)))
      BY <1>4, <1>5, <3>1
    <3>3. G(r)[Rest(r)] = G(Rest(r))[Rest(r)]
      <4> HIDE DEF G, Rest
      <4> QED BY <3>1, <3>2, TablesCoincide
    <3>4. V[r] = f[Pick(r)] + G(Rest(r))[Rest(r)]
      BY <2>3
    <3> QED BY <2>1, <2>3, <3>3, <3>4
  <2> QED BY <2>2, <2>3
<1>6. \A s \in SUBSET T : s # {} => Rest(s) \in SUBSET T /\ Rest(s) # T
  BY PickIn
<1>7. IsTable(f, T, V)
  <2>1. \A s \in SUBSET T : s # {} => V[Rest(s)] = G(Rest(s))[Rest(s)]
    BY <1>5, <1>6
  <2> DEFINE W == [s \in SUBSET T |-> IF s = {} THEN 0
                                      ELSE f[Pick(s)] + V[Rest(s)]]
  <2>2. \A s \in SUBSET T : V[s] = W[s]
    <3>1. ASSUME NEW s \in SUBSET T PROVE V[s] = W[s]
      <4>1. V[s] = IF s = {} THEN 0 ELSE f[Pick(s)] + G(Rest(s))[Rest(s)]
        OBVIOUS
      <4>2. W[s] = IF s = {} THEN 0 ELSE f[Pick(s)] + V[Rest(s)]
        OBVIOUS
      <4> HIDE DEF V, W, G, Rest
      <4> QED BY <2>1, <4>1, <4>2
    <3> QED BY <3>1
  <2>3. /\ V = [s \in SUBSET T |-> V[s]]
        /\ W = [s \in SUBSET T |-> W[s]]
    OBVIOUS
  <2>4. V = W
    <3> HIDE DEF V, W
    <3> QED BY <2>2, <2>3
  <2> QED BY <2>4 DEF IsTable
<1> QED BY <1>7

\* The sum over a set is that of the picked element and of the rest.
LEMMA SumUnfolds ==
    ASSUME NEW f, NEW S, IsFiniteSet(S)
    PROVE  SumFunctionOnSet(f, S) =
             IF S = {} THEN 0
             ELSE f[Pick(S)] + SumFunctionOnSet(f, S \ {Pick(S)})
<1> DEFINE G(s) == CHOOSE g : IsTable(f, s, g)
           R == S \ {Pick(S)}
<1>1. IsFiniteSet(R) /\ R \in SUBSET S /\ S \in SUBSET S
  BY FS_Subset
<1>2. IsTable(f, S, G(S)) /\ IsTable(f, R, G(R))
  BY <1>1, TableExists
<1>3. G(S)[S] = IF S = {} THEN 0 ELSE f[Pick(S)] + G(S)[R]
  <2> HIDE DEF G
  <2>1. \A s \in SUBSET S :
          G(S)[s] = IF s = {} THEN 0 ELSE f[Pick(s)] + G(S)[s \ {Pick(s)}]
    BY <1>2, TableEntry
  <2> QED BY <1>1, <2>1
<1>4. G(S)[R] = G(R)[R]
  <2> HIDE DEF G, R
  <2> QED BY <1>1, <1>2, TablesCoincide
<1>5. SumFunctionOnSet(f, S) = G(S)[S] /\ SumFunctionOnSet(f, R) = G(R)[R]
  BY SumIsEntry
<1> QED BY <1>3, <1>4, <1>5

-----------------------------------------------------------------------------
(* What is used of it                                                      *)

\* A sum of integers is an integer.
LEMMA SumInt ==
    ASSUME NEW S, IsFiniteSet(S), NEW f, \A x \in S : f[x] \in Int
    PROVE  SumFunctionOnSet(f, S) \in Int
<1> DEFINE F == {T \in SUBSET S : SumFunctionOnSet(f, T) \notin Int}
<1>1. SUFFICES ASSUME F # {} PROVE FALSE
  OBVIOUS
<1>2. \A X \in F : IsFiniteSet(X)
  BY FS_Subset
<1>3. PICK T \in F : \A Y \in F : Y \subseteq T => Y = T
  <2> HIDE DEF F
  <2> QED BY <1>1, <1>2, MinimalSet
<1>4. SumFunctionOnSet(f, T) =
        IF T = {} THEN 0 ELSE f[Pick(T)] + SumFunctionOnSet(f, T \ {Pick(T)})
  BY <1>2, SumUnfolds
<1>5. CASE T = {}
  BY <1>4, <1>5
<1>6. CASE T # {}
  <2>1. Pick(T) \in T
    BY <1>6, PickIn
  <2>2. SumFunctionOnSet(f, T \ {Pick(T)}) \in Int
    BY <1>3, <2>1
  <2> QED BY <1>4, <1>6, <2>1, <2>2
<1> QED BY <1>5, <1>6

\* The sum over the empty set.
LEMMA SumEmpty ==
    ASSUME NEW f
    PROVE  SumFunctionOnSet(f, {}) = 0
BY SumUnfolds, FS_EmptySet

\* Any element may be taken out first.
LEMMA SumRemove ==
    ASSUME NEW S, IsFiniteSet(S), NEW f, \A x \in S : f[x] \in Int
    PROVE  \A e \in S :
             SumFunctionOnSet(f, S) = f[e] + SumFunctionOnSet(f, S \ {e})
<1> DEFINE Sum(s) == SumFunctionOnSet(f, s)
           F == {T \in SUBSET S : \E e \in T : Sum(T) # f[e] + Sum(T \ {e})}
<1>1. SUFFICES ASSUME F # {} PROVE FALSE
  OBVIOUS
<1>2. \A X \in SUBSET S : IsFiniteSet(X) /\ Sum(X) \in Int
  BY FS_Subset, SumInt
<1>3. PICK T \in F : \A Y \in F : Y \subseteq T => Y = T
  <2> HIDE DEF F
  <2>1. \A X \in F : IsFiniteSet(X)
    BY <1>2 DEF F
  <2> QED BY <1>1, <2>1, MinimalSet
<1>4. PICK e \in T : Sum(T) # f[e] + Sum(T \ {e})
  OBVIOUS
<1>5. ASSUME NEW Y \in SUBSET T, Y # T
      PROVE  \A d \in Y : Sum(Y) = f[d] + Sum(Y \ {d})
  BY <1>3, <1>5
<1> DEFINE p == Pick(T)
           U == (T \ {p}) \ {e}
<1>6. /\ p \in T /\ T \subseteq S
      /\ f[p] \in Int /\ f[e] \in Int /\ Sum(U) \in Int
  BY <1>2, PickIn
<1>7. Sum(T) = f[p] + Sum(T \ {p})
  BY <1>2, <1>6, SumUnfolds
<1>8. p # e
  BY <1>4, <1>7
<1>9. Sum(T \ {p}) = f[e] + Sum(U)
  <2>1. T \ {p} \in SUBSET T /\ T \ {p} # T /\ e \in T \ {p}
    BY <1>6, <1>8
  <2> QED BY <1>5, <2>1
<1>10. Sum(T \ {e}) = f[p] + Sum(U)
  <2>1. T \ {e} \in SUBSET T /\ T \ {e} # T /\ p \in T \ {e}
    BY <1>6, <1>8
  <2>2. (T \ {e}) \ {p} = U
    OBVIOUS
  <2> QED BY <1>5, <2>1, <2>2
<1>11. f[p] + (f[e] + Sum(U)) = f[e] + (f[p] + Sum(U))
  <2> HIDE DEF F, Sum, U, p
  <2> QED BY <1>6
<1> QED BY <1>4, <1>7, <1>9, <1>10, <1>11

\* Two functions that agree on a set have the same sum over it.
LEMMA SumSame ==
    ASSUME NEW S, IsFiniteSet(S), NEW f, NEW g, \A x \in S : f[x] = g[x]
    PROVE  SumFunctionOnSet(f, S) = SumFunctionOnSet(g, S)
<1> DEFINE F == {T \in SUBSET S : SumFunctionOnSet(f, T) # SumFunctionOnSet(g, T)}
<1>1. SUFFICES ASSUME F # {} PROVE FALSE
  OBVIOUS
<1>2. \A X \in F : IsFiniteSet(X)
  BY FS_Subset
<1>3. PICK T \in F : \A Y \in F : Y \subseteq T => Y = T
  <2> HIDE DEF F
  <2> QED BY <1>1, <1>2, MinimalSet
<1>4. \A h : SumFunctionOnSet(h, T) =
        IF T = {} THEN 0 ELSE h[Pick(T)] + SumFunctionOnSet(h, T \ {Pick(T)})
  BY <1>2, SumUnfolds
<1>5. T # {}
  BY <1>4
<1>6. Pick(T) \in T /\ f[Pick(T)] = g[Pick(T)]
  BY <1>5, PickIn
<1>7. SumFunctionOnSet(f, T \ {Pick(T)}) = SumFunctionOnSet(g, T \ {Pick(T)})
  BY <1>3, <1>6
<1> QED BY <1>4, <1>5, <1>6, <1>7

\* The sum after one entry of the function has changed.
LEMMA SumUpdate ==
    ASSUME NEW S, IsFiniteSet(S), NEW f, NEW g, NEW e \in S,
           \A x \in S : f[x] \in Int /\ g[x] \in Int,
           \A x \in S \ {e} : f[x] = g[x]
    PROVE  SumFunctionOnSet(g, S) = SumFunctionOnSet(f, S) - f[e] + g[e]
<1>1. IsFiniteSet(S \ {e})
  BY FS_Subset
<1>2. SumFunctionOnSet(f, S \ {e}) = SumFunctionOnSet(g, S \ {e})
  BY <1>1, SumSame
<1>3. /\ SumFunctionOnSet(f, S) = f[e] + SumFunctionOnSet(f, S \ {e})
      /\ SumFunctionOnSet(g, S) = g[e] + SumFunctionOnSet(g, S \ {e})
  BY SumRemove
<1>4. SumFunctionOnSet(f, S \ {e}) \in Int
  BY <1>1, SumInt
<1> QED BY <1>2, <1>3, <1>4

\* A sum of zeros is zero.
LEMMA SumZero ==
    ASSUME NEW S, IsFiniteSet(S), NEW f, \A x \in S : f[x] = 0
    PROVE  SumFunctionOnSet(f, S) = 0
<1> DEFINE F == {T \in SUBSET S : SumFunctionOnSet(f, T) # 0}
<1>1. SUFFICES ASSUME F # {} PROVE FALSE
  OBVIOUS
<1>2. \A X \in F : IsFiniteSet(X)
  BY FS_Subset
<1>3. PICK T \in F : \A Y \in F : Y \subseteq T => Y = T
  <2> HIDE DEF F
  <2> QED BY <1>1, <1>2, MinimalSet
<1>4. SumFunctionOnSet(f, T) =
        IF T = {} THEN 0 ELSE f[Pick(T)] + SumFunctionOnSet(f, T \ {Pick(T)})
  BY <1>2, SumUnfolds
<1>5. T # {} /\ Pick(T) \in T
  BY <1>4, PickIn
<1> QED BY <1>3, <1>4, <1>5

\* A sum of numbers none of which is negative is not less than any of them.
LEMMA SumAtLeast ==
    ASSUME NEW S, IsFiniteSet(S), NEW f, \A x \in S : f[x] \in Nat
    PROVE  /\ SumFunctionOnSet(f, S) \in Nat
           /\ \A e \in S : f[e] <= SumFunctionOnSet(f, S)
<1> DEFINE Sum(s) == SumFunctionOnSet(f, s)
           F == {T \in SUBSET S : Sum(T) \notin Nat}
<1>1. F = {}
  <2>1. SUFFICES ASSUME F # {} PROVE FALSE
    OBVIOUS
  <2>2. \A X \in F : IsFiniteSet(X)
    BY FS_Subset
  <2>3. PICK T \in F : \A Y \in F : Y \subseteq T => Y = T
    <3> HIDE DEF F
    <3> QED BY <2>1, <2>2, MinimalSet
  <2>4. Sum(T) = IF T = {} THEN 0 ELSE f[Pick(T)] + Sum(T \ {Pick(T)})
    BY <2>2, SumUnfolds
  <2>5. T # {} /\ Pick(T) \in T
    BY <2>4, PickIn
  <2>6. Sum(T \ {Pick(T)}) \in Nat
    BY <2>3, <2>5
  <2> QED BY <2>4, <2>5, <2>6
<1>2. ASSUME NEW e \in S PROVE f[e] <= Sum(S)
  <2>1. Sum(S) = f[e] + Sum(S \ {e})
    BY SumRemove
  <2>2. Sum(S \ {e}) \in Nat
    BY <1>1
  <2> QED BY <2>1, <2>2
<1> QED BY <1>1, <1>2

-----------------------------------------------------------------------------
(* Bounds, iterations and counting                                         *)

\* A set of integers between two numbers has a least element, if it is not
\* empty.
LEMMA LeastInt ==
    ASSUME NEW T, T \subseteq Int, T # {}, NEW lo \in Int, \A t \in T : lo <= t
    PROVE  \E least \in T : \A t \in T : least <= t
<1> DEFINE U == {t - lo : t \in T}
<1>1. U \subseteq Nat /\ U # {}
  <2>1. \A t \in T : t \in Int /\ lo <= t
    OBVIOUS
  <2>2. \A t \in T : t - lo \in Nat
    BY <2>1
  <2> QED BY <2>2
<1>2. PICK u \in U : \A v \in U : u <= v
  <2> HIDE DEF U
  <2> QED BY <1>1, LeastNat
<1>3. PICK t \in T : u = t - lo
  OBVIOUS
<1>4. ASSUME NEW s \in T PROVE t <= s
  <2>1. s - lo \in U
    OBVIOUS
  <2> QED BY <1>2, <1>3, <2>1
<1> QED BY <1>4

\* And a greatest one.
LEMMA GreatestInt ==
    ASSUME NEW T, T \subseteq Int, T # {}, NEW hi \in Int, \A t \in T : t <= hi
    PROVE  \E greatest \in T : \A t \in T : t <= greatest
<1> DEFINE U == {hi - t : t \in T}
<1>1. U \subseteq Nat /\ U # {}
  <2>1. \A t \in T : hi - t \in Nat
    OBVIOUS
  <2>2. PICK t \in T : TRUE
    OBVIOUS
  <2>3. hi - t \in U
    OBVIOUS
  <2> QED BY <2>1, <2>3
<1>2. PICK u \in U : \A v \in U : u <= v
  <2> HIDE DEF U
  <2> QED BY <1>1, LeastNat
<1>3. PICK t \in T : u = hi - t
  OBVIOUS
<1>4. ASSUME NEW s \in T PROVE s <= t
  <2>1. hi - s \in U
    OBVIOUS
  <2> QED BY <1>2, <1>3, <2>1
<1> QED BY <1>4

\* A loop of n rounds over a state in D: h holds the state after each round.
Iteration(D, base, n, step, h) ==
    /\ h \in [0..n -> D]
    /\ h[0] = base
    /\ \A j \in 1..n : h[j] = step[j][h[j - 1]]

\* A loop of n rounds can be run: this is what makes a recursive function on
\* 0..n well defined.
LEMMA IterationExists ==
    ASSUME NEW D, NEW base \in D, NEW n \in Nat, NEW step \in [1..n -> [D -> D]]
    PROVE  \E h : Iteration(D, base, n, step, h)
<1> DEFINE T == {m \in 0..n : ~ \E h : Iteration(D, base, m, step, h)}
<1>1. SUFFICES ASSUME T # {} PROVE FALSE
  BY DEF T
<1>2. PICK m \in T : \A k \in T : m <= k
  <2>1. T \subseteq Nat
    OBVIOUS
  <2> HIDE DEF T
  <2> QED BY <1>1, <2>1, LeastNat
<1>3. m # 0
  <2>1. Iteration(D, base, 0, step, [k \in 0..0 |-> base])
    BY DEF Iteration
  <2> QED BY <2>1
<1>4. PICK h : Iteration(D, base, m - 1, step, h)
  <2>1. m - 1 \in 0..n /\ m - 1 \notin T
    BY <1>2, <1>3
  <2> QED BY <2>1
<1> DEFINE g == [k \in 0..m |-> IF k = m THEN step[m][h[m - 1]] ELSE h[k]]
<1>5. m \in 1..n /\ h \in [0..(m - 1) -> D] /\ m - 1 \in 0..(m - 1)
  BY <1>3, <1>4 DEF Iteration
<1>6. g \in [0..m -> D]
  <2>1. step[m][h[m - 1]] \in D
    BY <1>5
  <2>2. \A k \in 0..m : k # m => h[k] \in D
    BY <1>5
  <2> QED BY <2>1, <2>2
<1>7. g[0] = base
  BY <1>4, <1>5 DEF Iteration
<1>8. ASSUME NEW j \in 1..m PROVE g[j] = step[j][g[j - 1]]
  <2>1. g[j - 1] = h[j - 1]
    BY <1>5
  <2>2. CASE j = m
    BY <2>1, <2>2
  <2>3. CASE j # m
    <3>1. j \in 1..(m - 1) /\ g[j] = h[j]
      BY <1>5, <2>3
    <3> QED BY <1>4, <2>1, <3>1 DEF Iteration
  <2> QED BY <2>2, <2>3
<1>9. Iteration(D, base, m, step, g)
  <2> HIDE DEF g
  <2> QED BY <1>6, <1>7, <1>8 DEF Iteration
<1> QED BY <1>2, <1>9

\* A set of numbers each of which is less than m behind one of the points
\* g[a], a in A, has at most m elements for each a.
LEMMA CountByAnchor ==
    ASSUME NEW A, IsFiniteSet(A), NEW B, B \subseteq Int, NEW m \in Nat,
           NEW g \in [A -> Int],
           \A b \in B : \E a \in A : b - g[a] \in 0..(m - 1)
    PROVE  /\ IsFiniteSet(B)
           /\ Cardinality(B) <= Cardinality(A) * m
<1> DEFINE anchor(b) == CHOOSE a \in A : b - g[a] \in 0..(m - 1)
           P == A \X (0..(m - 1))
           F == [b \in B |-> <<anchor(b), b - g[anchor(b)]>>]
<1>1. \A b \in B : anchor(b) \in A /\ b - g[anchor(b)] \in 0..(m - 1)
  OBVIOUS
<1>2. IsFiniteSet(0..(m - 1)) /\ Cardinality(0..(m - 1)) = m
  BY FS_Interval
<1>3. IsFiniteSet(P) /\ Cardinality(P) = Cardinality(A) * m
  BY <1>2, FS_Product
<1>4. F \in Injection(B, P)
  <2>1. F \in [B -> P]
    BY <1>1
  <2>2. ASSUME NEW b \in B, NEW c \in B, F[b] = F[c] PROVE b = c
    <3>1. anchor(b) = anchor(c) /\ b - g[anchor(b)] = c - g[anchor(c)]
      BY <2>2
    <3>2. anchor(b) \in A /\ b \in Int /\ c \in Int
      BY <1>1
    <3>3. g[anchor(b)] \in Int
      BY <3>2
    <3> HIDE DEF anchor
    <3> QED BY <3>1, <3>2, <3>3
  <2> HIDE DEF F, P
  <2> QED BY <2>1, <2>2, Fun_IsInj
<1> HIDE DEF F, P
<1> QED BY <1>3, <1>4, FS_Injection

\* The sets E[x] are finite and apart, and f has their sizes.
Sizes(S, E, f) ==
    /\ \A x \in S : IsFiniteSet(E[x]) /\ f[x] = Cardinality(E[x])
    /\ \A x, y \in S : x # y => E[x] \cap E[y] = {}

Together(S, E) == UNION {E[x] : x \in S}

\* The sizes of disjoint sets add up to the size of their union.
LEMMA SumOfSizes ==
    ASSUME NEW S, IsFiniteSet(S), NEW E, NEW f, Sizes(S, E, f)
    PROVE  /\ IsFiniteSet(Together(S, E))
           /\ SumFunctionOnSet(f, S) = Cardinality(Together(S, E))
<1>0. /\ \A x \in S : IsFiniteSet(E[x]) /\ f[x] = Cardinality(E[x])
      /\ \A x, y \in S : x # y => E[x] \cap E[y] = {}
  BY DEF Sizes
<1> DEFINE U(T) == UNION {E[x] : x \in T}
           Sum(T) == SumFunctionOnSet(f, T)
           F == {T \in SUBSET S : ~(IsFiniteSet(U(T)) /\ Sum(T) = Cardinality(U(T)))}
<1>1. SUFFICES ASSUME F # {} PROVE FALSE
  BY DEF Together
<1>2. \A X \in F : IsFiniteSet(X)
  BY FS_Subset
<1>3. PICK T \in F : \A Y \in F : Y \subseteq T => Y = T
  <2> HIDE DEF F
  <2> QED BY <1>1, <1>2, MinimalSet
<1>4. Sum(T) = IF T = {} THEN 0 ELSE f[Pick(T)] + Sum(T \ {Pick(T)})
  BY <1>2, SumUnfolds
<1>5. T # {}
  <2>1. U({}) = {}
    OBVIOUS
  <2>2. IsFiniteSet({}) /\ Cardinality({}) = 0
    BY FS_EmptySet
  <2> QED BY <1>4, <2>1, <2>2
<1> DEFINE p == Pick(T)
           R == T \ {p}
<1>6. p \in T /\ T \subseteq S
  BY <1>5, PickIn
<1>7. R \notin F /\ R \subseteq S
  BY <1>3, <1>6
<1>8. IsFiniteSet(U(R)) /\ Sum(R) = Cardinality(U(R))
  BY <1>7
<1>9. U(T) = E[p] \cup U(R) /\ E[p] \cap U(R) = {}
  <2>1. T = R \cup {p} /\ p \notin R
    BY <1>6
  <2>2. \A x \in R : E[p] \cap E[x] = {}
    BY <1>0, <1>6
  <2> HIDE DEF p, R
  <2> QED BY <2>1, <2>2
<1>10. IsFiniteSet(E[p]) /\ f[p] = Cardinality(E[p])
  BY <1>0, <1>6
<1>11. Sum(T) = f[p] + Sum(R)
  BY <1>4, <1>5
<1> HIDE DEF F, U, Sum, p, R
<1>12. /\ IsFiniteSet(U(T))
       /\ Cardinality(U(T)) = Cardinality(E[p]) + Cardinality(U(R)) - Cardinality({})
  BY <1>8, <1>9, <1>10, FS_Union
<1>13. Cardinality(U(T)) = Sum(T)
  BY <1>8, <1>10, <1>11, <1>12, FS_EmptySet, FS_CardinalityType
<1> QED BY <1>3, <1>12, <1>13 DEF F
=============================================================================

--------------------------- MODULE GxcTokenProofs ---------------------------
(* Type correctness and conservation of gxc.token, for every finite set of  *)
(* accounts and tokens, every option, and every value of the uninitialised  *)
(* flags.  After what is needed of sums, the lemmas follow the code: first  *)
(* the operations of the class account on one table, then the handlers,     *)
(* then the specification.                                                  *)
EXTENDS GxcToken, FiniteSetTheorems, WellFoundedInduction, TLAPS

-----------------------------------------------------------------------------
(* Sums of amounts over a finite set.  The library's induction theorems     *)
(* take an operator as a parameter, so each lemma is proved from a smallest *)
(* counterexample instead (WFMin on the strict subset ordering).            *)

IsSum(g, f, S) ==
  g = [T \in SUBSET S |->
         IF T = {} THEN 0
         ELSE LET x == CHOOSE x \in T : TRUE IN f[x] + g[T \ {x}]]

(* Every nonempty set of subsets of a finite set has a smallest member. *)
LEMMA SmallestSubset ==
  ASSUME NEW S, IsFiniteSet(S), NEW B, B \subseteq SUBSET S, B # {}
  PROVE  \E T \in B : \A U \in B : ~ (U \subseteq T /\ U # T)
<1>1. B \subseteq FiniteSubsetsOf(S)
  BY FS_Subset DEF FiniteSubsetsOf
<1>2. \E T \in B : \A U \in B : ~ (<<U, T>> \in StrictSubsetOrdering(S))
  BY <1>1, FS_StrictSubsetOrderingWellFounded, WFMin
<1> QED BY <1>2 DEF StrictSubsetOrdering

(* Two summations of one function agree wherever both are defined. *)
LEMMA SumUnique ==
  ASSUME NEW f, NEW S, NEW T, NEW g, NEW h, IsFiniteSet(S),
         IsSum(g, f, S), IsSum(h, f, T)
  PROVE  \A U \in SUBSET (S \cap T) : g[U] = h[U]
<1> DEFINE B == {U \in SUBSET (S \cap T) : g[U] # h[U]}
<1> SUFFICES ASSUME B # {} PROVE FALSE
  OBVIOUS
<1>1. PICK U \in B : \A V \in B : ~ (V \subseteq U /\ V # U)
  <2> IsFiniteSet(S \cap T)
    BY FS_Intersection
  <2> HIDE DEF B
  <2> B \subseteq SUBSET (S \cap T)
    BY DEF B
  <2> QED BY SmallestSubset
<1>2. U \subseteq S /\ U \subseteq T /\ g[U] # h[U]
  OBVIOUS
<1>3. U # {}
  BY <1>2 DEF IsSum
<1> DEFINE x == CHOOSE x \in U : TRUE
<1>4. x \in U
  BY <1>3
<1>5. U \ {x} \notin B
  BY <1>1, <1>4
<1>6. g[U \ {x}] = h[U \ {x}]
  BY <1>2, <1>5
<1>7. g[U] = f[x] + g[U \ {x}]
  BY <1>2, <1>3, Zenon DEF IsSum
<1>8. h[U] = f[x] + h[U \ {x}]
  BY <1>2, <1>3, Zenon DEF IsSum
<1> QED BY <1>2, <1>6, <1>7, <1>8

(* What a summation computes is itself a summation of every subset. *)
LEMMA SumRestrict ==
  ASSUME NEW f, NEW S, NEW T \in SUBSET S, NEW g, IsSum(g, f, S)
  PROVE  IsSum([U \in SUBSET T |-> g[U]], f, T)
<1> DEFINE h == [U \in SUBSET T |-> g[U]]
<1> SUFFICES ASSUME NEW U \in SUBSET T
             PROVE  h[U] = IF U = {} THEN 0
                           ELSE LET x == CHOOSE x \in U : TRUE
                                IN  f[x] + h[U \ {x}]
  BY Zenon DEF IsSum
<1>1. g[U] = IF U = {} THEN 0
             ELSE LET x == CHOOSE x \in U : TRUE IN f[x] + g[U \ {x}]
  BY Zenon DEF IsSum
<1>2. \A x : h[U \ {x}] = g[U \ {x}]
  OBVIOUS
<1> QED BY <1>1, <1>2

(* Every finite set has a summation: a smallest set without one would get  *)
(* one from those of its proper subsets.                                   *)
LEMMA SumExists ==
  ASSUME NEW f, NEW S, IsFiniteSet(S)
  PROVE  \E g : IsSum(g, f, S)
<1> DEFINE B == {T \in SUBSET S : ~ \E g : IsSum(g, f, T)}
<1> SUFFICES ASSUME B # {} PROVE FALSE
  OBVIOUS
<1>1. PICK T \in B : \A V \in B : ~ (V \subseteq T /\ V # T)
  <2> HIDE DEF B
  <2> B \subseteq SUBSET S
    BY DEF B
  <2> QED BY SmallestSubset
<1> DEFINE G(U) == CHOOSE g : IsSum(g, f, U)
           h == [U \in SUBSET T |->
                   IF U = {} THEN 0
                   ELSE LET x == CHOOSE x \in U : TRUE
                        IN  f[x] + G(U \ {x})[U \ {x}]]
<1>2. T \subseteq S /\ IsFiniteSet(T) /\ ~ \E g : IsSum(g, f, T)
  BY FS_Subset
<1>3. \A U \in SUBSET T : U # T => IsSum(G(U), f, U)
  BY <1>1, <1>2, Zenon
<1>4. ASSUME NEW U \in SUBSET T, U # T
      PROVE  h[U] = G(U)[U]
  <2>1. CASE U = {}
    <3>1. IsSum(G(U), f, U)
      BY <1>3, <1>4, Zenon
    <3>2. G(U)[U] = 0
      <4> HIDE DEF G
      <4> QED BY <3>1, <2>1 DEF IsSum
    <3>3. h[U] = 0
      BY <2>1
    <3> QED BY <3>2, <3>3
  <2>2. CASE U # {}
    <3> DEFINE x == CHOOSE x \in U : TRUE
               V == U \ {x}
    <3>1. x \in U /\ V \in SUBSET T /\ V # T /\ V \in SUBSET (U \cap V)
      BY <2>2
    <3>2. IsSum(G(U), f, U) /\ IsSum(G(V), f, V)
      BY <1>3, <1>4, <3>1, Zenon
    <3>3. IsFiniteSet(U)
      BY <1>2, FS_Subset
    <3>4. G(U)[V] = G(V)[V]
      <4> HIDE DEF V, G
      <4> QED BY <3>1, <3>2, <3>3, SumUnique
    <3>5. G(U)[U] = f[x] + G(U)[V]
      BY <3>2, <2>2, Zenon DEF IsSum
    <3>6. h[U] = f[x] + G(V)[V]
      BY <2>2, Zenon
    <3> QED BY <3>4, <3>5, <3>6
  <2> QED BY <2>1, <2>2
<1>5. IsSum(h, f, T)
  <2> DEFINE x(U) == CHOOSE x \in U : TRUE
  <2>1. ASSUME NEW U \in SUBSET T, U # {}
        PROVE  h[U] = f[x(U)] + h[U \ {x(U)}]
    <3>1. x(U) \in U
      BY <2>1
    <3>2. U \ {x(U)} \in SUBSET T /\ U \ {x(U)} # T
      BY <3>1
    <3>3. h[U \ {x(U)}] = G(U \ {x(U)})[U \ {x(U)}]
      <4> HIDE DEF h, G, x
      <4> QED BY <3>2, <1>4
    <3>4. h[U] = f[x(U)] + G(U \ {x(U)})[U \ {x(U)}]
      BY <2>1, Zenon
    <3> QED BY <3>3, <3>4, Zenon
  <2>2. h = [U \in SUBSET T |-> IF U = {} THEN 0
                                ELSE f[x(U)] + h[U \ {x(U)}]]
    <3>1. h[{}] = 0
      OBVIOUS
    <3>2. h = [U \in SUBSET T |-> h[U]]
      OBVIOUS
    <3> HIDE DEF h, x
    <3> QED BY <2>1, <3>1, <3>2
  <2> HIDE DEF h
  <2> QED BY <2>2, Zenon DEF IsSum
<1> QED BY <1>2, <1>5, Zenon

(* The recursion the community module's sum obeys on a finite set. *)
LEMMA SumRecursion ==
  ASSUME NEW f, NEW S, IsFiniteSet(S)
  PROVE  SumFunctionOnSet(f, S) =
           IF S = {} THEN 0
           ELSE LET x == CHOOSE x \in S : TRUE
                IN  f[x] + SumFunctionOnSet(f, S \ {x})
<1> DEFINE G(U) == CHOOSE g : IsSum(g, f, U)
<1>1. \A U : SumFunctionOnSet(f, U) = G(U)[U]
  BY Zenon DEF SumFunctionOnSet, FoldFunctionOnSet, MapThenFoldSet, IsSum
<1>2. \A U \in SUBSET S : IsSum(G(U), f, U)
  <2> TAKE U \in SUBSET S
  <2>1. \E g : IsSum(g, f, U)
    BY FS_Subset, SumExists
  <2> QED BY <2>1, Zenon
<1>3. CASE S = {}
  <2>1. IsSum(G(S), f, S)
    BY <1>2, Zenon
  <2>2. G(S)[S] = 0
    <3> HIDE DEF G
    <3> QED BY <2>1, <1>3 DEF IsSum
  <2> QED BY <1>1, <1>3, <2>2
<1>4. CASE S # {}
  <2> DEFINE x == CHOOSE x \in S : TRUE
             V == S \ {x}
  <2>1. IsSum(G(S), f, S) /\ IsSum(G(V), f, V) /\ V \in SUBSET (S \cap V)
    BY <1>2, Zenon
  <2>2. G(S)[V] = G(V)[V]
    <3> HIDE DEF V, G
    <3> QED BY <2>1, SumUnique
  <2>3. G(S)[S] = f[x] + G(S)[V]
    BY <2>1, <1>4, Zenon DEF IsSum
  <2> QED BY <1>1, <1>4, <2>2, <2>3, Zenon
<1> QED BY <1>3, <1>4

LEMMA SumEmpty == \A f : SumFunctionOnSet(f, {}) = 0
BY SumRecursion, FS_EmptySet

(* A sum of integers is an integer. *)
LEMMA SumInt ==
  ASSUME NEW f, NEW S, IsFiniteSet(S), \A x \in S : f[x] \in Int
  PROVE  SumFunctionOnSet(f, S) \in Int
<1> DEFINE B == {T \in SUBSET S : SumFunctionOnSet(f, T) \notin Int}
<1> SUFFICES ASSUME B # {} PROVE FALSE
  OBVIOUS
<1>1. PICK T \in B : \A V \in B : ~ (V \subseteq T /\ V # T)
  <2> HIDE DEF B
  <2> B \subseteq SUBSET S
    BY DEF B
  <2> QED BY SmallestSubset
<1>2. T # {}
  BY SumEmpty
<1> DEFINE x == CHOOSE x \in T : TRUE
<1>3. x \in T
  BY <1>2
<1>4. SumFunctionOnSet(f, T \ {x}) \in Int
  BY <1>1, <1>3
<1>5. SumFunctionOnSet(f, T) = f[x] + SumFunctionOnSet(f, T \ {x})
  BY <1>2, SumRecursion, FS_Subset, Zenon
<1> QED BY <1>3, <1>4, <1>5

(* Any element may be taken out of a sum, not only the one it chooses. *)
LEMMA SumRemove ==
  ASSUME NEW f, NEW S, IsFiniteSet(S), \A x \in S : f[x] \in Int,
         NEW a \in S
  PROVE  SumFunctionOnSet(f, S) = f[a] + SumFunctionOnSet(f, S \ {a})
<1> DEFINE Sum(T) == SumFunctionOnSet(f, T)
           B == {T \in SUBSET S : \E x \in T : Sum(T) # f[x] + Sum(T \ {x})}
<1> SUFFICES ASSUME B # {} PROVE FALSE
  OBVIOUS
<1>1. PICK T \in B : \A V \in B : ~ (V \subseteq T /\ V # T)
  <2> HIDE DEF B
  <2> B \subseteq SUBSET S
    BY DEF B
  <2> QED BY SmallestSubset
<1>2. PICK x \in T : Sum(T) # f[x] + Sum(T \ {x})
  OBVIOUS
<1> DEFINE c == CHOOSE c \in T : TRUE
<1>3. c \in T /\ T \subseteq S /\ IsFiniteSet(T)
  BY <1>2, FS_Subset
<1>4. \A U \in SUBSET S : Sum(U) \in Int
  BY SumInt, FS_Subset
<1>5. Sum(T) = f[c] + Sum(T \ {c})
  BY <1>2, <1>3, SumRecursion, Zenon
<1>6. x # c
  BY <1>2, <1>5
<1>7. T \ {c} \notin B /\ T \ {x} \notin B
  BY <1>1, <1>2, <1>3
<1>8. Sum(T \ {c}) = f[x] + Sum((T \ {c}) \ {x})
  BY <1>2, <1>3, <1>6, <1>7
<1>9. Sum(T \ {x}) = f[c] + Sum((T \ {x}) \ {c})
  BY <1>2, <1>3, <1>6, <1>7
<1>10. (T \ {x}) \ {c} = (T \ {c}) \ {x}
  OBVIOUS
<1> HIDE DEF Sum, c, B
<1>11. Sum((T \ {c}) \ {x}) \in Int /\ f[x] \in Int /\ f[c] \in Int
  BY <1>2, <1>3, <1>4
<1>12. Sum(T \ {x}) = f[c] + Sum((T \ {c}) \ {x})
  BY <1>9, <1>10, Zenon
<1>13. Sum(T) = f[x] + Sum(T \ {x})
  BY <1>5, <1>8, <1>11, <1>12
<1> QED BY <1>2, <1>13

(* A sum depends on the summed values only. *)
LEMMA SumCongruence ==
  ASSUME NEW f, NEW g, NEW S, IsFiniteSet(S), \A x \in S : f[x] = g[x]
  PROVE  SumFunctionOnSet(f, S) = SumFunctionOnSet(g, S)
<1> DEFINE B == {T \in SUBSET S :
                   SumFunctionOnSet(f, T) # SumFunctionOnSet(g, T)}
<1> SUFFICES ASSUME B # {} PROVE FALSE
  OBVIOUS
<1>1. PICK T \in B : \A V \in B : ~ (V \subseteq T /\ V # T)
  <2> HIDE DEF B
  <2> B \subseteq SUBSET S
    BY DEF B
  <2> QED BY SmallestSubset
<1>2. T # {}
  BY SumEmpty
<1> DEFINE x == CHOOSE x \in T : TRUE
<1>3. x \in T /\ T \subseteq S /\ IsFiniteSet(T)
  BY <1>2, FS_Subset
<1>4. SumFunctionOnSet(f, T \ {x}) = SumFunctionOnSet(g, T \ {x})
  BY <1>1, <1>3
<1>5. /\ SumFunctionOnSet(f, T) = f[x] + SumFunctionOnSet(f, T \ {x})
      /\ SumFunctionOnSet(g, T) = g[x] + SumFunctionOnSet(g, T \ {x})
  BY <1>2, <1>3, SumRecursion, Zenon
<1>6. SumFunctionOnSet(f, T) = SumFunctionOnSet(g, T)
  BY <1>3, <1>4, <1>5
<1> QED BY <1>6

(* Changing the value at one point changes the sum by the difference. *)
LEMMA SumUpdate ==
  ASSUME NEW f, NEW g, NEW S, IsFiniteSet(S), NEW a \in S,
         \A x \in S : f[x] \in Int, g[a] \in Int,
         \A x \in S \ {a} : g[x] = f[x]
  PROVE  SumFunctionOnSet(g, S) = SumFunctionOnSet(f, S) - f[a] + g[a]
<1>1. \A x \in S : g[x] \in Int
  OBVIOUS
<1>2. SumFunctionOnSet(f, S) = f[a] + SumFunctionOnSet(f, S \ {a})
  BY SumRemove
<1>3. SumFunctionOnSet(g, S) = g[a] + SumFunctionOnSet(g, S \ {a})
  BY <1>1, SumRemove
<1>4. IsFiniteSet(S \ {a})
  BY FS_Subset
<1>5. SumFunctionOnSet(f, S \ {a}) = SumFunctionOnSet(g, S \ {a})
  BY <1>4, SumCongruence
<1>6. SumFunctionOnSet(f, S \ {a}) \in Int
  BY <1>4, SumInt
<1> QED BY <1>2, <1>3, <1>5, <1>6

(* A sum of naturals is a natural, and no term of it exceeds it. *)
LEMMA SumNat ==
  ASSUME NEW f, NEW S, IsFiniteSet(S), \A x \in S : f[x] \in Nat
  PROVE  SumFunctionOnSet(f, S) \in Nat
<1> DEFINE B == {T \in SUBSET S : SumFunctionOnSet(f, T) \notin Nat}
<1> SUFFICES ASSUME B # {} PROVE FALSE
  OBVIOUS
<1>1. PICK T \in B : \A V \in B : ~ (V \subseteq T /\ V # T)
  <2> HIDE DEF B
  <2> B \subseteq SUBSET S
    BY DEF B
  <2> QED BY SmallestSubset
<1>2. T # {}
  BY SumEmpty
<1> DEFINE x == CHOOSE x \in T : TRUE
<1>3. x \in T
  BY <1>2
<1>4. SumFunctionOnSet(f, T \ {x}) \in Nat
  BY <1>1, <1>3
<1>5. SumFunctionOnSet(f, T) = f[x] + SumFunctionOnSet(f, T \ {x})
  BY <1>2, SumRecursion, FS_Subset, Zenon
<1> QED BY <1>3, <1>4, <1>5

(* Terms that are zero may be left out.                                     *)
LEMMA SumWithin ==
  ASSUME NEW f, NEW S, IsFiniteSet(S), NEW T \in SUBSET S,
         \A x \in S : f[x] \in Int, \A x \in S \ T : f[x] = 0
  PROVE  SumFunctionOnSet(f, S) = SumFunctionOnSet(f, T)
<1> DEFINE B == {U \in SUBSET S : T \subseteq U
                                  /\ SumFunctionOnSet(f, U) # SumFunctionOnSet(f, T)}
<1> SUFFICES ASSUME B # {} PROVE FALSE
  OBVIOUS
<1>1. PICK U \in B : \A V \in B : ~ (V \subseteq U /\ V # U)
  <2> HIDE DEF B
  <2> B \subseteq SUBSET S
    BY DEF B
  <2> QED BY SmallestSubset
<1>2. T \subseteq U /\ U \subseteq S /\ U # T
  OBVIOUS
<1>3. PICK x \in U : x \notin T
  BY <1>2
<1>4. SumFunctionOnSet(f, U \ {x}) = SumFunctionOnSet(f, T)
  BY <1>1, <1>2, <1>3
<1>5. SumFunctionOnSet(f, U) = f[x] + SumFunctionOnSet(f, U \ {x})
  BY <1>2, FS_Subset, SumRemove
<1>6. SumFunctionOnSet(f, T) \in Int
  BY FS_Subset, SumInt
<1>7. f[x] = 0
  BY <1>2, <1>3
<1>8. SumFunctionOnSet(f, U) = SumFunctionOnSet(f, T)
  BY <1>4, <1>5, <1>6, <1>7
<1> QED BY <1>8

LEMMA SumZero ==
  ASSUME NEW f, NEW S, IsFiniteSet(S), \A x \in S : f[x] = 0
  PROVE  SumFunctionOnSet(f, S) = 0
<1> DEFINE B == {T \in SUBSET S : SumFunctionOnSet(f, T) # 0}
<1> SUFFICES ASSUME B # {} PROVE FALSE
  OBVIOUS
<1>1. PICK T \in B : \A V \in B : ~ (V \subseteq T /\ V # T)
  <2> HIDE DEF B
  <2> B \subseteq SUBSET S
    BY DEF B
  <2> QED BY SmallestSubset
<1>2. T # {}
  BY SumEmpty
<1> DEFINE x == CHOOSE x \in T : TRUE
<1>3. x \in T
  BY <1>2
<1>4. SumFunctionOnSet(f, T \ {x}) = 0
  BY <1>1, <1>3
<1>5. SumFunctionOnSet(f, T) = f[x] + SumFunctionOnSet(f, T \ {x})
  BY <1>2, SumRecursion, FS_Subset, Zenon
<1> QED BY <1>3, <1>4, <1>5

LEMMA SumBoundsTerm ==
  ASSUME NEW f, NEW S, IsFiniteSet(S), \A x \in S : f[x] \in Nat,
         NEW a \in S
  PROVE  f[a] <= SumFunctionOnSet(f, S)
<1>1. SumFunctionOnSet(f, S) = f[a] + SumFunctionOnSet(f, S \ {a})
  BY SumRemove
<1>2. SumFunctionOnSet(f, S \ {a}) \in Nat
  BY FS_Subset, SumNat
<1> QED BY <1>1, <1>2

(* A nonempty set of naturals has a minimum. *)
LEMMA MinOfNats ==
  ASSUME NEW S, S \subseteq Nat, S # {}
  PROVE  Min(S) \in S /\ \A y \in S : Min(S) <= y
<1>1. \E x \in S : \A y \in S : ~ (<<y, x>> \in OpToRel(<, Nat))
  BY NatLessThanWellFounded, WFMin
<1>2. PICK x \in S : \A y \in S : ~ (<<y, x>> \in OpToRel(<, Nat))
  BY <1>1
<1>3. \A y \in S : ~ (y < x)
  BY <1>2 DEF OpToRel
<1>4. \A y \in S : x <= y
  BY <1>3
<1> QED BY <1>4, Zenon DEF Min

-----------------------------------------------------------------------------
(* One table.                                                               *)

(* A table the contract can leave: an absent row is all zero.               *)
LedgerOK(L) == L \in Ledger /\ \A a \in Accounts : ~ L[a].open => L[a] = NoRow

Worth(L) == [a \in Accounts |-> L[a].bal + L[a].dep]

LEMMA FiniteAccounts == IsFiniteSet(Accounts)
BY ConstantsAssumption

LEMMA HeldInt ==
  ASSUME NEW L, L \in Ledger
  PROVE  Held(L) \in Int
<1>1. \A a \in Accounts : Worth(L)[a] \in Int
  BY DEF Worth, Ledger, Row
<1>2. Held(L) = SumFunctionOnSet(Worth(L), Accounts)
  BY Zenon DEF Held, Worth
<1> QED BY <1>1, <1>2, FiniteAccounts, SumInt

(* Replacing one row changes the sum by the difference of the two rows.     *)
LEMMA HeldUpdate ==
  ASSUME NEW L, L \in Ledger, NEW a \in Accounts, NEW r \in Row
  PROVE  Held([L EXCEPT ![a] = r]) =
           Held(L) - (L[a].bal + L[a].dep) + (r.bal + r.dep)
<1> DEFINE M == [L EXCEPT ![a] = r]
<1>1. \A b \in Accounts : Worth(L)[b] \in Int
  BY DEF Worth, Ledger, Row
<1>2. Worth(M)[a] = r.bal + r.dep /\ Worth(M)[a] \in Int
  BY DEF Worth, Ledger, Row
<1>3. \A b \in Accounts \ {a} : Worth(M)[b] = Worth(L)[b]
  BY DEF Worth, Ledger
<1>4. Worth(L)[a] = L[a].bal + L[a].dep
  BY DEF Worth
<1>5. Held(L) = SumFunctionOnSet(Worth(L), Accounts)
  BY Zenon DEF Held, Worth
<1>6. Held(M) = SumFunctionOnSet(Worth(M), Accounts)
  BY Zenon DEF Held, Worth
<1>7. SumFunctionOnSet(Worth(M), Accounts) =
        SumFunctionOnSet(Worth(L), Accounts) - Worth(L)[a] + Worth(M)[a]
  <2> HIDE DEF M
  <2> QED BY <1>1, <1>2, <1>3, FiniteAccounts, SumUpdate
<1> HIDE DEF M
<1>8. Held(M) = Held(L) - (L[a].bal + L[a].dep) + (r.bal + r.dep)
  BY <1>2, <1>4, <1>5, <1>6, <1>7
<1> QED BY <1>8 DEF M

-----------------------------------------------------------------------------
(* The operations of the class account.                                     *)

LEMMA KeptRow ==
  ASSUME NEW r \in Row, NEW keep \in BOOLEAN, r.open \/ r = NoRow
  PROVE  /\ Kept(r, keep) \in Row
         /\ ~ Kept(r, keep).open => Kept(r, keep) = NoRow
         /\ Kept(r, keep).bal = r.bal /\ Kept(r, keep).dep = r.dep
BY DEF Kept, Row, NoRow

LEMMA SubBalanceOK ==
  ASSUME NEW L, LedgerOK(L), NEW a \in Accounts, NEW v \in Nat,
         NEW keep \in BOOLEAN, L[a].bal >= v
  PROVE  /\ LedgerOK(SubBalance(L, a, v, keep))
         /\ Held(SubBalance(L, a, v, keep)) = Held(L) - v
<1> DEFINE r == [L[a] EXCEPT !.bal = L[a].bal - v]
           M == SubBalance(L, a, v, keep)
<1>1. L \in Ledger /\ L[a] \in Row /\ (L[a].open \/ L[a] = NoRow)
  BY DEF LedgerOK, Ledger
<1>2. r \in Row /\ (r.open \/ r = NoRow) /\ r.bal = L[a].bal - v /\ r.dep = L[a].dep
  BY <1>1 DEF Row, NoRow
<1>3. M = [L EXCEPT ![a] = Kept(r, keep)]
  BY <1>1 DEF SubBalance, Ledger
<1> HIDE DEF r, M
<1>4. /\ Kept(r, keep) \in Row /\ (~ Kept(r, keep).open => Kept(r, keep) = NoRow)
      /\ Kept(r, keep).bal = L[a].bal - v /\ Kept(r, keep).dep = L[a].dep
  BY <1>2, KeptRow
<1>5. LedgerOK(M)
  BY <1>3, <1>4 DEF LedgerOK, Ledger
<1>6. Held(M) = Held(L) - (L[a].bal + L[a].dep)
                  + (Kept(r, keep).bal + Kept(r, keep).dep)
  BY <1>1, <1>3, <1>4, HeldUpdate, Zenon
<1>7. Held(M) = Held(L) - v
  BY <1>1, <1>4, <1>6, HeldInt DEF Row
<1> QED BY <1>5, <1>7 DEF M

LEMMA SubDepositOK ==
  ASSUME NEW L, LedgerOK(L), NEW a \in Accounts, NEW v \in Nat,
         NEW keep \in BOOLEAN, L[a].dep >= v
  PROVE  /\ LedgerOK(SubDeposit(L, a, v, keep))
         /\ Held(SubDeposit(L, a, v, keep)) = Held(L) - v
<1> DEFINE r == [L[a] EXCEPT !.dep = L[a].dep - v]
           M == SubDeposit(L, a, v, keep)
<1>1. L \in Ledger /\ L[a] \in Row /\ (L[a].open \/ L[a] = NoRow)
  BY DEF LedgerOK, Ledger
<1>2. r \in Row /\ (r.open \/ r = NoRow) /\ r.dep = L[a].dep - v /\ r.bal = L[a].bal
  BY <1>1 DEF Row, NoRow
<1>3. M = [L EXCEPT ![a] = Kept(r, keep)]
  BY <1>1 DEF SubDeposit, Ledger
<1> HIDE DEF r, M
<1>4. /\ Kept(r, keep) \in Row /\ (~ Kept(r, keep).open => Kept(r, keep) = NoRow)
      /\ Kept(r, keep).bal = L[a].bal /\ Kept(r, keep).dep = L[a].dep - v
  BY <1>2, KeptRow
<1>5. LedgerOK(M)
  BY <1>3, <1>4 DEF LedgerOK, Ledger
<1>6. Held(M) = Held(L) - (L[a].bal + L[a].dep)
                  + (Kept(r, keep).bal + Kept(r, keep).dep)
  BY <1>1, <1>3, <1>4, HeldUpdate, Zenon
<1>7. Held(M) = Held(L) - v
  BY <1>1, <1>4, <1>6, HeldInt DEF Row
<1> QED BY <1>5, <1>7 DEF M

LEMMA AddBalanceOK ==
  ASSUME NEW L, LedgerOK(L), NEW a \in Accounts, NEW v \in Nat
  PROVE  /\ LedgerOK(AddBalance(L, a, v))
         /\ Held(AddBalance(L, a, v)) = Held(L) + v
<1> DEFINE r == [L[a] EXCEPT !.open = TRUE, !.bal = L[a].bal + v]
           M == AddBalance(L, a, v)
<1>1. L \in Ledger /\ L[a] \in Row
  BY DEF LedgerOK, Ledger
<1>2. r \in Row /\ r.open /\ r.bal = L[a].bal + v /\ r.dep = L[a].dep
  <2> DEFINE y == [L[a] EXCEPT !.open = TRUE]
  <2>1. y \in Row /\ r = [y EXCEPT !.bal = L[a].bal + v]
    BY <1>1 DEF Row
  <2>2. y \in Row /\ L[a].bal + v \in Nat
    BY <1>1, <2>1 DEF Row
  <2>3. [y EXCEPT !.bal = L[a].bal + v] \in Row
    <3> HIDE DEF y
    <3> QED BY <2>2 DEF Row
  <2> QED BY <1>1, <2>1, <2>3 DEF Row
<1>3. M = [L EXCEPT ![a] = r]
  BY <1>1 DEF AddBalance, Ledger
<1> HIDE DEF r, M
<1>5. LedgerOK(M)
  BY <1>2, <1>3 DEF LedgerOK, Ledger
<1>4. r \in Row
  BY <1>2
<1>6. Held(M) = Held(L) - (L[a].bal + L[a].dep) + (r.bal + r.dep)
  BY <1>1, <1>3, <1>4, HeldUpdate, Zenon
<1>7. Held(M) = Held(L) + v
  BY <1>1, <1>2, <1>6, HeldInt DEF Row
<1> QED BY <1>5, <1>7 DEF M

LEMMA AddDepositOK ==
  ASSUME NEW L, LedgerOK(L), NEW a \in Accounts, NEW v \in Nat
  PROVE  /\ LedgerOK(AddDeposit(L, a, v))
         /\ Held(AddDeposit(L, a, v)) = Held(L) + v
<1> DEFINE r == [L[a] EXCEPT !.open = TRUE, !.dep = L[a].dep + v]
           M == AddDeposit(L, a, v)
<1>1. L \in Ledger /\ L[a] \in Row
  BY DEF LedgerOK, Ledger
<1>2. r \in Row /\ r.open /\ r.dep = L[a].dep + v /\ r.bal = L[a].bal
  <2> DEFINE y == [L[a] EXCEPT !.open = TRUE]
  <2>1. y \in Row /\ r = [y EXCEPT !.dep = L[a].dep + v]
    BY <1>1 DEF Row
  <2>2. y \in Row /\ L[a].dep + v \in Nat
    BY <1>1, <2>1 DEF Row
  <2>3. [y EXCEPT !.dep = L[a].dep + v] \in Row
    <3> HIDE DEF y
    <3> QED BY <2>2 DEF Row
  <2> QED BY <1>1, <2>1, <2>3 DEF Row
<1>3. M = [L EXCEPT ![a] = r]
  BY <1>1 DEF AddDeposit, Ledger
<1> HIDE DEF r, M
<1>5. LedgerOK(M)
  BY <1>2, <1>3 DEF LedgerOK, Ledger
<1>4. r \in Row
  BY <1>2
<1>6. Held(M) = Held(L) - (L[a].bal + L[a].dep) + (r.bal + r.dep)
  BY <1>1, <1>3, <1>4, HeldUpdate, Zenon
<1>7. Held(M) = Held(L) + v
  BY <1>1, <1>2, <1>6, HeldInt DEF Row
<1> QED BY <1>5, <1>7 DEF M

(* Settling a request moves it from the escrow to its owner.                *)
LEMMA SettleOK ==
  ASSUME NEW L, LedgerOK(L), NEW o \in Accounts, NEW q \in Nat,
         NEW keep \in BOOLEAN, L[Self].bal >= q
  PROVE  /\ LedgerOK(Settle(L, o, q, keep))
         /\ Held(Settle(L, o, q, keep)) = Held(L)
<1> DEFINE M == SubBalance(L, Self, q, keep)
<1>1. Self \in Accounts
  BY ConstantsAssumption
<1>2. LedgerOK(M) /\ Held(M) = Held(L) - q
  BY <1>1, SubBalanceOK
<1>3. Settle(L, o, q, keep) = IF "frozen" \in M[o].opts THEN AddDeposit(M, o, q)
                              ELSE AddBalance(M, o, q)
  BY Zenon DEF Settle
<1> HIDE DEF M
<1>4. /\ LedgerOK(Settle(L, o, q, keep))
      /\ Held(Settle(L, o, q, keep)) = Held(M) + q
  BY <1>2, <1>3, AddDepositOK, AddBalanceOK
<1>5. Held(L) \in Int
  BY HeldInt DEF LedgerOK
<1> QED BY <1>2, <1>4, <1>5

-----------------------------------------------------------------------------
(* The tables of all tokens, and the rest of the state.                     *)

Requests == [Accounts -> [Tokens -> [qty : Nat, time : Nat]]]

TablesOK(rw) == rw \in [Tokens -> Ledger] /\ \A t \in Tokens : LedgerOK(rw[t])

StatOK ==
  /\ stat \in [Tokens -> Stat]
  /\ \A t \in Tokens : ~ stat[t].exists => stat[t] = NoStat
Capped ==
  \A t \in Tokens : stat[t].supply <= stat[t].max /\ stat[t].max <= MaxAmount

Sound ==
  /\ StatOK /\ Capped
  /\ TablesOK(row)
  /\ req \in Requests
  /\ allowance \in [Accounts -> [Accounts -> [Tokens -> Nat]]]
  /\ deferred \in [Accounts -> Nat \cup {None}]
  /\ now \in 0 .. MaxTime

(* A step moves the supply of a token by what its rows gain or lose.        *)
Balanced ==
  \A t \in Tokens :
    stat'[t].supply - Held(row'[t]) = stat[t].supply - Held(row[t])

LEMMA Domains ==
  /\ IsFiniteSet(Tokens) /\ Self \in Accounts
  /\ Amounts \subseteq Nat /\ Limits \subseteq Nat
  /\ StackFlag \subseteq BOOLEAN
  /\ MaxTime \in Nat /\ MaxAmount \in Nat
  /\ \A v \in Amounts : v > 0 /\ v <= MaxAmount
  /\ \A t \in Tokens : Issuer[t] \in Accounts
  /\ DepositOwners \subseteq Accounts
BY ConstantsAssumption

LEMMA SameSupply ==
  ASSUME stat' = stat, \A t \in Tokens : Held(row'[t]) = Held(row[t])
  PROVE  Balanced
BY DEF Balanced

-----------------------------------------------------------------------------
(* The class requests.                                                      *)

LEMMA HeadOK ==
  ASSUME NEW rq, rq \in Requests, NEW o \in Accounts
  PROVE  Head(rq, o) \in Nat \cup {None}
<1> DEFINE S == {rq[o][t].time : t \in Pending(rq, o)}
<1>1. CASE Pending(rq, o) = {}
  BY <1>1 DEF Head
<1>2. CASE Pending(rq, o) # {}
  <2>1. S \subseteq Nat
    BY DEF Pending, Requests
  <2>2. S # {}
    BY <1>2
  <2>3. Min(S) \in Nat
    <3> HIDE DEF S
    <3> QED BY <2>1, <2>2, MinOfNats
  <2> QED BY <1>2, <2>3 DEF Head
<1> QED BY <1>1, <1>2

LEMMA RefreshOK ==
  ASSUME NEW signers, NEW rw, NEW rq, NEW o \in Accounts,
         TablesOK(rw), rq \in Requests, deferred \in [Accounts -> Nat \cup {None}],
         Refresh(signers, rw, rq, o)
  PROVE  /\ TablesOK(row')
         /\ \A t \in Tokens : Held(row'[t]) = Held(rw[t])
         /\ req' \in Requests
         /\ deferred' \in [Accounts -> Nat \cup {None}]
<1> DEFINE D == Due(rq, o)
<1>1. PICK keep \in [D -> StackFlag] :
        row' = [t \in Tokens |->
                  IF t \in D THEN Settle(rw[t], o, rq[o][t].qty, keep[t])
                  ELSE rw[t]]
  BY DEF Refresh
<1>2. \A t \in D : rw[t][Self].bal >= rq[o][t].qty
  BY DEF Refresh, CanClear, CanSettle
<1>3. \A t \in D : t \in Tokens /\ rq[o][t].qty \in Nat /\ keep[t] \in BOOLEAN
  BY Domains DEF Due, Pending, Requests
<1>4. \A t \in Tokens : LedgerOK(row'[t]) /\ Held(row'[t]) = Held(rw[t])
  <2> TAKE t \in Tokens
  <2>1. CASE t \in D
    <3>1. row'[t] = Settle(rw[t], o, rq[o][t].qty, keep[t])
      BY <1>1, <2>1
    <3>2. LedgerOK(rw[t])
      BY DEF TablesOK
    <3> HIDE DEF D
    <3> QED BY <1>2, <1>3, <2>1, <3>1, <3>2, SettleOK
  <2>2. CASE t \notin D
    BY <1>1, <2>2 DEF TablesOK
  <2> QED BY <2>1, <2>2
<1>5. TablesOK(row')
  <2> HIDE DEF D
  <2>1. row' \in [Tokens -> Ledger]
    BY <1>1, <1>4 DEF LedgerOK
  <2> QED BY <1>4, <2>1 DEF TablesOK
<1>6. req' \in Requests
  BY DEF Refresh, Requests, NoReq
<1>7. deferred' \in [Accounts -> Nat \cup {None}]
  <2>1. deferred' = [deferred EXCEPT ![o] = Head(req', o)]
    BY DEF Refresh
  <2>2. Head(req', o) \in Nat \cup {None}
    BY <1>6, HeadOK
  <2> QED BY <2>1, <2>2
<1> QED BY <1>4, <1>5, <1>6, <1>7

-----------------------------------------------------------------------------
(* The handlers.  Each leaves sound tables and a balanced supply.           *)

(* A handler that only rewrites the table of one token, keeping its sum.    *)
LEMMA LedgerStep ==
  ASSUME Sound, NEW t \in Tokens, NEW M, LedgerOK(M), Held(M) = Held(row[t]),
         row' = [row EXCEPT ![t] = M], UNCHANGED stat
  PROVE  TablesOK(row') /\ Balanced
<1>1. TablesOK(row)
  BY DEF Sound
<1>2. TablesOK(row') /\ row'[t] = M /\ \A u \in Tokens \ {t} : row'[u] = row[u]
  BY <1>1 DEF TablesOK, LedgerOK
<1>3. \A u \in Tokens : Held(row'[u]) = Held(row[u])
  BY <1>2
<1> QED BY <1>2, <1>3, SameSupply

(* One that also moves the supply.                                          *)
LEMMA SupplyStep ==
  ASSUME Sound, NEW t \in Tokens, NEW M, LedgerOK(M), stat' \in [Tokens -> Stat],
         Held(M) - Held(row[t]) = stat'[t].supply - stat[t].supply,
         row' = [row EXCEPT ![t] = M],
         \A u \in Tokens \ {t} : stat'[u] = stat[u]
  PROVE  TablesOK(row') /\ Balanced
<1>1. TablesOK(row) /\ stat \in [Tokens -> Stat]
  BY DEF Sound, StatOK
<1>2. TablesOK(row') /\ row'[t] = M /\ \A u \in Tokens \ {t} : row'[u] = row[u]
  BY <1>1 DEF TablesOK, LedgerOK
<1>3. Held(M) \in Int /\ Held(row[t]) \in Int
  BY <1>1, HeldInt DEF LedgerOK, TablesOK
<1>4. stat'[t].supply \in Int /\ stat[t].supply \in Int
  BY <1>1 DEF Stat
<1>5. stat'[t].supply - Held(row'[t]) = stat[t].supply - Held(row[t])
  BY <1>2, <1>3, <1>4
<1>6. \A u \in Tokens \ {t} :
        stat'[u].supply - Held(row'[u]) = stat[u].supply - Held(row[u])
  BY <1>2
<1> QED BY <1>2, <1>5, <1>6 DEF Balanced

LEMMA TableOK == ASSUME Sound, NEW t \in Tokens PROVE LedgerOK(row[t])
BY DEF Sound, TablesOK

LEMMA MintNewOK ==
  ASSUME Sound, NEW t \in Tokens, NEW v \in Amounts, NEW c \in Configs,
         MintNew(t, v, c)
  PROVE  Sound' /\ Balanced
<1>1. c \in [opts : SUBSET (InitOptions \cup LiveOptions), delay : Nat,
             min : 0 .. MaxAmount]
  BY ConfigsAssumption
<1> DEFINE st == [exists |-> TRUE, supply |-> 0, max |-> v, opts |-> c.opts,
                  delay |-> c.delay % TimeWidth, min |-> c.min]
<1>2. c.delay % TimeWidth \in Nat
  BY <1>1, ConstantsAssumption
<1>3. st \in Stat /\ st.exists /\ st.supply = 0 /\ st.max = v
  BY <1>1, <1>2, Domains DEF Stat
<1>4. stat' = [stat EXCEPT ![t] = st] /\ stat[t].supply = 0
  BY DEF MintNew, Minted, Sound, StatOK, NoStat
<1> HIDE DEF st
<1>5. StatOK'
  BY <1>3, <1>4 DEF Sound, StatOK
<1>6. Capped'
  BY <1>3, <1>4, Domains DEF Sound, StatOK, Capped
<1>7. UNCHANGED <<row, req, allowance, deferred, now>>
  BY DEF MintNew
<1>8. Balanced
  BY <1>3, <1>4, <1>7 DEF Balanced, Sound, StatOK
<1> QED BY <1>5, <1>6, <1>7 , <1>8 DEF Sound

LEMMA MintMoreOK ==
  ASSUME Sound, NEW t \in Tokens, NEW v \in Amounts,
         NEW chg \in Changes(LiveOptions), MintMore(t, v, chg)
  PROVE  Sound' /\ Balanced
<1> DEFINE opts == Apply(stat[t].opts, chg)
<1>1. stat[t] \in Stat /\ stat[t].exists /\ stat[t].max + v <= MaxAmount
  BY DEF MintMore, Sound, StatOK
<1>2. opts \subseteq InitOptions \cup LiveOptions
  BY <1>1 DEF Apply, Changes, Stat
<1>3. stat' = [stat EXCEPT ![t].max = @ + v, ![t].opts = opts]
  BY DEF MintMore
<1> HIDE DEF opts
<1>4. /\ DOMAIN stat' = Tokens
      /\ stat'[t].exists /\ stat'[t].supply = stat[t].supply
      /\ stat'[t].max = stat[t].max + v
      /\ stat'[t] = [exists |-> TRUE, supply |-> stat[t].supply,
                     max |-> stat[t].max + v, opts |-> opts,
                     delay |-> stat[t].delay, min |-> stat[t].min]
      /\ \A u \in Tokens \ {t} : stat'[u] = stat[u]
  BY <1>1, <1>3 DEF Sound, StatOK, Stat
<1>5. stat'[t] \in Stat
  BY <1>1, <1>2, <1>4, Domains DEF Stat
<1>6. StatOK'
  BY <1>3, <1>4, <1>5 DEF Sound, StatOK
<1>7. Capped'
  BY <1>1, <1>4, Domains DEF Sound, Capped, Stat
<1>8. UNCHANGED <<row, req, allowance, deferred, now>>
  BY DEF MintMore
<1>9. Balanced
  BY <1>4, <1>8 DEF Balanced
<1> QED BY <1>6, <1>7, <1>8, <1>9 DEF Sound

LEMMA SetOptsOK ==
  ASSUME Sound, NEW signers, NEW t \in Tokens,
         NEW chg \in Changes(LiveOptions), SetOpts(signers, t, chg)
  PROVE  Sound' /\ Balanced
<1> DEFINE opts == Apply(stat[t].opts, chg)
<1>1. stat[t] \in Stat /\ stat[t].exists
  BY DEF SetOpts, Sound, StatOK
<1>2. opts \subseteq InitOptions \cup LiveOptions
  BY <1>1 DEF Apply, Changes, Stat
<1>3. stat' = [stat EXCEPT ![t].opts = opts]
  BY DEF SetOpts
<1> HIDE DEF opts
<1>4. /\ stat'[t].exists /\ stat'[t].supply = stat[t].supply
      /\ stat'[t].max = stat[t].max /\ stat'[t] \in Stat
      /\ \A u \in Tokens \ {t} : stat'[u] = stat[u]
  BY <1>1, <1>2, <1>3 DEF Sound, StatOK, Stat
<1>5. StatOK' /\ Capped'
  BY <1>3, <1>4 DEF Sound, StatOK, Capped
<1>6. UNCHANGED <<row, req, allowance, deferred, now>>
  BY DEF SetOpts
<1>7. Balanced
  BY <1>4, <1>6 DEF Balanced
<1> QED BY <1>5, <1>6, <1>7 DEF Sound

(* A handler that leaves everything but the rows alone.                     *)
LEMMA RowsOnly ==
  ASSUME Sound, TablesOK(row'), UNCHANGED <<stat, req, allowance, deferred, now>>
  PROVE  Sound'
BY DEF Sound, StatOK, Capped

(* Options move no amounts.                                                 *)
LEMMA SetAccountOptsOK ==
  ASSUME Sound, NEW signers, NEW t \in Tokens, NEW A \in SUBSET Accounts,
         NEW chg \in Changes(AccountOptions), SetAccountOpts(signers, t, A, chg)
  PROVE  Sound' /\ Balanced
<1> DEFINE M == [a \in Accounts |->
                   IF a \in A
                   THEN [row[t][a] EXCEPT !.opts = Apply(row[t][a].opts, chg)]
                   ELSE row[t][a]]
<1>1. TablesOK(row) /\ LedgerOK(row[t])
  BY DEF Sound, TablesOK
<1>2. row' = [row EXCEPT ![t] = M]
  BY Zenon DEF SetAccountOpts
<1>3. ASSUME NEW a \in Accounts
      PROVE  /\ M[a] \in Row /\ M[a].open = row[t][a].open
             /\ M[a].bal = row[t][a].bal /\ M[a].dep = row[t][a].dep
             /\ a \notin A => M[a] = row[t][a]
             /\ a \in A => M[a].open
  <2>1. row[t][a] \in Row
    BY <1>1 DEF LedgerOK, Ledger
  <2>2. Apply(row[t][a].opts, chg) \in SUBSET AccountOptions
    BY <2>1 DEF Apply, Changes, Row
  <2>3. a \in A => row[t][a].open
    BY DEF SetAccountOpts
  <2> QED BY <2>1, <2>2, <2>3 DEF Row
<1>4. M \in Ledger
  <2>1. M = [a \in Accounts |-> M[a]]
    OBVIOUS
  <2> HIDE DEF M
  <2> QED BY <1>3, <2>1 DEF Ledger
<1> HIDE DEF M
<1>5. LedgerOK(M)
  BY <1>1, <1>3, <1>4 DEF LedgerOK
<1>6. Held(M) = Held(row[t])
  <2>1. \A a \in Accounts : Worth(M)[a] = Worth(row[t])[a]
    BY <1>3 DEF Worth
  <2>2. Held(M) = SumFunctionOnSet(Worth(M), Accounts)
    BY Zenon DEF Held, Worth
  <2>3. Held(row[t]) = SumFunctionOnSet(Worth(row[t]), Accounts)
    BY Zenon DEF Held, Worth
  <2> QED BY <2>1, <2>2, <2>3, FiniteAccounts, SumCongruence
<1>7. UNCHANGED <<stat, req, allowance, deferred, now>>
  BY DEF SetAccountOpts
<1> QED BY <1>2, <1>5, <1>6, <1>7, LedgerStep, RowsOnly

(* The supply of one token moves within its maximum.                        *)
LEMMA NewSupply ==
  ASSUME Sound, NEW t \in Tokens, stat[t].exists, NEW s \in Int,
         s <= stat[t].max, stat' = [stat EXCEPT ![t].supply = s]
  PROVE  /\ StatOK' /\ Capped'
         /\ stat'[t].supply = s
         /\ \A u \in Tokens \ {t} : stat'[u] = stat[u]
<1>1. stat[t] \in Stat
  BY DEF Sound, StatOK
<1> DEFINE st == [stat[t] EXCEPT !.supply = s]
<1>2. st \in Stat /\ st.exists /\ st.supply = s /\ st.max = stat[t].max
  BY <1>1 DEF Stat
<1>3. stat' = [stat EXCEPT ![t] = st]
  BY DEF Sound, StatOK
<1> HIDE DEF st
<1> QED BY <1>2, <1>3 DEF Sound, StatOK, Capped

LEMMA IssueOK ==
  ASSUME Sound, NEW signers, NEW t \in Tokens, NEW to \in Accounts,
         NEW v \in Amounts, Issue(signers, t, to, v)
  PROVE  Sound' /\ Balanced
<1> DEFINE M == IF Opt(t, "recallable") /\ to # Issuer[t]
                THEN AddDeposit(row[t], to, v) ELSE AddBalance(row[t], to, v)
<1>1. LedgerOK(row[t]) /\ v \in Nat /\ stat[t] \in Stat /\ Held(row[t]) \in Int
  BY TableOK, Domains, HeldInt DEF Sound, StatOK, LedgerOK
<1>2. row' = [row EXCEPT ![t] = M]
  BY Zenon DEF Issue
<1>3. LedgerOK(M) /\ Held(M) = Held(row[t]) + v
  BY <1>1, AddDepositOK, AddBalanceOK
<1> HIDE DEF M
<1>4. stat' = [stat EXCEPT ![t].supply = @ + v] /\ v <= stat[t].max - stat[t].supply
  BY DEF Issue
<1>5. /\ StatOK' /\ Capped' /\ stat'[t].supply = stat[t].supply + v
      /\ \A u \in Tokens \ {t} : stat'[u] = stat[u]
  <2>1. stat[t].supply + v \in Int /\ stat[t].supply + v <= stat[t].max
    BY <1>1, <1>4 DEF Stat
  <2>2. stat' = [stat EXCEPT ![t].supply = stat[t].supply + v] /\ stat[t].exists
    BY <1>4 DEF Issue
  <2> QED BY <2>1, <2>2, NewSupply
<1>6. Held(M) - Held(row[t]) = stat'[t].supply - stat[t].supply
  BY <1>1, <1>3, <1>5 DEF Stat
<1>7. UNCHANGED <<req, allowance, deferred, now>>
  BY DEF Issue
<1>8. TablesOK(row') /\ Balanced
  BY <1>2, <1>3, <1>5, <1>6, SupplyStep DEF StatOK
<1> QED BY <1>5, <1>7, <1>8 DEF Sound

LEMMA RetireOK ==
  ASSUME Sound, NEW signers, NEW t \in Tokens, NEW a \in Accounts,
         NEW v \in Amounts, Retire(signers, t, a, v)
  PROVE  Sound' /\ Balanced
<1>1. LedgerOK(row[t]) /\ v \in Nat /\ stat[t] \in Stat /\ Held(row[t]) \in Int
  BY TableOK, Domains, HeldInt DEF Sound, StatOK, LedgerOK
<1>2. PICK M : /\ row' = [row EXCEPT ![t] = M]
               /\ LedgerOK(M) /\ Held(M) = Held(row[t]) - v
  <2>1. PICK keep \in StackFlag :
          \/ /\ row[t][a].bal >= v
             /\ row' = [row EXCEPT ![t] = SubBalance(row[t], a, v, keep)]
          \/ /\ row[t][a].dep >= v
             /\ row' = [row EXCEPT ![t] = SubDeposit(row[t], a, v, keep)]
    BY DEF Retire, CanSubBalance, CanSubDeposit
  <2>2. keep \in BOOLEAN
    BY Domains
  <2>3. CASE /\ row[t][a].bal >= v
             /\ row' = [row EXCEPT ![t] = SubBalance(row[t], a, v, keep)]
    BY <1>1, <2>2, <2>3, SubBalanceOK, Zenon
  <2>4. CASE /\ row[t][a].dep >= v
             /\ row' = [row EXCEPT ![t] = SubDeposit(row[t], a, v, keep)]
    BY <1>1, <2>2, <2>4, SubDepositOK, Zenon
  <2> QED BY <2>1, <2>3, <2>4
<1>4. stat' = [stat EXCEPT ![t].supply = @ - v]
  BY DEF Retire
<1>5. /\ StatOK' /\ Capped' /\ stat'[t].supply = stat[t].supply - v
      /\ \A u \in Tokens \ {t} : stat'[u] = stat[u]
  <2>1. stat[t].supply - v \in Int /\ stat[t].supply - v <= stat[t].max
    BY <1>1 DEF Stat, Sound, Capped
  <2>2. stat' = [stat EXCEPT ![t].supply = stat[t].supply - v] /\ stat[t].exists
    BY <1>4 DEF Retire
  <2> QED BY <2>1, <2>2, NewSupply
<1>6. Held(M) - Held(row[t]) = stat'[t].supply - stat[t].supply
  BY <1>1, <1>2, <1>5 DEF Stat
<1>7. UNCHANGED <<req, allowance, deferred, now>>
  BY DEF Retire
<1>8. TablesOK(row') /\ Balanced
  BY <1>2, <1>5, <1>6, SupplyStep DEF StatOK
<1> QED BY <1>5, <1>7, <1>8 DEF Sound

LEMMA BurnOK ==
  ASSUME Sound, NEW signers, NEW t \in Tokens, NEW v \in Amounts,
         Burn(signers, t, v)
  PROVE  Sound' /\ Balanced
<1> DEFINE a == Issuer[t]
<1>1. /\ LedgerOK(row[t]) /\ v \in Nat /\ stat[t] \in Stat /\ Held(row[t]) \in Int
      /\ a \in Accounts
  BY TableOK, Domains, HeldInt DEF Sound, StatOK, LedgerOK
<1>2. PICK M : /\ row' = [row EXCEPT ![t] = M]
               /\ LedgerOK(M) /\ Held(M) = Held(row[t]) - v
  <2>1. PICK keep \in StackFlag :
          row' = [row EXCEPT ![t] = SubBalance(row[t], a, v, keep)]
    BY DEF Burn
  <2>2. keep \in BOOLEAN /\ row[t][a].bal >= v
    BY Domains DEF Burn, CanSubBalance
  <2> QED BY <1>1, <2>1, <2>2, SubBalanceOK, Zenon
<1>4. /\ stat' = [stat EXCEPT ![t].supply = @ - v, ![t].max = @ - v]
      /\ stat[t].exists
  BY DEF Burn
<1>5. /\ StatOK' /\ Capped' /\ stat'[t].supply = stat[t].supply - v
      /\ \A u \in Tokens \ {t} : stat'[u] = stat[u]
  <2>1. /\ stat[t].supply - v \in Int /\ stat[t].max - v \in Int
        /\ stat[t].supply - v <= stat[t].max - v /\ stat[t].max - v <= MaxAmount
    BY <1>1, Domains DEF Stat, Sound, Capped
  <2>2. /\ DOMAIN stat' = Tokens
        /\ stat'[t] = [exists |-> TRUE, supply |-> stat[t].supply - v,
                       max |-> stat[t].max - v, opts |-> stat[t].opts,
                       delay |-> stat[t].delay, min |-> stat[t].min]
        /\ \A u \in Tokens \ {t} : stat'[u] = stat[u]
    BY <1>1, <1>4 DEF Sound, StatOK, Stat
  <2>3. stat'[t] \in Stat /\ stat'[t].supply = stat[t].supply - v
    BY <1>1, <2>1, <2>2 DEF Stat
  <2>4. StatOK'
    BY <1>4, <2>2, <2>3 DEF Sound, StatOK
  <2> QED BY <2>1, <2>2, <2>3, <2>4 DEF Sound, Capped
<1>6. Held(M) - Held(row[t]) = stat'[t].supply - stat[t].supply
  BY <1>1, <1>2, <1>5 DEF Stat
<1>7. UNCHANGED <<req, allowance, deferred, now>>
  BY DEF Burn
<1>8. TablesOK(row') /\ Balanced
  BY <1>2, <1>5, <1>6, SupplyStep DEF StatOK
<1> QED BY <1>5, <1>7, <1>8 DEF Sound

(* A quantity that leaves one field and enters another keeps the sum.       *)
LEMMA MovesOK ==
  ASSUME NEW L, LedgerOK(L), NEW a \in Accounts, NEW b \in Accounts,
         NEW v \in Nat, NEW keep \in BOOLEAN
  PROVE  /\ L[a].bal >= v =>
              /\ LedgerOK(AddBalance(SubBalance(L, a, v, keep), b, v))
              /\ Held(AddBalance(SubBalance(L, a, v, keep), b, v)) = Held(L)
              /\ LedgerOK(AddDeposit(SubBalance(L, a, v, keep), b, v))
              /\ Held(AddDeposit(SubBalance(L, a, v, keep), b, v)) = Held(L)
         /\ L[a].dep >= v =>
              /\ LedgerOK(AddBalance(SubDeposit(L, a, v, keep), b, v))
              /\ Held(AddBalance(SubDeposit(L, a, v, keep), b, v)) = Held(L)
<1>1. Held(L) \in Int
  BY HeldInt DEF LedgerOK
<1>2. ASSUME L[a].bal >= v
      PROVE  /\ LedgerOK(AddBalance(SubBalance(L, a, v, keep), b, v))
             /\ Held(AddBalance(SubBalance(L, a, v, keep), b, v)) = Held(L)
             /\ LedgerOK(AddDeposit(SubBalance(L, a, v, keep), b, v))
             /\ Held(AddDeposit(SubBalance(L, a, v, keep), b, v)) = Held(L)
  <2> DEFINE M == SubBalance(L, a, v, keep)
  <2>1. LedgerOK(M) /\ Held(M) = Held(L) - v
    BY <1>2, SubBalanceOK
  <2> HIDE DEF M
  <2>2. /\ LedgerOK(AddBalance(M, b, v)) /\ Held(AddBalance(M, b, v)) = Held(M) + v
        /\ LedgerOK(AddDeposit(M, b, v)) /\ Held(AddDeposit(M, b, v)) = Held(M) + v
    BY <2>1, AddBalanceOK, AddDepositOK
  <2>3. /\ LedgerOK(AddBalance(M, b, v)) /\ Held(AddBalance(M, b, v)) = Held(L)
        /\ LedgerOK(AddDeposit(M, b, v)) /\ Held(AddDeposit(M, b, v)) = Held(L)
    BY <1>1, <2>1, <2>2
  <2> QED BY <2>3 DEF M
<1>3. ASSUME L[a].dep >= v
      PROVE  /\ LedgerOK(AddBalance(SubDeposit(L, a, v, keep), b, v))
             /\ Held(AddBalance(SubDeposit(L, a, v, keep), b, v)) = Held(L)
  <2> DEFINE M == SubDeposit(L, a, v, keep)
  <2>1. LedgerOK(M) /\ Held(M) = Held(L) - v
    BY <1>3, SubDepositOK
  <2> HIDE DEF M
  <2>2. LedgerOK(AddBalance(M, b, v)) /\ Held(AddBalance(M, b, v)) = Held(M) + v
    BY <2>1, AddBalanceOK
  <2>3. LedgerOK(AddBalance(M, b, v)) /\ Held(AddBalance(M, b, v)) = Held(L)
    BY <1>1, <2>1, <2>2
  <2> QED BY <2>3 DEF M
<1> QED BY <1>2, <1>3, Zenon

LEMMA SubBalanceKeepsDeposits ==
  ASSUME NEW L, LedgerOK(L), NEW a \in Accounts, NEW b \in Accounts,
         NEW v \in Nat, NEW keep \in BOOLEAN, L[a].bal >= v
  PROVE  SubBalance(L, a, v, keep)[b].dep = L[b].dep
<1> DEFINE r == [L[a] EXCEPT !.bal = L[a].bal - v]
<1>1. L \in Ledger /\ L[a] \in Row /\ (L[a].open \/ L[a] = NoRow)
  BY DEF LedgerOK, Ledger
<1>2. r \in Row /\ (r.open \/ r = NoRow) /\ r.dep = L[a].dep
  BY <1>1 DEF Row, NoRow
<1>3. SubBalance(L, a, v, keep) = [L EXCEPT ![a] = Kept(r, keep)]
  BY DEF SubBalance
<1> HIDE DEF r
<1>4. Kept(r, keep).dep = L[a].dep
  BY <1>2, KeptRow
<1> QED BY <1>1, <1>3, <1>4 DEF Ledger

LEMMA TransferOK ==
  ASSUME Sound, NEW signers, NEW t \in Tokens, NEW from \in Accounts,
         NEW to \in Accounts, NEW v \in Amounts, Transfer(signers, t, from, to, v)
  PROVE  Sound' /\ Balanced
<1>1. LedgerOK(row[t]) /\ v \in Nat /\ row[t][from].bal >= v
  BY TableOK, Domains DEF Transfer, CanSubBalance
<1>2. PICK keep \in StackFlag :
        row' = [row EXCEPT ![t] = AddBalance(SubBalance(row[t], from, v, keep), to, v)]
  BY Zenon DEF Transfer
<1>3. keep \in BOOLEAN
  BY Domains
<1> DEFINE M == AddBalance(SubBalance(row[t], from, v, keep), to, v)
<1>4. LedgerOK(M) /\ Held(M) = Held(row[t])
  BY <1>1, <1>3, MovesOK
<1>5. row' = [row EXCEPT ![t] = M]
  BY <1>2
<1> HIDE DEF M
<1>6. UNCHANGED <<stat, req, deferred, now>>
  BY DEF Transfer
<1>7. TablesOK(row') /\ Balanced
  BY <1>4, <1>5, <1>6, LedgerStep
<1>8. allowance' \in [Accounts -> [Accounts -> [Tokens -> Nat]]]
  <2>1. CASE UNCHANGED allowance
    BY <2>1 DEF Sound
  <2>2. CASE /\ allowance[from][to][t] >= v
             /\ allowance' = [allowance EXCEPT ![from][to][t] = @ - v]
    <3>1. allowance[from][to][t] - v \in Nat
      BY <1>1, <2>2 DEF Sound
    <3> QED BY <2>2, <3>1 DEF Sound
  <2> QED BY <2>1, <2>2 DEF Transfer, SubAllowance
<1> QED BY <1>6, <1>7, <1>8 DEF Sound, StatOK, Capped

LEMMA RecallDepositOK ==
  ASSUME Sound, NEW signers, NEW t \in Tokens, NEW from \in Accounts,
         NEW to \in Accounts, NEW v \in Amounts,
         RecallDeposit(signers, t, from, to, v)
  PROVE  Sound' /\ Balanced
<1>1. LedgerOK(row[t]) /\ v \in Nat /\ row[t][from].dep >= v
  BY TableOK, Domains DEF RecallDeposit, CanSubDeposit
<1>2. PICK keep \in StackFlag :
        row' = [row EXCEPT ![t] = AddBalance(SubDeposit(row[t], from, v, keep), to, v)]
  BY Zenon DEF RecallDeposit
<1>3. keep \in BOOLEAN
  BY Domains
<1> DEFINE M == AddBalance(SubDeposit(row[t], from, v, keep), to, v)
<1>4. LedgerOK(M) /\ Held(M) = Held(row[t])
  BY <1>1, <1>3, MovesOK
<1>5. row' = [row EXCEPT ![t] = M]
  BY <1>2
<1> HIDE DEF M
<1>6. UNCHANGED <<stat, req, allowance, deferred, now>>
  BY DEF RecallDeposit
<1> QED BY <1>4, <1>5, <1>6, LedgerStep, RowsOnly

(* The escrow pays what the deposit lacks, and the request or the schedule  *)
(* follows.                                                                 *)
LEMMA RecallRequestedOK ==
  ASSUME Sound, NEW signers, NEW t \in Tokens, NEW from \in Accounts,
         NEW to \in Accounts, NEW v \in Amounts,
         RecallRequested(signers, t, from, to, v)
  PROVE  Sound' /\ Balanced
<1> DEFINE dep  == row[t][from].dep
           left == v - dep
           q    == req[from][t].qty
<1>1. /\ LedgerOK(row[t]) /\ v \in Nat /\ Self \in Accounts
      /\ Held(row[t]) \in Int /\ dep \in Nat /\ q \in Nat
  BY TableOK, Domains, HeldInt DEF LedgerOK, Ledger, Row, Sound, Requests
<1>2. left \in Nat /\ row[t][Self].bal >= left /\ q >= left /\ dep < v
  BY <1>1 DEF RecallRequested, CanSubBalance
<1>3. PICK k1 \in StackFlag, k2 \in StackFlag :
        LET rw == [row EXCEPT ![t] =
                     AddBalance(SubDeposit(SubBalance(row[t], Self, left, k1),
                                           from, dep, k2), to, v)]
        IN  \/ /\ q > left
               /\ req' = [req EXCEPT ![from][t].qty = @ - left]
               /\ row' = rw
               /\ UNCHANGED deferred
            \/ Refresh({from}, rw, [req EXCEPT ![from][t] = NoReq], from)
  BY Zenon DEF RecallRequested
<1>4. k1 \in BOOLEAN /\ k2 \in BOOLEAN
  BY Domains
<1> DEFINE E == SubBalance(row[t], Self, left, k1)
           D == SubDeposit(E, from, dep, k2)
           M == AddBalance(D, to, v)
           rw == [row EXCEPT ![t] = M]
<1>5. LedgerOK(M) /\ Held(M) = Held(row[t])
  <2>1. LedgerOK(E) /\ Held(E) = Held(row[t]) - left /\ E[from].dep = dep
    <3> HIDE DEF left, dep
    <3>1. LedgerOK(E) /\ Held(E) = Held(row[t]) - left
      BY <1>1, <1>2, <1>4, SubBalanceOK
    <3>2. E[from].dep = row[t][from].dep
      BY <1>1, <1>2, <1>4, SubBalanceKeepsDeposits
    <3> QED BY <3>1, <3>2 DEF dep
  <2> HIDE DEF E, left, dep
  <2>2. LedgerOK(D) /\ Held(D) = Held(E) - dep
    BY <1>1, <1>4, <2>1, SubDepositOK
  <2> HIDE DEF D
  <2>3. LedgerOK(M) /\ Held(M) = Held(D) + v
    BY <1>1, <2>2, AddBalanceOK
  <2> HIDE DEF M
  <2>4. left = v - dep
    BY DEF left
  <2> QED BY <1>1, <2>1, <2>2, <2>3, <2>4
<1> HIDE DEF M
<1>6. /\ TablesOK(rw)
      /\ \A u \in Tokens : Held(rw[u]) = Held(row[u])
  BY <1>5 DEF TablesOK, LedgerOK, Sound
<1>7. UNCHANGED <<stat, allowance, now>>
  BY DEF RecallRequested
<1>8. /\ TablesOK(row') /\ \A u \in Tokens : Held(row'[u]) = Held(rw[u])
      /\ req' \in Requests /\ deferred' \in [Accounts -> Nat \cup {None}]
  <2>1. CASE /\ req' = [req EXCEPT ![from][t].qty = @ - left]
             /\ row' = rw
             /\ UNCHANGED deferred
    <3>1. q - left \in Nat /\ req \in Requests
      BY <1>1, <1>2 DEF Sound
    <3>2. req' \in Requests
      <4> HIDE DEF left
      <4> QED BY <2>1, <3>1 DEF Requests
    <3> QED BY <1>6, <2>1, <3>2 DEF Sound
  <2>2. CASE Refresh({from}, rw, [req EXCEPT ![from][t] = NoReq], from)
    <3>1. [req EXCEPT ![from][t] = NoReq] \in Requests
      BY DEF Sound, Requests, NoReq
    <3> HIDE DEF rw
    <3> QED BY <1>6, <2>2, <3>1, RefreshOK DEF Sound
  <2> QED BY <1>3, <2>1, <2>2 DEF M
<1>9. Balanced
  <2> HIDE DEF rw
  <2> QED BY <1>6, <1>7, <1>8, SameSupply
<1> QED BY <1>7, <1>8, <1>9 DEF Sound, StatOK, Capped

LEMMA DepositInRowOK ==
  ASSUME Sound, NEW signers, NEW t \in Tokens, NEW o \in Accounts,
         NEW v \in Amounts, DepositInRow(signers, t, o, v)
  PROVE  Sound' /\ Balanced
<1>1. LedgerOK(row[t]) /\ v \in Nat /\ row[t][o].bal >= v
  BY TableOK, Domains DEF DepositInRow, Deposit, CanSubBalance
<1>2. PICK keep \in StackFlag :
        row' = [row EXCEPT ![t] = AddDeposit(SubBalance(row[t], o, v, keep), o, v)]
  BY Zenon DEF DepositInRow
<1>3. keep \in BOOLEAN
  BY Domains
<1> DEFINE M == AddDeposit(SubBalance(row[t], o, v, keep), o, v)
<1>4. LedgerOK(M) /\ Held(M) = Held(row[t])
  BY <1>1, <1>3, MovesOK
<1>5. row' = [row EXCEPT ![t] = M]
  BY <1>2
<1> HIDE DEF M
<1>6. UNCHANGED <<stat, req, allowance, deferred, now>>
  BY DEF DepositInRow, Deposit
<1> QED BY <1>4, <1>5, <1>6, LedgerStep, RowsOnly

(* A deposit that lands in the next row leaves sound tables, but it moves   *)
(* the quantity from one token to another.                                  *)
LEMMA DepositInNextRowOK ==
  ASSUME Sound, NEW t \in Tokens, NEW o \in Accounts, NEW v \in Amounts,
         DepositInNextRow(t, o, v)
  PROVE  Sound' /\ \E u \in Tokens : u # t /\ Symbol[u] = Symbol[t]
<1>1. PICK keep \in StackFlag, u \in NextRows(t, o) :
        /\ Symbol[u] = Symbol[t]
        /\ row' = [row EXCEPT ![t] = SubBalance(row[t], o, v, keep),
                              ![u] = AddDeposit(@, o, v)]
  BY Zenon DEF DepositInNextRow
<1>2. u \in Tokens /\ u # t
  BY ConstantsAssumption DEF NextRows
<1>3. /\ LedgerOK(row[t]) /\ LedgerOK(row[u]) /\ v \in Nat
      /\ row[t][o].bal >= v /\ keep \in BOOLEAN
  BY <1>2, TableOK, Domains DEF DepositInNextRow, Deposit, CanSubBalance
<1> DEFINE M == SubBalance(row[t], o, v, keep)
           N == AddDeposit(row[u], o, v)
<1>4. LedgerOK(M) /\ LedgerOK(N)
  BY <1>3, SubBalanceOK, AddDepositOK
<1>5. row' = [row EXCEPT ![t] = M, ![u] = N]
  BY <1>1, <1>2 DEF Sound, TablesOK
<1> HIDE DEF M, N
<1>6. TablesOK(row')
  BY <1>2, <1>4, <1>5 DEF Sound, TablesOK, LedgerOK
<1>7. UNCHANGED <<stat, req, allowance, deferred, now>>
  BY DEF DepositInNextRow, Deposit
<1> QED BY <1>1, <1>2, <1>6, <1>7, RowsOnly

LEMMA PushWithdrawOK ==
  ASSUME Sound, NEW signers, NEW t \in Tokens, NEW o \in Accounts,
         NEW v \in Amounts, PushWithdraw(signers, t, o, v)
  PROVE  Sound' /\ Balanced
<1> DEFINE M    == AddBalance(SubDeposit(row[t], o, v, TRUE), Self, v)
           rw   == [row EXCEPT ![t] = M]
           rq   == [req EXCEPT ![o][t] = Requested(t, o, v)]
<1>1. LedgerOK(row[t]) /\ v \in Nat /\ row[t][o].dep >= v /\ Self \in Accounts
  BY TableOK, Domains DEF PushWithdraw, CanSubDeposit
<1>2. LedgerOK(M) /\ Held(M) = Held(row[t])
  BY <1>1, MovesOK
<1>3. Refresh({o}, rw, rq, o)
  BY Zenon DEF PushWithdraw
<1> HIDE DEF M
<1>4. TablesOK(rw) /\ \A u \in Tokens : Held(rw[u]) = Held(row[u])
  BY <1>2 DEF TablesOK, LedgerOK, Sound
<1>5. rq \in Requests
  <2>1. (now + stat[t].delay) % TimeWidth \in Nat
    BY ConstantsAssumption DEF Sound, StatOK, Stat
  <2>2. req \in Requests /\ req[o][t].qty + v \in Nat
    BY <1>1 DEF Sound, Requests
  <2>3. Requested(t, o, v) \in [qty : Nat, time : Nat]
    BY <2>1, <2>2 DEF Requested
  <2> QED BY <2>2, <2>3 DEF Requests
<1>6. UNCHANGED <<stat, allowance, now>>
  BY DEF PushWithdraw
<1> HIDE DEF rw, rq
<1>7. /\ TablesOK(row') /\ \A u \in Tokens : Held(row'[u]) = Held(rw[u])
      /\ req' \in Requests /\ deferred' \in [Accounts -> Nat \cup {None}]
  BY <1>3, <1>4, <1>5, RefreshOK DEF Sound
<1>8. Balanced
  BY <1>4, <1>6, <1>7, SameSupply
<1> QED BY <1>6, <1>7, <1>8 DEF Sound, StatOK, Capped

LEMMA PopWithdrawOK ==
  ASSUME Sound, NEW signers, NEW t \in Tokens, NEW o \in Accounts,
         PopWithdraw(signers, t, o)
  PROVE  Sound' /\ Balanced
<1> DEFINE q == req[o][t].qty
<1>1. LedgerOK(row[t]) /\ q \in Nat /\ row[t][Self].bal >= q /\ Self \in Accounts
  BY TableOK, Domains DEF PopWithdraw, CanSubBalance, Sound, Requests
<1>2. PICK keep \in StackFlag :
        row' = [row EXCEPT ![t] = AddDeposit(SubBalance(row[t], Self, q, keep), o, q)]
  BY Zenon DEF PopWithdraw
<1>3. keep \in BOOLEAN
  BY Domains
<1> DEFINE M == AddDeposit(SubBalance(row[t], Self, q, keep), o, q)
<1>4. LedgerOK(M) /\ Held(M) = Held(row[t])
  <2> HIDE DEF q
  <2> QED BY <1>1, <1>3, MovesOK
<1>5. row' = [row EXCEPT ![t] = M]
  BY <1>2
<1> HIDE DEF M
<1>6. UNCHANGED <<stat, allowance, deferred, now>> /\ req' = [req EXCEPT ![o][t] = NoReq]
  BY DEF PopWithdraw
<1>7. req' \in Requests
  BY <1>6 DEF Sound, Requests, NoReq
<1>8. TablesOK(row') /\ Balanced
  BY <1>4, <1>5, <1>6, LedgerStep
<1> QED BY <1>6, <1>7, <1>8 DEF Sound, StatOK, Capped

(* clrwithdraws, sent by the owner or deferred.                             *)
LEMMA ClearOK ==
  ASSUME Sound, NEW signers, NEW o \in Accounts, Refresh(signers, row, req, o),
         UNCHANGED <<stat, allowance, now>>
  PROVE  Sound' /\ Balanced
<1>1. /\ TablesOK(row') /\ \A u \in Tokens : Held(row'[u]) = Held(row[u])
      /\ req' \in Requests /\ deferred' \in [Accounts -> Nat \cup {None}]
  BY RefreshOK DEF Sound
<1>2. Balanced
  BY <1>1, SameSupply
<1> QED BY <1>1, <1>2 DEF Sound, StatOK, Capped

LEMMA OpenOK ==
  ASSUME Sound, NEW t \in Tokens, NEW o \in Accounts, Open(t, o)
  PROVE  Sound' /\ Balanced
<1>1. LedgerOK(row[t]) /\ row[t] \in Ledger /\ row[t][o] \in Row
  BY TableOK DEF LedgerOK, Ledger
<1> DEFINE r == [row[t][o] EXCEPT !.open = TRUE]
           M == [row[t] EXCEPT ![o] = r]
<1>2. r \in Row /\ r.open /\ r.bal = row[t][o].bal /\ r.dep = row[t][o].dep
  BY <1>1 DEF Row
<1>3. row' = [row EXCEPT ![t] = M]
  BY DEF Open
<1> HIDE DEF r
<1>4. LedgerOK(M)
  BY <1>1, <1>2 DEF LedgerOK, Ledger
<1>5. Held(M) = Held(row[t]) - (row[t][o].bal + row[t][o].dep) + (r.bal + r.dep)
  BY <1>1, <1>2, HeldUpdate, Zenon
<1>6. Held(M) = Held(row[t])
  BY <1>1, <1>2, <1>5, HeldInt DEF Row
<1> HIDE DEF M
<1>7. UNCHANGED <<stat, req, allowance, deferred, now>>
  BY DEF Open
<1> QED BY <1>3, <1>4, <1>6, <1>7, LedgerStep, RowsOnly

(* Only an empty row is closed.                                             *)
LEMMA CloseOK ==
  ASSUME Sound, NEW signers, NEW t \in Tokens, NEW o \in Accounts,
         Close(signers, t, o)
  PROVE  Sound' /\ Balanced
<1>1. LedgerOK(row[t]) /\ row[t] \in Ledger
  BY TableOK DEF LedgerOK
<1> DEFINE M == [row[t] EXCEPT ![o] = NoRow]
<1>2. row' = [row EXCEPT ![t] = M]
  BY DEF Close, Sound, TablesOK
<1>3. NoRow \in Row /\ NoRow.bal = 0 /\ NoRow.dep = 0
  BY DEF NoRow, Row
<1>4. LedgerOK(M)
  BY <1>1, <1>3 DEF LedgerOK, Ledger
<1>5. Held(M) = Held(row[t]) - (row[t][o].bal + row[t][o].dep)
                             + (NoRow.bal + NoRow.dep)
  BY <1>1, <1>3, HeldUpdate, Zenon
<1>6. row[t][o].bal = 0 /\ row[t][o].dep = 0
  BY DEF Close
<1>7. Held(M) = Held(row[t])
  BY <1>1, <1>3, <1>5, <1>6, HeldInt
<1> HIDE DEF M
<1>8. UNCHANGED <<stat, req, allowance, deferred, now>>
  BY DEF Close
<1> QED BY <1>2, <1>4, <1>7, <1>8, LedgerStep, RowsOnly

(* Steps that leave every row and every supply alone.                       *)
LEMMA ApproveOK ==
  ASSUME Sound, NEW signers, NEW t \in Tokens, NEW o \in Accounts,
         NEW s \in Accounts, NEW v \in Limits, Approve(signers, t, o, s, v)
  PROVE  Sound' /\ Balanced
BY Domains DEF Approve, Sound, StatOK, Capped, Balanced

LEMMA TickOK ==
  ASSUME Sound, Tick
  PROVE  Sound' /\ Balanced
BY Domains DEF Tick, Sound, StatOK, Capped, Balanced

LEMMA DropDeferredOK ==
  ASSUME Sound, NEW o \in Accounts, DropDeferred(o)
  PROVE  Sound' /\ Balanced
BY DEF DropDeferred, Sound, StatOK, Capped, Balanced

LEMMA StutterOK ==
  ASSUME Sound, UNCHANGED vars
  PROVE  Sound' /\ Balanced
BY DEF vars, Sound, StatOK, Capped, Balanced

-----------------------------------------------------------------------------
(* The specification.                                                       *)

(* No symbol code is minted by two issuers: the one case in which deposit   *)
(* finds a row of the same symbol behind the row it erases.                 *)
DistinctSymbols == \A t, u \in Tokens : Symbol[t] = Symbol[u] => t = u

LEMMA InitOK == Init => Sound /\ \A t \in Tokens : stat[t].supply = Held(row[t])
<1> SUFFICES ASSUME Init PROVE Sound /\ \A t \in Tokens : stat[t].supply = Held(row[t])
  OBVIOUS
<1>1. \A t \in Tokens : LedgerOK(row[t])
  BY DEF Init, LedgerOK, Ledger, Row, NoRow
<1>2. Sound
  <2>1. StatOK
    BY DEF Init, StatOK, Stat, NoStat
  <2>2. Capped
    BY Domains DEF Init, Capped, NoStat
  <2>3. TablesOK(row)
    BY <1>1 DEF Init, TablesOK, LedgerOK
  <2>4. req \in Requests
    BY DEF Init, Requests, NoReq
  <2>5. /\ allowance \in [Accounts -> [Accounts -> [Tokens -> Nat]]]
        /\ deferred \in [Accounts -> Nat \cup {None}]
        /\ now \in 0 .. MaxTime
    BY Domains DEF Init, None
  <2> QED BY <2>1, <2>2, <2>3, <2>4, <2>5 DEF Sound
<1>3. \A t \in Tokens : stat[t].supply = Held(row[t])
  <2> TAKE t \in Tokens
  <2>1. \A a \in Accounts : Worth(row[t])[a] = 0
    BY DEF Init, Worth, NoRow
  <2>2. Held(row[t]) = SumFunctionOnSet(Worth(row[t]), Accounts)
    BY Zenon DEF Held, Worth
  <2>3. Held(row[t]) = 0
    BY <2>1, <2>2, FiniteAccounts, SumZero
  <2> QED BY <2>3 DEF Init, NoStat
<1> QED BY <1>2, <1>3

LEMMA ContractStepOK ==
  ASSUME Sound, ContractStep
  PROVE  Sound' /\ Balanced
<1>1. PICK t \in Tokens, v \in Amounts :
        \/ \E c \in Configs : MintNew(t, v, c)
        \/ \E chg \in Changes(LiveOptions) : MintMore(t, v, chg)
        \/ Burn({Self}, t, v)
  BY Zenon DEF ContractStep
<1>2. CASE \E c \in Configs : MintNew(t, v, c)
  BY <1>2, MintNewOK, Zenon
<1>3. CASE \E chg \in Changes(LiveOptions) : MintMore(t, v, chg)
  BY <1>3, MintMoreOK, Zenon
<1>4. CASE Burn({Self}, t, v)
  BY <1>4, BurnOK, Zenon
<1> QED BY <1>1, <1>2, <1>3, <1>4, Zenon

LEMMA IssuerStepOK ==
  ASSUME Sound, NEW s, IssuerStep(s)
  PROVE  Sound' /\ Balanced
<1>1. CASE \E t \in Tokens, chg \in Changes(LiveOptions) : SetOpts(s, t, chg)
  BY <1>1, SetOptsOK, Zenon
<1>2. CASE \E t \in Tokens, A \in SUBSET Accounts, chg \in Changes(AccountOptions) :
             SetAccountOpts(s, t, A, chg)
  BY <1>2, SetAccountOptsOK, Zenon
<1>3. CASE \E t \in Tokens, a \in Accounts, v \in Amounts : Issue(s, t, a, v)
  BY <1>3, IssueOK, Zenon
<1>4. CASE \E t \in Tokens, v \in Amounts : Burn(s, t, v)
  BY <1>4, BurnOK, Zenon
<1>5. CASE \E t \in Tokens, a, b \in Accounts, v \in Amounts :
             RecallDeposit(s, t, a, b, v) \/ RecallRequested(s, t, a, b, v)
  BY <1>5, RecallDepositOK, RecallRequestedOK, Zenon
<1> QED BY <1>1, <1>2, <1>3, <1>4, <1>5, Zenon DEF IssuerStep

LEMMA HolderStepOK ==
  ASSUME Sound, NEW s, HolderStep(s)
  PROVE  Sound' /\ (DistinctSymbols => Balanced)
<1>1. CASE \E t \in Tokens, a, b \in Accounts, v \in Amounts : Transfer(s, t, a, b, v)
  BY <1>1, TransferOK, Zenon
<1>2. CASE \E t \in Tokens, a \in Accounts, v \in Amounts :
             Retire(s, t, a, v) \/ PushWithdraw(s, t, a, v)
  BY <1>2, RetireOK, PushWithdrawOK, Zenon
<1>3. CASE \E t \in Tokens, a \in DepositOwners, v \in Amounts :
             DepositInRow(s, t, a, v) \/ DepositInNextRow(t, a, v)
  <2>1. PICK t \in Tokens, a \in Accounts, v \in Amounts :
          DepositInRow(s, t, a, v) \/ DepositInNextRow(t, a, v)
    BY <1>3, Domains
  <2>2. CASE DepositInRow(s, t, a, v)
    BY <2>2, DepositInRowOK, Zenon
  <2>3. CASE DepositInNextRow(t, a, v)
    <3>1. Sound' /\ \E u \in Tokens : u # t /\ Symbol[u] = Symbol[t]
      BY <2>3, DepositInNextRowOK, Zenon
    <3> QED BY <3>1 DEF DistinctSymbols
  <2> QED BY <2>1, <2>2, <2>3
<1>4. CASE \E t \in Tokens, a \in Accounts :
             PopWithdraw(s, t, a) \/ Open(t, a) \/ Close(s, t, a)
  BY <1>4, PopWithdrawOK, OpenOK, CloseOK, Zenon
<1>5. CASE \E a \in Accounts : ClrWithdraws(s, a)
  <2>1. PICK a \in Accounts : ClrWithdraws(s, a)
    BY <1>5
  <2> QED BY <2>1, ClearOK, Zenon DEF ClrWithdraws
<1>6. CASE \E t \in Tokens, a \in Accounts, b \in Spenders, v \in Limits :
             Approve(s, t, a, b, v)
  <2>1. Spenders \subseteq Accounts
    BY ConstantsAssumption
  <2> QED BY <1>6, <2>1, ApproveOK, Zenon
<1> QED BY <1>1, <1>2, <1>3, <1>4, <1>5, <1>6, Zenon DEF HolderStep

LEMMA StepOK ==
  ASSUME Sound, [Next]_vars
  PROVE  Sound' /\ (DistinctSymbols => Balanced)
<1>1. CASE ContractStep
  BY <1>1, ContractStepOK
<1>2. CASE \E s \in Signers : auth' = s /\ (IssuerStep(s) \/ HolderStep(s))
  BY <1>2, IssuerStepOK, HolderStepOK, Zenon
<1>3. CASE Tick
  BY <1>3, TickOK
<1>4. CASE \E o \in Accounts : RunDeferred(o) \/ DropDeferred(o)
  <2>1. PICK o \in Accounts : RunDeferred(o) \/ DropDeferred(o)
    BY <1>4
  <2>2. CASE RunDeferred(o)
    BY <2>2, ClearOK, Zenon DEF RunDeferred
  <2>3. CASE DropDeferred(o)
    BY <2>3, DropDeferredOK
  <2> QED BY <2>1, <2>2, <2>3
<1>5. CASE UNCHANGED vars
  BY <1>5, StutterOK
<1> QED BY <1>1, <1>2, <1>3, <1>4, <1>5, Zenon DEF Next

LEMMA AuthOK ==
  ASSUME auth \in SUBSET Accounts, [Next]_vars
  PROVE  auth' \in SUBSET Accounts
<1>1. Signers \subseteq SUBSET Accounts /\ Self \in Accounts
  BY ConstantsAssumption
<1>2. CASE ContractStep
  BY <1>1, <1>2 DEF ContractStep
<1>3. CASE \E s \in Signers : auth' = s /\ (IssuerStep(s) \/ HolderStep(s))
  <2>1. PICK s \in Signers : auth' = s
    BY <1>3, Zenon
  <2> QED BY <1>1, <2>1
<1>4. CASE Tick
  BY <1>4 DEF Tick
<1>5. CASE \E o \in Accounts : RunDeferred(o) \/ DropDeferred(o)
  BY <1>5 DEF RunDeferred, DropDeferred
<1>6. CASE UNCHANGED vars
  BY <1>6 DEF vars
<1> QED BY <1>2, <1>3, <1>4, <1>5, <1>6, Zenon DEF Next

(* Balances, deposits, requests and allowances are never negative, and a    *)
(* row or a token that does not exist is all zero, whatever the values of   *)
(* the uninitialised flags and wherever a deposit lands.                    *)
THEOREM TypeCorrect == Spec => []TypeOK
<1>1. Init => Sound /\ auth \in SUBSET Accounts
  BY InitOK DEF Init
<1>2. Sound /\ auth \in SUBSET Accounts /\ [Next]_vars
        => (Sound /\ auth \in SUBSET Accounts)'
  BY StepOK, AuthOK
<1>3. Sound /\ auth \in SUBSET Accounts => TypeOK
  BY DEF Sound, StatOK, TablesOK, LedgerOK, Requests, TypeOK
<1> QED BY <1>1, <1>2, <1>3, PTL DEF Spec

Accounted == \A t \in Tokens : stat[t].supply = Held(row[t])

LEMMA AccountedOK ==
  ASSUME Sound, Accounted, Sound', Balanced
  PROVE  Accounted'
<1> SUFFICES ASSUME NEW t \in Tokens
             PROVE  stat'[t].supply = Held(row'[t])
  BY DEF Accounted
<1>1. /\ stat[t].supply \in Int /\ stat'[t].supply \in Int
  BY DEF Sound, StatOK, Stat
<1>2. Held(row[t]) \in Int /\ Held(row'[t]) \in Int
  BY HeldInt DEF Sound, TablesOK, LedgerOK
<1>3. stat'[t].supply - Held(row'[t]) = stat[t].supply - Held(row[t])
  BY DEF Balanced
<1>4. stat[t].supply = Held(row[t])
  BY DEF Accounted
<1> QED BY <1>1, <1>2, <1>3, <1>4

(* As long as no two issuers mint one symbol code, the rows of every token  *)
(* add up to its supply, within the maximum, in every reachable state.      *)
THEOREM ConservationHolds ==
  ASSUME DistinctSymbols
  PROVE  Spec => []Conservation
<1>1. Init => Sound /\ Accounted
  BY InitOK DEF Accounted
<1>2. Sound /\ Accounted /\ [Next]_vars => (Sound /\ Accounted)'
  BY StepOK, AccountedOK
<1>3. Sound /\ Accounted => Conservation
  BY DEF Sound, Capped, Accounted, Conservation
<1> QED BY <1>1, <1>2, <1>3, PTL DEF Spec

=============================================================================

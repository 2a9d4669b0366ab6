--------------------------------- MODULE Sums ---------------------------------
(***************************************************************************)
(* What a sum over a finite set is.  The community modules' MapThenSumSet  *)
(* takes the members of a set one by one, in an order that nobody knows;   *)
(* that the order makes no difference, and how sums are rearranged, is     *)
(* proved here by induction over subsets.  Then what dealing out a sum by  *)
(* weights comes to, the odd units going to the first by some order.       *)
(***************************************************************************)
EXTENDS Integers, FiniteSetsExt, FiniteSetTheorems, TLAPS

SumOver(f, S) == MapThenSumSet(LAMBDA x : f[x], S)

(* Induction over the subsets of a finite set; Good are those for which a  *)
(* claim is shown.                                                         *)
LEMMA SetInduction ==
  ASSUME NEW S, IsFiniteSet(S), NEW Good,
         \A T \in SUBSET S : (\A U \in SUBSET T : U # T => U \in Good) => T \in Good
  PROVE  S \in Good
<1> DEFINE Bad == (SUBSET S) \ Good
<1>1. SUFFICES ASSUME Bad # {} PROVE FALSE
  OBVIOUS
<1>2. Bad \subseteq FiniteSubsetsOf(S)
  BY FS_Subset DEF FiniteSubsetsOf
<1>3. PICK T \in Bad : \A U \in Bad : ~(<<U, T>> \in StrictSubsetOrdering(S))
  <2> HIDE DEF Bad
  <2> QED BY <1>1, <1>2, FS_StrictSubsetOrderingWellFounded, WFMin
<1>4. \A U \in SUBSET T : U # T => U \in Good
  BY <1>3 DEF StrictSubsetOrdering
<1>5. T \in SUBSET S /\ T \notin Good
  BY <1>3
<1> QED BY <1>4, <1>5

-----------------------------------------------------------------------------
(* The recursion that adds up                                              *)

Pick(s) == CHOOSE x \in s : TRUE

IsSum(g, f, S) ==
  g = [s \in SUBSET S |-> IF s = {} THEN 0 ELSE f[Pick(s)] + g[s \ {Pick(s)}]]

LEMMA PickIs == \A s : s # {} => Pick(s) \in s
BY DEF Pick

(* Two such recursions agree where they add up the same.                   *)
LEMMA SumsAgree ==
  ASSUME NEW S, NEW R, NEW T, T \subseteq S, T \subseteq R, IsFiniteSet(T),
         NEW f, NEW e, \A x \in T : f[x] = e[x],
         NEW g, NEW h, IsSum(g, f, S), IsSum(h, e, R)
  PROVE  g[T] = h[T]
<1> DEFINE Good == {t \in SUBSET T : g[t] = h[t]}
<1>1. ASSUME NEW t \in SUBSET T, \A u \in SUBSET t : u # t => u \in Good
      PROVE  t \in Good
  <2>1. /\ g[t] = IF t = {} THEN 0 ELSE f[Pick(t)] + g[t \ {Pick(t)}]
        /\ h[t] = IF t = {} THEN 0 ELSE e[Pick(t)] + h[t \ {Pick(t)}]
    BY DEF IsSum
  <2>2. CASE t = {}
    BY <2>1, <2>2
  <2>3. CASE t # {}
    <3>1. Pick(t) \in t
      BY <2>3, PickIs
    <3>2. t \ {Pick(t)} \in Good
      BY <1>1, <3>1
    <3> QED BY <2>1, <2>3, <3>1, <3>2
  <2> QED BY <2>2, <2>3
<1> HIDE DEF Good
<1>2. T \in Good
  BY <1>1, SetInduction
<1> QED BY <1>2 DEF Good

LEMMA SumExists ==
  ASSUME NEW f, NEW S, IsFiniteSet(S) PROVE \E g : IsSum(g, f, S)
<1> DEFINE Good == {T \in SUBSET S : \E g : IsSum(g, f, T)}
<1>1. ASSUME NEW T \in SUBSET S, \A U \in SUBSET T : U # T => U \in Good
      PROVE  T \in Good
  <2> DEFINE sum(U) == CHOOSE g : IsSum(g, f, U)
             below(U) == sum(U)[U]
             g == [t \in SUBSET T |->
                     IF t = {} THEN 0
                     ELSE f[Pick(t)] + below(t \ {Pick(t)})]
  <2>1. \A U \in SUBSET T : U # T => IsSum(sum(U), f, U)
    BY <1>1
  <2>2. \A t \in SUBSET T : t # T => g[t] = below(t)
    <3> SUFFICES ASSUME NEW t \in SUBSET T, t # T PROVE g[t] = below(t)
      OBVIOUS
    <3>1. IsSum(sum(t), f, t) /\ t \in SUBSET t
      BY <2>1
    <3>2. below(t) = IF t = {} THEN 0 ELSE f[Pick(t)] + sum(t)[t \ {Pick(t)}]
      <4> HIDE DEF sum
      <4> QED BY <3>1 DEF IsSum
    <3>3. CASE t = {}
      BY <3>2, <3>3
    <3>4. CASE t # {}
      <4> DEFINE u == t \ {Pick(t)}
      <4>1. u \subseteq t /\ u # T /\ u \in SUBSET T
        BY <3>4, PickIs
      <4>2. IsSum(sum(u), f, u) /\ IsFiniteSet(u)
        BY <2>1, <4>1, FS_Subset
      <4>3. sum(t)[u] = sum(u)[u]
        <5> HIDE DEF sum, u
        <5> QED BY <3>1, <4>1, <4>2, SumsAgree
      <4> QED BY <3>2, <3>4, <4>3
    <3> QED BY <3>3, <3>4
  <2>3. IsSum(g, f, T)
    <3>1. ASSUME NEW t \in SUBSET T
          PROVE  g[t] = IF t = {} THEN 0 ELSE f[Pick(t)] + g[t \ {Pick(t)}]
      <4>1. CASE t = {}
        BY <4>1
      <4>2. CASE t # {}
        <5>1. t \ {Pick(t)} \in SUBSET T /\ t \ {Pick(t)} # T
          BY <4>2, PickIs
        <5> HIDE DEF below
        <5> QED BY <4>2, <5>1, <2>2
      <4> QED BY <4>1, <4>2
    <3>2. g = [t \in SUBSET T |-> g[t]]
      OBVIOUS
    <3> HIDE DEF g
    <3> QED BY <3>1, <3>2 DEF IsSum
  <2> HIDE DEF g
  <2> QED BY <2>3
<1> HIDE DEF Good
<1>2. S \in Good
  BY <1>1, SetInduction
<1> QED BY <1>2 DEF Good

LEMMA SumIs ==
  ASSUME NEW f, NEW S, IsFiniteSet(S)
  PROVE  \E g : IsSum(g, f, S) /\ SumOver(f, S) = g[S]
<1> DEFINE iter == CHOOSE g : g = [s \in SUBSET S |->
                     IF s = {} THEN 0 ELSE f[Pick(s)] + g[s \ {Pick(s)}]]
<1>1. SumOver(f, S) = iter[S]
  BY DEF SumOver, MapThenSumSet, MapThenFoldSet, Pick
<1>2. IsSum(iter, f, S)
  <2>1. PICK h : IsSum(h, f, S)
    BY SumExists
  <2> QED BY <2>1 DEF IsSum
<1> QED BY <1>1, <1>2

(* A sum written in place, over any term, is one of these: take for iter   *)
(* what the fold chooses.                                                  *)
LEMMA SumOfIter ==
  ASSUME NEW f, NEW S, IsFiniteSet(S), NEW iter, IsSum(iter, f, S)
  PROVE  iter[S] = SumOver(f, S)
<1>1. PICK g : IsSum(g, f, S) /\ SumOver(f, S) = g[S]
  BY SumIs
<1>2. iter[S] = g[S]
  BY <1>1, SumsAgree
<1> QED BY <1>1, <1>2

-----------------------------------------------------------------------------
(* What is known of sums                                                   *)

LEMMA SumCongruence ==
  ASSUME NEW S, IsFiniteSet(S), NEW f, NEW e, \A x \in S : f[x] = e[x]
  PROVE  SumOver(f, S) = SumOver(e, S)
<1>1. PICK g : IsSum(g, f, S) /\ SumOver(f, S) = g[S]
  BY SumIs
<1>2. PICK h : IsSum(h, e, S) /\ SumOver(e, S) = h[S]
  BY SumIs
<1> QED BY <1>1, <1>2, SumsAgree

LEMMA SumEmpty == \A f : SumOver(f, {}) = 0
<1> SUFFICES ASSUME NEW f PROVE SumOver(f, {}) = 0
  OBVIOUS
<1>1. PICK g : IsSum(g, f, {}) /\ SumOver(f, {}) = g[{}]
  BY SumIs, FS_EmptySet
<1> QED BY <1>1 DEF IsSum

LEMMA SumPick ==
  ASSUME NEW f, NEW S, IsFiniteSet(S), S # {}
  PROVE  SumOver(f, S) = f[Pick(S)] + SumOver(f, S \ {Pick(S)})
<1> DEFINE T == S \ {Pick(S)}
<1>1. IsFiniteSet(T)
  BY FS_RemoveElement
<1>2. PICK g : IsSum(g, f, S) /\ SumOver(f, S) = g[S]
  BY SumIs
<1>3. PICK h : IsSum(h, f, T) /\ SumOver(f, T) = h[T]
  BY <1>1, SumIs
<1>4. g[T] = h[T]
  BY <1>1, <1>2, <1>3, SumsAgree
<1>5. g[S] = f[Pick(S)] + g[T]
  BY <1>2 DEF IsSum
<1> QED BY <1>2, <1>3, <1>4, <1>5

LEMMA SumType ==
  ASSUME NEW S, IsFiniteSet(S), NEW f, \A x \in S : f[x] \in Int
  PROVE  SumOver(f, S) \in Int
<1> DEFINE Good == {T \in SUBSET S : SumOver(f, T) \in Int}
<1>1. ASSUME NEW T \in SUBSET S, \A U \in SUBSET T : U # T => U \in Good
      PROVE  T \in Good
  <2>1. CASE T = {}
    BY <2>1, SumEmpty
  <2>2. CASE T # {}
    <3>1. Pick(T) \in T /\ IsFiniteSet(T)
      BY <2>2, PickIs, FS_Subset
    <3>2. SumOver(f, T \ {Pick(T)}) \in Int
      BY <1>1, <3>1
    <3>3. SumOver(f, T) = f[Pick(T)] + SumOver(f, T \ {Pick(T)})
      BY <2>2, <3>1, SumPick
    <3> QED BY <3>1, <3>2, <3>3
  <2> QED BY <2>1, <2>2
<1> HIDE DEF Good
<1>2. S \in Good
  BY <1>1, SetInduction
<1> QED BY <1>2 DEF Good

(* The order makes no difference: any member can be taken out first.       *)
LEMMA SumRemove ==
  ASSUME NEW S, IsFiniteSet(S), NEW f, \A x \in S : f[x] \in Int, NEW a \in S
  PROVE  SumOver(f, S) = f[a] + SumOver(f, S \ {a})
<1> DEFINE Good == {T \in SUBSET S : \A x \in T : SumOver(f, T) = f[x] + SumOver(f, T \ {x})}
<1>1. ASSUME NEW T \in SUBSET S, \A U \in SUBSET T : U # T => U \in Good
      PROVE  T \in Good
  <2> SUFFICES ASSUME NEW x \in T PROVE SumOver(f, T) = f[x] + SumOver(f, T \ {x})
    OBVIOUS
  <2> DEFINE p == Pick(T)
             both == (T \ {p}) \ {x}
  <2>1. p \in T /\ IsFiniteSet(T)
    BY PickIs, FS_Subset
  <2>2. SumOver(f, T) = f[p] + SumOver(f, T \ {p})
    BY <2>1, SumPick
  <2>3. CASE x = p
    <3> HIDE DEF p
    <3> QED BY <2>2, <2>3
  <2>4. CASE x # p
    <3>1. SumOver(f, T \ {p}) = f[x] + SumOver(f, both)
      <4>1. T \ {p} \in Good /\ x \in T \ {p}
        BY <1>1, <2>1, <2>4
      <4> QED BY <4>1
    <3>2. SumOver(f, T \ {x}) = f[p] + SumOver(f, (T \ {x}) \ {p})
      <4>1. T \ {x} \in Good /\ p \in T \ {x}
        BY <1>1, <2>1, <2>4
      <4> QED BY <4>1
    <3>3. (T \ {x}) \ {p} = both
      OBVIOUS
    <3>4. SumOver(f, both) \in Int /\ f[x] \in Int /\ f[p] \in Int
      <4>1. both \subseteq S /\ IsFiniteSet(both) /\ x \in S /\ p \in S
        BY <2>1, FS_Subset
      <4> HIDE DEF both, p
      <4> QED BY <4>1, SumType
    <3>5. SumOver(f, T \ {x}) = f[p] + SumOver(f, both)
      BY <3>2, <3>3
    <3> DEFINE rest == SumOver(f, both)
    <3>6. SumOver(f, T) = f[p] + (f[x] + rest)
      <4> HIDE DEF both, p, rest
      <4> QED BY <2>2, <3>1 DEF rest
    <3>7. f[p] + (f[x] + rest) = f[x] + (f[p] + rest)
      <4>1. rest \in Int /\ f[x] \in Int /\ f[p] \in Int
        BY <3>4
      <4> HIDE DEF rest, p
      <4> QED BY <4>1
    <3> HIDE DEF both, p
    <3> QED BY <3>5, <3>6, <3>7
  <2> QED BY <2>3, <2>4
<1>2. S \in Good
  <2> HIDE DEF Good
  <2> QED BY <1>1, SetInduction
<1> QED BY <1>2

LEMMA SumAdd ==
  ASSUME NEW S, IsFiniteSet(S), NEW f, NEW a, a \notin S,
         \A x \in S \cup {a} : f[x] \in Int
  PROVE  SumOver(f, S \cup {a}) = f[a] + SumOver(f, S)
<1>1. IsFiniteSet(S \cup {a}) /\ (S \cup {a}) \ {a} = S
  BY FS_AddElement
<1> QED BY <1>1, SumRemove

LEMMA SumZero ==
  ASSUME NEW S, IsFiniteSet(S), NEW f, \A x \in S : f[x] = 0
  PROVE  SumOver(f, S) = 0
<1> DEFINE Good == {T \in SUBSET S : SumOver(f, T) = 0}
<1>1. ASSUME NEW T \in SUBSET S, \A U \in SUBSET T : U # T => U \in Good
      PROVE  T \in Good
  <2>1. CASE T = {}
    BY <2>1, SumEmpty
  <2>2. CASE T # {}
    <3>1. Pick(T) \in T /\ IsFiniteSet(T)
      BY <2>2, PickIs, FS_Subset
    <3>2. SumOver(f, T \ {Pick(T)}) = 0
      BY <1>1, <3>1
    <3>3. SumOver(f, T) = f[Pick(T)] + SumOver(f, T \ {Pick(T)})
      BY <2>2, <3>1, SumPick
    <3> QED BY <3>1, <3>2, <3>3
  <2> QED BY <2>1, <2>2
<1> HIDE DEF Good
<1>2. S \in Good
  BY <1>1, SetInduction
<1> QED BY <1>2 DEF Good

(* Nothing negative in it: nothing in it is more than the whole.           *)
LEMMA SumOfNats ==
  ASSUME NEW S, IsFiniteSet(S), NEW f, \A x \in S : f[x] \in Nat
  PROVE  SumOver(f, S) \in Nat /\ \A x \in S : f[x] <= SumOver(f, S)
<1> DEFINE Good == {T \in SUBSET S : SumOver(f, T) \in Nat}
<1>1. ASSUME NEW T \in SUBSET S, \A U \in SUBSET T : U # T => U \in Good
      PROVE  T \in Good
  <2>1. CASE T = {}
    BY <2>1, SumEmpty
  <2>2. CASE T # {}
    <3>1. Pick(T) \in T /\ IsFiniteSet(T)
      BY <2>2, PickIs, FS_Subset
    <3>2. SumOver(f, T \ {Pick(T)}) \in Nat
      BY <1>1, <3>1
    <3>3. SumOver(f, T) = f[Pick(T)] + SumOver(f, T \ {Pick(T)})
      BY <2>2, <3>1, SumPick
    <3> QED BY <3>1, <3>2, <3>3
  <2> QED BY <2>1, <2>2
<1> HIDE DEF Good
<1>2. \A T \in SUBSET S : T \in Good
  <2> SUFFICES ASSUME NEW T \in SUBSET S PROVE T \in Good
    OBVIOUS
  <2>1. IsFiniteSet(T) /\ \A V \in SUBSET T : (\A U \in SUBSET V : U # V => U \in Good) => V \in Good
    BY <1>1, FS_Subset
  <2> QED BY <2>1, SetInduction
<1>3. \A T \in SUBSET S : SumOver(f, T) \in Nat
  BY <1>2 DEF Good
<1>4. ASSUME NEW x \in S PROVE f[x] <= SumOver(f, S)
  <2>1. SumOver(f, S) = f[x] + SumOver(f, S \ {x})
    BY SumRemove
  <2> QED BY <1>3, <2>1
<1> QED BY <1>3, <1>4

LEMMA SumPlus ==
  ASSUME NEW S, IsFiniteSet(S), NEW f, NEW e, NEW h,
         \A x \in S : f[x] \in Int /\ e[x] \in Int /\ h[x] = f[x] + e[x]
  PROVE  SumOver(h, S) = SumOver(f, S) + SumOver(e, S)
<1> DEFINE Good == {T \in SUBSET S : SumOver(h, T) = SumOver(f, T) + SumOver(e, T)}
<1>1. ASSUME NEW T \in SUBSET S, \A U \in SUBSET T : U # T => U \in Good
      PROVE  T \in Good
  <2>1. CASE T = {}
    BY <2>1, SumEmpty
  <2>2. CASE T # {}
    <3> DEFINE p == Pick(T)
               U == T \ {p}
    <3>1. p \in T /\ IsFiniteSet(T) /\ IsFiniteSet(U) /\ U \subseteq S
      BY <2>2, PickIs, FS_Subset
    <3>2. SumOver(h, U) = SumOver(f, U) + SumOver(e, U)
      BY <1>1, <3>1
    <3>3. /\ SumOver(h, T) = h[p] + SumOver(h, U)
          /\ SumOver(f, T) = f[p] + SumOver(f, U)
          /\ SumOver(e, T) = e[p] + SumOver(e, U)
      BY <2>2, <3>1, SumPick
    <3>4. SumOver(f, U) \in Int /\ SumOver(e, U) \in Int
      BY <3>1, SumType
    <3>5. f[p] \in Int /\ e[p] \in Int /\ h[p] = f[p] + e[p]
      BY <3>1
    <3> HIDE DEF p, U
    <3> QED BY <3>2, <3>3, <3>4, <3>5
  <2> QED BY <2>1, <2>2
<1> HIDE DEF Good
<1>2. S \in Good
  BY <1>1, SetInduction
<1> QED BY <1>2 DEF Good

LEMMA SumMinus ==
  ASSUME NEW S, IsFiniteSet(S), NEW f, NEW e, NEW h,
         \A x \in S : f[x] \in Int /\ e[x] \in Int /\ h[x] = f[x] - e[x]
  PROVE  SumOver(h, S) = SumOver(f, S) - SumOver(e, S)
<1>1. \A x \in S : h[x] \in Int /\ e[x] \in Int /\ f[x] = h[x] + e[x]
  OBVIOUS
<1>2. SumOver(f, S) = SumOver(h, S) + SumOver(e, S)
  BY <1>1, SumPlus
<1>3. SumOver(h, S) \in Int /\ SumOver(e, S) \in Int
  BY <1>1, SumType
<1> QED BY <1>2, <1>3

(* What is nothing outside T counts over T only.                           *)
LEMMA SumWithin ==
  ASSUME NEW S, IsFiniteSet(S), NEW T, T \subseteq S, NEW f,
         \A x \in S : f[x] \in Int, \A x \in S \ T : f[x] = 0
  PROVE  SumOver(f, S) = SumOver(f, T)
<1> DEFINE Good == {R \in SUBSET (S \ T) : SumOver(f, T \cup R) = SumOver(f, T)}
<1>1. ASSUME NEW R \in SUBSET (S \ T), \A U \in SUBSET R : U # R => U \in Good
      PROVE  R \in Good
  <2>1. CASE R = {}
    <3>1. T \cup R = T
      BY <2>1
    <3> QED BY <3>1
  <2>2. CASE R # {}
    <3> DEFINE p == Pick(R)
               U == R \ {p}
    <3>1. p \in R /\ U \subseteq R /\ U # R
      BY <2>2, PickIs
    <3>2. SumOver(f, T \cup U) = SumOver(f, T)
      BY <1>1, <3>1
    <3>3. IsFiniteSet(T \cup R) /\ p \in T \cup R /\ (T \cup R) \ {p} = T \cup U
      BY <3>1, FS_Subset
    <3>4. SumOver(f, T \cup R) = f[p] + SumOver(f, T \cup U)
      <4> HIDE DEF p, U
      <4>1. \A x \in T \cup R : f[x] \in Int
        OBVIOUS
      <4>2. SumOver(f, T \cup R) = f[p] + SumOver(f, (T \cup R) \ {p})
        BY <3>3, <4>1, SumRemove
      <4> QED BY <3>3, <4>2
    <3>5. SumOver(f, T) \in Int /\ f[p] = 0
      <4>1. IsFiniteSet(T)
        BY FS_Subset
      <4> QED BY <3>1, <4>1, SumType
    <3> HIDE DEF p, U
    <3> QED BY <3>2, <3>4, <3>5
  <2> QED BY <2>1, <2>2
<1>2. IsFiniteSet(S \ T) /\ T \cup (S \ T) = S
  BY FS_Subset
<1>3. S \ T \in Good
  <2> HIDE DEF Good
  <2> QED BY <1>1, <1>2, SetInduction
<1> QED BY <1>2, <1>3

(* Sums over rows and over columns come to the same.                       *)
(* A function that is nothing outside its domain.                          *)
Padded(f, P) == [x \in P |-> IF x \in DOMAIN f THEN f[x] ELSE 0]

LEMMA SumPadded ==
  ASSUME NEW P, IsFiniteSet(P), NEW f, DOMAIN f \subseteq P,
         \A x \in DOMAIN f : f[x] \in Int
  PROVE  /\ SumOver(Padded(f, P), P) = SumOver(f, DOMAIN f)
         /\ \A x \in P : Padded(f, P)[x] \in Int
<1> DEFINE g == Padded(f, P)
<1>1. /\ \A x \in P : g[x] \in Int
      /\ \A x \in P \ DOMAIN f : g[x] = 0
      /\ \A x \in DOMAIN f : g[x] = f[x]
      /\ IsFiniteSet(DOMAIN f)
  BY FS_Subset DEF Padded
<1> HIDE DEF g
<1>2. SumOver(g, P) = SumOver(g, DOMAIN f)
  BY <1>1, SumWithin
<1>3. SumOver(g, DOMAIN f) = SumOver(f, DOMAIN f)
  BY <1>1, SumCongruence
<1> QED BY <1>1, <1>2, <1>3 DEF g

(* A table of integers, the same one on its side, and what its rows and     *)
(* columns come to.                                                        *)
Table(m, S, T) == m \in [S -> [T -> Int]]

Margins(m, n, row, column, S, T) ==
  /\ \A x \in S : \A y \in T : n[y][x] = m[x][y]
  /\ \A x \in S : row[x] = SumOver(m[x], T)
  /\ \A y \in T : column[y] = SumOver(n[y], S)

LEMMA SumSwap ==
  ASSUME NEW S, NEW T, IsFiniteSet(S), IsFiniteSet(T),
         NEW m, Table(m, S, T),
         NEW n, NEW row, NEW column, Margins(m, n, row, column, S, T)
  PROVE  SumOver(row, S) = SumOver(column, T)
<1> USE DEF Table, Margins
<1> DEFINE part(R) == [y \in T |-> SumOver([x \in S |-> m[x][y]], R)]
           Good == {R \in SUBSET S : SumOver(row, R) = SumOver(part(R), T)}
<1>1. ASSUME NEW R \in SUBSET S, \A U \in SUBSET R : U # R => U \in Good
      PROVE  R \in Good
  <2>1. CASE R = {}
    <3>1. \A y \in T : part(R)[y] = 0
      BY <2>1, SumEmpty
    <3>2. SumOver(part(R), T) = 0
      <4> HIDE DEF part
      <4> QED BY <3>1, SumZero
    <3> QED BY <2>1, <3>2, SumEmpty
  <2>2. CASE R # {}
    <3> DEFINE p == Pick(R)
               U == R \ {p}
    <3>1. p \in R /\ p \in S /\ U \subseteq R /\ U # R /\ U \in SUBSET S
      BY <2>2, PickIs
    <3>2. SumOver(row, U) = SumOver(part(U), T)
      BY <1>1, <3>1
    <3>3. IsFiniteSet(R) /\ IsFiniteSet(U)
      BY <3>1, FS_Subset
    <3>4. SumOver(row, R) = row[p] + SumOver(row, U)
      BY <2>2, <3>3, SumPick
    <3>5. \A y \in T : part(R)[y] = m[p][y] + part(U)[y] /\ m[p][y] \in Int /\ part(U)[y] \in Int
      <4> SUFFICES ASSUME NEW y \in T
                   PROVE  part(R)[y] = m[p][y] + part(U)[y] /\ m[p][y] \in Int /\ part(U)[y] \in Int
        OBVIOUS
      <4> DEFINE line == [x \in S |-> m[x][y]]
      <4>1. \A x \in S : line[x] \in Int /\ line[x] = m[x][y]
        OBVIOUS
      <4>2. part(R)[y] = SumOver(line, R) /\ part(U)[y] = SumOver(line, U)
        OBVIOUS
      <4>3. line[p] = m[p][y] /\ m[p][y] \in Int
        BY <3>1, <4>1
      <4> HIDE DEF line, part
      <4>4. SumOver(line, R) = line[p] + SumOver(line, U)
        BY <2>2, <3>3, SumPick
      <4>5. SumOver(line, U) \in Int
        BY <3>1, <3>3, <4>1, SumType
      <4> QED BY <4>2, <4>3, <4>4, <4>5
    <3>6. SumOver(part(R), T) = row[p] + SumOver(part(U), T)
      <4> HIDE DEF part, p, U
      <4>1. SumOver(part(R), T) = SumOver(m[p], T) + SumOver(part(U), T)
        BY <3>5, SumPlus
      <4> QED BY <3>1, <4>1
    <3> HIDE DEF part, p, U
    <3> QED BY <3>2, <3>4, <3>6
  <2> QED BY <2>1, <2>2
<1>2. SumOver(row, S) = SumOver(part(S), T)
  <2>1. S \in Good
    <3> HIDE DEF Good
    <3> QED BY <1>1, SetInduction
  <2> QED BY <2>1
<1>3. ASSUME NEW y \in T PROVE part(S)[y] = column[y]
  <2> DEFINE line == [x \in S |-> m[x][y]]
  <2>1. part(S)[y] = SumOver(line, S) /\ \A x \in S : line[x] = n[y][x]
    OBVIOUS
  <2> HIDE DEF line, part
  <2> QED BY <2>1, SumCongruence
<1> HIDE DEF part
<1> QED BY <1>2, <1>3, SumCongruence

(* What everyone owns, owner by owner, is all there is.                    *)
Parts(part, owner, f, S, T) ==
  \A y \in T : part[y] = SumOver(f, {x \in S : owner[x] = y})

LEMMA SumByOwner ==
  ASSUME NEW S, NEW T, IsFiniteSet(S), IsFiniteSet(T), NEW owner \in [S -> T],
         NEW f, \A x \in S : f[x] \in Int,
         NEW part, Parts(part, owner, f, S, T)
  PROVE  SumOver(part, T) = SumOver(f, S)
<1> USE DEF Parts
<1> DEFINE m == [x \in S |-> [y \in T |-> IF owner[x] = y THEN f[x] ELSE 0]]
           row == [x \in S |-> SumOver(m[x], T)]
           line(y) == [x \in S |-> m[x][y]]
<1>1. m \in [S -> [T -> Int]]
  OBVIOUS
<1>2. ASSUME NEW y \in T PROVE part[y] = SumOver(line(y), S)
  <2> DEFINE own == {x \in S : owner[x] = y}
  <2>1. /\ \A x \in S : line(y)[x] \in Int
        /\ \A x \in S \ own : line(y)[x] = 0
        /\ \A x \in own : line(y)[x] = f[x]
        /\ own \subseteq S
    OBVIOUS
  <2>2. IsFiniteSet(own) /\ part[y] = SumOver(f, own)
    BY FS_Subset
  <2> HIDE DEF own, line
  <2>3. SumOver(line(y), S) = SumOver(line(y), own)
    BY <2>1, SumWithin
  <2>4. SumOver(line(y), own) = SumOver(f, own)
    BY <2>1, <2>2, SumCongruence
  <2> QED BY <2>2, <2>3, <2>4
<1>3. ASSUME NEW x \in S PROVE row[x] = f[x]
  <2> DEFINE o == owner[x]
             mine == m[x]
  <2>1. /\ o \in T /\ {o} \subseteq T
        /\ \A y \in T : mine[y] \in Int
        /\ \A y \in T \ {o} : mine[y] = 0
        /\ mine[o] = f[x] /\ f[x] \in Int
        /\ row[x] = SumOver(mine, T)
    OBVIOUS
  <2> HIDE DEF o, mine, row
  <2>2. SumOver(mine, T) = mine[o] + SumOver(mine, T \ {o})
    BY <2>1, SumRemove
  <2>3. SumOver(mine, T \ {o}) = 0
    BY <2>1, FS_RemoveElement, SumZero
  <2> QED BY <2>1, <2>2, <2>3
<1>4. SumOver(row, S) = SumOver(part, T)
  <2> DEFINE n == [y \in T |-> line(y)]
  <2>1. /\ \A x \in S : row[x] = SumOver(m[x], T)
        /\ \A x \in S : \A y \in T : n[y][x] = m[x][y]
    OBVIOUS
  <2>2. \A y \in T : part[y] = SumOver(n[y], S)
    <3> HIDE DEF line
    <3> QED BY <1>2
  <2> HIDE DEF row, m, n
  <2>3. Table(m, S, T) /\ Margins(m, n, row, part, S, T)
    BY <1>1, <2>1, <2>2 DEF Table, Margins
  <2> QED BY <2>3, SumSwap
<1>5. SumOver(row, S) = SumOver(f, S)
  <2> HIDE DEF row
  <2> QED BY <1>3, SumCongruence
<1> QED BY <1>4, <1>5

(* One of finitely many is the largest.                                    *)
LEMMA LargestExists ==
  ASSUME NEW S, IsFiniteSet(S), S # {}, NEW f, \A x \in S : f[x] \in Int
  PROVE  \E x \in S : \A y \in S : f[y] <= f[x]
<1> DEFINE Good == {T \in SUBSET S : T # {} => \E x \in T : \A y \in T : f[y] <= f[x]}
<1>1. ASSUME NEW T \in SUBSET S, \A U \in SUBSET T : U # T => U \in Good
      PROVE  T \in Good
  <2> SUFFICES ASSUME T # {} PROVE \E x \in T : \A y \in T : f[y] <= f[x]
    OBVIOUS
  <2>1. PICK p \in T : TRUE
    OBVIOUS
  <2>2. CASE T = {p}
    BY <2>1, <2>2
  <2>3. CASE T # {p}
    <3>1. T \ {p} \in Good /\ T \ {p} # {}
      BY <1>1, <2>1, <2>3
    <3>2. PICK x \in T \ {p} : \A y \in T \ {p} : f[y] <= f[x]
      BY <3>1
    <3>3. f[p] \in Int /\ f[x] \in Int /\ \A y \in T : f[y] \in Int
      OBVIOUS
    <3>4. CASE f[p] <= f[x]
      BY <3>2, <3>4
    <3>5. CASE ~(f[p] <= f[x])
      <4>1. \A y \in T : f[y] <= f[p]
        BY <3>2, <3>3, <3>5
      <4> QED BY <4>1
    <3> QED BY <3>4, <3>5
  <2> QED BY <2>2, <2>3
<1> HIDE DEF Good
<1>2. S \in Good
  BY <1>1, SetInduction
<1> QED BY <1>2 DEF Good

-----------------------------------------------------------------------------
(* Shares of an amount                                                     *)

LEMMA SumScale ==
  ASSUME NEW S, IsFiniteSet(S), NEW c \in Int, NEW f, NEW h,
         \A x \in S : f[x] \in Int /\ h[x] = c * f[x]
  PROVE  SumOver(h, S) = c * SumOver(f, S)
<1> DEFINE Good == {T \in SUBSET S : SumOver(h, T) = c * SumOver(f, T)}
<1>1. ASSUME NEW T \in SUBSET S, \A U \in SUBSET T : U # T => U \in Good
      PROVE  T \in Good
  <2>1. CASE T = {}
    BY <2>1, SumEmpty
  <2>2. CASE T # {}
    <3> DEFINE p == Pick(T)
               U == T \ {p}
    <3>1. p \in T /\ IsFiniteSet(T) /\ IsFiniteSet(U) /\ U \subseteq S
      BY <2>2, PickIs, FS_Subset
    <3>2. SumOver(h, U) = c * SumOver(f, U)
      BY <1>1, <3>1
    <3>3. SumOver(h, T) = h[p] + SumOver(h, U)
      BY <2>2, <3>1, SumPick
    <3>4. SumOver(f, T) = f[p] + SumOver(f, U)
      BY <2>2, <3>1, SumPick
    <3>5. SumOver(f, U) \in Int /\ f[p] \in Int /\ h[p] = c * f[p]
      <4>1. \A x \in U : f[x] \in Int
        BY <3>1
      <4> QED BY <3>1, <4>1, SumType
    <3> HIDE DEF p, U
    <3>6. \A a, b \in Int : c * (a + b) = c * a + c * b
      BY Z3
    <3> QED BY <3>2, <3>3, <3>4, <3>5, <3>6
  <2> QED BY <2>1, <2>2
<1> HIDE DEF Good
<1>2. S \in Good
  BY <1>1, SetInduction
<1> QED BY <1>2 DEF Good

(* Counting is adding ones.                                                *)
LEMMA SumOfOnes ==
  ASSUME NEW S, IsFiniteSet(S), NEW B \in SUBSET S, NEW f,
         \A x \in S : f[x] = IF x \in B THEN 1 ELSE 0
  PROVE  SumOver(f, S) = Cardinality(B)
<1> DEFINE Good == {T \in SUBSET S : SumOver(f, T) = Cardinality(T \cap B)}
<1>1. ASSUME NEW T \in SUBSET S, \A U \in SUBSET T : U # T => U \in Good
      PROVE  T \in Good
  <2>1. CASE T = {}
    <3>1. T \cap B = {}
      BY <2>1
    <3> QED BY <2>1, <3>1, SumEmpty, FS_EmptySet
  <2>2. CASE T # {}
    <3> DEFINE p == Pick(T)
               U == T \ {p}
    <3>1. /\ p \in T /\ IsFiniteSet(T) /\ U \subseteq S
          /\ IsFiniteSet(U \cap B) /\ IsFiniteSet(T \cap B)
      BY <2>2, PickIs, FS_Subset
    <3>2. SumOver(f, U) = Cardinality(U \cap B)
      BY <1>1, <3>1
    <3>3. SumOver(f, T) = f[p] + SumOver(f, U)
      BY <2>2, <3>1, SumPick
    <3>4. CASE p \in B
      <4>1. T \cap B = (U \cap B) \cup {p} /\ p \notin U \cap B
        BY <3>1, <3>4
      <4>2. Cardinality(T \cap B) = Cardinality(U \cap B) + 1
        <5> HIDE DEF U, p
        <5> QED BY <3>1, <4>1, FS_AddElement
      <4>3. Cardinality(U \cap B) \in Nat
        BY <3>1, FS_CardinalityType
      <4>4. f[p] = 1
        BY <3>1, <3>4
      <4> HIDE DEF U, p
      <4> QED BY <3>2, <3>3, <4>2, <4>3, <4>4
    <3>5. CASE p \notin B
      <4>1. T \cap B = U \cap B
        BY <3>1, <3>5
      <4>2. Cardinality(U \cap B) \in Nat
        BY <3>1, FS_CardinalityType
      <4>3. f[p] = 0
        BY <3>1, <3>5
      <4> HIDE DEF U, p
      <4> QED BY <3>2, <3>3, <4>1, <4>2, <4>3
    <3> QED BY <3>4, <3>5
  <2> QED BY <2>1, <2>2
<1> HIDE DEF Good
<1>2. S \in Good
  BY <1>1, SetInduction
<1>3. S \cap B = B
  OBVIOUS
<1> QED BY <1>2, <1>3 DEF Good

-----------------------------------------------------------------------------
(* Those of S who come before i: by the larger key, among equals by the    *)
(* smaller id.                                                             *)
AheadOf(key, S, i) == {j \in S : key[j] > key[i] \/ (key[j] = key[i] /\ j < i)}

LEMMA LastExists ==
  ASSUME NEW S \in SUBSET Int, IsFiniteSet(S), S # {}, NEW key,
         \A x \in S : key[x] \in Int
  PROVE  \E z \in S : AheadOf(key, S, z) = S \ {z}
                      /\ \A i \in S : z \notin AheadOf(key, S, i)
<1> DEFINE down == [x \in S |-> 0 - key[x]]
<1>1. PICK a \in S : \A y \in S : key[a] <= key[y]
  <2>1. \A x \in S : down[x] \in Int
    OBVIOUS
  <2>2. \E x \in S : \A y \in S : down[y] <= down[x]
    <3> HIDE DEF down
    <3> QED BY <2>1, LargestExists
  <2> QED BY <2>2
<1> DEFINE low == {x \in S : key[x] = key[a]}
           id == [x \in low |-> x]
<1>2. IsFiniteSet(low) /\ low # {} /\ \A x \in low : id[x] \in Int
  BY FS_Subset
<1>3. PICK z \in low : \A y \in low : y <= z
  <2>1. \E x \in low : \A y \in low : id[y] <= id[x]
    <3> HIDE DEF low, id
    <3> QED BY <1>2, LargestExists
  <2> QED BY <2>1
<1>4. z \in S /\ key[z] = key[a]
  BY <1>3
<1>5. ASSUME NEW j \in S, j # z PROVE j \in AheadOf(key, S, z) /\ z \notin AheadOf(key, S, j)
  <2>1. CASE key[j] = key[a]
    <3>1. j <= z
      BY <1>3, <2>1
    <3> QED BY <1>4, <1>5, <2>1, <3>1 DEF AheadOf
  <2>2. CASE key[j] > key[a]
    BY <1>4, <1>5, <2>2 DEF AheadOf
  <2> QED BY <1>1, <2>1, <2>2
<1>6. z \notin AheadOf(key, S, z)
  BY <1>4 DEF AheadOf
<1>7. AheadOf(key, S, z) \subseteq S
  BY DEF AheadOf
<1> QED BY <1>4, <1>5, <1>6, <1>7

(* As many are among the first k as k says, whatever the ties.             *)
LEMMA FirstOnes ==
  ASSUME NEW S \in SUBSET Int, IsFiniteSet(S), NEW key, \A x \in S : key[x] \in Int
  PROVE  \A k \in 0 .. Cardinality(S) :
           Cardinality({i \in S : Cardinality(AheadOf(key, S, i)) < k}) = k
<1> DEFINE first(T, k) == {i \in T : Cardinality(AheadOf(key, T, i)) < k}
           Good == {T \in SUBSET S : \A k \in 0 .. Cardinality(T) : Cardinality(first(T, k)) = k}
<1>1. ASSUME NEW T \in SUBSET S, \A U \in SUBSET T : U # T => U \in Good
      PROVE  T \in Good
  <2> SUFFICES ASSUME NEW k \in 0 .. Cardinality(T) PROVE Cardinality(first(T, k)) = k
    OBVIOUS
  <2>0. IsFiniteSet(T) /\ Cardinality(T) \in Nat
    BY FS_Subset, FS_CardinalityType
  <2>1. IsFiniteSet(T) /\ Cardinality(T) \in Nat /\ k \in Nat
    BY <2>0
  <2>2. CASE T = {}
    <3>1. first(T, k) = {}
      BY <2>2
    <3>2. Cardinality(T) = 0
      BY <2>2, FS_EmptySet
    <3> QED BY <3>1, <3>2, FS_EmptySet
  <2>3. CASE T # {}
    <3>1. PICK z \in T : /\ AheadOf(key, T, z) = T \ {z}
                         /\ \A i \in T : z \notin AheadOf(key, T, i)
      BY <2>1, <2>3, LastExists
    <3> DEFINE U == T \ {z}
    <3>2. IsFiniteSet(U) /\ Cardinality(U) \in Nat /\ Cardinality(U) = Cardinality(T) - 1
      BY <2>1, <3>1, FS_RemoveElement, FS_CardinalityType
    <3>3. \A i \in U : AheadOf(key, T, i) = AheadOf(key, U, i)
      BY <3>1 DEF AheadOf
    <3>4. CASE k = Cardinality(T)
      <4>1. ASSUME NEW i \in T PROVE Cardinality(AheadOf(key, T, i)) < k
        <5>1. AheadOf(key, T, i) \subseteq T \ {i}
          BY DEF AheadOf
        <5>2. IsFiniteSet(T \ {i}) /\ Cardinality(T \ {i}) = k - 1
          BY <2>1, <3>4, FS_RemoveElement
        <5>3. Cardinality(AheadOf(key, T, i)) <= k - 1
          BY <5>1, <5>2, FS_Subset
        <5>4. Cardinality(AheadOf(key, T, i)) \in Nat
          BY <5>1, <5>2, FS_Subset, FS_CardinalityType
        <5> QED BY <2>1, <5>3, <5>4
      <4>2. first(T, k) = T
        BY <4>1
      <4> QED BY <3>4, <4>2
    <3>5. CASE k < Cardinality(T)
      <4>1. k \in 0 .. Cardinality(U) /\ ~(Cardinality(U) < k)
        BY <2>1, <3>2, <3>5
      <4>2. Cardinality(first(U, k)) = k
        <5>1. U \in Good
          BY <1>1, <3>1
        <5> HIDE DEF first
        <5> QED BY <4>1, <5>1
      <4>3. z \notin first(T, k)
        BY <3>1, <4>1
      <4>4. first(T, k) = first(U, k)
        BY <3>3, <4>3
      <4> QED BY <4>2, <4>4
    <3> QED BY <2>1, <3>4, <3>5
  <2> QED BY <2>2, <2>3
<1> HIDE DEF Good
<1>2. S \in Good
  BY <1>1, SetInduction
<1> QED BY <1>2 DEF Good

(* Each gets the floor of the proportion, those with the largest remainders*)
(* a unit more, until nothing is left over.                                *)
Floors(total, w, S) == [i \in S |-> (total * w[i]) \div SumOver(w, S)]
Remainders(total, w, S) == [i \in S |-> (total * w[i]) % SumOver(w, S)]
Leftover(total, w, S) == total - SumOver(Floors(total, w, S), S)
Dealt(total, w, S) ==
  [i \in S |->
     Floors(total, w, S)[i]
       + (IF Cardinality(AheadOf(Remainders(total, w, S), S, i)) < Leftover(total, w, S)
          THEN 1 ELSE 0)]

LEMMA Division ==
  ASSUME NEW n \in Nat, NEW d \in Nat \ {0}
  PROVE  /\ n \div d \in Nat
         /\ n % d \in 0 .. (d - 1)
         /\ n = d * (n \div d) + (n % d)
  BY Z3

LEMMA Deal ==
  ASSUME NEW S \in SUBSET Int, IsFiniteSet(S), NEW w \in [S -> Nat], NEW total \in Nat,
         SumOver(w, S) > 0
  PROVE  /\ Leftover(total, w, S) \in 0 .. Cardinality(S)
         /\ SumOver(Dealt(total, w, S), S) = total
         /\ \A i \in S :
              /\ Dealt(total, w, S)[i] \in Nat
              /\ SumOver(w, S) * Dealt(total, w, S)[i] - total * w[i]
                   \in (1 - SumOver(w, S)) .. (SumOver(w, S) - 1)
<1> DEFINE W == SumOver(w, S)
           base == Floors(total, w, S)
           rem == Remainders(total, w, S)
           left == Leftover(total, w, S)
           out == Dealt(total, w, S)
           due == [i \in S |-> total * w[i]]
           whole == [i \in S |-> W * base[i]]
           part == {i \in S : rem[i] > 0}
           extra == [i \in S |-> IF Cardinality(AheadOf(rem, S, i)) < left THEN 1 ELSE 0]
           lucky == {i \in S : Cardinality(AheadOf(rem, S, i)) < left}
<1>1. W \in Nat /\ W > 0
  BY SumOfNats
<1>2. ASSUME NEW i \in S
      PROVE  /\ w[i] \in Nat /\ due[i] \in Nat
             /\ base[i] \in Nat /\ rem[i] \in 0 .. (W - 1) /\ due[i] = W * base[i] + rem[i]
  <2>1. w[i] \in Nat
    OBVIOUS
  <2>2. due[i] = total * w[i] /\ due[i] \in Nat
    <3>1. \A a, b \in Nat : a * b \in Nat
      BY Z3
    <3> QED BY <2>1, <3>1
  <2>3. base[i] = due[i] \div W /\ rem[i] = due[i] % W
    BY <2>2 DEF Floors, Remainders
  <2> HIDE DEF base, rem, due, W
  <2>4. W \in Nat \ {0}
    BY <1>1
  <2>5. /\ due[i] \div W \in Nat
        /\ due[i] % W \in 0 .. (W - 1)
        /\ due[i] = W * (due[i] \div W) + (due[i] % W)
    BY <2>2, <2>4, Division, Zenon
  <2> QED BY <2>1, <2>2, <2>3, <2>5
<1>3. \A i \in S : whole[i] \in Int /\ whole[i] = W * base[i] /\ due[i] = whole[i] + rem[i]
  <2>1. \A a, b \in Nat : a * b \in Int
    BY Z3
  <2> HIDE DEF base, rem, due, W
  <2> QED BY <1>1, <1>2, <2>1
<1>4. left = total - SumOver(base, S) /\ SumOver(base, S) \in Int /\ left \in Int
  <2>1. \A i \in S : base[i] \in Int
    BY <1>2
  <2>2. SumOver(base, S) \in Int
    <3> HIDE DEF base
    <3> QED BY <2>1, SumType
  <2> QED BY <2>2 DEF Leftover
<1> HIDE DEF base, rem, left
<1>5. SumOver(due, S) = total * W
  <2>1. \A i \in S : w[i] \in Int /\ due[i] = total * w[i]
    OBVIOUS
  <2>2. total \in Int
    OBVIOUS
  <2> HIDE DEF due
  <2> QED BY <2>1, <2>2, SumScale, Zenon
<1>6. SumOver(whole, S) = W * SumOver(base, S)
  <2>1. \A i \in S : base[i] \in Int /\ whole[i] = W * base[i]
    BY <1>2, <1>3
  <2> HIDE DEF whole, W
  <2>2. W \in Int
    BY <1>1
  <2> QED BY <2>1, <2>2, SumScale, Zenon
<1>7. SumOver(due, S) = SumOver(whole, S) + SumOver(rem, S)
  <2>1. \A i \in S : whole[i] \in Int /\ rem[i] \in Int /\ due[i] = whole[i] + rem[i]
    BY <1>1, <1>2, <1>3
  <2> HIDE DEF due, whole, W
  <2> QED BY <2>1, SumPlus
<1>8. SumOver(rem, S) \in Nat /\ SumOver(rem, S) = W * left
  <2>1. SumOver(rem, S) \in Nat
    <3>1. \A i \in S : rem[i] \in Nat
      BY <1>1, <1>2
    <3> QED BY <3>1, SumOfNats
  <2>2. \A a, b, c \in Int : c * a - c * b = c * (a - b) /\ a * c = c * a
    BY Z3
  <2>3. W * left = W * total - W * SumOver(base, S) /\ total * W = W * total
    BY <1>1, <1>4, <2>2
  <2>4. W * total \in Int /\ W * SumOver(base, S) \in Int
    <3>1. \A a, b \in Int : a * b \in Int
      BY Z3
    <3> QED BY <1>1, <1>4, <3>1
  <2> HIDE DEF due, whole, W
  <2> QED BY <1>5, <1>6, <1>7, <2>1, <2>3, <2>4
<1>9. /\ Cardinality(part) \in Nat /\ Cardinality(S) \in Nat
      /\ Cardinality(part) <= Cardinality(S)
      /\ SumOver(rem, S) <= W * Cardinality(part)
  <2> DEFINE one == [i \in S |-> IF i \in part THEN 1 ELSE 0]
             all == [i \in S |-> W * one[i]]
             lack == [i \in S |-> all[i] - rem[i]]
  <2>1. /\ Cardinality(part) \in Nat /\ Cardinality(S) \in Nat
        /\ Cardinality(part) <= Cardinality(S)
    <3>1. part \subseteq S
      OBVIOUS
    <3> HIDE DEF part
    <3> QED BY <3>1, FS_Subset, FS_CardinalityType
  <2>2. SumOver(one, S) = Cardinality(part)
    <3>1. part \in SUBSET S /\ \A x \in S : one[x] = IF x \in part THEN 1 ELSE 0
      OBVIOUS
    <3> HIDE DEF one, part
    <3> QED BY <3>1, SumOfOnes
  <2>3. SumOver(all, S) = W * SumOver(one, S)
    <3>1. \A i \in S : one[i] \in Int /\ all[i] = W * one[i]
      OBVIOUS
    <3> HIDE DEF one, all, W
    <3>2. W \in Int
      BY <1>1
    <3> QED BY <3>1, <3>2, SumScale, Zenon
  <2>4. \A i \in S : all[i] \in Int /\ rem[i] \in Int /\ lack[i] \in Nat
                  /\ all[i] = lack[i] + rem[i]
    <3> SUFFICES ASSUME NEW i \in S
                 PROVE  /\ all[i] \in Int /\ rem[i] \in Int /\ lack[i] \in Nat
                        /\ all[i] = lack[i] + rem[i]
      OBVIOUS
    <3>1. rem[i] \in 0 .. (W - 1)
      BY <1>2
    <3>2. all[i] = IF rem[i] > 0 THEN W ELSE 0
      BY <1>1, <3>1
    <3> HIDE DEF all, W
    <3> QED BY <1>1, <3>1, <3>2
  <2> HIDE DEF one, all, lack, W, part
  <2>5. SumOver(all, S) = SumOver(lack, S) + SumOver(rem, S)
    <3>1. \A i \in S : lack[i] \in Int /\ rem[i] \in Int /\ all[i] = lack[i] + rem[i]
      BY <2>4
    <3> QED BY <3>1, SumPlus
  <2>6. SumOver(lack, S) \in Nat
    BY <2>4, SumOfNats
  <2>7. SumOver(rem, S) <= SumOver(all, S)
    BY <1>8, <2>5, <2>6
  <2> QED BY <2>1, <2>2, <2>3, <2>7
<1>10. left \in 0 .. Cardinality(part)
  <2>1. \A a \in Nat \ {0}, b \in Int : a * b >= 0 => b >= 0
    BY Z3
  <2>2. \A a \in Nat \ {0}, b, c \in Int : a * b <= a * c => b <= c
    BY Z3
  <2>3. W * left >= 0
    BY <1>8
  <2> HIDE DEF W, part
  <2> QED BY <1>1, <1>4, <1>8, <1>9, <2>1, <2>2, <2>3
<1>11. Cardinality(lucky) = left
  <2>1. left \in 0 .. Cardinality(S)
    <3> HIDE DEF part
    <3> QED BY <1>9, <1>10
  <2>2. \A x \in S : rem[x] \in Int
    BY <1>1, <1>2
  <2> QED BY <2>1, <2>2, FirstOnes
<1>12. SumOver(extra, S) = left
  <2>1. \A x \in S : extra[x] = IF x \in lucky THEN 1 ELSE 0
    OBVIOUS
  <2>2. lucky \in SUBSET S
    OBVIOUS
  <2> HIDE DEF extra, lucky
  <2> QED BY <1>11, <2>1, <2>2, SumOfOnes
<1>13. \A i \in S : /\ base[i] \in Int /\ extra[i] \in Int /\ out[i] = base[i] + extra[i]
                   /\ extra[i] \in {0, 1}
  BY <1>2 DEF Dealt, base, rem, left
<1>14. SumOver(out, S) = total
  <2>1. SumOver(out, S) = SumOver(base, S) + SumOver(extra, S)
    <3>1. \A i \in S : base[i] \in Int /\ extra[i] \in Int /\ out[i] = base[i] + extra[i]
      BY <1>13
    <3> HIDE DEF out, extra
    <3> QED BY <3>1, SumPlus
  <2> QED BY <1>4, <1>12, <2>1
(* Whoever is due whole units only gets no more.                           *)
<1>15. ASSUME NEW i \in S, rem[i] = 0 PROVE extra[i] = 0
  <2>1. part \subseteq AheadOf(rem, S, i) /\ AheadOf(rem, S, i) \subseteq S
    BY <1>15 DEF AheadOf
  <2>2. /\ Cardinality(part) <= Cardinality(AheadOf(rem, S, i))
        /\ Cardinality(AheadOf(rem, S, i)) \in Nat
    <3> HIDE DEF part
    <3> QED BY <2>1, FS_Subset, FS_CardinalityType
  <2>3. ~(Cardinality(AheadOf(rem, S, i)) < left)
    <3> HIDE DEF part
    <3> QED BY <1>9, <1>10, <2>2
  <2> QED BY <2>3
<1>16. ASSUME NEW i \in S
       PROVE  out[i] \in Nat /\ W * out[i] - total * w[i] \in (1 - W) .. (W - 1)
  <2>1. /\ base[i] \in Nat /\ extra[i] \in {0, 1} /\ out[i] = base[i] + extra[i]
        /\ rem[i] \in 0 .. (W - 1) /\ (rem[i] = 0 => extra[i] = 0)
    BY <1>2, <1>13, <1>15
  <2>2. total * w[i] = W * base[i] + rem[i]
    BY <1>2
  <2>3. W * out[i] = W * base[i] + (IF extra[i] = 1 THEN W ELSE 0)
    <3>1. \A a, b, c \in Int : a * (b + c) = a * b + a * c
      BY Z3
    <3>2. W * out[i] = W * base[i] + W * extra[i]
      <4> HIDE DEF W, out, extra
      <4> QED BY <1>1, <2>1, <3>1
    <3>3. W * extra[i] = IF extra[i] = 1 THEN W ELSE 0
      <4> HIDE DEF W, out, extra
      <4> QED BY <1>1, <2>1
    <3> QED BY <3>2, <3>3
  <2>4. W * base[i] \in Int
    <3>1. \A a, b \in Nat : a * b \in Int
      BY Z3
    <3> HIDE DEF W
    <3> QED BY <1>1, <2>1, <3>1
  <2>5. \A a, r, e \in Int : r \in 0 .. (W - 1) /\ e \in {0, 1} /\ (r = 0 => e = 0)
          => (a + (IF e = 1 THEN W ELSE 0)) - (a + r) \in (1 - W) .. (W - 1)
    <3> HIDE DEF W
    <3> QED BY <1>1
  <2>6. rem[i] \in Int /\ extra[i] \in Int
    <3> HIDE DEF W, extra
    <3> QED BY <1>1, <2>1
  <2>7. W * out[i] - total * w[i]
          = (W * base[i] + (IF extra[i] = 1 THEN W ELSE 0)) - (W * base[i] + rem[i])
    BY <2>2, <2>3, Zenon
  <2>8. W * out[i] - total * w[i] \in (1 - W) .. (W - 1)
    <3> HIDE DEF W, out, extra
    <3> QED BY <2>1, <2>4, <2>5, <2>6, <2>7, Zenon
  <2>9. out[i] \in Nat
    <3> HIDE DEF out, extra
    <3> QED BY <2>1
  <2> QED BY <2>8, <2>9
<1>17. left \in 0 .. Cardinality(S)
  <2> HIDE DEF part
  <2> QED BY <1>9, <1>10
<1> QED BY <1>14, <1>16, <1>17 DEF left
=============================================================================

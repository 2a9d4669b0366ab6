--------------------------- MODULE Simplify_proofs ---------------------------
(***************************************************************************)
(* For any number of people and any balances: a plan of debt               *)
(* simplification leaves everyone square, and asks nobody for more than    *)
(* they owe.                                                               *)
(***************************************************************************)
EXTENDS Simplify, Sums, TLAPS

-----------------------------------------------------------------------------
(* What is still open on one side.                                         *)

LEMMA SumOfIs == \A f : SumOf(f) = SumOver(f, DOMAIN f)
  BY DEF SumOf, SumOver, MapThenSumSet, MapThenFoldSet

LEMMA OpenFacts ==
  ASSUME NEW f, Open(f)
  PROVE  /\ f \in [DOMAIN f -> Nat \ {0}] /\ DOMAIN f \subseteq Members
         /\ \A m \in DOMAIN f : f[m] \in Nat \ {0} /\ f[m] \in Int
         /\ IsFiniteSet(DOMAIN f) /\ Cardinality(DOMAIN f) \in Nat
         /\ \A m \in Members : StillOpen(f, m) \in Nat
<1>1. f \in [DOMAIN f -> Nat \ {0}] /\ DOMAIN f \subseteq Members
  BY DEF Open
<1>2. \A m \in DOMAIN f : f[m] \in Nat \ {0}
  BY <1>1
<1>3. IsFiniteSet(DOMAIN f)
  BY <1>1, MembersAssumption, FS_Subset
<1> QED BY <1>1, <1>2, <1>3, FS_CardinalityType DEF StillOpen

LEMMA SumOfOpen ==
  ASSUME NEW f, Open(f)
  PROVE  /\ SumOf(f) \in Nat
         /\ SumOf(f) = 0 => DOMAIN f = {}
<1>1. /\ SumOver(f, DOMAIN f) \in Nat
      /\ \A m \in DOMAIN f : f[m] <= SumOver(f, DOMAIN f)
  BY OpenFacts, SumOfNats
<1>2. ASSUME NEW m \in DOMAIN f PROVE SumOver(f, DOMAIN f) # 0
  <2>1. f[m] \in Nat \ {0} /\ f[m] <= SumOver(f, DOMAIN f)
    BY <1>1, OpenFacts
  <2> QED BY <1>1, <2>1
<1> QED BY <1>1, <1>2, SumOfIs

(* Someone comes first: largest amount, smallest id.                       *)
LEMMA ForemostIs ==
  ASSUME NEW f, Open(f), DOMAIN f # {}
  PROVE  Foremost(f) \in DOMAIN f
<1> DEFINE D == DOMAIN f
<1>1. IsFiniteSet(D) /\ D # {} /\ \A m \in D : f[m] \in Int /\ m \in Int
  BY OpenFacts, MembersAssumption
<1>2. PICK top \in D : \A n \in D : f[n] <= f[top]
  <2> HIDE DEF D
  <2> QED BY <1>1, LargestExists
<1> DEFINE level == {m \in D : f[m] = f[top]}
           order == [m \in level |-> -m]
<1>3. PICK m \in level : \A n \in level : order[n] <= order[m]
  <2>1. IsFiniteSet(level)
    BY <1>1, FS_Subset
  <2>2. \A x \in level : order[x] \in Int
    <3> HIDE DEF D
    <3> QED BY <1>1
  <2>3. level # {}
    BY <1>2
  <2> HIDE DEF level, order
  <2> QED BY <2>1, <2>2, <2>3, LargestExists
<1>4. \A n \in D : f[n] < f[m] \/ (f[n] = f[m] /\ m <= n)
  <2> SUFFICES ASSUME NEW n \in D PROVE f[n] < f[m] \/ (f[n] = f[m] /\ m <= n)
    OBVIOUS
  <2>1. m \in D /\ f[m] = f[top] /\ f[n] <= f[top] /\ f[n] \in Int /\ f[top] \in Int
        /\ m \in Int /\ n \in Int
    BY <1>1, <1>2, <1>3
  <2>2. CASE f[n] = f[top]
    <3>1. n \in level /\ m \in level
      BY <1>3, <2>2
    <3>2. order[n] = -n /\ order[m] = -m /\ order[n] <= order[m]
      BY <1>3, <3>1
    <3> HIDE DEF order, level, D
    <3> QED BY <2>1, <2>2, <3>2
  <2>3. CASE f[n] # f[top]
    <3> HIDE DEF order, level, D
    <3> QED BY <2>1, <2>3
  <2> QED BY <2>2, <2>3
<1> QED BY <1>3, <1>4 DEF Foremost

(* One side before and after an amount is taken off what m has open.       *)
Taken(f, g, m, amount) ==
  /\ Open(g)
  /\ DOMAIN g = IF f[m] = amount THEN (DOMAIN f) \ {m} ELSE DOMAIN f
  /\ \A n \in Members :
       StillOpen(g, n) = StillOpen(f, n) - (IF n = m THEN amount ELSE 0)
  /\ SumOf(g) = SumOf(f) - amount
  /\ Cardinality(DOMAIN g) =
       Cardinality(DOMAIN f) - (IF f[m] = amount THEN 1 ELSE 0)

LEMMA LessIs ==
  ASSUME NEW f, Open(f), NEW m \in DOMAIN f,
         NEW amount \in Nat \ {0}, amount <= f[m]
  PROVE  Taken(f, Less(f, m, amount), m, amount)
<1> DEFINE D == DOMAIN f
           g == Less(f, m, amount)
           rest == D \ {m}
<1>0. /\ D \subseteq Members /\ IsFiniteSet(D) /\ IsFiniteSet(rest)
      /\ \A n \in D : f[n] \in Nat \ {0} /\ f[n] \in Int
      /\ Cardinality(D) \in Nat
  BY OpenFacts, FS_RemoveElement
<1>1. /\ DOMAIN g = IF f[m] = amount THEN rest ELSE D
      /\ g = [n \in DOMAIN g |-> IF n = m THEN f[n] - amount ELSE f[n]]
  BY DEF Less
<1>2. \A n \in DOMAIN g : g[n] \in Nat \ {0} /\ g[n] \in Int
  <2> SUFFICES ASSUME NEW n \in DOMAIN g PROVE g[n] \in Nat \ {0}
    OBVIOUS
  <2>1. n \in D /\ g[n] = IF n = m THEN f[n] - amount ELSE f[n]
    <3> HIDE DEF g, D
    <3> QED BY <1>1 DEF D
  <2>2. n = m => f[m] # amount
    <3> HIDE DEF g
    <3> QED BY <1>1
  <2> HIDE DEF g
  <2> QED BY <1>0, <2>1, <2>2
<1>3. Open(g)
  <2> HIDE DEF g
  <2>1. DOMAIN g \subseteq D
    BY <1>1
  <2> QED BY <1>0, <1>1, <1>2, <2>1 DEF Open
<1>4. ASSUME NEW n \in Members
      PROVE  StillOpen(g, n) = StillOpen(f, n) - (IF n = m THEN amount ELSE 0)
  <2>1. CASE n = m /\ f[m] = amount
    <3> HIDE DEF g
    <3> QED BY <1>0, <1>1, <2>1 DEF StillOpen
  <2>2. CASE n = m /\ f[m] # amount
    <3> HIDE DEF g
    <3> QED BY <1>0, <1>1, <2>2 DEF StillOpen
  <2>3. CASE n # m
    <3> HIDE DEF g
    <3>1. n \in DOMAIN g <=> n \in D
      BY <1>1, <2>3
    <3>2. n \in DOMAIN g => g[n] = f[n]
      BY <1>1, <2>3
    <3> QED BY <1>0, <2>3, <3>1, <3>2 DEF StillOpen
  <2> QED BY <2>1, <2>2, <2>3
<1>5. SumOf(g) = SumOf(f) - amount
  <2>1. SumOver(f, D) = f[m] + SumOver(f, rest)
    BY <1>0, SumRemove
  <2>2. SumOver(f, rest) \in Int /\ f[m] \in Int
    BY <1>0, SumType
  <2>3. CASE f[m] = amount
    <3> HIDE DEF g
    <3>1. DOMAIN g = rest /\ \A n \in rest : g[n] = f[n]
      BY <1>1, <2>3
    <3>2. SumOver(g, rest) = SumOver(f, rest)
      BY <1>0, <3>1, SumCongruence
    <3> QED BY <2>1, <2>2, <2>3, <3>1, <3>2, SumOfIs
  <2>4. CASE f[m] # amount
    <3> HIDE DEF g
    <3>1. DOMAIN g = D /\ g[m] = f[m] - amount /\ \A n \in rest : g[n] = f[n]
      BY <1>1, <2>4
    <3>2. SumOver(g, D) = g[m] + SumOver(g, rest)
      <4>1. \A n \in D : g[n] \in Int
        BY <1>2, <3>1
      <4> QED BY <1>0, <4>1, SumRemove
    <3>3. SumOver(g, rest) = SumOver(f, rest)
      BY <1>0, <3>1, SumCongruence
    <3>4. SumOf(g) = (f[m] - amount) + SumOver(f, rest) /\ SumOf(f) = f[m] + SumOver(f, rest)
      BY <2>1, <3>1, <3>2, <3>3, SumOfIs
    <3> QED BY <2>2, <3>4
  <2> QED BY <2>3, <2>4
<1>6. Cardinality(DOMAIN g) = Cardinality(D) - (IF f[m] = amount THEN 1 ELSE 0)
  <2>1. Cardinality(rest) = Cardinality(D) - 1
    BY <1>0, FS_RemoveElement
  <2> HIDE DEF g
  <2> QED BY <1>0, <1>1, <2>1
<1>7. Taken(f, g, m, amount)
  <2> HIDE DEF g
  <2> QED BY <1>1, <1>3, <1>4, <1>5, <1>6 DEF Taken
<1> QED BY <1>7

-----------------------------------------------------------------------------
(* What the plan moves.                                                    *)

Flow(ts, m) == [i \in DOMAIN ts |-> Part(ts[i], m)]

LEMMA MovedIs ==
  ASSUME NEW ts, IsFiniteSet(DOMAIN ts), NEW m
  PROVE  Moved(ts, m) = SumOver(Flow(ts, m), DOMAIN ts)
<1> DEFINE S == DOMAIN ts
           f == Flow(ts, m)
           Sums(g) == g = [s \in SUBSET S |->
             IF s = {} THEN 0 ELSE Part(ts[Pick(s)], m) + g[s \ {Pick(s)}]]
           iter == CHOOSE g : Sums(g)
<1>1. Moved(ts, m) = iter[S]
  BY DEF Moved, MapThenSumSet, MapThenFoldSet, Pick
<1>2. ASSUME NEW g PROVE IsSum(g, f, S) <=> Sums(g)
  <2>1. \A s \in SUBSET S : s # {} => f[Pick(s)] = Part(ts[Pick(s)], m)
    BY PickIs DEF Flow
  <2> HIDE DEF f, S
  <2> QED BY <2>1 DEF IsSum
<1>3. IsSum(iter, f, S)
  <2>1. PICK g : IsSum(g, f, S)
    <3> HIDE DEF f
    <3> QED BY SumExists
  <2> HIDE DEF Sums
  <2> QED BY <1>2, <2>1
<1> HIDE DEF iter, f
<1>4. iter[S] = SumOver(f, S)
  BY <1>3, SumOfIter
<1> QED BY <1>1, <1>4 DEF f

LEMMA PlanFacts ==
  ASSUME NEW ts \in Seq(Transfers)
  PROVE  /\ Len(ts) \in Nat /\ DOMAIN ts = 1 .. Len(ts) /\ IsFiniteSet(DOMAIN ts)
         /\ \A i \in DOMAIN ts : ts[i] \in Transfers
         /\ \A m : \A i \in DOMAIN ts : Part(ts[i], m) \in Int
         /\ \A m : Moved(ts, m) \in Int
<1>1. /\ Len(ts) \in Nat /\ DOMAIN ts = 1 .. Len(ts)
      /\ \A i \in DOMAIN ts : ts[i] \in Transfers
  OBVIOUS
<1>2. IsFiniteSet(DOMAIN ts)
  BY <1>1, FS_Interval
<1>3. \A m : \A i \in DOMAIN ts : Part(ts[i], m) \in Int
  <2> SUFFICES ASSUME NEW m, NEW i \in DOMAIN ts PROVE Part(ts[i], m) \in Int
    OBVIOUS
  <2>1. ts[i].amount \in Int
    BY <1>1 DEF Transfers
  <2> QED BY <2>1 DEF Part
<1>4. \A m : Moved(ts, m) \in Int
  <2> SUFFICES ASSUME NEW m PROVE Moved(ts, m) \in Int
    OBVIOUS
  <2>1. \A i \in DOMAIN ts : Flow(ts, m)[i] \in Int
    BY <1>3 DEF Flow
  <2> QED BY <1>2, <2>1, MovedIs, SumType
<1> QED BY <1>1, <1>2, <1>3, <1>4

(* One transfer more moves its amount, from the one to the other.          *)
LEMMA MovedByOne ==
  ASSUME NEW ts \in Seq(Transfers), NEW t \in Transfers, NEW m
  PROVE  Moved(Append(ts, t), m) = Moved(ts, m) + Part(t, m)
<1> DEFINE S == DOMAIN ts
           n == Len(ts) + 1
           more == Append(ts, t)
           f == Flow(more, m)
<1>1. /\ more \in Seq(Transfers) /\ n \in Nat
      /\ DOMAIN more = S \cup {n} /\ n \notin S
      /\ more[n] = t /\ \A i \in S : more[i] = ts[i]
  OBVIOUS
<1> HIDE DEF more
<1>2. IsFiniteSet(S) /\ IsFiniteSet(DOMAIN more)
  BY <1>1, PlanFacts
<1>3. Moved(more, m) = SumOver(f, S \cup {n})
  BY <1>1, <1>2, MovedIs
<1>4. \A i \in S \cup {n} : f[i] = Part(more[i], m) /\ f[i] \in Int
  <2>1. \A i \in S \cup {n} : f[i] = Part(more[i], m)
    BY <1>1 DEF Flow
  <2>2. Part(t, m) \in Int
    BY DEF Part, Transfers
  <2> HIDE DEF f
  <2> QED BY <1>1, <2>1, <2>2, PlanFacts
<1>5. SumOver(f, S \cup {n}) = f[n] + SumOver(f, S)
  <2> HIDE DEF f, S, n
  <2> QED BY <1>1, <1>2, <1>4, SumAdd
<1>6. SumOver(f, S) = SumOver(Flow(ts, m), S)
  <2>1. \A i \in S : f[i] = Flow(ts, m)[i]
    BY <1>1, <1>4 DEF Flow
  <2> HIDE DEF f, S
  <2> QED BY <1>2, <2>1, SumCongruence
<1>7. SumOver(Flow(ts, m), S) = Moved(ts, m) /\ Moved(ts, m) \in Int
  BY <1>2, MovedIs, PlanFacts
<1>8. f[n] = Part(t, m) /\ f[n] \in Int
  <2> HIDE DEF f
  <2> QED BY <1>1, <1>4
<1> HIDE DEF f, S, n
<1> QED BY <1>3, <1>5, <1>6, <1>7, <1>8 DEF more

-----------------------------------------------------------------------------
(* The invariant.                                                          *)

LEMMA NetFacts ==
  ASSUME NEW f \in [Members -> Int]
  PROVE  IsFiniteSet(Members) /\ DOMAIN f = Members /\ SumOf(f) = SumOver(f, Members)
  BY MembersAssumption, SumOfIs

LEMMA InitIInv == Init => IInv
<1> SUFFICES ASSUME Init PROVE IInv
  OBVIOUS
<1>1. net \in [Members -> Int] /\ transfers \in Seq(Transfers)
  BY NetsAssumption DEF Init
<1>2. DOMAIN creditors = {} /\ DOMAIN debtors = {}
  BY DEF Init
<1>3. TypeOK
  BY <1>1, <1>2 DEF Init, TypeOK, Open
<1>4. OnTrack /\ Sided
  BY <1>2 DEF Init, OnTrack, Sided, Planning
<1>5. Shrinking
  BY DEF Init, Shrinking, Planning
<1> QED BY <1>3, <1>4, <1>5 DEF IInv

LEMMA NextRefuse ==
  ASSUME IInv, Refuse \/ Stop
  PROVE  IInv'
<1>1. TypeOK'
  BY DEF IInv, TypeOK, Refuse, Stop, Open
<1>2. OnTrack'
  BY DEF IInv, OnTrack, Refuse, Stop, Planning
<1>3. Sided' /\ Shrinking'
  BY DEF IInv, Sided, Shrinking, Refuse, Stop, Planning, Involved
<1> QED BY <1>1, <1>2, <1>3 DEF IInv

LEMMA NextTakeSides ==
  ASSUME IInv, TakeSides
  PROVE  IInv'
<1> DEFINE C == {n \in Members : net[n] > 0}
           D == {n \in Members : net[n] < 0}
<1>1. /\ net \in [Members -> Int] /\ net' = net /\ SumOf(net) = 0
      /\ creditors' = [m \in C |-> net[m]] /\ debtors' = [m \in D |-> -net[m]]
      /\ transfers = <<>> /\ transfers' = <<>> /\ pc' = "pair"
  BY DEF IInv, TypeOK, Shrinking, Planning, TakeSides
<1>2. Open(creditors') /\ Open(debtors')
  <2>1. /\ \A m \in C : net[m] \in Nat \ {0}
        /\ \A m \in D : -net[m] \in Nat \ {0}
        /\ C \subseteq Members /\ D \subseteq Members
    BY <1>1
  <2> HIDE DEF C, D
  <2> QED BY <1>1, <2>1 DEF Open
<1>3. TypeOK'
  BY <1>1, <1>2 DEF TypeOK
<1>4. Sided'
  BY <1>1 DEF Sided
<1>5. DOMAIN creditors' = C /\ DOMAIN debtors' = D
  BY <1>1
<1>6. ASSUME NEW m \in Members
      PROVE  net[m] = StillOpen(creditors', m) - StillOpen(debtors', m)
  <2>1. net[m] \in Int
    BY <1>1
  <2>2. CASE net[m] > 0
    BY <1>1, <2>1, <2>2 DEF StillOpen
  <2>3. CASE net[m] < 0
    BY <1>1, <2>1, <2>3 DEF StillOpen
  <2>4. CASE net[m] = 0
    BY <1>1, <2>1, <2>4 DEF StillOpen
  <2> QED BY <2>1, <2>2, <2>3, <2>4
<1>7. SumOf(creditors') = SumOf(debtors')
  <2> DEFINE plus == Padded(creditors', Members)
             minus == Padded(debtors', Members)
  <2>1. IsFiniteSet(Members) /\ SumOf(net) = SumOver(net, Members)
    BY <1>1, NetFacts
  <2>2. /\ SumOver(plus, Members) = SumOf(creditors')
        /\ \A m \in Members : plus[m] \in Int
    BY <1>2, <2>1, OpenFacts, SumPadded, SumOfIs
  <2>3. /\ SumOver(minus, Members) = SumOf(debtors')
        /\ \A m \in Members : minus[m] \in Int
    BY <1>2, <2>1, OpenFacts, SumPadded, SumOfIs
  <2>4. \A m \in Members : net[m] = plus[m] - minus[m]
    BY <1>6 DEF Padded, StillOpen
  <2>5. SumOver(net, Members) = SumOver(plus, Members) - SumOver(minus, Members)
    <3> HIDE DEF plus, minus
    <3> QED BY <2>1, <2>2, <2>3, <2>4, SumMinus
  <2>6. SumOf(creditors') \in Nat /\ SumOf(debtors') \in Nat
    BY <1>2, SumOfOpen
  <2> HIDE DEF plus, minus
  <2> QED BY <1>1, <2>1, <2>2, <2>3, <2>5, <2>6
<1>8. \A m : Moved(<<>>, m) = 0
  <2> SUFFICES ASSUME NEW m PROVE Moved(<<>>, m) = 0
    OBVIOUS
  <2>1. DOMAIN <<>> = {} /\ IsFiniteSet({})
    BY FS_EmptySet
  <2>2. Moved(<<>>, m) = SumOver(Flow(<<>>, m), {})
    BY <2>1, MovedIs
  <2> QED BY <2>2, SumEmpty
<1>9. OnTrack'
  <2>1. \A m \in Members : net[m] \in Int
    BY <1>1
  <2>2. \A m \in Members :
          net'[m] + Moved(transfers', m)
            = StillOpen(creditors', m) - StillOpen(debtors', m)
    <3> HIDE DEF C, D
    <3>1. \A m \in Members : net[m] + 0 = net[m]
      BY <2>1
    <3> QED BY <1>1, <1>6, <1>8, <3>1
  <2> QED BY <1>1, <1>7, <2>2 DEF OnTrack
<1>10. Shrinking'
  <2>1. Involved' = C \cup D /\ C \cap D = {}
    BY <1>1 DEF Involved
  <2>2. IsFiniteSet(C) /\ IsFiniteSet(D)
    BY MembersAssumption, FS_Subset
  <2>3. Cardinality(C \cup D) = Cardinality(C) + Cardinality(D)
        /\ Cardinality(C) \in Nat /\ Cardinality(D) \in Nat
    <3> HIDE DEF C, D
    <3>1. Cardinality(C \cup D) = Cardinality(C) + Cardinality(D) - Cardinality(C \cap D)
      BY <2>2, FS_Union
    <3>2. Cardinality(C \cap D) = 0
      BY <2>1, FS_EmptySet
    <3>3. Cardinality(C) \in Nat /\ Cardinality(D) \in Nat
      BY <2>2, FS_CardinalityType
    <3> QED BY <3>1, <3>2, <3>3
  <2> HIDE DEF C, D
  <2>4. Len(transfers') = 0
    BY <1>1
  <2> QED BY <1>1, <1>5, <2>1, <2>3, <2>4 DEF Shrinking, Planning
<1> QED BY <1>3, <1>4, <1>9, <1>10 DEF IInv

(* What a transfer moves: the smaller of the two amounts it is between.    *)
LEMMA SmallerOfTwo ==
  ASSUME NEW f, NEW g, Open(f), Open(g), NEW c \in DOMAIN f, NEW d \in DOMAIN g
  PROVE  /\ Min({f[c], g[d]}) \in Nat \ {0}
         /\ Min({f[c], g[d]}) <= f[c] /\ Min({f[c], g[d]}) <= g[d]
         /\ Min({f[c], g[d]}) = f[c] \/ Min({f[c], g[d]}) = g[d]
<1> DEFINE x == f[c]
           y == g[d]
           amount == Min({x, y})
<1>1. x \in Nat \ {0} /\ y \in Nat \ {0}
  BY OpenFacts
<1>2. amount = CHOOSE z \in {x, y} : \A w \in {x, y} : z <= w
  BY DEF Min
<1> HIDE DEF x, y
<1>3. \E z \in {x, y} : \A w \in {x, y} : z <= w
  <2>1. x <= y \/ y <= x
    BY <1>1
  <2>2. x <= x /\ y <= y
    BY <1>1
  <2> QED BY <2>1, <2>2
<1> HIDE DEF amount
<1>4. amount \in {x, y} /\ amount <= x /\ amount <= y
  BY <1>2, <1>3
<1>5. /\ amount \in Nat \ {0}
      /\ amount <= x /\ amount <= y
      /\ amount = x \/ amount = y
  BY <1>1, <1>4
<1> QED BY <1>5 DEF amount, x, y

LEMMA NextPair ==
  ASSUME IInv, Pair
  PROVE  IInv'
<1> DEFINE c == Foremost(creditors)
           d == Foremost(debtors)
           amount == Min({creditors[c], debtors[d]})
           t == [from |-> d, to |-> c, amount |-> amount]
<1>1. /\ net \in [Members -> Int] /\ net' = net
      /\ Open(creditors) /\ Open(debtors)
      /\ DOMAIN creditors # {} /\ DOMAIN debtors # {}
      /\ transfers \in Seq(Transfers) /\ transfers' = Append(transfers, t)
      /\ creditors' = Less(creditors, c, amount)
      /\ debtors' = Less(debtors, d, amount)
      /\ pc = "pair" /\ pc' = "pair"
  BY DEF IInv, TypeOK, Pair
<1>2. c \in DOMAIN creditors /\ d \in DOMAIN debtors
  BY <1>1, ForemostIs
<1>3. /\ amount \in Nat \ {0}
      /\ amount <= creditors[c] /\ amount <= debtors[d]
      /\ amount = creditors[c] \/ amount = debtors[d]
  BY <1>1, <1>2, SmallerOfTwo
<1>4. /\ c \in Members /\ d \in Members /\ net[c] > 0 /\ net[d] < 0
      /\ t \in Transfers
  <2>1. c \in Members /\ d \in Members /\ net[c] > 0 /\ net[d] < 0
    BY <1>1, <1>2, OpenFacts DEF IInv, Sided
  <2> HIDE DEF c, d, amount
  <2> QED BY <1>3, <2>1 DEF Transfers
<1> HIDE DEF c, d, amount
<1>5. /\ Taken(creditors, creditors', c, amount)
      /\ Taken(debtors, debtors', d, amount)
  BY <1>1, <1>2, <1>3, LessIs
<1>6. Open(creditors') /\ Open(debtors')
  BY <1>5 DEF Taken
<1>7. TypeOK'
  <2> HIDE DEF t
  <2>1. transfers' \in Seq(Transfers)
    BY <1>1, <1>4
  <2> QED BY <1>1, <1>6, <2>1 DEF TypeOK
<1>8. Sided'
  <2>1. DOMAIN creditors' \subseteq DOMAIN creditors
        /\ DOMAIN debtors' \subseteq DOMAIN debtors
    BY <1>5 DEF Taken
  <2>2. /\ t.from = d /\ t.to = c
        /\ \A i \in DOMAIN transfers' :
             (i \in DOMAIN transfers /\ transfers'[i] = transfers[i])
             \/ transfers'[i] = t
    <3>1. t.from = d /\ t.to = c
      OBVIOUS
    <3> HIDE DEF t
    <3> QED BY <1>1, <3>1
  <2> HIDE DEF t
  <2> QED BY <1>1, <1>4, <2>1, <2>2 DEF IInv, Sided
<1>9. OnTrack'
  <2>1. SumOf(creditors') = SumOf(debtors')
    BY <1>1, <1>5 DEF IInv, OnTrack, Planning, Taken
  <2>2. ASSUME NEW m \in Members
        PROVE  net'[m] + Moved(transfers', m)
                 = StillOpen(creditors', m) - StillOpen(debtors', m)
    <3> DEFINE before == Moved(transfers, m)
               x == StillOpen(creditors, m)
               y == StillOpen(debtors, m)
               gain == IF m = c THEN amount ELSE 0
               pay == IF m = d THEN amount ELSE 0
    <3>1. Moved(transfers', m) = before + Part(t, m)
      <4> HIDE DEF t
      <4> QED BY <1>1, <1>4, MovedByOne
    <3>2. Part(t, m) = pay - gain
      BY DEF Part
    <3>3. net[m] + before = x - y
      BY <1>1 DEF IInv, OnTrack, Planning
    <3>4. net[m] \in Int /\ before \in Int
      BY <1>1, PlanFacts
    <3>5. x \in Nat /\ y \in Nat
      BY <1>1, OpenFacts
    <3>6. StillOpen(creditors', m) = x - gain /\ StillOpen(debtors', m) = y - pay
      BY <1>5 DEF Taken
    <3>7. gain \in Int /\ pay \in Int
      BY <1>3
    <3> HIDE DEF t, before, x, y, gain, pay
    <3>8. net[m] + (before + (pay - gain)) = (x - gain) - (y - pay)
      BY <3>3, <3>4, <3>5, <3>7
    <3> QED BY <1>1, <3>1, <3>2, <3>6, <3>8
  <2> QED BY <1>1, <2>1, <2>2 DEF OnTrack
<1>10. Shrinking'
  <2> DEFINE x == Cardinality(DOMAIN creditors)
             y == Cardinality(DOMAIN debtors)
             k == Cardinality(Involved)
  <2>1. x \in Nat /\ y \in Nat /\ x # 0 /\ y # 0 /\ Len(transfers) \in Nat
    BY <1>1, OpenFacts, FS_EmptySet
  <2>2. k \in Nat
    <3>1. IsFiniteSet(Involved)
      BY MembersAssumption, FS_Subset DEF Involved
    <3> QED BY <3>1, FS_CardinalityType
  <2>3. Len(transfers) + (x + y) <= k
    BY <1>1 DEF IInv, Shrinking, Planning
  <2>4. Len(transfers') = Len(transfers) + 1 /\ Involved' = Involved
    <3> HIDE DEF t
    <3> QED BY <1>1 DEF Involved
  <2> DEFINE a == Cardinality(DOMAIN creditors')
             b == Cardinality(DOMAIN debtors')
  <2>5. /\ a = x - (IF creditors[c] = amount THEN 1 ELSE 0)
        /\ b = y - (IF debtors[d] = amount THEN 1 ELSE 0)
    BY <1>5 DEF Taken
  <2> HIDE DEF a, b, x, y, k
  <2>6. Len(transfers') + (a + b) <= k
    BY <1>3, <2>1, <2>2, <2>3, <2>4, <2>5
  <2>7. a + b = 0 => Len(transfers') < k
    BY <1>3, <2>1, <2>2, <2>3, <2>4, <2>5
  <2> QED BY <1>1, <2>4, <2>6, <2>7 DEF Shrinking, Planning, a, b, k
<1> QED BY <1>7, <1>8, <1>9, <1>10 DEF IInv

LEMMA NextIInv == IInv /\ [Next]_vars => IInv'
<1> SUFFICES ASSUME IInv, [Next]_vars PROVE IInv'
  OBVIOUS
<1>1. CASE UNCHANGED vars
  <2>1. TypeOK'
    BY <1>1 DEF IInv, vars, TypeOK
  <2>2. OnTrack' /\ Sided' /\ Shrinking'
    BY <1>1 DEF IInv, vars, OnTrack, Sided, Shrinking, Planning, Involved
  <2> QED BY <2>1, <2>2 DEF IInv
<1> QED BY <1>1, NextRefuse, NextTakeSides, NextPair DEF Next

(* The state of the loop keeps its shape and its promises.                 *)
THEOREM Invariance == Spec => []IInv
  BY InitIInv, NextIInv, PTL DEF Spec

(* What is open is open by more than nothing: no transfer of zero or less  *)
(* is ever planned (Simplify::debts).                                      *)
THEOREM TypeCorrect == Spec => []TypeOK
<1>1. IInv => TypeOK
  BY DEF IInv
<1> QED BY <1>1, Invariance, PTL

-----------------------------------------------------------------------------
(* What follows.                                                           *)

(* A finished plan leaves everyone square, whatever the balances were: if  *)
(* one side has run out, the other, which is open by as much, has too.     *)
THEOREM PlansSettle == Spec => []PlanSettles
<1>1. ASSUME IInv PROVE PlanSettles
  <2> SUFFICES ASSUME pc = "done", NEW m \in Members
               PROVE  net[m] + Moved(transfers, m) = 0
    BY DEF PlanSettles
  <2>1. Open(creditors) /\ Open(debtors) /\ SumOf(creditors) = SumOf(debtors)
    BY <1>1 DEF IInv, TypeOK, OnTrack, Planning
  <2>2. \A f : DOMAIN f = {} => SumOf(f) = 0
    BY SumOfIs, SumEmpty
  <2>3. DOMAIN creditors = {} /\ DOMAIN debtors = {}
    BY <1>1, <2>1, <2>2, SumOfOpen DEF IInv, OnTrack
  <2>4. StillOpen(creditors, m) = 0 /\ StillOpen(debtors, m) = 0
    BY <2>3 DEF StillOpen
  <2> QED BY <1>1, <2>4 DEF IInv, OnTrack, Planning
<1> QED BY <1>1, Invariance, PTL

(* A debtor only pays and a creditor only receives, and there are fewer    *)
(* transfers than people with a balance (Simplify::debts, simplifyDebts).  *)
THEOREM PlansAreLean == Spec => []PlanIsLean
<1>1. ASSUME IInv PROVE PlanIsLean
  <2>1. ASSUME transfers # <<>> PROVE Len(transfers) < Cardinality(Involved)
    <3> DEFINE open == Cardinality(DOMAIN creditors) + Cardinality(DOMAIN debtors)
    <3>1. open \in Nat
      BY <1>1, OpenFacts DEF IInv, TypeOK
    <3>2. Cardinality(Involved) \in Nat /\ Len(transfers) \in Nat
      <4>1. IsFiniteSet(Involved)
        BY MembersAssumption, FS_Subset DEF Involved
      <4> QED BY <1>1, <4>1, FS_CardinalityType DEF IInv, TypeOK
    <3>3. /\ Len(transfers) + open <= Cardinality(Involved)
          /\ open = 0 => Len(transfers) < Cardinality(Involved)
      BY <1>1, <2>1 DEF IInv, Shrinking
    <3> HIDE DEF open
    <3> QED BY <3>1, <3>2, <3>3
  <2> QED BY <1>1, <2>1 DEF IInv, Sided, PlanIsLean
<1> QED BY <1>1, Invariance, PTL

(* A transfer squares the debtor or the creditor, whichever is open by     *)
(* less.                                                                   *)
LEMMA PairSquares ==
  ASSUME IInv, Pair
  PROVE  Cardinality(DOMAIN creditors') + Cardinality(DOMAIN debtors')
           < Cardinality(DOMAIN creditors) + Cardinality(DOMAIN debtors)
<1> DEFINE c == Foremost(creditors)
           d == Foremost(debtors)
           amount == Min({creditors[c], debtors[d]})
<1>1. /\ Open(creditors) /\ Open(debtors)
      /\ DOMAIN creditors # {} /\ DOMAIN debtors # {}
      /\ creditors' = Less(creditors, c, amount)
      /\ debtors' = Less(debtors, d, amount)
  BY DEF IInv, TypeOK, Pair
<1>2. c \in DOMAIN creditors /\ d \in DOMAIN debtors
  BY <1>1, ForemostIs
<1>3. /\ amount \in Nat \ {0}
      /\ amount <= creditors[c] /\ amount <= debtors[d]
      /\ amount = creditors[c] \/ amount = debtors[d]
  BY <1>1, <1>2, SmallerOfTwo
<1> HIDE DEF c, d, amount
<1>4. /\ Taken(creditors, creditors', c, amount)
      /\ Taken(debtors, debtors', d, amount)
  BY <1>1, <1>2, <1>3, LessIs
<1> DEFINE x == Cardinality(DOMAIN creditors)
           y == Cardinality(DOMAIN debtors)
           a == Cardinality(DOMAIN creditors')
           b == Cardinality(DOMAIN debtors')
<1>5. x \in Nat /\ y \in Nat
  BY <1>1, OpenFacts
<1>6. /\ a = x - (IF creditors[c] = amount THEN 1 ELSE 0)
      /\ b = y - (IF debtors[d] = amount THEN 1 ELSE 0)
  BY <1>4 DEF Taken
<1> HIDE DEF a, b, x, y
<1>7. a + b < x + y
  BY <1>3, <1>5, <1>6
<1> QED BY <1>7 DEF a, b, x, y

(* Simplify::debts ends, for any people and balances: no step but brings   *)
(* the loop nearer to its end, of which it is never further away than by   *)
(* two steps and one for everybody who owes or is owed.                    *)
THEOREM LoopCountsDown == Spec => [](StepsLeft \in Nat) /\ CountsDown
<1>1. ASSUME IInv
      PROVE  /\ StepsLeft \in Nat
             /\ Cardinality(Involved) \in Nat
             /\ Cardinality(DOMAIN creditors) + Cardinality(DOMAIN debtors) \in Nat
  <2>1. /\ Cardinality(DOMAIN creditors) \in Nat
        /\ Cardinality(DOMAIN debtors) \in Nat
    BY <1>1, OpenFacts DEF IInv, TypeOK
  <2>2. Cardinality(Involved) \in Nat
    <3>1. IsFiniteSet(Involved)
      BY MembersAssumption, FS_Subset DEF Involved
    <3> QED BY <3>1, FS_CardinalityType
  <2> DEFINE x == Cardinality(DOMAIN creditors)
             y == Cardinality(DOMAIN debtors)
             k == Cardinality(Involved)
  <2>3. StepsLeft = IF pc = "check" THEN k + 2
                    ELSE IF pc = "pair" THEN x + y + 1 ELSE 0
    BY DEF StepsLeft
  <2> HIDE DEF x, y, k
  <2>4. x \in Nat /\ y \in Nat /\ k \in Nat
    BY <2>1, <2>2 DEF x, y, k
  <2>5. StepsLeft \in Nat /\ k \in Nat /\ x + y \in Nat
    BY <2>3, <2>4
  <2> QED BY <2>5 DEF x, y, k
<1>2. ASSUME IInv, Next PROVE StepsLeft' < StepsLeft
  <2> DEFINE k == Cardinality(Involved)
             open == Cardinality(DOMAIN creditors) + Cardinality(DOMAIN debtors)
             left == Cardinality(DOMAIN creditors') + Cardinality(DOMAIN debtors')
  <2>1. /\ StepsLeft = IF pc = "check" THEN k + 2
                       ELSE IF pc = "pair" THEN open + 1 ELSE 0
        /\ StepsLeft' = IF pc' = "check" THEN Cardinality(Involved') + 2
                        ELSE IF pc' = "pair" THEN left + 1 ELSE 0
    BY DEF StepsLeft
  <2>2. k \in Nat /\ open \in Nat
    BY <1>1, <1>2
  <2>3. IInv'
    BY <1>2, NextIInv
  <2>4. CASE Refuse \/ Stop
    <3>1. pc \in {"check", "pair"} /\ pc' \in {"refused", "done"}
      BY <2>4 DEF Refuse, Stop
    <3> HIDE DEF k, open, left
    <3> QED BY <2>1, <2>2, <3>1
  <2>5. CASE TakeSides
    <3>1. pc = "check" /\ pc' = "pair" /\ Involved' = Involved
          /\ transfers' = transfers
      BY <2>5 DEF TakeSides, Involved
    <3>2. transfers' = <<>>
      BY <1>2, <3>1 DEF IInv, Shrinking, Planning
    <3>3. Len(transfers') + left <= k
      BY <2>3, <3>1 DEF IInv, Shrinking, Planning
    <3>4. left \in Nat
      BY <2>3, OpenFacts DEF IInv, TypeOK
    <3> HIDE DEF k, open, left
    <3>5. Len(transfers') = 0
      BY <3>2
    <3>6. left <= k
      BY <3>3, <3>4, <3>5
    <3> QED BY <2>1, <2>2, <3>1, <3>4, <3>6
  <2>6. CASE Pair
    <3>1. pc = "pair" /\ pc' = "pair"
      BY <2>6 DEF Pair
    <3>2. left < open
      BY <1>2, <2>6, PairSquares
    <3>3. left \in Nat
      BY <2>3, OpenFacts DEF IInv, TypeOK
    <3> HIDE DEF k, open, left
    <3> QED BY <2>1, <2>2, <3>1, <3>2, <3>3
  <2> QED BY <1>2, <2>4, <2>5, <2>6 DEF Next
<1>3. IInv /\ [Next]_vars => [StepsLeft' < StepsLeft]_vars
  BY <1>2
<1>4. IInv => StepsLeft \in Nat
  BY <1>1
<1> QED BY <1>3, <1>4, Invariance, PTL DEF Spec, CountsDown


=============================================================================

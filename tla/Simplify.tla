------------------------------ MODULE Simplify ------------------------------
(***************************************************************************)
(* Debt simplification: who pays whom so that everyone in a group is       *)
(* square.  The greedy loop of Simplify::debts (and of its TypeScript twin *)
(* simplifyDebts), one transfer a step.                                    *)
(***************************************************************************)
EXTENDS Integers, Sequences, FiniteSetsExt

CONSTANTS
  Members,  \* ids; their order is the one ties are broken by
  Nets      \* the net balances the instance tries, cancelling out or not

ASSUME MembersAssumption == Members \subseteq Int /\ IsFiniteSet(Members)
ASSUME NetsAssumption == Nets \subseteq [Members -> Int]

VARIABLES
  net,        \* the argument: positive means is owed
  creditors,  \* id -> what it is still owed, more than nothing
  debtors,    \* id -> what it still owes, more than nothing
  transfers,  \* the plan so far
  pc          \* "check", "pair", "done" or "refused"

vars == <<net, creditors, debtors, transfers, pc>>

Transfers == [from : Members, to : Members, amount : Nat \ {0}]

(* Amounts still open: never zero, never negative.                         *)
Open(f) == f \in [DOMAIN f -> Nat \ {0}] /\ DOMAIN f \subseteq Members

TypeOK ==
  /\ net \in [Members -> Int]
  /\ Open(creditors) /\ Open(debtors)
  /\ transfers \in Seq(Transfers)
  /\ pc \in {"check", "pair", "done", "refused"}

Init ==
  /\ net \in Nets
  /\ creditors = <<>>
  /\ debtors = <<>>
  /\ transfers = <<>>
  /\ pc = "check"

-----------------------------------------------------------------------------
SumOf(f) == MapThenSumSet(LAMBDA m : f[m], DOMAIN f)

(* Not the code: only a surplus is refused.                                *)
RefuseSurplus ==
  /\ pc = "check"
  /\ SumOf(net) > 0
  /\ pc' = "refused"
  /\ UNCHANGED <<net, creditors, debtors, transfers>>

(* "net balances sum to {$sum}, expected 0".                               *)
Refuse ==
  /\ pc = "check"
  /\ SumOf(net) # 0
  /\ pc' = "refused"
  /\ UNCHANGED <<net, creditors, debtors, transfers>>

(* Everyone with a balance goes to one side or the other.                  *)
TakeSides ==
  /\ pc = "check"
  /\ SumOf(net) = 0
  /\ creditors' = [m \in {n \in Members : net[n] > 0} |-> net[m]]
  /\ debtors' = [m \in {n \in Members : net[n] < 0} |-> -net[m]]
  /\ pc' = "pair"
  /\ UNCHANGED <<net, transfers>>

(* Largest amount first, the smaller id of two that are level.             *)
Foremost(f) ==
  CHOOSE m \in DOMAIN f : \A n \in DOMAIN f :
    f[n] < f[m] \/ (f[n] = f[m] /\ m <= n)

(* What is left of f after m's share of it has gone down by amount.        *)
Less(f, m, amount) ==
  [n \in {k \in DOMAIN f : k # m \/ f[k] # amount} |->
     IF n = m THEN f[n] - amount ELSE f[n]]

(* Not the code: from and to the wrong way round.                          *)
PairBackwards ==
  LET c == Foremost(creditors)
      d == Foremost(debtors)
      amount == Min({creditors[c], debtors[d]})
  IN  /\ pc = "pair"
      /\ DOMAIN creditors # {} /\ DOMAIN debtors # {}
      /\ transfers' = Append(transfers, [from |-> c, to |-> d, amount |-> amount])
      /\ creditors' = Less(creditors, c, amount)
      /\ debtors' = Less(debtors, d, amount)
      /\ UNCHANGED <<net, pc>>

Pair ==
  LET c == Foremost(creditors)
      d == Foremost(debtors)
      amount == Min({creditors[c], debtors[d]})
  IN  /\ pc = "pair"
      /\ DOMAIN creditors # {} /\ DOMAIN debtors # {}
      /\ transfers' = Append(transfers, [from |-> d, to |-> c, amount |-> amount])
      /\ creditors' = Less(creditors, c, amount)
      /\ debtors' = Less(debtors, d, amount)
      /\ UNCHANGED <<net, pc>>

(* Not the code: the last creditor is taken to be paid.                    *)
StopEarly ==
  /\ pc = "pair"
  /\ Cardinality(DOMAIN creditors) <= 1 \/ DOMAIN debtors = {}
  /\ pc' = "done"
  /\ UNCHANGED <<net, creditors, debtors, transfers>>

Stop ==
  /\ pc = "pair"
  /\ DOMAIN creditors = {} \/ DOMAIN debtors = {}
  /\ pc' = "done"
  /\ UNCHANGED <<net, creditors, debtors, transfers>>

Next == Refuse \/ TakeSides \/ Pair \/ Stop

Spec == Init /\ [][Next]_vars /\ WF_vars(Next)

-----------------------------------------------------------------------------
(* What a plan tells m to pay, less what it tells others to pay m.         *)
Part(t, m) ==
  (IF t.from = m THEN t.amount ELSE 0) - (IF t.to = m THEN t.amount ELSE 0)

Moved(plan, m) == MapThenSumSet(LAMBDA i : Part(plan[i], m), DOMAIN plan)

Involved == {m \in Members : net[m] # 0}

(* A finished plan, carried out, leaves everyone square, ex-members too.   *)
PlanSettles == pc = "done" => \A m \in Members : net[m] + Moved(transfers, m) = 0

(* Nobody is asked to do more than pay what they owe: a debtor only pays,  *)
(* a creditor only receives, and every transfer squares one of its sides,  *)
(* so that there are fewer of them than people involved.                   *)
PlanIsLean ==
  /\ \A i \in DOMAIN transfers :
       net[transfers[i].from] < 0 /\ net[transfers[i].to] > 0
  /\ transfers # <<>> =>
       Len(transfers) < Cardinality(Involved)

(* The loop ends, with a plan or a refusal.                                *)
Terminates == <>(pc \in {"done", "refused"})

-----------------------------------------------------------------------------
(***************************************************************************)
(* What makes a finished plan right: after every transfer, what has moved  *)
(* and what is still open make up the balance.                             *)
(***************************************************************************)
StillOpen(f, m) == IF m \in DOMAIN f THEN f[m] ELSE 0

Planning == pc \in {"pair", "done"}

OnTrack ==
  /\ Planning =>
       /\ SumOf(creditors) = SumOf(debtors)
       /\ \A m \in Members :
            net[m] + Moved(transfers, m)
              = StillOpen(creditors, m) - StillOpen(debtors, m)
  /\ pc = "done" => DOMAIN creditors = {} \/ DOMAIN debtors = {}

(* Everyone is on the side of their balance.                               *)
Sided ==
  /\ \A m \in DOMAIN creditors : net[m] > 0
  /\ \A m \in DOMAIN debtors : net[m] < 0
  /\ \A i \in DOMAIN transfers :
       net[transfers[i].from] < 0 /\ net[transfers[i].to] > 0

(* Every transfer squares someone, and the last one squares two.           *)
Shrinking ==
  LET open == Cardinality(DOMAIN creditors) + Cardinality(DOMAIN debtors)
  IN  /\ Planning => Len(transfers) + open <= Cardinality(Involved)
      /\ ~Planning => transfers = <<>>
      /\ transfers # <<>> /\ open = 0 => Len(transfers) < Cardinality(Involved)

IInv == TypeOK /\ OnTrack /\ Sided /\ Shrinking

(* How many steps the loop can still take at most: one to take sides, one  *)
(* for everybody who is open, one to stop.                                 *)
StepsLeft ==
  IF pc = "check" THEN Cardinality(Involved) + 2
  ELSE IF pc = "pair"
       THEN Cardinality(DOMAIN creditors) + Cardinality(DOMAIN debtors) + 1
       ELSE 0

(* The part of Terminates that is safety: every pass of the loop gets      *)
(* nearer to its end, for a transfer always squares somebody.              *)
CountsDown == [][StepsLeft' < StepsLeft]_vars

-----------------------------------------------------------------------------
(***************************************************************************)
(* "minimum number of transfers to settle everyone up".  A plan falls into *)
(* circles of people whose nets cancel among themselves; k people in j     *)
(* circles need k - j transfers, so fewer are possible exactly when the    *)
(* people involved can be divided into more such circles.                  *)
(***************************************************************************)
Square(S) == S # {} /\ MapThenSumSet(LAMBDA m : net[m], S) = 0

Divides(P) ==
  /\ UNION P = Involved
  /\ \A S, T \in P : S # T => S \cap T = {}
  /\ \A S \in P : Square(S)

FewestTransfers ==
  pc = "done" =>
    LET Circles == {S \in SUBSET Involved : Square(S)}
    IN  \A P \in SUBSET Circles :
          Divides(P) => Len(transfers) <= Cardinality(Involved) - Cardinality(P)

=============================================================================

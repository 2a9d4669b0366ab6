------------------------- MODULE ExpenseForm_proofs -------------------------
(***************************************************************************)
(* For any group, any currencies, receipts and number of presses: an       *)
(* expense is filed once, a cancelled scan stays out of the line, the      *)
(* fields hold what they may, a split by item and a change of currency     *)
(* reconcile to the unit, and what was filed reopens as it was.  Then the  *)
(* sheet of "Split by item" by itself.                                     *)
(* In between, the arithmetic of Money: what apportion and its callers     *)
(* return for every total, every set of weights and every set of members.  *)
(***************************************************************************)
EXTENDS ExpenseForm, AssignItems, Sums, TLAPS

(* What may be in the group already are expenses apart from one another.   *)
HeldApart == \A a, b \in Held : Twins(a, b) => a = b

(* A request is a record of what was sent.                                 *)
Requests ==
  \A r \in requests :
    r = [n |-> r.n, stage |-> r.stage, allow |-> r.allow, body |-> r.body]

IInv == Requests /\ OneSaveAtATime /\ ClearOfTwins /\ FiledOnceUnlessConfirmed

LEMMA TwinsEitherWay ==
  ASSUME NEW a, NEW b
  PROVE  Twins(a, b) <=> Twins(b, a)
  BY DEF Twins

LEMMA InitIInv == HeldApart /\ Init => IInv
<1> SUFFICES ASSUME HeldApart, Init PROVE IInv
  OBVIOUS
<1>1. Requests /\ OneSaveAtATime
  BY DEF Init, Requests, OneSaveAtATime
<1>2. PICK there \in IF editing = None THEN SUBSET Held ELSE {{editing}} :
        filed = {[n |-> 0, allow |-> FALSE, body |-> e] : e \in there}
  BY DEF Init
<1>3. ClearOfTwins
  BY <1>2 DEF Init, ClearOfTwins
<1>4. FiledOnceUnlessConfirmed
  <2> SUFFICES ASSUME NEW f \in filed, NEW g \in filed, Twins(f.body, g.body)
               PROVE  f = g
    BY DEF FiledOnceUnlessConfirmed
  <2>1. PICK a \in there : f = [n |-> 0, allow |-> FALSE, body |-> a]
    BY <1>2
  <2>2. PICK b \in there : g = [n |-> 0, allow |-> FALSE, body |-> b]
    BY <1>2
  <2>3. a = b
    <3>1. CASE editing = None
      <4>1. a \in Held /\ b \in Held
        BY <1>2, <3>1
      <4> QED BY <2>1, <2>2, <4>1 DEF HeldApart
    <3>2. CASE editing # None
      BY <1>2, <3>2
    <3> QED BY <3>1, <3>2
  <2> QED BY <2>1, <2>2, <2>3
<1> QED BY <1>1, <1>3, <1>4 DEF IInv

(* Filling in, scanning and assigning file nothing and send nothing.       *)
Elsewhere == UNCHANGED <<editing, filing>>

LEMMA ElsewhereKeeps == IInv /\ Elsewhere => IInv'
  BY DEF IInv, Elsewhere, Requests, OneSaveAtATime, ClearOfTwins, FiledOnceUnlessConfirmed,
     filing, Twins

LEMMA StepsElsewhere ==
  \/ TypeAmount \/ Describe \/ PickCurrency
  \/ ChoosePayer \/ ManyPayers \/ PayerFields
  \/ PickMethod \/ Include \/ TypeShare
  \/ SplitByItem \/ AssignDone
  \/ onScanFile \/ onRescan \/ Prepared
  \/ ScanAnswered \/ ScanFailed \/ Queued \/ awaitTurn \/ WaitedTooLong
  \/ Cancel
  => Elsewhere
<1>1. TypeAmount \/ Describe \/ PickCurrency \/ ChoosePayer \/ ManyPayers
      \/ PayerFields \/ PickMethod \/ Include \/ TypeShare => Elsewhere
  BY DEF Elsewhere, TypeAmount, Describe, PickCurrency, ChoosePayer, ManyPayers,
     PayerFields, PickMethod, Include, TypeShare, Edit
<1>2. SplitByItem \/ AssignDone => Elsewhere
  BY DEF Elsewhere, SplitByItem, AssignDone
<1>3. onScanFile \/ onRescan \/ Prepared \/ ScanAnswered \/ ScanFailed
      \/ Queued \/ awaitTurn \/ WaitedTooLong \/ Cancel => Elsewhere
  BY DEF Elsewhere, onScanFile, onRescan, Prepared, ScanAnswered, ScanFailed,
     Queued, awaitTurn, WaitedTooLong, Cancel, abort, waitCancel, sleep,
     sleepUnless, StartScan, ScanStep
<1> QED BY <1>1, <1>2, <1>3

LEMMA SubmitKeeps == IInv /\ submit => IInv'
<1> SUFFICES ASSUME IInv, submit PROVE IInv'
  OBVIOUS
<1> DEFINE r == [n |-> saves + 1, stage |-> "sent", allow |-> allowDuplicate,
                 body |-> payload(form)]
<1>1. requests = {} /\ requests' = {r} /\ saving' = TRUE
  BY DEF submit, Send, IInv, OneSaveAtATime
<1>2. UNCHANGED <<editing, filed>>
  BY DEF submit, Send
<1>3. r.stage = "sent" /\ r = [n |-> r.n, stage |-> r.stage, allow |-> r.allow,
                               body |-> r.body]
  OBVIOUS
<1> HIDE DEF r
<1> QED BY <1>1, <1>2, <1>3 DEF IInv, Requests, OneSaveAtATime, ClearOfTwins,
        FiledOnceUnlessConfirmed, Twins

(* The request of a step is the only one there is.                         *)
LEMMA AloneOut == OneSaveAtATime => \A r \in requests : requests = {r}
  BY DEF OneSaveAtATime

LEMMA Moved ==
  ASSUME Requests, OneSaveAtATime, NEW r \in requests, NEW stage
  PROVE  \E s : /\ Move(r, stage) = {s}
               /\ s = [n |-> s.n, stage |-> s.stage, allow |-> s.allow,
                       body |-> s.body]
               /\ s.stage = stage /\ s.allow = r.allow /\ s.body = r.body
<1> DEFINE s == [n |-> r.n, stage |-> stage, allow |-> r.allow, body |-> r.body]
<1>1. [r EXCEPT !.stage = stage] = s
  BY DEF Requests
<1>2. Move(r, stage) = {s}
  BY <1>1, AloneOut DEF Move
<1>3. s = [n |-> s.n, stage |-> s.stage, allow |-> s.allow, body |-> s.body]
  OBVIOUS
<1>4. s.stage = stage /\ s.allow = r.allow /\ s.body = r.body
  OBVIOUS
<1> HIDE DEF s
<1> QED BY <1>2, <1>3, <1>4

LEMMA LookUpKeeps == ASSUME IInv, NEW r \in requests, LookUp(r) PROVE IInv'
<1> DEFINE twin == /\ editing = None /\ ~r.allow
                   /\ \E f \in filed : Twins(f.body, r.body)
<1>1. PICK s : /\ requests' = {s}
               /\ s = [n |-> s.n, stage |-> s.stage, allow |-> s.allow,
                       body |-> s.body]
               /\ s.stage = (IF twin THEN "twin" ELSE "clear")
               /\ s.allow = r.allow /\ s.body = r.body
  BY Moved DEF LookUp, IInv
<1>2. UNCHANGED <<editing, saving, filed>>
  BY DEF LookUp
<1>3. saving
  BY DEF IInv, OneSaveAtATime
<1>4. FiledOnceUnlessConfirmed'
  BY <1>2 DEF IInv, FiledOnceUnlessConfirmed, Twins
<1>5. ClearOfTwins'
  BY <1>1, <1>2 DEF IInv, ClearOfTwins, Twins
<1> QED BY <1>1, <1>2, <1>3, <1>4, <1>5 DEF IInv, Requests, OneSaveAtATime

(* A new row beside the others, or an edited one in the place of the old.  *)
LEMMA StoreKeeps == ASSUME IInv, NEW r \in requests, Store(r) PROVE IInv'
<1>1. PICK s : /\ requests' = {s}
               /\ s = [n |-> s.n, stage |-> s.stage, allow |-> s.allow,
                       body |-> s.body]
               /\ s.stage = "stored"
  BY Moved DEF Store, IInv
<1> DEFINE row == [n |-> r.n, allow |-> r.allow, body |-> r.body]
<1>2. /\ UNCHANGED <<editing, saving>>
      /\ filed' = (IF editing = None THEN filed ELSE {}) \cup {row}
  BY DEF Store
<1>3. r.allow \/ (editing = None => \A f \in filed : ~Twins(f.body, row.body))
  BY DEF IInv, ClearOfTwins, Store
<1>4. saving
  BY DEF IInv, OneSaveAtATime
<1>5. FiledOnceUnlessConfirmed'
  <2> SUFFICES ASSUME NEW a \in filed', NEW b \in filed', a # b,
                      Twins(a.body, b.body)
               PROVE  a.allow \/ b.allow
    BY DEF FiledOnceUnlessConfirmed, Twins
  <2>1. CASE a = row
    BY <1>2, <1>3, <2>1, TwinsEitherWay
  <2>2. CASE b = row
    BY <1>2, <1>3, <2>2
  <2>3. CASE a # row /\ b # row
    BY <1>2, <2>3 DEF IInv, FiledOnceUnlessConfirmed
  <2> QED BY <2>1, <2>2, <2>3
<1>6. ClearOfTwins'
  BY <1>1, <1>2 DEF ClearOfTwins
<1> QED BY <1>1, <1>2, <1>4, <1>5, <1>6 DEF IInv, Requests, OneSaveAtATime

LEMMA AnswerKeeps ==
  ASSUME IInv, NEW r \in requests, Answered(r) \/ Failed(r) PROVE IInv'
<1>1. requests' = {} /\ ~saving' /\ UNCHANGED <<editing, filed>>
  BY AloneOut DEF Answered, Failed, IInv
<1> QED BY <1>1 DEF IInv, Requests, OneSaveAtATime, ClearOfTwins,
        FiledOnceUnlessConfirmed, Twins

LEMMA NextIInv == IInv /\ [Next]_vars => IInv'
<1> SUFFICES ASSUME IInv, [Next]_vars PROVE IInv'
  OBVIOUS
<1>1. CASE UNCHANGED vars
  BY <1>1, ElsewhereKeeps DEF Elsewhere, vars, filing
<1>2. CASE submit
  BY <1>2, SubmitKeeps
<1>3. ASSUME NEW r \in requests, LookUp(r) \/ Store(r) \/ Answered(r) \/ Failed(r)
      PROVE  IInv'
  BY <1>3, LookUpKeeps, StoreKeeps, AnswerKeeps
<1> QED BY <1>1, <1>2, <1>3, StepsElsewhere, ElsewhereKeeps DEF Next

(* Issue #76: whatever is typed, whichever answers are lost and however    *)
(* often Save is pressed, an expense that looks like one there already was *)
(* filed by a press of "Add it anyway".                                    *)
THEOREM FiledOnce ==
  ASSUME HeldApart
  PROVE  Spec => []FiledOnceUnlessConfirmed
<1>1. Init => IInv
  BY InitIInv
<1>2. IInv => FiledOnceUnlessConfirmed
  BY DEF IInv
<1> QED BY <1>1, <1>2, NextIInv, PTL DEF Spec

-----------------------------------------------------------------------------
(* The part of TypeOK the argument needs.                                  *)
Stages == {"idle", "prepare", "upload", "line", "asking"}
ScanTypeOK ==
  /\ scan \in [stage : Stages, cancelled : BOOLEAN, photo : Nat]
  /\ receiptId \in Nat \cup {None}
  /\ edits \in Nat

LEMMA ScanMoves ==
  ASSUME ScanTypeOK, NEW stage \in Stages
  PROVE  /\ Scan(stage) \in [stage : Stages, cancelled : BOOLEAN, photo : Nat]
         /\ Scan(stage).stage = stage
         /\ Scan(stage).cancelled = scan.cancelled
         /\ [scan EXCEPT !.cancelled = TRUE]
              \in [stage : Stages, cancelled : BOOLEAN, photo : Nat]
         /\ [scan EXCEPT !.cancelled = TRUE].stage = scan.stage
  BY DEF ScanTypeOK, Scan

LEMMA NextStaysOut ==
  ScanTypeOK /\ CancelledStaysOut /\ [Next]_vars
  => (ScanTypeOK /\ CancelledStaysOut)'
<1> SUFFICES ASSUME ScanTypeOK, CancelledStaysOut, [Next]_vars
             PROVE  (ScanTypeOK /\ CancelledStaysOut)'
  OBVIOUS
<1> USE ScanMoves
<1>1. CASE UNCHANGED <<client, scan, receiptId, edits>>
  BY <1>1 DEF ScanTypeOK, CancelledStaysOut
<1>2. CASE onScanFile \/ onRescan
  <2>1. PICK stage \in {"prepare", "asking"}, photo \in Nat :
          scan' = [stage |-> stage, cancelled |-> FALSE, photo |-> photo]
    BY <1>2 DEF onScanFile, onRescan, StartScan, ScanTypeOK
  <2>2. receiptId' = receiptId /\ edits' = edits + 1
    BY <1>2 DEF onScanFile, onRescan, StartScan, fields
  <2> QED BY <2>1, <2>2 DEF ScanTypeOK, Stages, CancelledStaysOut
<1>3. ASSUME scan' = NoScan, UNCHANGED edits, receiptId' \in {receiptId, scan.photo}
      PROVE  (ScanTypeOK /\ CancelledStaysOut)'
  BY <1>3 DEF NoScan, ScanTypeOK, Stages, CancelledStaysOut
<1>4. ASSUME ScanStep(NoScan) PROVE (ScanTypeOK /\ CancelledStaysOut)'
  BY <1>3, <1>4 DEF ScanStep, fields
<1>5. ASSUME NEW stage \in Stages, ScanStep(Scan(stage)),
             stage = "line" => client = "web" \/ ~scan.cancelled
      PROVE  (ScanTypeOK /\ CancelledStaysOut)'
  <2>1. scan' = Scan(stage) /\ UNCHANGED <<client, receiptId, edits>>
    BY <1>5 DEF ScanStep, fields
  <2> QED BY <1>5, <2>1 DEF ScanTypeOK, CancelledStaysOut
<1>6. CASE Prepared \/ awaitTurn
  BY <1>4, <1>5, <1>6 DEF Prepared, awaitTurn, Stages
<1>7. CASE Queued
  BY <1>4, <1>5, <1>7 DEF Queued, sleep, sleepUnless, Stages
<1>8. CASE Cancel
  <2>1. CASE scan.stage \in {"upload", "line"}
    BY <1>4, <1>8, <2>1 DEF Cancel, abort, waitCancel
  <2>2. CASE scan.stage \notin {"upload", "line"}
    <3>1. /\ scan' = [scan EXCEPT !.cancelled = TRUE]
          /\ UNCHANGED <<client, receiptId, edits>>
      BY <1>8, <2>2 DEF Cancel, abort, waitCancel, ScanStep, fields
    <3> QED BY <2>2, <3>1 DEF ScanTypeOK, CancelledStaysOut
  <2> QED BY <2>1, <2>2
<1>9. CASE ScanAnswered \/ ScanFailed \/ WaitedTooLong
  BY <1>3, <1>4, <1>9 DEF ScanAnswered, ScanFailed, WaitedTooLong
<1>10. ASSUME NEW f, Edit(f) PROVE (ScanTypeOK /\ CancelledStaysOut)'
  BY <1>10 DEF Edit, ScanTypeOK, CancelledStaysOut
<1>11. CASE \/ TypeAmount \/ Describe \/ PickCurrency \/ ChoosePayer
            \/ ManyPayers \/ PayerFields \/ PickMethod \/ Include \/ TypeShare
  BY <1>10, <1>11 DEF TypeAmount, Describe, PickCurrency, ChoosePayer,
     ManyPayers, PayerFields, PickMethod, Include, TypeShare
<1>12. CASE SplitByItem \/ AssignDone \/ submit
  BY <1>1, <1>12 DEF SplitByItem, AssignDone, submit, Send, fields
<1>13. ASSUME NEW r \in requests,
              LookUp(r) \/ Store(r) \/ Answered(r) \/ Failed(r)
       PROVE  (ScanTypeOK /\ CancelledStaysOut)'
  BY <1>1, <1>13 DEF LookUp, Store, Answered, Failed, fields
<1>14. CASE UNCHANGED vars
  BY <1>1, <1>14 DEF vars, fields
<1> QED BY <1>2, <1>6, <1>7, <1>8, <1>9, <1>11, <1>12, <1>13, <1>14 DEF Next

(* A question cancelled while it was out is not followed by another.       *)
THEOREM StaysOut == Spec => []CancelledStaysOut
<1>1. Init => ScanTypeOK /\ CancelledStaysOut
  BY DEF Init, NoScan, ScanTypeOK, Stages, CancelledStaysOut
<1> QED BY <1>1, NextStaysOut, PTL DEF Spec

-----------------------------------------------------------------------------
(* The arithmetic of Money                                                *)

LEMMA SumOfIs == ASSUME NEW f PROVE SumOf(f) = SumOver(f, DOMAIN f)
  BY DEF SumOf, SumOver

LEMMA ApportionDeals ==
  ASSUME NEW totalMinor, NEW weight
  PROVE  apportion(totalMinor, weight) = Dealt(totalMinor, weight, DOMAIN weight)
<1>1. SumOver(weight, DOMAIN weight) = SumOf(weight)
  BY SumOfIs
<1> DEFINE D == DOMAIN weight
           W == SumOf(weight)
           base == [i \in D |-> (totalMinor * weight[i]) \div W]
           rem == [i \in D |-> (totalMinor * weight[i]) % W]
<1>2. Floors(totalMinor, weight, D) = base /\ Remainders(totalMinor, weight, D) = rem
  BY <1>1 DEF Floors, Remainders
<1>3. SumOver(base, D) = SumOf(base)
  <2>1. DOMAIN base = D
    OBVIOUS
  <2> HIDE DEF base
  <2> QED BY <2>1, SumOfIs
<1> DEFINE Ahead(i) == {j \in D : rem[j] > rem[i] \/ (rem[j] = rem[i] /\ j < i)}
<1>4. apportion(totalMinor, weight)
        = [i \in D |-> base[i] + (IF Cardinality(Ahead(i)) < totalMinor - SumOf(base)
                                  THEN 1 ELSE 0)]
  BY Zenon DEF apportion
<1> HIDE DEF base, rem
<1>5. Dealt(totalMinor, weight, D)
        = [i \in D |-> base[i] + (IF Cardinality(AheadOf(rem, D, i)) < totalMinor - SumOf(base)
                                  THEN 1 ELSE 0)]
  BY <1>2, <1>3, Zenon DEF Dealt, Leftover
<1>6. \A i : AheadOf(rem, D, i) = Ahead(i)
  BY DEF AheadOf
<1> HIDE DEF Ahead
<1> QED BY <1>4, <1>5, <1>6

(* Everyone's part is within a unit of the proportion, and the parts are   *)
(* the whole.                                                              *)
LEMMA Apportioned ==
  ASSUME NEW D \in SUBSET Int, IsFiniteSet(D), NEW weight \in [D -> Nat],
         SumOf(weight) > 0, NEW totalMinor \in Nat
  PROVE  /\ apportion(totalMinor, weight) \in [D -> Nat]
         /\ SumOf(apportion(totalMinor, weight)) = totalMinor
         /\ \A i \in D :
              SumOf(weight) * apportion(totalMinor, weight)[i] - totalMinor * weight[i]
                \in (1 - SumOf(weight)) .. (SumOf(weight) - 1)
<1> DEFINE out == Dealt(totalMinor, weight, D)
<1>1. DOMAIN weight = D /\ DOMAIN out = D
  BY DEF Dealt
<1>2. SumOver(weight, D) = SumOf(weight) /\ SumOver(out, D) = SumOf(out)
  <2> HIDE DEF out
  <2> QED BY <1>1, SumOfIs
<1>3. /\ SumOver(out, D) = totalMinor
      /\ \A i \in D :
           /\ out[i] \in Nat
           /\ SumOf(weight) * out[i] - totalMinor * weight[i]
                \in (1 - SumOf(weight)) .. (SumOf(weight) - 1)
  BY <1>2, Deal
<1>4. apportion(totalMinor, weight) = out
  BY <1>1, ApportionDeals
<1>5. out \in [D -> Nat]
  <2>1. out = [i \in D |-> out[i]]
    BY DEF Dealt
  <2> HIDE DEF out
  <2> QED BY <1>3, <2>1
<1> HIDE DEF out
<1> QED BY <1>2, <1>3, <1>4, <1>5, Zenon

(* Nobody gets more than they weigh if the whole is no more than all do.   *)
LEMMA ApportionedWithin ==
  ASSUME NEW D \in SUBSET Int, IsFiniteSet(D), NEW weight \in [D -> Nat],
         SumOf(weight) > 0, NEW totalMinor \in Nat, totalMinor <= SumOf(weight)
  PROVE  \A i \in D : apportion(totalMinor, weight)[i] <= weight[i]
<1> SUFFICES ASSUME NEW i \in D PROVE apportion(totalMinor, weight)[i] <= weight[i]
  OBVIOUS
<1> DEFINE W == SumOf(weight)
           x == apportion(totalMinor, weight)[i]
           w == weight[i]
<1>1. w \in Nat
  OBVIOUS
<1>2. x \in Nat /\ W * x - totalMinor * w \in (1 - W) .. (W - 1)
  BY Apportioned
<1>3. W \in Nat /\ W > 0
  <2>1. W = SumOver(weight, D)
    BY SumOfIs
  <2> QED BY <2>1, SumOfNats
<1>4. \A a, b, c, t \in Nat : /\ a > 0 /\ t <= a
                           /\ a * b - t * c \in (1 - a) .. (a - 1)
                           => b <= c
  <2> SUFFICES ASSUME NEW a \in Nat, NEW b \in Nat, NEW c \in Nat, NEW t \in Nat,
                      a > 0, t <= a, a * b - t * c <= a - 1, ~(b <= c)
               PROVE  FALSE
    BY Z3
  <2>1. t * c <= a * c
    BY Z3
  <2>2. a * b >= a * (c + 1) /\ a * (c + 1) = a * c + a
    BY Z3
  <2> QED BY <2>1, <2>2, Z3
<1> HIDE DEF W, x, w
<1>5. x <= w
  BY <1>1, <1>2, <1>3, <1>4 DEF W
<1> QED BY <1>5 DEF x, w

(* The two methods that assigning lines uses.                              *)
Weighs(weight, method, given) ==
  \A i \in DOMAIN given : weight[i] = IF method = "shares" THEN given[i] ELSE 1

LEMMA SplitApportions ==
  ASSUME NEW totalMinor \in Nat, NEW method \in {"equal", "shares"},
         NEW given, NEW weight, Weighs(weight, method, given),
         DOMAIN given \in SUBSET Int, IsFiniteSet(DOMAIN given),
         weight \in [DOMAIN given -> Nat], SumOf(weight) > 0
  PROVE  computeSplit(method, totalMinor, given) = apportion(totalMinor, weight)
<1> DEFINE D == DOMAIN given
<1> DEFINE offset == [i \in D |-> IF method = "adjustment" THEN given[i] ELSE 0]
           asked == [i \in D |-> IF method \in {"shares", "percent"} THEN given[i] ELSE 1]
           base == apportion(totalMinor - SumOf(offset), asked)
<1>1. computeSplit(method, totalMinor, given) = [i \in D |-> base[i] + offset[i]]
  BY Zenon DEF computeSplit
<1>2. asked = weight
  BY DEF Weighs
<1>3. offset = [i \in D |-> 0]
  OBVIOUS
<1>4. SumOf(offset) = 0
  <2>1. \A i \in D : offset[i] = 0
    OBVIOUS
  <2>2. SumOf(offset) = SumOver(offset, D)
    <3>1. DOMAIN offset = D
      OBVIOUS
    <3> HIDE DEF offset
    <3> QED BY <3>1, SumOfIs
  <2> HIDE DEF offset
  <2> QED BY <2>1, <2>2, SumZero
<1>5. base = apportion(totalMinor, weight)
  <2>1. totalMinor - 0 = totalMinor
    OBVIOUS
  <2> HIDE DEF offset, asked
  <2> QED BY <1>2, <1>4, <2>1
<1>6. apportion(totalMinor, weight) \in [D -> Nat]
  BY Apportioned
<1>7. \A i \in D : base[i] + offset[i] = apportion(totalMinor, weight)[i]
  <2> HIDE DEF base
  <2> QED BY <1>5, <1>6
<1> HIDE DEF base, offset
<1> QED BY <1>1, <1>6, <1>7

(* An equal split is by weights of one each.                               *)
LEMMA EqualApportions ==
  ASSUME NEW totalMinor \in Nat, NEW given, DOMAIN given \in SUBSET Int,
         IsFiniteSet(DOMAIN given), DOMAIN given # {},
         NEW weight, weight = [i \in DOMAIN given |-> 1]
  PROVE  /\ weight \in [DOMAIN given -> Nat]
         /\ SumOf(weight) = Cardinality(DOMAIN given)
         /\ Cardinality(DOMAIN given) \in Nat \ {0}
         /\ computeSplit("equal", totalMinor, given) = apportion(totalMinor, weight)
<1> DEFINE D == DOMAIN given
           n == Cardinality(D)
           method == "equal"
<1>1. weight \in [D -> Nat] /\ DOMAIN weight = D
  OBVIOUS
<1>2. \A x \in D : weight[x] = IF x \in D THEN 1 ELSE 0
  OBVIOUS
<1>3. SumOf(weight) = n
  BY <1>1, <1>2, SumOfIs, SumOfOnes
<1>4. n \in Nat \ {0}
  BY FS_EmptySet, FS_CardinalityType
<1>5. method \in {"equal", "shares"} /\ Weighs(weight, method, given)
  BY DEF Weighs
<1> HIDE DEF method
<1>6. computeSplit(method, totalMinor, given) = apportion(totalMinor, weight)
  BY <1>1, <1>3, <1>4, <1>5, SplitApportions
<1> QED BY <1>1, <1>3, <1>4, <1>6 DEF method

LEMMA EqualSplit ==
  ASSUME NEW totalMinor \in Nat, NEW given, DOMAIN given \in SUBSET Int,
         IsFiniteSet(DOMAIN given), DOMAIN given # {}
  PROVE  /\ computeSplit("equal", totalMinor, given) \in [DOMAIN given -> Nat]
         /\ SumOf(computeSplit("equal", totalMinor, given)) = totalMinor
<1> DEFINE weight == [i \in DOMAIN given |-> 1]
<1>1. weight = [i \in DOMAIN given |-> 1]
  OBVIOUS
<1> HIDE DEF weight
<1>2. /\ weight \in [DOMAIN given -> Nat] /\ SumOf(weight) > 0
      /\ computeSplit("equal", totalMinor, given) = apportion(totalMinor, weight)
  BY <1>1, EqualApportions
<1> QED BY <1>2, Apportioned

LEMMA SharesSplit ==
  ASSUME NEW D \in SUBSET Int, IsFiniteSet(D), NEW given \in [D -> Nat], SumOf(given) > 0,
         NEW totalMinor \in Nat
  PROVE  computeSplit("shares", totalMinor, given) = apportion(totalMinor, given)
<1> DEFINE method == "shares"
<1>1. DOMAIN given = D /\ method \in {"equal", "shares"} /\ Weighs(given, method, given)
  BY DEF Weighs
<1> HIDE DEF method
<1>2. computeSplit(method, totalMinor, given) = apportion(totalMinor, given)
  BY <1>1, SplitApportions
<1> QED BY <1>2 DEF method

(* What everyone's items come to is what the items come to.                *)
Splits(split, P, whole) ==
  \A i \in DOMAIN split :
    /\ split[i] = [m \in DOMAIN split[i] |-> split[i][m]]
    /\ DOMAIN split[i] \subseteq P
    /\ \A m \in DOMAIN split[i] : split[i][m] \in Nat
    /\ whole[i] = SumOf(split[i])

LEMMA AddedUpIs ==
  ASSUME NEW split, IsFiniteSet(DOMAIN split), NEW P, IsFiniteSet(P),
         NEW whole, Splits(split, P, whole)
  PROVE  /\ AddedUp(split) \in [UNION {DOMAIN split[i] : i \in DOMAIN split} -> Nat]
         /\ SumOf(AddedUp(split)) = SumOver(whole, DOMAIN split)
<1> USE DEF Splits
<1> DEFINE S == DOMAIN split
           M == UNION {DOMAIN split[i] : i \in S}
           of(m) == {k \in S : m \in DOMAIN split[k]}
           had(m) == [i \in of(m) |-> split[i][m]]
           out == AddedUp(split)
           table == [i \in S |-> Padded(split[i], M)]
           line(m) == [i \in S |-> table[i][m]]
<1>1. out = [m \in M |-> SumOf(had(m))]
  BY DEF AddedUp
<1>2. M \subseteq P /\ IsFiniteSet(M)
  BY FS_Subset
<1>3. \A i \in S, m \in M : table[i][m] = IF m \in DOMAIN split[i] THEN split[i][m] ELSE 0
  BY DEF Padded
<1>4. \A i \in S, m \in M : table[i][m] \in Nat
  BY <1>3
<1>5. ASSUME NEW m \in M PROVE out[m] \in Nat /\ out[m] = SumOver(line(m), S)
  <2>1. out[m] = SumOver(had(m), of(m))
    <3>1. DOMAIN had(m) = of(m) /\ out[m] = SumOf(had(m))
      BY <1>1
    <3> HIDE DEF had, of
    <3> QED BY <3>1, SumOfIs
  <2>2. /\ of(m) \subseteq S /\ IsFiniteSet(of(m))
        /\ \A i \in of(m) : had(m)[i] \in Nat /\ had(m)[i] = line(m)[i]
        /\ \A i \in S : line(m)[i] \in Int
        /\ \A i \in S \ of(m) : line(m)[i] = 0
    <3>1. of(m) \subseteq S /\ IsFiniteSet(of(m))
      BY FS_Subset
    <3> HIDE DEF table
    <3> QED BY <1>3, <1>4, <3>1
  <2> HIDE DEF had, of, line, out
  <2>3. SumOver(had(m), of(m)) = SumOver(line(m), of(m))
    BY <2>2, SumCongruence
  <2>4. SumOver(line(m), S) = SumOver(line(m), of(m))
    BY <2>2, SumWithin
  <2>5. SumOver(had(m), of(m)) \in Nat
    BY <2>2, SumOfNats
  <2> QED BY <2>1, <2>3, <2>4, <2>5
<1>6. out \in [M -> Nat]
  <2> HIDE DEF M, had
  <2>1. DOMAIN out = M /\ out = [m \in M |-> out[m]]
    BY <1>1
  <2> HIDE DEF out
  <2> QED BY <1>5, <2>1
<1>7. ASSUME NEW i \in S PROVE whole[i] = SumOver(table[i], M)
  <2>1. whole[i] = SumOver(split[i], DOMAIN split[i])
    BY SumOfIs
  <2>2. DOMAIN split[i] \subseteq M /\ \A m \in DOMAIN split[i] : split[i][m] \in Int
    OBVIOUS
  <2>3. SumOver(Padded(split[i], M), M) = SumOver(split[i], DOMAIN split[i])
    <3> HIDE DEF M
    <3> QED BY <1>2, <2>2, SumPadded
  <2>4. table[i] = Padded(split[i], M)
    OBVIOUS
  <2> QED BY <2>1, <2>3, <2>4
<1>8. SumOver(whole, S) = SumOver(out, M)
  <2> DEFINE column == [m \in M |-> line(m)]
  <2>1. Table(table, S, M)
    <3>1. \A i \in S : table[i] \in [M -> Int]
      <4>1. \A i \in S : table[i] = [m \in M |-> table[i][m]]
        BY DEF Padded
      <4> HIDE DEF table, M
      <4>2. \A i \in S : \A m \in M : table[i][m] \in Int
        BY <1>4
      <4> SUFFICES ASSUME NEW i \in S PROVE table[i] \in [M -> Int]
        OBVIOUS
      <4>3. table[i] = [m \in M |-> table[i][m]] /\ \A m \in M : table[i][m] \in Int
        BY <4>1, <4>2
      <4> DEFINE row == table[i]
      <4> HIDE DEF row
      <4>4. row = [m \in M |-> row[m]] /\ \A m \in M : row[m] \in Int
        BY <4>3 DEF row
      <4> QED BY <4>4 DEF row
    <3>2. table = [i \in S |-> table[i]]
      OBVIOUS
    <3> HIDE DEF table, M
    <3> QED BY <3>1, <3>2 DEF Table
  <2>2. Margins(table, column, whole, out, S, M)
    <3>1. \A i \in S : \A m \in M : column[m][i] = table[i][m]
      OBVIOUS
    <3>2. \A m \in M : out[m] = SumOver(column[m], S)
      <4>1. \A m \in M : column[m] = line(m)
        OBVIOUS
      <4> HIDE DEF column, line, out, M
      <4> QED BY <1>5, <4>1
    <3> HIDE DEF column, table, out, M
    <3> QED BY <1>7, <3>1, <3>2 DEF Margins
  <2> HIDE DEF table, column, out, M
  <2> QED BY <1>2, <2>1, <2>2, SumSwap
<1>9. SumOf(out) = SumOver(out, M)
  <2>1. DOMAIN out = M
    BY <1>1
  <2> HIDE DEF out, M
  <2> QED BY <2>1, SumOfIs
<1> HIDE DEF M
<1> QED BY <1>6, <1>8, <1>9 DEF M

(* The lines that are kept, and who had something of them.                 *)
Kept(items, skipped) == [i \in DOMAIN items \ skipped |-> items[i].totalMinor]
Had(items, sharing, skipped) == UNION {sharing[i] : i \in DOMAIN items \ skipped}

(* Each of them is worth nought or more and somebody of P had it.          *)
Served(P, items, sharing, skipped) ==
  /\ IsFiniteSet(DOMAIN items)
  /\ \A i \in DOMAIN items \ skipped :
       items[i].totalMinor \in Nat /\ sharing[i] \in SUBSET P /\ sharing[i] # {}

(* The lines that are kept come to the same before and after they are      *)
(* shared out, everyone's part a natural number.                           *)
LEMMA ItemSharesAddUp ==
  ASSUME NEW P \in SUBSET Int, IsFiniteSet(P), NEW items, NEW sharing, NEW skipped,
         Served(P, items, sharing, skipped)
  PROVE  /\ ItemShares(items, sharing, skipped) \in [Had(items, sharing, skipped) -> Nat]
         /\ SumOf(ItemShares(items, sharing, skipped)) = SumOf(Kept(items, skipped))
<1> USE DEF Served
<1> DEFINE kept == Kept(items, skipped)
<1>0. kept = [i \in DOMAIN items \ skipped |-> items[i].totalMinor]
  BY DEF Kept
<1> HIDE DEF kept
<1> DEFINE S == DOMAIN items \ skipped
           split == [i \in S |-> computeSplit("equal", items[i].totalMinor,
                                             [m \in sharing[i] |-> 0])]
<1>1. ItemShares(items, sharing, skipped) = AddedUp(split)
  <2>1. {k \in S : sharing[k] # {}} = S
    OBVIOUS
  <2> QED BY <2>1, Zenon DEF ItemShares
<1>2. IsFiniteSet(S)
  BY FS_Subset
<1>3. ASSUME NEW i \in S
      PROVE  split[i] \in [sharing[i] -> Nat] /\ SumOf(split[i]) = kept[i]
  <2> DEFINE given == [m \in sharing[i] |-> 0]
  <2>1. /\ sharing[i] \in SUBSET Int /\ IsFiniteSet(sharing[i]) /\ sharing[i] # {}
        /\ items[i].totalMinor \in Nat /\ DOMAIN given = sharing[i]
    BY FS_Subset
  <2>2. split[i] = computeSplit("equal", items[i].totalMinor, given)
    OBVIOUS
  <2>3. kept[i] = items[i].totalMinor
    BY <1>0
  <2> HIDE DEF split, given
  <2>4. /\ computeSplit("equal", items[i].totalMinor, given) \in [DOMAIN given -> Nat]
        /\ SumOf(computeSplit("equal", items[i].totalMinor, given)) = items[i].totalMinor
    BY <2>1, EqualSplit
  <2> QED BY <2>1, <2>2, <2>3, <2>4, Zenon
<1>4. DOMAIN split = S
  OBVIOUS
<1> HIDE DEF split
<1>5. \A i \in S : /\ split[i] = [m \in DOMAIN split[i] |-> split[i][m]]
                  /\ DOMAIN split[i] = sharing[i]
                  /\ \A m \in DOMAIN split[i] : split[i][m] \in Nat
  BY <1>3
<1>6. \A i \in S : DOMAIN split[i] \subseteq P /\ kept[i] = SumOf(split[i])
  BY <1>3, <1>5
<1>7. UNION {DOMAIN split[i] : i \in S} = UNION {sharing[i] : i \in S}
  <2>1. \A i \in S : DOMAIN split[i] = sharing[i]
    BY <1>5
  <2> HIDE DEF S
  <2>2. {DOMAIN split[i] : i \in S} = {sharing[i] : i \in S}
    BY <2>1
  <2> QED BY <2>2
<1>8. /\ AddedUp(split) \in [UNION {DOMAIN split[i] : i \in S} -> Nat]
      /\ SumOf(AddedUp(split)) = SumOver(kept, S)
  <2>1. Splits(split, P, kept)
    BY <1>4, <1>5, <1>6 DEF Splits
  <2> HIDE DEF S
  <2>2. IsFiniteSet(DOMAIN split)
    BY <1>2, <1>4
  <2>3. /\ AddedUp(split) \in [UNION {DOMAIN split[i] : i \in DOMAIN split} -> Nat]
        /\ SumOf(AddedUp(split)) = SumOver(kept, DOMAIN split)
    BY <2>1, <2>2, AddedUpIs
  <2> QED BY <1>4, <2>3
<1>9. SumOf(kept) = SumOver(kept, S)
  BY <1>0, SumOfIs
<1> QED BY <1>1, <1>7, <1>8, <1>9 DEF Had, kept

(* What is above nought adds up to all there is, if nothing is below.      *)
LEMMA AboveNought ==
  ASSUME NEW M, IsFiniteSet(M), NEW f \in [M -> Nat],
         NEW above, above = [m \in {k \in M : f[k] > 0} |-> f[m]]
  PROVE  /\ SumOf(above) = SumOf(f) /\ SumOf(f) \in Nat
         /\ SumOf(f) > 0 <=> DOMAIN above # {}
<1> DEFINE A == {k \in M : f[k] > 0}
<1>1. A \subseteq M /\ IsFiniteSet(A) /\ DOMAIN above = A /\ DOMAIN f = M
  BY FS_Subset
<1>2. /\ \A m \in A : above[m] = f[m] /\ f[m] \in Nat /\ f[m] > 0
      /\ \A m \in M : f[m] \in Int
      /\ \A m \in M \ A : f[m] = 0
  OBVIOUS
<1>3. SumOf(above) = SumOver(above, A) /\ SumOf(f) = SumOver(f, M)
  BY <1>1, SumOfIs
<1> HIDE DEF A
<1>4. SumOver(f, M) = SumOver(f, A)
  BY <1>1, <1>2, SumWithin
<1>5. SumOver(above, A) = SumOver(f, A)
  BY <1>1, <1>2, SumCongruence
<1>6. SumOver(f, M) \in Nat
  BY SumOfNats
<1>7. CASE A = {}
  <2>1. SumOver(f, A) = 0
    BY <1>7, SumEmpty
  <2> QED BY <1>1, <1>3, <1>4, <1>5, <1>6, <1>7, <2>1
<1>8. CASE A # {}
  <2>1. PICK m \in A : TRUE
    BY <1>8
  <2>2. f[m] <= SumOver(f, M)
    BY <1>1, <2>1, SumOfNats
  <2>3. f[m] \in Nat /\ f[m] > 0
    BY <1>2, <2>1
  <2> QED BY <1>1, <1>3, <1>4, <1>5, <1>6, <1>8, <2>2, <2>3
<1> QED BY <1>7, <1>8

(* The extra is handed out whole, and a discount leaves nobody below       *)
(* nought if the bill is not.                                              *)
LEMMA ProratedAddsUp ==
  ASSUME NEW M \in SUBSET Int, IsFiniteSet(M), NEW out \in [M -> Nat], SumOf(out) > 0,
         NEW extraMinor \in Int
  PROVE  /\ Prorated(out, extraMinor) \in [M -> Int]
         /\ SumOf(Prorated(out, extraMinor)) = SumOf(out) + extraMinor
         /\ SumOf(out) + extraMinor >= 0
              => \A m \in M : Prorated(out, extraMinor)[m] >= 0
<1> DEFINE A == {k \in M : out[k] > 0}
           weights == [m \in A |-> out[m]]
           prorated == computeSplit("shares", Abs(extraMinor), weights)
           pad == Padded(prorated, M)
           sign == IF extraMinor > 0 THEN 1 ELSE -1
           all == [m \in M |-> out[m] + (IF m \notin A THEN 0
                                        ELSE IF extraMinor > 0 THEN prorated[m]
                                        ELSE -prorated[m])]
           result == Prorated(out, extraMinor)
<1>1. A \subseteq M /\ A \in SUBSET Int /\ IsFiniteSet(A) /\ weights \in [A -> Nat]
  BY FS_Subset
<1>2. SumOf(weights) = SumOf(out) /\ SumOf(out) \in Nat /\ A # {}
  <2>1. DOMAIN weights = A /\ weights = [m \in {k \in M : out[k] > 0} |-> out[m]]
    OBVIOUS
  <2> HIDE DEF weights, A
  <2> QED BY <2>1, AboveNought
<1>3. SumOf(out) = SumOver(out, M)
  <2>1. DOMAIN out = M
    OBVIOUS
  <2> QED BY <2>1, SumOfIs
<1>4. DOMAIN out = M /\ DOMAIN weights = A /\ \A m \in M : out[m] \in Nat
  OBVIOUS
<1>5. result = IF extraMinor = 0 THEN out ELSE all
  BY <1>2, Zenon DEF Prorated
<1>6. CASE extraMinor = 0
  BY <1>2, <1>5, <1>6
<1>7. CASE extraMinor # 0
  <2>1. Abs(extraMinor) \in Nat
        /\ Abs(extraMinor) = IF extraMinor > 0 THEN extraMinor ELSE -extraMinor
    BY DEF Abs
  <2>2. /\ prorated \in [A -> Nat] /\ SumOf(prorated) = Abs(extraMinor)
        /\ Abs(extraMinor) <= SumOf(out) => \A m \in A : prorated[m] <= weights[m]
    <3>1. SumOf(weights) > 0
      BY <1>2
    <3> HIDE DEF A, weights
    <3>2. prorated = apportion(Abs(extraMinor), weights)
      BY <1>1, <2>1, <3>1, SharesSplit
    <3>3. apportion(Abs(extraMinor), weights) \in [A -> Nat]
          /\ SumOf(apportion(Abs(extraMinor), weights)) = Abs(extraMinor)
      BY <1>1, <2>1, <3>1, Apportioned
    <3>4. Abs(extraMinor) <= SumOf(weights)
            => \A m \in A : apportion(Abs(extraMinor), weights)[m] <= weights[m]
      BY <1>1, <2>1, <3>1, ApportionedWithin
    <3> HIDE DEF prorated
    <3> QED BY <1>2, <3>2, <3>3, <3>4
  <2>3. SumOver(pad, M) = Abs(extraMinor) /\ \A m \in M : pad[m] \in Int
    <3>1. DOMAIN prorated = A /\ \A m \in A : prorated[m] \in Int
      <4> HIDE DEF prorated, A
      <4> QED BY <2>2
    <3> HIDE DEF prorated, A
    <3>2. SumOver(prorated, A) = Abs(extraMinor)
      BY <2>2, <3>1, SumOfIs
    <3> QED BY <1>1, <3>1, <3>2, SumPadded
  <2>4. \A m \in M : pad[m] = IF m \in A THEN prorated[m] ELSE 0
    <3> HIDE DEF prorated, A
    <3> QED BY <2>2 DEF Padded
  <2>5. \A m \in M : all[m] = IF extraMinor > 0 THEN out[m] + pad[m] ELSE out[m] - pad[m]
    <3> HIDE DEF pad, prorated, A
    <3> QED BY <1>4, <2>2, <2>3, <2>4
  <2>6. all = [m \in M |-> all[m]] /\ DOMAIN all = M
    OBVIOUS
  <2> HIDE DEF all, pad, prorated, A, weights
  <2>7. all \in [M -> Int]
    BY <1>4, <2>3, <2>5, <2>6
  <2>8. SumOf(all) = SumOf(out) + extraMinor
    <3>1. SumOf(all) = SumOver(all, M)
      BY <2>6, SumOfIs
    <3>2. CASE extraMinor > 0
      <4>1. \A m \in M : out[m] \in Int /\ pad[m] \in Int /\ all[m] = out[m] + pad[m]
        BY <1>4, <2>3, <2>5, <3>2
      <4>2. SumOver(all, M) = SumOver(out, M) + SumOver(pad, M)
        BY <4>1, SumPlus
      <4> QED BY <1>3, <2>1, <2>3, <3>1, <3>2, <4>2
    <3>3. CASE ~(extraMinor > 0)
      <4>1. \A m \in M : out[m] \in Int /\ pad[m] \in Int /\ all[m] = out[m] - pad[m]
        BY <1>4, <2>3, <2>5, <3>3
      <4>2. SumOver(all, M) = SumOver(out, M) - SumOver(pad, M)
        BY <4>1, SumMinus
      <4> QED BY <1>2, <1>3, <2>1, <2>3, <3>1, <3>3, <4>2
    <3> QED BY <3>2, <3>3
  <2>9. SumOf(out) + extraMinor >= 0 => \A m \in M : all[m] >= 0
    <3> SUFFICES ASSUME SumOf(out) + extraMinor >= 0, NEW m \in M PROVE all[m] >= 0
      OBVIOUS
    <3>1. pad[m] >= 0
      BY <2>2, <2>4
    <3>2. CASE extraMinor > 0
      BY <1>4, <2>3, <2>5, <3>1, <3>2
    <3>3. CASE ~(extraMinor > 0)
      <4>1. Abs(extraMinor) <= SumOf(out)
        BY <1>2, <2>1, <3>3
      <4>2. pad[m] <= out[m]
        BY <1>4, <2>2, <2>4, <4>1 DEF weights
      <4> QED BY <1>4, <2>3, <2>5, <3>3, <4>2
    <3> QED BY <3>2, <3>3
  <2> QED BY <1>5, <1>7, <2>7, <2>8, <2>9
<1> QED BY <1>6, <1>7

LEMMA ProratedTyped ==
  ASSUME NEW M \in SUBSET Int, IsFiniteSet(M), NEW out \in [M -> Nat], NEW extraMinor \in Int
  PROVE  /\ Prorated(out, extraMinor) \in [M -> Int]
         /\ SumOf(out) = 0 => Prorated(out, extraMinor) = out
<1>1. CASE SumOf(out) > 0
  BY <1>1, ProratedAddsUp
<1>2. CASE ~(SumOf(out) > 0)
  <2> DEFINE weights == [m \in {k \in M : out[k] > 0} |-> out[m]]
  <2>1. DOMAIN weights = {} /\ DOMAIN out = M
    <3>1. weights = [m \in {k \in M : out[k] > 0} |-> out[m]]
      OBVIOUS
    <3> HIDE DEF weights
    <3> QED BY <1>2, <3>1, AboveNought
  <2>2. Prorated(out, extraMinor) = out
    BY <2>1, Zenon DEF Prorated
  <2> QED BY <2>2
<1> QED BY <1>1, <1>2

(* Every share is within a unit of the proportion.                         *)
LEMMA ProratedFair ==
  ASSUME NEW M \in SUBSET Int, IsFiniteSet(M), NEW out \in [M -> Nat], SumOf(out) > 0,
         NEW extraMinor \in Int
  PROVE  \A m \in M :
           Prorated(out, extraMinor)[m] * SumOf(out) - out[m] * (SumOf(out) + extraMinor)
             \in (1 - SumOf(out)) .. (SumOf(out) - 1)
<1> DEFINE A == {k \in M : out[k] > 0}
           weights == [m \in A |-> out[m]]
           whole == Abs(extraMinor)
           prorated == computeSplit("shares", whole, weights)
           all == [m \in M |-> out[m] + (IF m \notin A THEN 0
                                        ELSE IF extraMinor > 0 THEN prorated[m]
                                        ELSE -prorated[m])]
           S == SumOf(out)
<1>1. A \in SUBSET Int /\ IsFiniteSet(A) /\ weights \in [A -> Nat]
      /\ DOMAIN weights = A /\ DOMAIN out = M
  BY FS_Subset
<1>2. SumOf(weights) = S /\ S \in Nat /\ S > 0 /\ A # {}
  <2>1. weights = [m \in {k \in M : out[k] > 0} |-> out[m]]
    OBVIOUS
  <2> HIDE DEF weights
  <2> QED BY <1>1, <2>1, AboveNought
<1>3. Prorated(out, extraMinor) = IF extraMinor = 0 THEN out ELSE all
  BY <1>1, <1>2, Zenon DEF Prorated
<1>4. whole \in Nat /\ whole = IF extraMinor > 0 THEN extraMinor ELSE -extraMinor
  BY DEF Abs
<1> HIDE DEF S, whole
<1>5. \A m \in A : /\ prorated[m] \in Nat
                   /\ S * prorated[m] - whole * out[m] \in (1 - S) .. (S - 1)
  <2> HIDE DEF A, weights
  <2>1. prorated = apportion(whole, weights)
    BY <1>1, <1>2, <1>4, SharesSplit
  <2>2. /\ apportion(whole, weights) \in [A -> Nat]
        /\ \A m \in A : SumOf(weights) * apportion(whole, weights)[m] - whole * weights[m]
                          \in (1 - SumOf(weights)) .. (SumOf(weights) - 1)
    BY <1>1, <1>2, <1>4, Apportioned
  <2>3. \A m \in A : weights[m] = out[m]
    BY DEF weights
  <2> HIDE DEF prorated
  <2> QED BY <1>2, <2>1, <2>2, <2>3
<1> SUFFICES ASSUME NEW m \in M
             PROVE  Prorated(out, extraMinor)[m] * S - out[m] * (S + extraMinor)
                      \in (1 - S) .. (S - 1)
  BY DEF S
<1>6. out[m] \in Nat
  OBVIOUS
<1>7. CASE extraMinor = 0
  BY <1>2, <1>3, <1>6, <1>7
<1>8. CASE extraMinor # 0 /\ m \notin A
  <2>1. all[m] = out[m] /\ out[m] = 0
    BY <1>6, <1>8
  <2> HIDE DEF all, A
  <2> QED BY <1>2, <1>3, <1>8, <2>1
<1>9. CASE extraMinor # 0 /\ m \in A
  <2> DEFINE p == prorated[m]
             o == out[m]
  <2>1. p \in Nat /\ o \in Nat /\ S * p - whole * o \in (1 - S) .. (S - 1)
    BY <1>5, <1>6, <1>9
  <2>2. all[m] = IF extraMinor > 0 THEN o + p ELSE o + (-p)
    BY <1>9
  <2>3. Prorated(out, extraMinor)[m] = all[m]
    BY <1>3, <1>9
  <2> HIDE DEF p, o, all, A, prorated
  <2>4. \A a, b, s, e \in Int : /\ (a + b) * s - a * (s + e) = s * b - e * a
                                /\ (a + (-b)) * s - a * (s + e) = -(s * b - (-e) * a)
    BY Z3
  <2>5. CASE extraMinor > 0
    <3>1. (o + p) * S - o * (S + extraMinor) = S * p - extraMinor * o
      BY <1>2, <2>1, <2>4
    <3> QED BY <1>2, <1>4, <2>1, <2>2, <2>3, <2>5, <3>1 DEF o
  <2>6. CASE ~(extraMinor > 0)
    <3>1. (o + (-p)) * S - o * (S + extraMinor) = -(S * p - (-extraMinor) * o)
      BY <1>2, <2>1, <2>4
    <3>2. S * p - (-extraMinor) * o \in (1 - S) .. (S - 1)
      BY <1>4, <2>1, <2>6
    <3>3. \A x, s \in Int : x \in (1 - s) .. (s - 1) => -x \in (1 - s) .. (s - 1)
      OBVIOUS
    <3> QED BY <1>2, <2>2, <2>3, <2>6, <3>1, <3>2, <3>3 DEF o
  <2> QED BY <2>5, <2>6
<1> QED BY <1>7, <1>8, <1>9

(* A parse whose figures are figures.                                      *)
Legible(receipt) ==
  /\ IsFiniteSet(DOMAIN receipt.items)
  /\ \A i \in DOMAIN receipt.items : receipt.items[i].totalMinor \in Int
  /\ {receipt.taxMinor, receipt.tipMinor, receipt.totalMinor} \subseteq Figure

(* What the bill says, the lines kept coming to "sum".                     *)
Billed(owing, receipt, slipTipMinor, sum) ==
  /\ owing.itemsSum = sum /\ owing.itemsSum \in Int
  /\ owing.billTotal \in Int /\ owing.totalMinor = owing.billTotal + slipTipMinor
  /\ receipt.totalMinor # NoFigure => owing.billTotal = receipt.totalMinor
  /\ receipt.totalMinor = NoFigure
       => owing.billTotal = owing.itemsSum + OrZero(receipt.taxMinor) + OrZero(receipt.tipMinor)
  /\ owing.extraMinor = owing.totalMinor - owing.itemsSum
  /\ owing.extraMinor \in Int

LEMMA BillIs ==
  ASSUME NEW receipt, Legible(receipt), NEW skipped, NEW slipTipMinor \in Int
  PROVE  Billed(receiptBill(receipt, skipped, slipTipMinor), receipt, slipTipMinor,
                SumOf(Kept(receipt.items, skipped)))
<1> DEFINE kept == [i \in DOMAIN receipt.items \ skipped |-> receipt.items[i].totalMinor]
<1>0. Kept(receipt.items, skipped) = kept
  BY DEF Kept
<1> DEFINE owing == receiptBill(receipt, skipped, slipTipMinor)
           printed == IF receipt.totalMinor # NoFigure THEN receipt.totalMinor
                      ELSE SumOf(kept) + OrZero(receipt.taxMinor) + OrZero(receipt.tipMinor)
<1>1. SumOf(kept) \in Int
  <2>1. /\ DOMAIN kept = DOMAIN receipt.items \ skipped
        /\ IsFiniteSet(DOMAIN kept)
        /\ \A i \in DOMAIN kept : kept[i] \in Int
    BY FS_Subset DEF Legible
  <2> HIDE DEF kept
  <2>2. SumOf(kept) = SumOver(kept, DOMAIN kept)
    BY SumOfIs
  <2> QED BY <2>1, <2>2, SumType
<1>2. /\ receipt.totalMinor # NoFigure => receipt.totalMinor \in Int
      /\ OrZero(receipt.taxMinor) \in Int /\ OrZero(receipt.tipMinor) \in Int
  BY DEF Legible, Figure, OrZero
<1>3. printed \in Int
  BY <1>1, <1>2
<1>4. owing = [itemsSum |-> SumOf(kept), billTotal |-> printed,
              totalMinor |-> printed + slipTipMinor,
              extraMinor |-> printed + slipTipMinor - SumOf(kept)]
  BY Zenon DEF receiptBill
<1>5. /\ owing.itemsSum = SumOf(kept) /\ owing.billTotal = printed
      /\ owing.totalMinor = printed + slipTipMinor
      /\ owing.extraMinor = printed + slipTipMinor - SumOf(kept)
  <2> HIDE DEF printed, owing
  <2> QED BY <1>4
<1> HIDE DEF owing, kept
<1>6. /\ owing.itemsSum = SumOf(kept) /\ owing.itemsSum \in Int
      /\ owing.billTotal \in Int /\ owing.totalMinor = owing.billTotal + slipTipMinor
      /\ owing.extraMinor = owing.totalMinor - owing.itemsSum
      /\ owing.extraMinor \in Int
  <2> HIDE DEF printed
  <2> QED BY <1>1, <1>3, <1>5
<1>7. /\ receipt.totalMinor # NoFigure => owing.billTotal = receipt.totalMinor
      /\ receipt.totalMinor = NoFigure
           => owing.billTotal
                = owing.itemsSum + OrZero(receipt.taxMinor) + OrZero(receipt.tipMinor)
  BY <1>5
<1> QED BY <1>0, <1>6, <1>7 DEF owing, Billed

(* Once every kept line has somebody, the shares come to the bill if the   *)
(* lines come to anything.                                                 *)
LEMMA SharesComeToBill ==
  ASSUME NEW receipt, Legible(receipt), NEW skipped, NEW slipTipMinor \in Int,
         NEW P \in SUBSET Int, IsFiniteSet(P), NEW sharing,
         Served(P, receipt.items, sharing, skipped)
  PROVE  LET owing == receiptBill(receipt, skipped, slipTipMinor)
             out == assignedShares(receipt.items, sharing, skipped, owing.extraMinor)
         IN  /\ \E M \in SUBSET P : out \in [M -> Int]
             /\ owing.itemsSum > 0 => SumOf(out) = owing.totalMinor
             /\ owing.itemsSum >= 0
             /\ owing.totalMinor >= 0 => \A m \in DOMAIN out : out[m] >= 0
<1> DEFINE owing == receiptBill(receipt, skipped, slipTipMinor)
           had == ItemShares(receipt.items, sharing, skipped)
           out == assignedShares(receipt.items, sharing, skipped, owing.extraMinor)
           M == Had(receipt.items, sharing, skipped)
           sum == SumOf(Kept(receipt.items, skipped))
<1>1. /\ owing.itemsSum = sum /\ owing.itemsSum \in Int
      /\ owing.totalMinor \in Int
      /\ owing.extraMinor = owing.totalMinor - owing.itemsSum /\ owing.extraMinor \in Int
  <2>1. Billed(owing, receipt, slipTipMinor, sum)
    BY BillIs
  <2> HIDE DEF owing, sum
  <2> QED BY <2>1 DEF Billed
<1>2. had \in [M -> Nat] /\ SumOf(had) = sum
  BY ItemSharesAddUp
<1>3. M \in SUBSET P /\ M \in SUBSET Int /\ IsFiniteSet(M)
  <2>1. M \in SUBSET P
    BY DEF Had, Served
  <2> HIDE DEF M
  <2> QED BY <2>1, FS_Subset
<1>4. out = Prorated(had, owing.extraMinor)
  BY DEF assignedShares
<1> HIDE DEF M, had, owing, sum
<1>5. Prorated(had, owing.extraMinor) \in [M -> Int]
  BY <1>1, <1>2, <1>3, ProratedTyped
<1>5a. SumOf(had) \in Nat
       /\ (SumOf(had) = 0 => \A m \in M : Prorated(had, owing.extraMinor)[m] >= 0)
  <2>1. SumOf(had) \in Nat
    <3>1. DOMAIN had = M
      BY <1>2
    <3>2. SumOf(had) = SumOver(had, M)
      BY <3>1, SumOfIs
    <3> QED BY <1>2, <1>3, <3>2, SumOfNats
  <2>2. SumOf(had) = 0 => Prorated(had, owing.extraMinor) = had
    BY <1>1, <1>2, <1>3, ProratedTyped
  <2> QED BY <1>2, <2>1, <2>2
<1>6. SumOf(had) > 0 =>
        /\ SumOf(Prorated(had, owing.extraMinor)) = SumOf(had) + owing.extraMinor
        /\ SumOf(had) + owing.extraMinor >= 0
             => \A m \in M : Prorated(had, owing.extraMinor)[m] >= 0
  BY <1>1, <1>2, <1>3, ProratedAddsUp
<1> HIDE DEF out
<1>7. SumOf(had) + owing.extraMinor = owing.totalMinor
  BY <1>1, <1>2
<1>8. DOMAIN out = M /\ \E N \in SUBSET P : out \in [N -> Int]
  BY <1>3, <1>4, <1>5
<1> QED BY <1>1, <1>2, <1>4, <1>5a, <1>6, <1>7, <1>8 DEF out, owing

-----------------------------------------------------------------------------
(* Amounts in fields                                                       *)

(* Nought or more minor units stay that in every currency.                 *)
LEMMA Scales == \A c : minorUnitScale(c) \in {1, 100}
  BY DEF minorUnitScale

LEMMA Bridges ==
  ASSUME NEW minor \in Int, NEW scale \in {1, 100}, NEW c
  PROVE  /\ bridgeMinor(minor, scale, c) \in Int
         /\ minor >= 0 => bridgeMinor(minor, scale, c) >= 0
         /\ minor = 0 => bridgeMinor(minor, scale, c) = 0
<1> DEFINE to == minorUnitScale(c)
<1>1. to \in {1, 100}
  BY Scales
<1>2. bridgeMinor(minor, scale, c)
        = IF scale = to THEN minor ELSE HalfAway(minor * to, scale)
  BY DEF bridgeMinor
<1> HIDE DEF to
<1>3. CASE scale = to
  BY <1>2, <1>3
<1>4. CASE scale = 1 /\ to = 100
  <2>1. HalfAway(minor * 100, 1) = IF minor * 100 >= 0 THEN (2 * (minor * 100) + 1) \div 2
                                   ELSE -((-2 * (minor * 100) + 1) \div 2)
    BY DEF HalfAway
  <2> QED BY <1>2, <1>4, <2>1
<1>5. CASE scale = 100 /\ to = 1
  <2>1. HalfAway(minor * 1, 100) = IF minor >= 0 THEN (2 * minor + 100) \div 200
                                   ELSE -((-2 * minor + 100) \div 200)
    BY DEF HalfAway
  <2> QED BY <1>2, <1>5, <2>1
<1> QED BY <1>1, <1>3, <1>4, <1>5

LEMMA BlankIs == Blank \in Text /\ Blank.n = 0 /\ \A c : parseAmount(Blank, c) = 0
  BY DEF Blank, Text, parseAmount, Abs

LEMMA Parsed ==
  ASSUME NEW text \in Text, NEW c
  PROVE  /\ parseAmount(text, c) \in Int
         /\ text.n >= 0 => parseAmount(text, c) >= 0
  BY DEF Text, parseAmount, Abs

LEMMA RoundTrip ==
  ASSUME NEW minor \in Int, NEW c
  PROVE  /\ minorToAmountString(minor, c) \in Text
         /\ minorToAmountString(minor, c).n = minor
         /\ minorToAmountString(minor, c) # Blank
         /\ minor >= 0 => parseAmount(minorToAmountString(minor, c), c) = minor
<1>1. Plain(minor) \in Text /\ Plain(minor).n = minor /\ Plain(minor) # Blank
  BY DEF Plain, Text, Blank
<1>2. /\ Point(minor) \in Text /\ Point(minor).n = minor /\ Point(minor) # Blank
      /\ Point(minor).form = "point"
  BY DEF Point, Text, Blank
<1> QED BY <1>1, <1>2 DEF minorToAmountString, parseAmount, Abs

(* One field across the scales.                                            *)
LEMMA Rescaled ==
  ASSUME NEW text \in Text, NEW from, NEW to
  PROVE  /\ rescaleAmountString(text, from, to) \in Text
         /\ text.n >= 0 => rescaleAmountString(text, from, to).n >= 0
         /\ parseAmount(text, from) = 0 => parseAmount(rescaleAmountString(text, from, to), to) = 0
         /\ parseAmount(text, from) >= 0 /\ minorUnitScale(from) # minorUnitScale(to)
            /\ text # Blank
              => parseAmount(rescaleAmountString(text, from, to), to)
                   = bridgeMinor(parseAmount(text, from), minorUnitScale(from), to)
<1> DEFINE minor == parseAmount(text, from)
           there == bridgeMinor(minor, minorUnitScale(from), to)
           crossed == minorToAmountString(there, to)
<1>1. minor \in Int /\ (text.n >= 0 => minor >= 0)
  BY Parsed
<1>2. /\ there \in Int /\ (minor >= 0 => there >= 0) /\ (minor = 0 => there = 0)
  <2> HIDE DEF minor
  <2> QED BY <1>1, Scales, Bridges
<1>3. /\ crossed \in Text /\ crossed.n = there
      /\ there >= 0 => parseAmount(crossed, to) = there
  <2> HIDE DEF there
  <2> QED BY <1>2, RoundTrip
<1>4. CASE text = Blank \/ minorUnitScale(from) = minorUnitScale(to)
  <2>1. rescaleAmountString(text, from, to) = text
    BY <1>4 DEF rescaleAmountString
  <2>2. minor = 0 => parseAmount(text, to) = 0
    BY <1>4, BlankIs DEF parseAmount
  <2> QED BY <1>4, <2>1, <2>2
<1>5. CASE ~(text = Blank \/ minorUnitScale(from) = minorUnitScale(to))
  <2>1. rescaleAmountString(text, from, to) = crossed
    BY <1>5 DEF rescaleAmountString
  <2> HIDE DEF there, crossed
  <2> QED BY <1>1, <1>2, <1>3, <2>1 DEF there, minor
<1> QED BY <1>4, <1>5

-----------------------------------------------------------------------------
(* A set of fields                                                         *)

(* None of them below nought.                                              *)
Unsigned(inputs) == \A m \in Members : inputs[m].n >= 0

LEMMA ReadIs ==
  ASSUME NEW inputs \in [Members -> Text], NEW c
  PROVE  /\ Read(inputs, c) \in [Members -> Int]
         /\ Unsigned(inputs) => Read(inputs, c) \in [Members -> Nat]
<1>1. \A m \in Members : /\ parseAmount(inputs[m], c) \in Int
                         /\ inputs[m].n >= 0 => parseAmount(inputs[m], c) >= 0
  BY Parsed
<1>2. Read(inputs, c) = [m \in Members |-> parseAmount(inputs[m], c)]
  BY DEF Read
<1> QED BY <1>1, <1>2 DEF Unsigned

(* Where no share is below nought the fields left out count nothing.       *)
LEMMA PositiveIs ==
  ASSUME NEW minor \in [Members -> Nat]
  PROVE  /\ SumOf(Positive(minor)) = SumOf(minor) /\ SumOf(minor) \in Nat
         /\ SumOf(minor) > 0 <=> DOMAIN Positive(minor) # {}
<1> DEFINE above == Positive(minor)
<1>1. above = [m \in {k \in Members : minor[k] > 0} |-> minor[m]]
  BY DEF Positive
<1>2. IsFiniteSet(Members)
  BY MembersAssumption
<1> HIDE DEF above
<1>3. /\ SumOf(above) = SumOf(minor) /\ SumOf(minor) \in Nat
      /\ SumOf(minor) > 0 <=> DOMAIN above # {}
  BY <1>1, <1>2, AboveNought
<1> QED BY <1>3 DEF above

(* The pieces of rescaleAmountFields.                                      *)
Each(inputs, from, to) == [i \in DOMAIN inputs |-> rescaleAmountString(inputs[i], from, to)]
Filled(inputs, from) ==
  [i \in {j \in DOMAIN inputs : inputs[j] # Blank} |-> parseAmount(inputs[i], from)]
Dealing(inputs, from) ==
  [i \in {j \in DOMAIN Filled(inputs, from) : Filled(inputs, from)[j] > 0}
     |-> Filled(inputs, from)[i]]
Portions(inputs, amount, from, to) ==
  apportion(bridgeMinor(parseAmount(amount, from), minorUnitScale(from), to),
            Dealing(inputs, from))
Redealt(inputs, amount, from, to) ==
  [i \in DOMAIN inputs |->
     IF i \in DOMAIN Dealing(inputs, from)
     THEN minorToAmountString(Portions(inputs, amount, from, to)[i], to)
     ELSE Each(inputs, from, to)[i]]
Undealt(inputs, amount, from) ==
  \/ parseAmount(amount, from) <= 0
  \/ SumOf(Filled(inputs, from)) # parseAmount(amount, from)
  \/ \E i \in DOMAIN Filled(inputs, from) : Filled(inputs, from)[i] < 0
  \/ DOMAIN Dealing(inputs, from) = {}

LEMMA FieldsAre ==
  ASSUME NEW inputs, NEW amount, NEW from, NEW to
  PROVE  rescaleAmountFields(inputs, amount, from, to)
           = IF minorUnitScale(from) = minorUnitScale(to) THEN inputs
             ELSE IF Undealt(inputs, amount, from) THEN Each(inputs, from, to)
             ELSE Redealt(inputs, amount, from, to)
<1>1. CASE minorUnitScale(from) = minorUnitScale(to)
  BY <1>1 DEF rescaleAmountFields
<1>2. CASE minorUnitScale(from) # minorUnitScale(to) /\ Undealt(inputs, amount, from)
  BY <1>2 DEF rescaleAmountFields, Undealt, Each, Filled, Dealing
<1>3. CASE minorUnitScale(from) # minorUnitScale(to) /\ ~Undealt(inputs, amount, from)
  BY <1>3 DEF rescaleAmountFields, Undealt, Each, Filled, Dealing, Portions, Redealt
<1> QED BY <1>1, <1>2, <1>3

(* What is dealt is what the fields say.                                   *)
LEMMA DealingIs ==
  ASSUME NEW inputs \in [Members -> Text], NEW from
  PROVE  /\ Dealing(inputs, from) = Positive(Read(inputs, from))
         /\ SumOf(Filled(inputs, from)) = SumOf(Read(inputs, from))
<1> DEFINE F == {j \in Members : inputs[j] # Blank}
           read == Read(inputs, from)
           filled == Filled(inputs, from)
<1>1. read \in [Members -> Int] /\ \A m \in Members : read[m] = parseAmount(inputs[m], from)
  BY ReadIs DEF Read
<1>2. DOMAIN filled = F /\ \A m \in F : filled[m] = read[m]
  BY <1>1 DEF Filled
<1>3. \A m \in Members \ F : read[m] = 0
  BY <1>1, BlankIs
<1>4. F \subseteq Members /\ DOMAIN read = Members /\ \A m \in Members : read[m] \in Int
  BY <1>1
<1>5. Dealing(inputs, from) = [i \in {j \in DOMAIN filled : filled[j] > 0} |-> filled[i]]
  BY DEF Dealing
<1>6. Positive(read) = [m \in {k \in DOMAIN read : read[k] > 0} |-> read[m]]
  BY DEF Positive
<1> HIDE DEF F, read, filled
<1>7. {j \in DOMAIN filled : filled[j] > 0} = {k \in DOMAIN read : read[k] > 0}
  BY <1>2, <1>3, <1>4
<1>8. Dealing(inputs, from) = Positive(read)
  BY <1>2, <1>5, <1>6, <1>7
<1>9. SumOf(filled) = SumOf(read)
  <2>1. SumOf(filled) = SumOver(filled, F) /\ SumOf(read) = SumOver(read, Members)
    BY <1>2, <1>4, SumOfIs
  <2>2. SumOver(filled, F) = SumOver(read, F)
    BY <1>2, <1>4, FS_Subset, MembersAssumption, SumCongruence
  <2>3. SumOver(read, Members) = SumOver(read, F)
    BY <1>3, <1>4, MembersAssumption, SumWithin
  <2> QED BY <2>1, <2>2, <2>3
<1> QED BY <1>8, <1>9 DEF read, filled

LEMMA FieldsTyped ==
  ASSUME NEW inputs \in [Members -> Text], NEW amount \in Text, NEW from, NEW to
  PROVE  /\ rescaleAmountFields(inputs, amount, from, to) \in [Members -> Text]
         /\ Unsigned(inputs) => Unsigned(rescaleAmountFields(inputs, amount, from, to))
<1> DEFINE fields2 == rescaleAmountFields(inputs, amount, from, to)
           parts == Portions(inputs, amount, from, to)
           deal == Dealing(inputs, from)
<1>1. Each(inputs, from, to) \in [Members -> Text]
      /\ (Unsigned(inputs) => Unsigned(Each(inputs, from, to)))
  <2>1. \A m \in Members : /\ rescaleAmountString(inputs[m], from, to) \in Text
                           /\ inputs[m].n >= 0 => rescaleAmountString(inputs[m], from, to).n >= 0
    BY Rescaled
  <2> QED BY <2>1 DEF Each, Unsigned
<1>2. CASE minorUnitScale(from) = minorUnitScale(to) \/ Undealt(inputs, amount, from)
  BY <1>1, <1>2, FieldsAre
<1>3. CASE ~(minorUnitScale(from) = minorUnitScale(to) \/ Undealt(inputs, amount, from))
  <2>1. fields2 = Redealt(inputs, amount, from, to)
    BY <1>3, FieldsAre
  <2>2. parts \in [DOMAIN deal -> Nat]
    <3> DEFINE bridged == bridgeMinor(parseAmount(amount, from), minorUnitScale(from), to)
    <3>1. bridged \in Nat
      <4>1. parseAmount(amount, from) \in Int /\ parseAmount(amount, from) > 0
        BY <1>3, Parsed DEF Undealt
      <4> QED BY <4>1, Scales, Bridges
    <3>2. deal \in [DOMAIN deal -> Nat] /\ DOMAIN deal \in SUBSET Int
          /\ IsFiniteSet(DOMAIN deal) /\ SumOf(deal) > 0
      <4>1. \A m \in DOMAIN Filled(inputs, from) : Filled(inputs, from)[m] \in Int
        BY Parsed DEF Filled
      <4>2. DOMAIN Filled(inputs, from) \subseteq Members
        BY DEF Filled
      <4>3. deal \in [DOMAIN deal -> Nat] /\ DOMAIN deal \subseteq Members
            /\ \A m \in DOMAIN deal : deal[m] > 0
        BY <4>1, <4>2 DEF Dealing
      <4>4. DOMAIN deal \in SUBSET Int /\ IsFiniteSet(DOMAIN deal) /\ DOMAIN deal # {}
        BY <1>3, <4>3, MembersAssumption, FS_Subset DEF Undealt
      <4> HIDE DEF deal
      <4>5. SumOf(deal) = SumOver(deal, DOMAIN deal)
        BY SumOfIs
      <4>6. PICK m \in DOMAIN deal : TRUE
        BY <4>4
      <4>7. deal[m] <= SumOver(deal, DOMAIN deal) /\ SumOver(deal, DOMAIN deal) \in Nat
        BY <4>3, <4>4, <4>6, SumOfNats
      <4>8. deal[m] \in Nat /\ deal[m] > 0
        BY <4>3, <4>6
      <4> QED BY <4>3, <4>4, <4>5, <4>7, <4>8
    <3>3. parts = apportion(bridged, deal)
      BY DEF Portions
    <3> HIDE DEF parts, bridged, deal
    <3> QED BY <3>1, <3>2, <3>3, Apportioned
  <2>3. \A m \in Members :
          fields2[m] = IF m \in DOMAIN deal THEN minorToAmountString(parts[m], to)
                      ELSE Each(inputs, from, to)[m]
    BY <2>1 DEF Redealt
  <2>4. fields2 = [m \in Members |-> fields2[m]]
    BY <2>1 DEF Redealt
  <2> HIDE DEF fields2, parts, deal
  <2>5. \A m \in DOMAIN deal : /\ minorToAmountString(parts[m], to) \in Text
                              /\ minorToAmountString(parts[m], to).n >= 0
    BY <2>2, RoundTrip
  <2>6. \A m \in Members : fields2[m] \in Text
    BY <1>1, <2>3, <2>5
  <2>7. Unsigned(inputs) => Unsigned(fields2)
    BY <1>1, <2>3, <2>5 DEF Unsigned
  <2> QED BY <2>4, <2>6, <2>7 DEF fields2
<1> QED BY <1>2, <1>3

(* Fields that make up the amount make up the bridged one.                 *)
LEMMA FieldsBalance ==
  ASSUME NEW inputs \in [Members -> Text], Unsigned(inputs), NEW amount \in Text,
         NEW from, NEW to, minorUnitScale(from) # minorUnitScale(to),
         parseAmount(amount, from) > 0,
         SumOf(Read(inputs, from)) = parseAmount(amount, from)
  PROVE  SumOf(Read(rescaleAmountFields(inputs, amount, from, to), to))
           = bridgeMinor(parseAmount(amount, from), minorUnitScale(from), to)
<1> DEFINE fields2 == rescaleAmountFields(inputs, amount, from, to)
           parts == Portions(inputs, amount, from, to)
           read == Read(inputs, from)
           deal == Dealing(inputs, from)
           A == {m \in Members : read[m] > 0}
           bridged == bridgeMinor(parseAmount(amount, from), minorUnitScale(from), to)
           after == Read(fields2, to)
<1>1. read \in [Members -> Nat] /\ \A m \in Members : read[m] = parseAmount(inputs[m], from)
  BY ReadIs DEF Read
<1>2. deal = Positive(read) /\ SumOf(Filled(inputs, from)) = SumOf(read)
  BY DealingIs
<1>3. DOMAIN deal = A /\ deal = [m \in A |-> read[m]]
  <2> HIDE DEF read, deal
  <2> QED BY <1>1, <1>2 DEF Positive
<1>4. SumOf(deal) = SumOf(read) /\ SumOf(read) > 0 /\ A # {}
  <2> HIDE DEF read, deal
  <2>1. SumOf(read) > 0
    BY DEF read
  <2> QED BY <1>1, <1>2, <1>3, <2>1, PositiveIs
<1>5. ~Undealt(inputs, amount, from)
  <2>1. \A i \in DOMAIN Filled(inputs, from) : ~(Filled(inputs, from)[i] < 0)
    <3>1. \A i \in DOMAIN Filled(inputs, from) :
            i \in Members /\ Filled(inputs, from)[i] = parseAmount(inputs[i], from)
      BY DEF Filled
    <3>2. \A i \in Members : parseAmount(inputs[i], from) \in Nat
      BY <1>1
    <3> QED BY <3>1, <3>2
  <2>2. ~(parseAmount(amount, from) <= 0)
    BY Parsed
  <2> QED BY <1>2, <1>3, <1>4, <2>1, <2>2 DEF Undealt
<1>6. fields2 = Redealt(inputs, amount, from, to)
  BY <1>5, FieldsAre
<1>7. bridged \in Nat
  <2>1. parseAmount(amount, from) \in Int /\ parseAmount(amount, from) > 0
    BY Parsed
  <2> QED BY <2>1, Scales, Bridges
<1>8. parts \in [A -> Nat] /\ SumOf(parts) = bridged
  <2>1. parts = apportion(bridged, deal)
    BY DEF Portions
  <2>2. A \in SUBSET Int /\ IsFiniteSet(A)
    BY MembersAssumption, FS_Subset
  <2>3. deal \in [A -> Nat]
    <3> HIDE DEF deal, read
    <3>1. \A m \in A : read[m] \in Nat
      BY <1>1
    <3> HIDE DEF A
    <3> QED BY <1>3, <3>1
  <2> HIDE DEF A, parts, deal, bridged, read
  <2>4. SumOf(deal) > 0
    BY <1>4
  <2> QED BY <1>7, <2>1, <2>2, <2>3, <2>4, Apportioned
<1>9. fields2 \in [Members -> Text]
  BY FieldsTyped
<1>10. after = [m \in Members |-> parseAmount(fields2[m], to)]
  BY DEF Read
<1>11. \A m \in A : after[m] = parts[m]
  <2> SUFFICES ASSUME NEW m \in A PROVE after[m] = parts[m]
    OBVIOUS
  <2>1. m \in Members /\ m \in DOMAIN deal /\ parts[m] \in Nat
    BY <1>3, <1>8
  <2> HIDE DEF A, parts
  <2>2. fields2[m] = minorToAmountString(parts[m], to)
    BY <1>6, <2>1 DEF Redealt, parts
  <2> HIDE DEF fields2, after, deal
  <2>3. parseAmount(minorToAmountString(parts[m], to), to) = parts[m]
    BY <2>1, RoundTrip
  <2> QED BY <1>10, <2>1, <2>2, <2>3
<1>12. \A m \in Members \ A : after[m] = 0
  <2> SUFFICES ASSUME NEW m \in Members, m \notin A PROVE after[m] = 0
    OBVIOUS
  <2>1. fields2[m] = rescaleAmountString(inputs[m], from, to)
    BY <1>3, <1>6 DEF Redealt, Each
  <2>2. parseAmount(inputs[m], from) = 0
    BY <1>1
  <2>3. parseAmount(rescaleAmountString(inputs[m], from, to), to) = 0
    BY <2>2, Rescaled
  <2> HIDE DEF fields2, A, after
  <2> QED BY <1>10, <2>1, <2>3
<1>13. SumOf(after) = SumOf(parts)
  <2>1. A \subseteq Members /\ IsFiniteSet(A) /\ IsFiniteSet(Members)
    BY MembersAssumption, FS_Subset
  <2>2. DOMAIN after = Members
    BY <1>10
  <2> HIDE DEF A, after, parts
  <2>3. \A m \in Members : after[m] \in Int
    BY <1>8, <1>11, <1>12
  <2>4. SumOf(after) = SumOver(after, Members) /\ SumOf(parts) = SumOver(parts, A)
    BY <1>8, <2>2, SumOfIs
  <2>5. SumOver(after, Members) = SumOver(after, A)
    BY <1>12, <2>1, <2>3, SumWithin
  <2>6. SumOver(after, A) = SumOver(parts, A)
    BY <1>8, <1>11, <2>1, SumCongruence
  <2> QED BY <2>4, <2>5, <2>6
<1> QED BY <1>8, <1>13

-----------------------------------------------------------------------------
(* The form's fields                                                       *)

Forms ==
  [amount : Text, described : BOOLEAN, currency : Currencies, method : Methods,
   included : SUBSET Members, exact : [Members -> Text],
   weights : [Weighted -> [Members -> Text]],
   multiPayer : BOOLEAN, payer : Members, payerAmounts : [Members -> Text]]

UnsignedForm(f) == Unsigned(f.exact) /\ Unsigned(f.payerAmounts)

LEMMA NewFormTyped ==
  ASSUME NEW c \in Currencies
  PROVE  NewForm(c) \in Forms /\ UnsignedForm(NewForm(c))
<1>1. BlankFields \in [Members -> Text] /\ Unsigned(BlankFields) /\ Blank \in Text
  BY BlankIs DEF BlankFields, Unsigned
<1>2. "equal" \in Methods /\ User \in Members /\ [w \in Weighted |-> BlankFields] \in [Weighted -> [Members -> Text]]
  BY <1>1, UserAssumption DEF Methods
<1>3. NewForm(c).exact = BlankFields /\ NewForm(c).payerAmounts = BlankFields
  BY DEF NewForm
<1> QED BY <1>1, <1>2, <1>3 DEF NewForm, Forms, UnsignedForm

LEMMA AmountsTyped ==
  ASSUME NEW minor, \A m \in DOMAIN minor : minor[m] \in Int, NEW c
  PROVE  /\ Amounts(minor, c) \in [Members -> Text]
         /\ (\A m \in DOMAIN minor : minor[m] >= 0) => Unsigned(Amounts(minor, c))
<1>1. \A m \in DOMAIN minor : /\ minorToAmountString(minor[m], c) \in Text
                              /\ minorToAmountString(minor[m], c).n = minor[m]
  BY RoundTrip
<1> QED BY <1>1, BlankIs DEF Amounts, Unsigned

LEMMA FirstExists ==
  ASSUME NEW S \in SUBSET Int, IsFiniteSet(S), S # {}
  PROVE  (CHOOSE i \in S : \A j \in S : i <= j) \in S
<1> DEFINE key == [i \in S |-> -i]
<1>1. \A i \in S : key[i] \in Int /\ key[i] = -i
  OBVIOUS
<1> HIDE DEF key
<1>2. PICK i \in S : \A j \in S : key[j] <= key[i]
  BY <1>1, LargestExists
<1>3. \A j \in S : i <= j
  BY <1>1, <1>2
<1> QED BY <1>3

LEMMA ReopenedTyped ==
  ASSUME NEW e \in Expenses
  PROVE  Reopened(e) \in Forms /\ UnsignedForm(Reopened(e))
<1>1. /\ e.currency \in Currencies /\ e.method \in Methods
      /\ e.amountMinor \in Nat
      /\ DOMAIN e.shares \subseteq Members
      /\ \A m \in DOMAIN e.shares : e.shares[m] \in Nat
      /\ DOMAIN e.payers \subseteq Members /\ DOMAIN e.payers # {}
      /\ \A m \in DOMAIN e.payers : e.payers[m] \in Nat
      /\ \A m \in DOMAIN e.splitInput : e.splitInput[m] \in Int
  BY ExpensesAssumption
<1>2. /\ Amounts(e.shares, e.currency) \in [Members -> Text]
      /\ Unsigned(Amounts(e.shares, e.currency))
      /\ Amounts(e.payers, e.currency) \in [Members -> Text]
      /\ Unsigned(Amounts(e.payers, e.currency))
  BY <1>1, AmountsTyped
<1>3. minorToAmountString(e.amountMinor, e.currency) \in Text
  BY <1>1, RoundTrip
<1>4. (CHOOSE m \in DOMAIN e.payers : \A k \in DOMAIN e.payers : m <= k) \in Members
  BY <1>1, MembersAssumption, FS_Subset, FirstExists
<1> DEFINE stored(w) == splitInputsFromStored(w, Members, e.splitInput, e.currency)
           weights == [w \in Weighted |-> IF w # e.method THEN BlankFields ELSE stored(w)]
<1>5. weights \in [Weighted -> [Members -> Text]]
  <2>1. \A w \in Weighted : stored(w) \in [Members -> Text]
    <3>1. \A m \in DOMAIN e.splitInput :
            /\ minorToAmountString(e.splitInput[m], e.currency) \in Text
            /\ Plain(e.splitInput[m]) \in Text
      BY <1>1, RoundTrip DEF Plain, Text
    <3> QED BY <3>1, BlankIs DEF splitInputsFromStored
  <2>2. BlankFields \in [Members -> Text]
    BY BlankIs DEF BlankFields
  <2> HIDE DEF stored
  <2> QED BY <2>1, <2>2
<1>6. (IF e.method = "equal" THEN DOMAIN e.shares ELSE Members) \in SUBSET Members
  BY <1>1
<1>7. (Cardinality(DOMAIN e.payers) > 1) \in BOOLEAN
  OBVIOUS
<1> DEFINE lead == CHOOSE m \in DOMAIN e.payers : \A k \in DOMAIN e.payers : m <= k
           who == IF e.method = "equal" THEN DOMAIN e.shares ELSE Members
           many == Cardinality(DOMAIN e.payers) > 1
<1>8. Reopened(e) =
        [amount |-> minorToAmountString(e.amountMinor, e.currency), described |-> TRUE,
         currency |-> e.currency, method |-> e.method, included |-> who,
         exact |-> Amounts(e.shares, e.currency), weights |-> weights,
         multiPayer |-> many, payer |-> lead, payerAmounts |-> Amounts(e.payers, e.currency)]
  BY DEF Reopened
<1> HIDE DEF weights, lead, who, many
<1> QED BY <1>1, <1>2, <1>3, <1>4, <1>5, <1>6, <1>7, <1>8 DEF Forms, UnsignedForm, lead, who, many

-----------------------------------------------------------------------------
(* Filling it in by hand                                                   *)

(* No amount is typed with a sign.                                         *)
UnsignedTyping == \A t \in TypedAmounts : t.n >= 0

Filling(f) == f \in Forms /\ (UnsignedTyping /\ UnsignedForm(form) => UnsignedForm(f))

LEMMA TypedOne ==
  ASSUME NEW inputs \in [Members -> Text], NEW m \in Members, NEW t \in Text
  PROVE  /\ [inputs EXCEPT ![m] = t] \in [Members -> Text]
         /\ t.n >= 0 /\ Unsigned(inputs) => Unsigned([inputs EXCEPT ![m] = t])
  BY DEF Unsigned

LEMMA RescaledForm ==
  ASSUME form \in Forms, NEW c \in Currencies
  PROVE  Filling(rescaled(form, c))
<1> DEFINE amount == rescaleAmountString(form.amount, form.currency, c)
           exact == rescaleAmountFields(form.exact, form.amount, form.currency, c)
           paid == rescaleAmountFields(form.payerAmounts, form.amount, form.currency, c)
           offsets == [m \in Members |->
                         rescaleOffset(form.weights["adjustment"][m], form.currency, c)]
           weights == [form.weights EXCEPT !["adjustment"] = offsets]
<1>1. /\ form.amount \in Text /\ form.exact \in [Members -> Text]
      /\ form.payerAmounts \in [Members -> Text]
      /\ form.weights \in [Weighted -> [Members -> Text]] /\ "adjustment" \in Weighted
  BY DEF Forms, Weighted
<1>2. /\ amount \in Text
      /\ exact \in [Members -> Text] /\ (Unsigned(form.exact) => Unsigned(exact))
      /\ paid \in [Members -> Text] /\ (Unsigned(form.payerAmounts) => Unsigned(paid))
  BY <1>1, Rescaled, FieldsTyped
<1>3. weights \in [Weighted -> [Members -> Text]]
  <2>1. ASSUME NEW text \in Text PROVE rescaleOffset(text, form.currency, c) \in Text
    <3>1. [text EXCEPT !.n = -@] \in Text
      BY DEF Text
    <3>2. \A t \in Text : [rescaleAmountString(t, form.currency, c) EXCEPT !.n = -@] \in Text
      <4>1. \A t \in Text : [t EXCEPT !.n = -@] \in Text
        BY DEF Text
      <4> QED BY <4>1, Rescaled
    <3> QED BY <3>1, <3>2, Rescaled DEF rescaleOffset
  <2>2. offsets \in [Members -> Text]
    BY <1>1, <2>1
  <2> HIDE DEF offsets
  <2> QED BY <1>1, <2>2
<1>4. rescaled(form, c) = [form EXCEPT !.amount = amount, !.exact = exact,
                             !.payerAmounts = paid, !.weights = weights, !.currency = c]
  BY DEF rescaled, Forms
<1> HIDE DEF amount, exact, paid, weights
<1> QED BY <1>2, <1>3, <1>4 DEF Filling, Forms, UnsignedForm

ByHand ==
  \/ TypeAmount \/ Describe \/ PickCurrency \/ ChoosePayer \/ ManyPayers
  \/ PayerFields \/ PickMethod \/ Include \/ TypeShare

LEMMA EditsFill ==
  ASSUME form \in Forms, ByHand
  PROVE  Filling(form')
<1> USE TypedAssumption, MembersAssumption
<1>1. CASE TypeAmount
  BY <1>1 DEF TypeAmount, Edit, Filling, Forms, UnsignedForm
<1>2. CASE Describe
  BY <1>2 DEF Describe, Edit, Filling, Forms, UnsignedForm
<1>3. CASE PickCurrency
  BY <1>3, RescaledForm DEF PickCurrency, Edit
<1>4. CASE ChoosePayer
  BY <1>4 DEF ChoosePayer, Edit, Filling, Forms, UnsignedForm
<1>5. CASE ManyPayers
  <2> DEFINE minor == amountMinor(form)
             said == minorToAmountString(minor, form.currency)
             hasAny == DOMAIN Positive(Read(form.payerAmounts, form.currency)) # {}
             kept == hasAny \/ minor <= 0
             paid == [form.payerAmounts EXCEPT ![form.payer] = IF kept THEN @ ELSE said]
  <2>1. minor \in Int
    BY Parsed DEF amountMinor, Forms
  <2>2. said \in Text /\ said.n = minor
    <3> HIDE DEF minor
    <3> QED BY <2>1, RoundTrip
  <2>3. form.payer \in Members /\ form.payerAmounts \in [Members -> Text]
    BY DEF Forms
  <2>4. paid \in [Members -> Text] /\ (Unsigned(form.payerAmounts) => Unsigned(paid))
    <3> HIDE DEF said, minor, hasAny
    <3>1. CASE kept
      <4>1. paid = form.payerAmounts
        BY <3>1, <2>3
      <4> QED BY <4>1, <2>3
    <3>2. CASE ~kept
      <4>1. paid = [form.payerAmounts EXCEPT ![form.payer] = said] /\ said.n >= 0
        BY <3>2, <2>1, <2>2
      <4> HIDE DEF paid
      <4> QED BY <4>1, <2>2, <2>3, TypedOne
    <3> QED BY <3>1, <3>2
  <2>5. form' = [form EXCEPT !.multiPayer = TRUE, !.payerAmounts = paid]
    BY <1>5, <2>3 DEF ManyPayers, Edit, Forms
  <2> HIDE DEF paid
  <2> QED BY <2>4, <2>5 DEF Filling, Forms, UnsignedForm
<1>6. CASE PayerFields
  <2>1. CASE form' = [form EXCEPT !.multiPayer = FALSE]
    BY <2>1 DEF Filling, Forms, UnsignedForm
  <2>2. ASSUME NEW m \in Members, NEW t \in TypedAmounts,
               form' = [form EXCEPT !.payerAmounts[m] = t]
        PROVE  Filling(form')
    <3> DEFINE paid == [form.payerAmounts EXCEPT ![m] = t]
    <3>1. form.payerAmounts \in [Members -> Text] /\ t \in Text
      BY DEF Forms
    <3>2. paid \in [Members -> Text]
          /\ (t.n >= 0 /\ Unsigned(form.payerAmounts) => Unsigned(paid))
      BY <3>1, TypedOne
    <3>3. form' = [form EXCEPT !.payerAmounts = paid]
      BY <2>2 DEF Forms
    <3> HIDE DEF paid
    <3> QED BY <3>2, <3>3 DEF Filling, Forms, UnsignedForm, UnsignedTyping
  <2> QED BY <1>6, <2>1, <2>2 DEF PayerFields, Edit
<1>7. CASE PickMethod
  BY <1>7 DEF PickMethod, Edit, Filling, Forms, UnsignedForm
<1>8. CASE Include
  <2>1. PICK who \in SUBSET Members : form' = [form EXCEPT !.included = who]
    <3>1. CASE \E who \in {Members, {User}} : Edit([form EXCEPT !.included = who])
      BY <3>1, UserAssumption DEF Edit
    <3>2. CASE \E m \in Members :
                 Edit([form EXCEPT !.included = IF m \in @ THEN @ \ {m} ELSE @ \cup {m}])
      BY <3>2 DEF Edit, Forms
    <3> QED BY <1>8, <3>1, <3>2 DEF Include
  <2> QED BY <2>1 DEF Filling, Forms, UnsignedForm
<1>9. CASE TypeShare
  <2>1. ASSUME NEW m \in Members, NEW t \in TypedAmounts,
               form' = [form EXCEPT !.exact[m] = t]
        PROVE  Filling(form')
    <3> DEFINE exact == [form.exact EXCEPT ![m] = t]
    <3>1. form.exact \in [Members -> Text] /\ t \in Text
      BY DEF Forms
    <3>2. exact \in [Members -> Text] /\ (t.n >= 0 /\ Unsigned(form.exact) => Unsigned(exact))
      BY <3>1, TypedOne
    <3>3. form' = [form EXCEPT !.exact = exact]
      BY <2>1 DEF Forms
    <3> HIDE DEF exact
    <3> QED BY <3>2, <3>3 DEF Filling, Forms, UnsignedForm, UnsignedTyping
  <2>2. ASSUME NEW m \in Members, NEW w \in Weighted, NEW t \in Text,
               form' = [form EXCEPT !.weights[w][m] = t]
        PROVE  Filling(form')
    <3> DEFINE weights == [form.weights EXCEPT ![w][m] = t]
    <3>1. form.weights \in [Weighted -> [Members -> Text]]
      BY DEF Forms
    <3>2. weights \in [Weighted -> [Members -> Text]]
      BY <3>1
    <3>3. form' = [form EXCEPT !.weights = weights]
      BY <2>2 DEF Forms
    <3> HIDE DEF weights
    <3> QED BY <3>2, <3>3 DEF Filling, Forms, UnsignedForm
  <2>3. PICK m \in Members :
          \/ \E t \in TypedAmounts : form' = [form EXCEPT !.exact[m] = t]
          \/ form.method \in Weighted /\ \E t \in Text :
               form' = [form EXCEPT !.weights[form.method][m] = t]
    BY <1>9 DEF TypeShare, Edit
  <2> QED BY <2>1, <2>2, <2>3
<1> QED BY <1>1, <1>2, <1>3, <1>4, <1>5, <1>6, <1>7, <1>8, <1>9 DEF ByHand

-----------------------------------------------------------------------------
(* A parse in the form                                                     *)

Roles == {"thing", "tax", "tip", "total", "net"}
Row == [totalMinor : Int, role : Roles]
ReceiptFields == {"currency", "scale", "items", "taxMinor", "tipMinor", "totalMinor", "merchant"}

(* A figure that is not below nought, or none.                             *)
Due(figure) == figure # NoFigure => figure >= 0

(* Neither a printed total, nor a tax, nor a tip carries a sign.           *)
UnsignedFigures ==
  \A p \in Parses :
    /\ Due(p.taxMinor) /\ Due(p.tipMinor) /\ Due(p.totalMinor)
    /\ \A i \in DOMAIN p.items : p.items[i].role # "thing" => p.items[i].totalMinor >= 0

FiguresDue(p) == Due(p.taxMinor) /\ Due(p.tipMinor) /\ Due(p.totalMinor)

(* What normalizeParsedReceipt does to a figure.                           *)
Crossed(figure, scale, c) ==
  IF figure = NoFigure THEN figure ELSE bridgeMinor(figure, scale, c)

Recast(row, scale, c) == [row EXCEPT !.totalMinor = Crossed(@, scale, c)]

LEMMA CrossedIs ==
  ASSUME NEW figure \in Figure, NEW scale \in {1, 100}, NEW c
  PROVE  /\ Crossed(figure, scale, c) \in Figure
         /\ figure \in Int => Crossed(figure, scale, c) \in Int
         /\ Due(figure) => Due(Crossed(figure, scale, c))
<1>1. CASE figure = NoFigure
  BY <1>1, NoFigureAssumption DEF Crossed, Due, Figure
<1>2. CASE figure # NoFigure
  <2>1. figure \in Int
    BY <1>2 DEF Figure
  <2> QED BY <1>2, <2>1, Bridges DEF Crossed, Due, Figure
<1> QED BY <1>1, <1>2

LEMMA RowsAre ==
  ASSUME NEW p \in Parses
  PROVE  /\ IsFiniteSet(DOMAIN p.items) /\ DOMAIN p.items \subseteq Int
         /\ \A i \in DOMAIN p.items : p.items[i] \in Row
<1> DEFINE items == p.items
<1>1. items \in Seq(Row)
  BY ParsesAssumption DEF Row, Roles
<1> HIDE DEF items
<1>2. DOMAIN items = 1..Len(items) /\ Len(items) \in Nat /\ \A i \in DOMAIN items : items[i] \in Row
  BY <1>1
<1>3. IsFiniteSet(1..Len(items))
  BY <1>2, FS_Interval
<1> QED BY <1>2, <1>3 DEF items

LEMMA Normalized ==
  ASSUME NEW p \in Parses, NEW c
  PROVE  LET n == normalizeParsedReceipt(p, c) IN
           /\ DOMAIN n = ReceiptFields
           /\ n.currency = c
           /\ DOMAIN n.items = DOMAIN p.items
           /\ \A i \in DOMAIN p.items :
                /\ n.items[i].role = p.items[i].role
                /\ n.items[i].totalMinor = Crossed(p.items[i].totalMinor, p.scale, c)
           /\ n.taxMinor = Crossed(p.taxMinor, p.scale, c)
           /\ n.tipMinor = Crossed(p.tipMinor, p.scale, c)
           /\ n.totalMinor = Crossed(p.totalMinor, p.scale, c)
<1> DEFINE n == normalizeParsedReceipt(p, c)
           rows == [i \in DOMAIN p.items |-> Recast(p.items[i], p.scale, c)]
<1>1. DOMAIN p = ReceiptFields
  BY ParsesAssumption DEF ReceiptFields
<1>2. n = [p EXCEPT !.currency = c, !.scale = minorUnitScale(c),
             !.items = rows,
             !.taxMinor = Crossed(@, p.scale, c), !.tipMinor = Crossed(@, p.scale, c),
             !.totalMinor = Crossed(@, p.scale, c)]
  BY DEF normalizeParsedReceipt, Crossed, Recast
<1>3. \A i \in DOMAIN p.items : p.items[i] \in Row
  BY RowsAre
<1>4. /\ DOMAIN rows = DOMAIN p.items
      /\ \A i \in DOMAIN p.items :
           /\ rows[i].role = p.items[i].role
           /\ rows[i].totalMinor = Crossed(p.items[i].totalMinor, p.scale, c)
  <2>1. \A row \in Row : /\ Recast(row, p.scale, c).role = row.role
                         /\ Recast(row, p.scale, c).totalMinor
                              = Crossed(row.totalMinor, p.scale, c)
    BY DEF Row, Recast
  <2>2. DOMAIN rows = DOMAIN p.items
        /\ \A i \in DOMAIN p.items : rows[i] = Recast(p.items[i], p.scale, c)
    OBVIOUS
  <2> HIDE DEF rows
  <2> QED BY <1>3, <2>1, <2>2
<1> HIDE DEF n
<1>5. /\ DOMAIN n = ReceiptFields /\ n.currency = c /\ n.items = rows
      /\ n.taxMinor = Crossed(p.taxMinor, p.scale, c)
      /\ n.tipMinor = Crossed(p.tipMinor, p.scale, c)
      /\ n.totalMinor = Crossed(p.totalMinor, p.scale, c)
  BY <1>1, <1>2 DEF ReceiptFields
<1> HIDE DEF rows
<1> QED BY <1>4, <1>5 DEF n

LEMMA FirstOfIs ==
  ASSUME NEW items, IsFiniteSet(DOMAIN items), DOMAIN items \subseteq Int,
         \A i \in DOMAIN items : items[i].totalMinor \in Int,
         NEW role, NEW found \in Figure
  PROVE  /\ FirstOf(items, role, found) \in Figure
         /\ Due(found) /\ (\A i \in DOMAIN items :
                             items[i].role = role => items[i].totalMinor >= 0)
              => Due(FirstOf(items, role, found))
<1> DEFINE rows == {i \in DOMAIN items : items[i].role = role}
           first == CHOOSE i \in rows : \A j \in rows : i <= j
<1>1. FirstOf(items, role, found)
        = IF found # NoFigure \/ rows = {} THEN found ELSE items[first].totalMinor
  BY DEF FirstOf
<1>2. CASE found # NoFigure \/ rows = {}
  BY <1>1, <1>2
<1>3. CASE ~(found # NoFigure \/ rows = {})
  <2>1. first \in rows
    <3>1. rows \in SUBSET Int /\ IsFiniteSet(rows) /\ rows # {}
      BY <1>3, FS_Subset
    <3> HIDE DEF rows
    <3> QED BY <3>1, FirstExists
  <2>2. FirstOf(items, role, found) = items[first].totalMinor
    BY <1>1, <1>3
  <2> HIDE DEF first
  <2> QED BY <2>1, <2>2 DEF Figure, Due
<1> QED BY <1>2, <1>3

(* The lines left are the things, and the figures found are figures.       *)
LEMMA FoldedIs ==
  ASSUME NEW n, {"items", "taxMinor", "tipMinor", "totalMinor"} \subseteq DOMAIN n,
         Legible(n), DOMAIN n.items \subseteq Int
  PROVE  LET q == foldSummaryLines(n) IN
           /\ Legible(q)
           /\ \A x \in DOMAIN n \ {"items", "taxMinor", "tipMinor"} : q[x] = n[x]
           /\ DOMAIN q.items \subseteq DOMAIN n.items
           /\ \A i \in DOMAIN q.items : q.items[i] = n.items[i] /\ n.items[i].role = "thing"
           /\ FiguresDue(n)
              /\ (\A i \in DOMAIN n.items :
                    n.items[i].role # "thing" => n.items[i].totalMinor >= 0)
                => FiguresDue(q)
<1> DEFINE q == foldSummaryLines(n)
           kept == [i \in {k \in DOMAIN n.items : n.items[k].role = "thing"} |-> n.items[i]]
<1>1. q = [n EXCEPT !.items = kept, !.taxMinor = FirstOf(n.items, "tax", n.taxMinor),
                    !.tipMinor = FirstOf(n.items, "tip", n.tipMinor)]
  BY DEF foldSummaryLines
<1>2. /\ DOMAIN kept \subseteq DOMAIN n.items
      /\ \A i \in DOMAIN kept : kept[i] = n.items[i] /\ n.items[i].role = "thing"
  OBVIOUS
<1> HIDE DEF kept, q
<1>3. /\ q.items = kept
      /\ \A x \in DOMAIN n \ {"items", "taxMinor", "tipMinor"} : q[x] = n[x]
      /\ q.totalMinor = n.totalMinor
      /\ q.taxMinor = FirstOf(n.items, "tax", n.taxMinor)
      /\ q.tipMinor = FirstOf(n.items, "tip", n.tipMinor)
  BY <1>1
<1>4. /\ IsFiniteSet(DOMAIN n.items)
      /\ \A i \in DOMAIN n.items : n.items[i].totalMinor \in Int
      /\ n.taxMinor \in Figure /\ n.tipMinor \in Figure /\ n.totalMinor \in Figure
  BY DEF Legible
<1>5. Legible(q)
  <2>1. q.taxMinor \in Figure /\ q.tipMinor \in Figure
    BY <1>3, <1>4, FirstOfIs
  <2> QED BY <1>2, <1>3, <1>4, <2>1, FS_Subset DEF Legible
<1>6. FiguresDue(n)
      /\ (\A i \in DOMAIN n.items : n.items[i].role # "thing" => n.items[i].totalMinor >= 0)
        => FiguresDue(q)
  <2> SUFFICES ASSUME FiguresDue(n),
                      \A i \in DOMAIN n.items :
                        n.items[i].role # "thing" => n.items[i].totalMinor >= 0
               PROVE  FiguresDue(q)
    OBVIOUS
  <2>1. Due(q.taxMinor) /\ Due(q.tipMinor)
    BY <1>3, <1>4, FirstOfIs DEF FiguresDue
  <2> QED BY <1>3, <2>1 DEF FiguresDue
<1> QED BY <1>2, <1>3, <1>5, <1>6 DEF q

LEMMA PinnedIs ==
  ASSUME NEW p \in Parses
  PROVE  /\ Legible(pinned(p)) /\ pinned(p).currency = parseCurrency(p)
         /\ UnsignedFigures => FiguresDue(pinned(p))
<1> DEFINE c == parseCurrency(p)
           n == normalizeParsedReceipt(p, c)
           q == foldSummaryLines(n)
<1>1. /\ p.scale \in {1, 100}
      /\ IsFiniteSet(DOMAIN p.items) /\ DOMAIN p.items \subseteq Int
      /\ \A i \in DOMAIN p.items : p.items[i].totalMinor \in Int
      /\ p.taxMinor \in Figure /\ p.tipMinor \in Figure /\ p.totalMinor \in Figure
  <2>1. \A i \in DOMAIN p.items : p.items[i].totalMinor \in Int
    BY RowsAre DEF Row
  <2> QED BY <2>1, RowsAre, ParsesAssumption
<1>2. /\ DOMAIN n = ReceiptFields
      /\ n.currency = c
      /\ DOMAIN n.items = DOMAIN p.items
      /\ \A i \in DOMAIN p.items :
           /\ n.items[i].role = p.items[i].role
           /\ n.items[i].totalMinor = Crossed(p.items[i].totalMinor, p.scale, c)
      /\ n.taxMinor = Crossed(p.taxMinor, p.scale, c)
      /\ n.tipMinor = Crossed(p.tipMinor, p.scale, c)
      /\ n.totalMinor = Crossed(p.totalMinor, p.scale, c)
  BY Normalized
<1> HIDE DEF n, c
<1>3. /\ IsFiniteSet(DOMAIN n.items) /\ DOMAIN n.items \subseteq Int
      /\ \A i \in DOMAIN n.items : n.items[i].totalMinor \in Int
      /\ n.taxMinor \in Figure /\ n.tipMinor \in Figure /\ n.totalMinor \in Figure
  <2>1. \A i \in DOMAIN p.items : Crossed(p.items[i].totalMinor, p.scale, c) \in Int
    <3> SUFFICES ASSUME NEW i \in DOMAIN p.items
                 PROVE  Crossed(p.items[i].totalMinor, p.scale, c) \in Int
      OBVIOUS
    <3>1. p.items[i].totalMinor \in Int /\ p.items[i].totalMinor \in Figure
      BY <1>1 DEF Figure
    <3> QED BY <1>1, <3>1, CrossedIs
  <2>2. /\ Crossed(p.taxMinor, p.scale, c) \in Figure
        /\ Crossed(p.tipMinor, p.scale, c) \in Figure
        /\ Crossed(p.totalMinor, p.scale, c) \in Figure
    BY <1>1, CrossedIs
  <2> QED BY <1>1, <1>2, <2>1, <2>2
<1>4. UnsignedFigures =>
        /\ Due(n.taxMinor) /\ Due(n.tipMinor) /\ Due(n.totalMinor)
        /\ \A i \in DOMAIN n.items : n.items[i].role # "thing" => n.items[i].totalMinor >= 0
  <2> SUFFICES ASSUME UnsignedFigures
               PROVE  /\ Due(n.taxMinor) /\ Due(n.tipMinor) /\ Due(n.totalMinor)
                      /\ \A i \in DOMAIN n.items :
                           n.items[i].role # "thing" => n.items[i].totalMinor >= 0
    OBVIOUS
  <2>1. Due(n.taxMinor) /\ Due(n.tipMinor) /\ Due(n.totalMinor)
    BY <1>1, <1>2, CrossedIs DEF UnsignedFigures
  <2>2. ASSUME NEW i \in DOMAIN n.items, n.items[i].role # "thing"
        PROVE  n.items[i].totalMinor >= 0
    <3>1. p.items[i].totalMinor \in Int /\ p.items[i].totalMinor >= 0
      BY <1>1, <1>2, <2>2 DEF UnsignedFigures
    <3>2. Due(Crossed(p.items[i].totalMinor, p.scale, c))
      BY <1>1, <3>1, CrossedIs DEF Figure, Due
    <3> QED BY <1>2, <1>3, <3>2, NoFigureAssumption DEF Due
  <2> QED BY <2>1, <2>2
<1>5. /\ Legible(q) /\ q.currency = c
      /\ UnsignedFigures => FiguresDue(q)
  <2>1. Legible(n)
    BY <1>3 DEF Legible
  <2>2. /\ "currency" \in DOMAIN n \ {"items", "taxMinor", "tipMinor"}
        /\ {"items", "taxMinor", "tipMinor", "totalMinor"} \subseteq DOMAIN n
    BY <1>2 DEF ReceiptFields
  <2>3. UnsignedFigures => FiguresDue(n)
    BY <1>4 DEF FiguresDue
  <2> QED BY <1>2, <1>3, <1>4, <2>1, <2>2, <2>3, FoldedIs
<1>6. pinned(p) = q
  BY DEF pinned, q, n, c
<1> QED BY <1>5, <1>6 DEF c

-----------------------------------------------------------------------------
(* What the form holds                                                     *)

(* The parse kept for "Split by item" ...                                  *)
ParseOK == lastParsed # None => Legible(lastParsed) /\ lastParsed.currency \in Currencies

(* ... is there while that sheet is open, and no scan runs under it.       *)
SheetOK == assigning \in BOOLEAN /\ (assigning => lastParsed # None /\ scan = NoScan)

FieldsOK == form \in Forms /\ ParseOK /\ SheetOK

(* A way of saying who had what of the last parse's lines.                 *)
Handing(sharing) ==
  /\ \A i \in DOMAIN lastParsed.items : lastParsed.items[i].totalMinor >= 0
  /\ sharing \in [DOMAIN lastParsed.items -> (SUBSET Members) \ {{}}]

LEMMA AssignedIs ==
  ASSUME Legible(lastParsed), NEW sharing, Handing(sharing)
  PROVE  LET out == Assigned(sharing).shares
             owing == receiptBill(lastParsed, {}, 0)
         IN  /\ Assigned(sharing).currency = lastParsed.currency
             /\ Assigned(sharing).totalMinor = owing.totalMinor /\ owing.totalMinor \in Int
             /\ \E M \in SUBSET Members : out \in [M -> Int]
             /\ owing.itemsSum > 0 => SumOf(out) = owing.totalMinor
             /\ FiguresDue(lastParsed) =>
                  owing.totalMinor >= 0 /\ \A m \in DOMAIN out : out[m] >= 0
<1> DEFINE owing == receiptBill(lastParsed, {}, 0)
           out == assignedShares(lastParsed.items, sharing, {}, owing.extraMinor)
<1>1. Assigned(sharing) = [currency |-> lastParsed.currency, totalMinor |-> owing.totalMinor,
                          shares |-> out]
  BY DEF Assigned
<1>2. Served(Members, lastParsed.items, sharing, {})
  BY DEF Handing, Legible, Served
<1>3. Billed(owing, lastParsed, 0, SumOf(Kept(lastParsed.items, {})))
  BY BillIs
<1>4. /\ \E M \in SUBSET Members : out \in [M -> Int]
      /\ owing.itemsSum > 0 => SumOf(out) = owing.totalMinor
      /\ owing.itemsSum >= 0
      /\ owing.totalMinor >= 0 => \A m \in DOMAIN out : out[m] >= 0
  BY <1>2, MembersAssumption, SharesComeToBill
<1> HIDE DEF owing, out
<1>5. FiguresDue(lastParsed) => owing.totalMinor >= 0
  <2> SUFFICES ASSUME FiguresDue(lastParsed) PROVE owing.totalMinor >= 0
    OBVIOUS
  <2>1. /\ OrZero(lastParsed.taxMinor) \in Nat /\ OrZero(lastParsed.tipMinor) \in Nat
        /\ lastParsed.totalMinor # NoFigure => lastParsed.totalMinor \in Nat
    BY DEF FiguresDue, Due, OrZero, Legible, Figure
  <2> QED BY <1>3, <1>4, <2>1 DEF Billed
<1> QED BY <1>1, <1>3, <1>4, <1>5 DEF Billed, owing, out

LEMMA AppliedIs ==
  ASSUME form \in Forms, Legible(lastParsed), lastParsed.currency \in Currencies,
         NEW sharing, Handing(sharing), applyAssignment(Assigned(sharing))
  PROVE  /\ form' \in Forms
         /\ FiguresDue(lastParsed) /\ UnsignedForm(form) => UnsignedForm(form')
<1> DEFINE c == lastParsed.currency
           out == Assigned(sharing).shares
           minor == Assigned(sharing).totalMinor
<1>1. /\ minor \in Int
      /\ \A m \in DOMAIN out : out[m] \in Int
      /\ FiguresDue(lastParsed) => \A m \in DOMAIN out : out[m] >= 0
      /\ Assigned(sharing).currency = c
  BY AssignedIs
<1>2. form' = [form EXCEPT !.amount = minorToAmountString(minor, c), !.currency = c,
                           !.method = "exact", !.exact = Amounts(out, c)]
  BY <1>1 DEF applyAssignment
<1> HIDE DEF out, minor
<1>3. minorToAmountString(minor, c) \in Text
  BY <1>1, RoundTrip
<1>4. Amounts(out, c) \in [Members -> Text]
      /\ (FiguresDue(lastParsed) => Unsigned(Amounts(out, c)))
  BY <1>1, AmountsTyped
<1>5. "exact" \in Methods
  BY DEF Methods
<1> QED BY <1>2, <1>3, <1>4, <1>5 DEF Forms, UnsignedForm

LEMMA ParseTyped ==
  ASSUME form \in Forms, NEW p \in Parses, applyParse(p)
  PROVE  /\ form' \in Forms /\ (UnsignedForm(form) => UnsignedForm(form'))
         /\ Legible(lastParsed') /\ (lastParsed').currency \in Currencies
         /\ UnsignedFigures => FiguresDue(lastParsed')
<1> DEFINE q == pinned(p)
           total == IF q.totalMinor # NoFigure THEN q.totalMinor
                    ELSE IF q.items # <<>> THEN receiptBill(q, {}, 0).billTotal
                    ELSE NoFigure
           amount == IF total = NoFigure THEN form.amount
                     ELSE minorToAmountString(total, q.currency)
<1>1. /\ Legible(q) /\ q.currency = parseCurrency(p)
      /\ UnsignedFigures => FiguresDue(q)
  BY PinnedIs
<1>2. q.currency \in Currencies
  BY <1>1 DEF parseCurrency, Forms
<1>3. /\ lastParsed' = q
      /\ form' = [form EXCEPT !.amount = amount, !.currency = q.currency,
                              !.described = @ \/ p.merchant]
  BY DEF applyParse
<1>4. amount \in Text
  <2>1. receiptBill(q, {}, 0).billTotal \in Int
    <3> HIDE DEF q
    <3>1. Billed(receiptBill(q, {}, 0), q, 0, SumOf(Kept(q.items, {})))
      BY <1>1, BillIs
    <3> QED BY <3>1 DEF Billed
  <2>2. q.totalMinor \in Figure
    BY <1>1 DEF Legible
  <2> HIDE DEF q
  <2>3. total = NoFigure \/ total \in Int
    BY <2>1, <2>2 DEF Figure
  <2> HIDE DEF total
  <2> QED BY <2>3, RoundTrip DEF Forms
<1>5. p.merchant \in BOOLEAN
  BY ParsesAssumption
<1> HIDE DEF q, amount
<1> QED BY <1>1, <1>2, <1>3, <1>4, <1>5 DEF Forms, UnsignedForm

(* The steps that leave the fields alone.                                  *)
Untouched == UNCHANGED <<form, lastParsed, assigning>>

LEMMA ScanningIs ==
  scan.stage # "idle" => scan # NoScan
  BY DEF NoScan

LEMMA StepsUntouched ==
  ASSUME SheetOK,
         \/ onScanFile \/ onRescan \/ Prepared \/ ScanFailed \/ Queued \/ awaitTurn
         \/ WaitedTooLong \/ Cancel \/ submit
         \/ \E r \in requests : LookUp(r) \/ Store(r) \/ Answered(r) \/ Failed(r)
  PROVE  Untouched /\ SheetOK'
<1>1. CASE onScanFile \/ onRescan
  BY <1>1 DEF onScanFile, onRescan, StartScan, Usable, SheetOK, Untouched, fields
<1>2. CASE Prepared \/ ScanFailed \/ Queued \/ awaitTurn
  <2>1. scan # NoScan
    BY <1>2, ScanningIs DEF Prepared, ScanFailed, Queued, awaitTurn
  <2>2. UNCHANGED fields
    BY <1>2 DEF Prepared, ScanFailed, Queued, awaitTurn, sleep, sleepUnless, ScanStep
  <2> QED BY <2>1, <2>2 DEF SheetOK, Untouched, fields
<1>3. CASE WaitedTooLong
  BY <1>3, ScanningIs DEF WaitedTooLong, SheetOK, Untouched
<1>4. CASE Cancel
  <2>1. UNCHANGED fields
    BY <1>4 DEF Cancel, abort, waitCancel, ScanStep
  <2> QED BY <1>4, <2>1 DEF Cancel, SheetOK, Untouched, fields
<1>5. CASE submit
  BY <1>5 DEF submit, Send, SheetOK, Untouched, fields
<1>6. ASSUME NEW r \in requests, LookUp(r) \/ Store(r) \/ Answered(r) \/ Failed(r)
      PROVE  Untouched /\ SheetOK'
  BY <1>6 DEF LookUp, Store, Answered, Failed, SheetOK, Untouched, fields
<1> QED BY <1>1, <1>2, <1>3, <1>4, <1>5, <1>6

LEMMA StepsByHand ==
  ByHand => /\ Usable
            /\ UNCHANGED <<lastParsed, assigning, scan>>
  BY DEF ByHand, TypeAmount, Describe, PickCurrency, ChoosePayer, ManyPayers, PayerFields,
     PickMethod, Include, TypeShare, Edit

(* The sheet hands its result over, or it is closed.                       *)
LEMMA StepsAssign ==
  ASSUME FieldsOK, AssignDone
  PROVE  /\ Legible(lastParsed) /\ lastParsed.currency \in Currencies
         /\ UNCHANGED <<lastParsed, scan>> /\ assigning' = FALSE
         /\ \/ \E sharing : Handing(sharing) /\ applyAssignment(Assigned(sharing))
            \/ UNCHANGED form
  BY DEF AssignDone, FieldsOK, SheetOK, ParseOK, Handing

LEMMA NextFields ==
  ASSUME FieldsOK, [Next]_vars
  PROVE  FieldsOK'
<1> USE DEF FieldsOK
<1>1. CASE ByHand
  <2>1. form' \in Forms
    BY <1>1, EditsFill DEF Filling
  <2> QED BY <1>1, <2>1, StepsByHand DEF ParseOK, SheetOK
<1>2. CASE SplitByItem
  BY <1>2 DEF SplitByItem, Usable, ParseOK, SheetOK
<1>3. CASE AssignDone
  BY <1>3, StepsAssign, AppliedIs DEF ParseOK, SheetOK
<1>4. CASE ScanAnswered
  <2>1. ~assigning /\ UNCHANGED assigning
    BY <1>4, ScanningIs DEF ScanAnswered, SheetOK
  <2>2. CASE UNCHANGED <<form, lastParsed>>
    BY <2>1, <2>2 DEF ParseOK, SheetOK
  <2>3. ASSUME NEW p \in Parses, applyParse(p) PROVE FieldsOK'
    BY <2>1, <2>3, ParseTyped DEF ParseOK, SheetOK
  <2> QED BY <1>4, <2>2, <2>3 DEF ScanAnswered
<1>5. ASSUME Untouched, SheetOK' PROVE FieldsOK'
  BY <1>5 DEF Untouched, ParseOK
<1>6. CASE UNCHANGED vars
  BY <1>6 DEF vars, fields, ParseOK, SheetOK
<1> QED BY <1>1, <1>2, <1>3, <1>4, <1>5, <1>6, StepsUntouched DEF Next, ByHand

(* Nothing on the form is below nought when nothing comes to it that way.  *)
Nonnegative == UnsignedForm(form) /\ (lastParsed # None => FiguresDue(lastParsed))

LEMMA NextNonnegative ==
  ASSUME UnsignedTyping, UnsignedFigures, FieldsOK, Nonnegative, [Next]_vars
  PROVE  Nonnegative'
<1> USE DEF Nonnegative
<1>1. UnsignedForm(form') /\ (lastParsed' # None => FiguresDue(lastParsed')) => Nonnegative'
  BY DEF UnsignedForm, Unsigned
<1>2. CASE ByHand
  BY <1>1, <1>2, EditsFill, StepsByHand DEF Filling, FieldsOK
<1>3. CASE AssignDone
  <2>1. CASE UNCHANGED form
    BY <1>1, <1>3, <2>1, StepsAssign
  <2>2. ASSUME NEW sharing, Handing(sharing), applyAssignment(Assigned(sharing))
        PROVE  Nonnegative'
    <3>1. /\ Legible(lastParsed) /\ lastParsed.currency \in Currencies
          /\ UNCHANGED lastParsed /\ lastParsed # None
      BY <1>3, StepsAssign DEF AssignDone, FieldsOK, SheetOK
    <3>2. UnsignedForm(form')
      BY <2>2, <3>1, AppliedIs DEF FieldsOK
    <3> QED BY <1>1, <3>1, <3>2
  <2> QED BY <1>3, <2>1, <2>2, StepsAssign
<1>4. CASE ScanAnswered
  <2>1. CASE UNCHANGED <<form, lastParsed>>
    BY <1>1, <2>1
  <2>2. ASSUME NEW p \in Parses, applyParse(p) PROVE Nonnegative'
    BY <1>1, <2>2, ParseTyped DEF FieldsOK
  <2> QED BY <1>4, <2>1, <2>2 DEF ScanAnswered
<1>5. ASSUME UNCHANGED <<form, lastParsed>> PROVE Nonnegative'
  BY <1>1, <1>5
<1>6. CASE SplitByItem \/ UNCHANGED vars
  BY <1>5, <1>6 DEF SplitByItem, vars, fields
<1>7. Untouched => UNCHANGED <<form, lastParsed>>
  BY DEF Untouched
<1> QED BY <1>2, <1>3, <1>4, <1>5, <1>6, <1>7, StepsUntouched DEF Next, ByHand, FieldsOK

LEMMA InitFields == Init => FieldsOK /\ Nonnegative
<1> SUFFICES ASSUME Init PROVE FieldsOK /\ Nonnegative
  OBVIOUS
<1>1. form \in Forms /\ UnsignedForm(form)
  BY NewFormTyped, ReopenedTyped DEF Init
<1> QED BY <1>1 DEF Init, FieldsOK, ParseOK, SheetOK, Nonnegative

-----------------------------------------------------------------------------
(* Type correctness                                                        *)

FlagsOK ==
  /\ client \in Clients /\ editing \in Expenses \cup {None}
  /\ saving \in BOOLEAN /\ allowDuplicate \in BOOLEAN /\ closed \in BOOLEAN
  /\ \A r \in requests : r.stage \in {"sent", "clear", "twin", "stored"}

OneOut == Requests /\ OneSaveAtATime /\ FlagsOK

LEMMA NextOneOut ==
  ASSUME OneOut, [Next]_vars
  PROVE  OneOut'
<1> USE DEF OneOut
<1> DEFINE kept == <<client, editing, filing, closed>>
<1>1. ASSUME UNCHANGED kept PROVE OneOut'
  BY <1>1 DEF filing, Requests, OneSaveAtATime, FlagsOK
<1>2. CASE submit
  <2> DEFINE r == [n |-> saves + 1, stage |-> "sent", allow |-> allowDuplicate,
                   body |-> payload(form)]
  <2>1. /\ requests = {} /\ requests' = {r} /\ saving' = TRUE
        /\ UNCHANGED <<client, editing, allowDuplicate, closed>>
    BY <1>2 DEF submit, Send, OneSaveAtATime
  <2>2. r.stage = "sent" /\ r = [n |-> r.n, stage |-> r.stage, allow |-> r.allow,
                                 body |-> r.body]
    OBVIOUS
  <2> HIDE DEF r
  <2> QED BY <2>1, <2>2 DEF Requests, OneSaveAtATime, FlagsOK
<1>3. ASSUME NEW r \in requests, LookUp(r) \/ Store(r) PROVE OneOut'
  <2>1. PICK stage \in {"twin", "clear", "stored"} :
          /\ requests' = Move(r, stage)
          /\ UNCHANGED <<client, editing, saving, allowDuplicate, closed>>
    BY <1>3 DEF LookUp, Store
  <2>2. PICK s : /\ requests' = {s} /\ s.stage = stage
                 /\ s = [n |-> s.n, stage |-> s.stage, allow |-> s.allow, body |-> s.body]
    BY <2>1, Moved
  <2> QED BY <2>1, <2>2 DEF Requests, OneSaveAtATime, FlagsOK
<1>4. ASSUME NEW r \in requests, Answered(r) \/ Failed(r) PROVE OneOut'
  <2>1. /\ requests' = {} /\ saving' = FALSE
        /\ allowDuplicate' \in BOOLEAN /\ closed' \in BOOLEAN
        /\ UNCHANGED <<client, editing>>
    BY <1>4, AloneOut DEF Answered, Failed, FlagsOK
  <2> QED BY <2>1 DEF Requests, OneSaveAtATime, FlagsOK
<1>5. CASE ByHand \/ SplitByItem \/ AssignDone \/ UNCHANGED vars
  BY <1>1, <1>5 DEF ByHand, TypeAmount, Describe, PickCurrency, ChoosePayer, ManyPayers,
     PayerFields, PickMethod, Include, TypeShare, Edit, SplitByItem, AssignDone, vars
<1>6. CASE \/ onScanFile \/ onRescan \/ Prepared \/ ScanAnswered \/ ScanFailed \/ Queued
           \/ awaitTurn \/ WaitedTooLong \/ Cancel
  BY <1>1, <1>6 DEF onScanFile, onRescan, Prepared, ScanAnswered, ScanFailed, Queued,
     awaitTurn, WaitedTooLong, Cancel, abort, waitCancel, sleep, sleepUnless, StartScan,
     ScanStep
<1> QED BY <1>2, <1>3, <1>4, <1>5, <1>6 DEF Next, ByHand

(* The fields, the scan and the requests are what their types say, through *)
(* every currency, receipt and split.                                      *)
THEOREM TypeCorrect == Spec => []TypeOK
<1> DEFINE Inv == FieldsOK /\ ScanTypeOK /\ CancelledStaysOut /\ OneOut
<1>1. Init => Inv
  <2>1. Init => ScanTypeOK /\ CancelledStaysOut
    BY DEF Init, NoScan, ScanTypeOK, Stages, CancelledStaysOut
  <2>2. Init => OneOut
    BY DEF Init, OneOut, Requests, OneSaveAtATime, FlagsOK
  <2> QED BY <2>1, <2>2, InitFields
<1>2. Inv /\ [Next]_vars => Inv'
  BY NextFields, NextStaysOut, NextOneOut
<1>3. Inv => TypeOK
  <2> SUFFICES ASSUME Inv PROVE TypeOK
    OBVIOUS
  <2>1. /\ form.amount \in Text /\ form.described \in BOOLEAN
        /\ form.currency \in Currencies /\ form.method \in Methods
        /\ form.included \in SUBSET Members /\ form.exact \in [Members -> Text]
        /\ form.weights \in [Weighted -> [Members -> Text]]
        /\ form.multiPayer \in BOOLEAN /\ form.payer \in Members
        /\ form.payerAmounts \in [Members -> Text]
    BY DEF FieldsOK, Forms
  <2>2. /\ lastParsed = None \/ lastParsed.currency \in Currencies
        /\ assigning \in BOOLEAN /\ (assigning => lastParsed # None)
    BY DEF FieldsOK, ParseOK, SheetOK
  <2>3. /\ scan \in [stage : Stages, cancelled : BOOLEAN, photo : Nat]
        /\ receiptId \in Nat \cup {None}
    BY DEF ScanTypeOK
  <2>4. FlagsOK /\ (saving <=> requests # {})
    BY DEF OneOut, OneSaveAtATime
  <2> QED BY <2>1, <2>2, <2>3, <2>4 DEF TypeOK, FlagsOK, Stages
<1> HIDE DEF Inv
<1> QED BY <1>1, <1>2, <1>3, PTL DEF Spec

-----------------------------------------------------------------------------
(* "Split by item"                                                         *)

(* Shares in the exact fields, read again.                                 *)
LEMMA ReadAmounts ==
  ASSUME NEW M \in SUBSET Members, NEW minor \in [M -> Int], NEW c,
         \A m \in M : minor[m] >= 0
  PROVE  /\ Read(Amounts(minor, c), c) \in [Members -> Nat]
         /\ SumOf(Read(Amounts(minor, c), c)) = SumOf(minor)
<1> DEFINE read == Read(Amounts(minor, c), c)
<1>1. \A m \in M : parseAmount(minorToAmountString(minor[m], c), c) = minor[m]
  BY RoundTrip
<1>2. read = [m \in Members |-> IF m \in M THEN minor[m] ELSE 0]
  BY <1>1, BlankIs DEF Read, Amounts
<1>3. read = Padded(minor, Members)
  BY <1>2 DEF Padded
<1>4. M \subseteq Members /\ IsFiniteSet(Members) /\ IsFiniteSet(M)
      /\ DOMAIN minor = M /\ \A m \in M : minor[m] \in Int
  BY MembersAssumption, FS_Subset
<1>5. SumOver(Padded(minor, Members), Members) = SumOver(minor, M)
  BY <1>4, SumPadded
<1>6. DOMAIN read = Members /\ read \in [Members -> Nat]
  BY <1>2
<1> HIDE DEF read
<1>7. SumOf(read) = SumOver(read, Members) /\ SumOf(minor) = SumOver(minor, M)
  BY <1>4, <1>6, SumOfIs
<1> QED BY <1>3, <1>5, <1>6, <1>7 DEF read

LEMMA HandedOver ==
  ASSUME form \in Forms, Legible(lastParsed), FiguresDue(lastParsed),
         receiptBill(lastParsed, {}, 0).itemsSum > 0,
         NEW sharing, Handing(sharing), applyAssignment(Assigned(sharing))
  PROVE  /\ form'.currency = lastParsed.currency
         /\ amountMinor(form') = receiptBill(lastParsed, {}, 0).totalMinor
         /\ remaining(form') = 0
<1> DEFINE c == lastParsed.currency
           owing == receiptBill(lastParsed, {}, 0)
           out == Assigned(sharing).shares
           total == owing.totalMinor
<1>1. /\ Assigned(sharing).currency = c /\ Assigned(sharing).totalMinor = total
      /\ total \in Int /\ total >= 0
      /\ SumOf(out) = total
      /\ \A m \in DOMAIN out : out[m] >= 0
      /\ \E M \in SUBSET Members : out \in [M -> Int]
  BY AssignedIs
<1>2. PICK M \in SUBSET Members : out \in [M -> Int]
  BY <1>1
<1>3. form' = [form EXCEPT !.amount = minorToAmountString(total, c), !.currency = c,
                           !.method = "exact", !.exact = Amounts(out, c)]
  BY <1>1 DEF applyAssignment
<1> HIDE DEF out, total
<1>4. /\ form'.currency = c /\ form'.amount = minorToAmountString(total, c)
      /\ form'.method = "exact" /\ form'.exact = Amounts(out, c)
  BY <1>3 DEF Forms
<1>5. amountMinor(form') = total
  BY <1>1, <1>4, RoundTrip DEF amountMinor
<1>6. shares(form') = IF total <= 0 THEN None ELSE Positive(Read(Amounts(out, c), c))
  BY <1>4, <1>5 DEF shares
<1> DEFINE read == Read(Amounts(out, c), c)
<1>7. read \in [Members -> Nat] /\ SumOf(read) = total
  <2>1. \A m \in M : out[m] >= 0
    BY <1>1, <1>2
  <2> QED BY <1>1, <1>2, <2>1, ReadAmounts
<1> HIDE DEF read
<1>8. SumOf(Positive(read)) = total
  BY <1>7, PositiveIs
<1>9. Positive(read) # None
  <2>1. Positive(read) \in [DOMAIN Positive(read) -> Int] /\ DOMAIN Positive(read) \in SUBSET Members
    BY <1>7 DEF Positive
  <2> QED BY <2>1, NoneAssumption
<1>10. remaining(form') = 0
  <2>1. CASE total <= 0
    BY <1>1, <1>5, <1>6, <2>1 DEF remaining
  <2>2. CASE ~(total <= 0)
    <3>1. shares(form') = Positive(read)
      BY <1>6, <2>2 DEF read
    <3> QED BY <1>1, <1>5, <1>8, <1>9, <3>1 DEF remaining
  <2> QED BY <2>1, <2>2
<1> QED BY <1>4, <1>5, <1>10 DEF total

(* Under the open sheet only its Continue touches the form.                *)
LEMMA OnlyAssign ==
  ASSUME FieldsOK, [Next]_vars, assigning, form' # form
  PROVE  AssignDone
<1>1. ~ByHand
  BY StepsByHand DEF Usable
<1>2. ~SplitByItem /\ ~UNCHANGED vars
  BY DEF SplitByItem, vars, fields
<1>3. ~ScanAnswered
  BY ScanningIs DEF ScanAnswered, FieldsOK, SheetOK
<1>4. ~Untouched
  BY DEF Untouched
<1> QED BY <1>1, <1>2, <1>3, <1>4, StepsUntouched DEF Next, ByHand, FieldsOK

(* Of a receipt whose printed total, tax and tip carry no sign, "Split by  *)
(* item" bills what it came to, in its own currency, and hands over exact  *)
(* shares that reconcile with it to the unit: whatever lines it has,       *)
(* whoever had them, and whatever the form showed before.                  *)
THEOREM Reconciles ==
  ASSUME UnsignedFigures, UnsignedTyping
  PROVE  Spec => AssignmentReconciles
<1> DEFINE Inv == FieldsOK /\ Nonnegative
           owing == receiptBill(lastParsed, {}, 0)
           Hands == assigning /\ form' # form =>
                      (owing.itemsSum > 0 =>
                         /\ form'.currency = lastParsed.currency
                         /\ amountMinor(form') = owing.totalMinor
                         /\ remaining(form') = 0)
<1>1. Init => Inv
  BY InitFields
<1>2. Inv /\ [Next]_vars => Inv'
  BY NextFields, NextNonnegative
<1>3. Inv /\ [Next]_vars => [Hands]_vars
  <2> SUFFICES ASSUME Inv, [Next]_vars, assigning, form' # form, owing.itemsSum > 0
               PROVE  /\ form'.currency = lastParsed.currency
                      /\ amountMinor(form') = owing.totalMinor
                      /\ remaining(form') = 0
    OBVIOUS
  <2>1. AssignDone
    BY OnlyAssign
  <2>2. /\ Legible(lastParsed) /\ FiguresDue(lastParsed) /\ form \in Forms
    BY <2>1 DEF AssignDone, FieldsOK, SheetOK, ParseOK, Nonnegative
  <2>3. PICK sharing : Handing(sharing) /\ applyAssignment(Assigned(sharing))
    BY <2>1, StepsAssign
  <2> QED BY <2>2, <2>3, HandedOver
<1>4. AssignmentReconciles <=> [][Hands]_vars
  BY PTL DEF AssignmentReconciles
<1> HIDE DEF Inv, Hands
<1> QED BY <1>1, <1>2, <1>3, <1>4, PTL DEF Spec

-----------------------------------------------------------------------------
(* Another currency                                                        *)

(* What Balanced comes to on exact shares.                                 *)
LEMMA BalancedExact ==
  ASSUME NEW f \in Forms, UnsignedForm(f), f.method = "exact"
  PROVE  Balanced(f) <=>
           /\ amountMinor(f) > 0
           /\ f.described =>
                /\ SumOf(Read(f.exact, f.currency)) = amountMinor(f)
                /\ f.multiPayer => SumOf(Read(f.payerAmounts, f.currency)) = amountMinor(f)
<1> DEFINE A == amountMinor(f)
           exact == Read(f.exact, f.currency)
           paid == Read(f.payerAmounts, f.currency)
<1>1. A \in Int
  BY Parsed DEF amountMinor, Forms
<1>2. exact \in [Members -> Nat] /\ paid \in [Members -> Nat]
  BY ReadIs DEF Forms, UnsignedForm
<1>3. shares(f) = IF A <= 0 THEN None ELSE Positive(exact)
  BY DEF shares
<1>4. payers(f) = IF ~f.multiPayer THEN [m \in {f.payer} |-> A] ELSE Positive(paid)
  BY DEF payers
<1> HIDE DEF A, exact, paid
<1>5. /\ SumOf(Positive(exact)) = SumOf(exact) /\ SumOf(exact) \in Nat
      /\ SumOf(exact) > 0 <=> DOMAIN Positive(exact) # {}
  BY <1>2, PositiveIs
<1>6. /\ SumOf(Positive(paid)) = SumOf(paid) /\ SumOf(paid) \in Nat
      /\ SumOf(paid) > 0 <=> DOMAIN Positive(paid) # {}
  BY <1>2, PositiveIs
<1>7. Positive(exact) # None
  <2>1. /\ Positive(exact) \in [DOMAIN Positive(exact) -> Int]
        /\ DOMAIN Positive(exact) \in SUBSET Members
    BY <1>2 DEF Positive
  <2> QED BY <2>1, NoneAssumption
<1> DEFINE alone == [m \in {f.payer} |-> A]
<1>8. DOMAIN alone = {f.payer} /\ SumOf(alone) = A
  <2>1. DOMAIN alone = {f.payer} /\ alone[f.payer] = A
    OBVIOUS
  <2> HIDE DEF alone
  <2>2. SumOf(alone) = SumOver(alone, {f.payer})
    BY <2>1, SumOfIs
  <2>3. SumOver(alone, {} \cup {f.payer}) = A + SumOver(alone, {})
    BY <1>1, <2>1, FS_EmptySet, SumAdd
  <2>4. {} \cup {f.payer} = {f.payer} /\ SumOver(alone, {}) = 0
    BY SumEmpty
  <2> QED BY <1>1, <2>1, <2>2, <2>3, <2>4
<1> HIDE DEF alone
<1>9. f.described \in BOOLEAN /\ f.multiPayer \in BOOLEAN
  BY DEF Forms
<1>10. CASE A <= 0
  <2>1. saveHint(f) = "amount"
    BY <1>10 DEF saveHint, A
  <2> QED BY <1>1, <1>10, <2>1 DEF Balanced, A
<1>11. CASE A > 0 /\ ~f.described
  <2>1. saveHint(f) = "description"
    BY <1>1, <1>11 DEF saveHint, A
  <2> QED BY <1>11, <2>1 DEF Balanced, A
<1>12. CASE A > 0 /\ f.described
  <2>1. shares(f) = Positive(exact) /\ remaining(f) = A - SumOf(exact)
    BY <1>1, <1>3, <1>5, <1>7, <1>12 DEF remaining, A
  <2>2. payersRemaining(f) = A - SumOf(payers(f))
    BY DEF payersRemaining, A
  <2>3. Balanced(f) <=> /\ DOMAIN shares(f) # {} /\ remaining(f) = 0
                        /\ DOMAIN payers(f) # {} /\ payersRemaining(f) = 0
    <3>1. ~(A <= 0) /\ shares(f) # None
      BY <1>1, <1>7, <1>12, <2>1
    <3>2. saveHint(f) =
            IF DOMAIN shares(f) = {} THEN "split"
            ELSE IF remaining(f) # 0 THEN "remaining"
            ELSE IF DOMAIN payers(f) = {} THEN "payer"
            ELSE IF payersRemaining(f) # 0 THEN "payers"
            ELSE "none"
      BY <1>12, <3>1, Zenon DEF saveHint, A
    <3> QED BY <3>2 DEF Balanced
  <2>4. DOMAIN shares(f) # {} /\ remaining(f) = 0 <=> SumOf(exact) = A
    BY <1>1, <1>5, <1>12, <2>1
  <2>5. DOMAIN payers(f) # {} /\ payersRemaining(f) = 0
          <=> (f.multiPayer => SumOf(paid) = A)
    <3>1. CASE f.multiPayer
      BY <1>1, <1>4, <1>6, <1>12, <2>2, <3>1
    <3>2. CASE ~f.multiPayer
      <4>1. payers(f) = alone
        BY <1>4, <3>2 DEF alone
      <4> QED BY <1>1, <1>8, <2>2, <3>2, <4>1
    <3> QED BY <1>9, <3>1, <3>2
  <2> QED BY <1>12, <2>3, <2>4, <2>5 DEF A, exact, paid
<1> QED BY <1>1, <1>9, <1>10, <1>11, <1>12

LEMMA SameScale ==
  ASSUME NEW from, NEW to, minorUnitScale(from) = minorUnitScale(to)
  PROVE  /\ \A text : parseAmount(text, from) = parseAmount(text, to)
         /\ \A inputs : Read(inputs, from) = Read(inputs, to)
  BY DEF parseAmount, Read

LEMMA PickKeeps ==
  ASSUME form \in Forms, UnsignedForm(form), NEW c \in Currencies,
         form' = rescaled(form, c),
         Balanced(form), form.method = "exact", amountMinor(form') > 0
  PROVE  Balanced(form')
<1> DEFINE from == form.currency
           A == amountMinor(form)
           B == amountMinor(form')
           bridged == bridgeMinor(A, minorUnitScale(from), c)
<1>1. form' \in Forms /\ UnsignedForm(rescaled(form, c)) /\ UnsignedForm(form')
  <2>1. rescaled(form, c) \in Forms
    BY RescaledForm DEF Filling
  <2>2. UnsignedForm(rescaled(form, c))
    <3>1. /\ form.amount \in Text /\ form.exact \in [Members -> Text]
          /\ form.payerAmounts \in [Members -> Text]
      BY DEF Forms
    <3>2. /\ rescaled(form, c).exact
               = rescaleAmountFields(form.exact, form.amount, form.currency, c)
          /\ rescaled(form, c).payerAmounts
               = rescaleAmountFields(form.payerAmounts, form.amount, form.currency, c)
      BY DEF rescaled, Forms
    <3> QED BY <3>1, <3>2, FieldsTyped DEF UnsignedForm
  <2> QED BY <2>1, <2>2
<1>2. /\ form'.amount = rescaleAmountString(form.amount, from, c)
      /\ form'.exact = rescaleAmountFields(form.exact, form.amount, from, c)
      /\ form'.payerAmounts = rescaleAmountFields(form.payerAmounts, form.amount, from, c)
      /\ form'.currency = c /\ form'.method = "exact"
      /\ form'.described = form.described /\ form'.multiPayer = form.multiPayer
  BY DEF rescaled, Forms
<1>3. /\ form.amount \in Text /\ form.exact \in [Members -> Text]
      /\ form.payerAmounts \in [Members -> Text]
      /\ Unsigned(form.exact) /\ Unsigned(form.payerAmounts)
      /\ form.described \in BOOLEAN
  BY DEF Forms, UnsignedForm
<1>4. /\ A = parseAmount(form.amount, from) /\ B = parseAmount(form'.amount, c)
  BY <1>2 DEF amountMinor
<1>5. /\ A > 0
      /\ form.described =>
           /\ SumOf(Read(form.exact, from)) = A
           /\ form.multiPayer => SumOf(Read(form.payerAmounts, from)) = A
  BY BalancedExact
<1>6. form.described =>
        /\ SumOf(Read(form'.exact, c)) = B
        /\ form'.multiPayer => SumOf(Read(form'.payerAmounts, c)) = B
  <2>1. CASE minorUnitScale(from) = minorUnitScale(c)
    <3>1. /\ form'.amount = form.amount /\ form'.exact = form.exact
          /\ form'.payerAmounts = form.payerAmounts
      BY <1>2, <2>1, FieldsAre DEF rescaleAmountString
    <3> QED BY <1>2, <1>4, <1>5, <2>1, <3>1, SameScale
  <2>2. CASE minorUnitScale(from) # minorUnitScale(c)
    <3>1. form.amount # Blank /\ A \in Int
      BY <1>3, <1>4, <1>5, BlankIs, Parsed
    <3>2. B = bridged
      BY <1>2, <1>3, <1>4, <1>5, <2>2, <3>1, Rescaled
    <3>3. SumOf(Read(form.exact, from)) = A => SumOf(Read(form'.exact, c)) = bridged
      BY <1>2, <1>3, <1>4, <1>5, <2>2, FieldsBalance
    <3>4. SumOf(Read(form.payerAmounts, from)) = A
            => SumOf(Read(form'.payerAmounts, c)) = bridged
      BY <1>2, <1>3, <1>4, <1>5, <2>2, FieldsBalance
    <3> QED BY <1>2, <1>5, <3>2, <3>3, <3>4
  <2> QED BY <2>1, <2>2
<1> DEFINE next == form'
<1>7. /\ next \in Forms /\ UnsignedForm(next) /\ next.method = "exact"
      /\ amountMinor(next) > 0
      /\ next.described =>
           /\ SumOf(Read(next.exact, next.currency)) = amountMinor(next)
           /\ next.multiPayer =>
                SumOf(Read(next.payerAmounts, next.currency)) = amountMinor(next)
  BY <1>1, <1>2, <1>6
<1> HIDE DEF next
<1>8. Balanced(next)
  BY <1>7, BalancedExact
<1> QED BY <1>8 DEF next

(* Exact shares and payer amounts that add up, of however many members,    *)
(* keep adding up to the amount when the currency is picked anew, between  *)
(* currencies with and without cents, if nothing was typed with a sign.    *)
THEOREM BalanceSurvives ==
  ASSUME UnsignedTyping, UnsignedFigures
  PROVE  Spec => RescaleKeepsBalance
<1> DEFINE Inv == FieldsOK /\ Nonnegative
           Keeps == /\ PickCurrency
                    /\ Balanced(form)
                    /\ form.method = "exact" /\ amountMinor(form') > 0
                    => Balanced(form')
<1>1. Init => Inv
  BY InitFields
<1>2. Inv /\ [Next]_vars => Inv'
  BY NextFields, NextNonnegative
<1>3. Inv => [Keeps]_vars
  BY PickKeeps DEF PickCurrency, Edit, FieldsOK, Nonnegative
<1>4. RescaleKeepsBalance <=> [][Keeps]_vars
  BY PTL DEF RescaleKeepsBalance
<1> HIDE DEF Inv, Keeps
<1> QED BY <1>1, <1>2, <1>3, <1>4, PTL DEF Spec

-----------------------------------------------------------------------------
(* Opening what was filed                                                  *)

(* Everyone's part of an equal split is within a unit of the proportion.   *)
LEMMA EqualWithin ==
  ASSUME NEW totalMinor \in Nat, NEW given, DOMAIN given \in SUBSET Int,
         IsFiniteSet(DOMAIN given), DOMAIN given # {}
  PROVE  /\ Cardinality(DOMAIN given) \in Nat \ {0}
         /\ \A i \in DOMAIN given :
              Cardinality(DOMAIN given) * computeSplit("equal", totalMinor, given)[i] - totalMinor
                \in (1 - Cardinality(DOMAIN given)) .. (Cardinality(DOMAIN given) - 1)
<1> DEFINE D == DOMAIN given
           weight == [i \in D |-> 1]
           n == Cardinality(D)
<1>1. weight = [i \in D |-> 1] /\ \A i \in D : weight[i] = 1
  OBVIOUS
<1> HIDE DEF weight
<1>2. /\ weight \in [D -> Nat] /\ SumOf(weight) = n /\ n \in Nat \ {0}
      /\ computeSplit("equal", totalMinor, given) = apportion(totalMinor, weight)
  BY <1>1, EqualApportions
<1> HIDE DEF n
<1>3. \A i \in D : n * apportion(totalMinor, weight)[i] - totalMinor * weight[i]
                     \in (1 - n) .. (n - 1)
  BY <1>2, Apportioned
<1>4. \A i \in D : totalMinor * weight[i] = totalMinor
  BY <1>1
<1> QED BY <1>2, <1>3, <1>4 DEF n

(* Among those an equal split gives anything, it is split equally again.   *)
LEMMA EqualAgain ==
  ASSUME NEW totalMinor \in Nat, totalMinor > 0,
         NEW given, DOMAIN given \in SUBSET Int, IsFiniteSet(DOMAIN given), DOMAIN given # {},
         NEW again, DOMAIN again = DOMAIN Positive(computeSplit("equal", totalMinor, given))
  PROVE  /\ DOMAIN again # {} /\ DOMAIN again \subseteq DOMAIN given
         /\ Positive(computeSplit("equal", totalMinor, again))
              = Positive(computeSplit("equal", totalMinor, given))
<1> DEFINE D == DOMAIN given
           A == DOMAIN again
           out == computeSplit("equal", totalMinor, given)
           more == computeSplit("equal", totalMinor, again)
           n == Cardinality(D)
           k == Cardinality(A)
<1>1. out \in [D -> Nat] /\ SumOf(out) = totalMinor
  BY EqualSplit
<1>2. n \in Nat \ {0} /\ \A i \in D : n * out[i] - totalMinor \in (1 - n) .. (n - 1)
  BY EqualWithin
<1> HIDE DEF n, out
<1>3. A = {i \in D : out[i] > 0} /\ A \in SUBSET Int /\ IsFiniteSet(A)
  <2>1. A = {i \in D : out[i] > 0}
    BY <1>1 DEF Positive, out
  <2> QED BY <2>1, FS_Subset
<1>4. Positive(out) = [i \in A |-> out[i]]
  BY <1>1, <1>3 DEF Positive
<1>5. SumOf(Positive(out)) = totalMinor /\ A # {}
  <2> DEFINE above == [i \in {j \in D : out[j] > 0} |-> out[i]]
  <2>1. above = Positive(out)
    BY <1>3, <1>4
  <2>2. SumOf(above) = SumOf(out) /\ (SumOf(out) > 0 <=> DOMAIN above # {})
    <3>1. above = [m \in {j \in D : out[j] > 0} |-> out[m]]
      OBVIOUS
    <3> HIDE DEF above
    <3> QED BY <1>1, <3>1, AboveNought
  <2> HIDE DEF above
  <2>3. DOMAIN above = A
    BY <1>4, <2>1
  <2> QED BY <1>1, <2>1, <2>2, <2>3
<1>6. CASE A = D
  <2>1. computeSplit("equal", totalMinor, again) = computeSplit("equal", totalMinor, given)
    BY <1>6, Zenon DEF computeSplit
  <2> QED BY <1>5, <1>6, <2>1 DEF out
<1>7. CASE A # D
  <2>1. PICK z \in D : out[z] = 0
    BY <1>1, <1>3, <1>7
  <2>2. totalMinor <= n - 1
    BY <1>2, <2>1
  <2>3. \A i \in A : out[i] = 1
    <3> SUFFICES ASSUME NEW i \in A PROVE out[i] = 1
      OBVIOUS
    <3>1. out[i] \in Nat /\ out[i] > 0 /\ n * out[i] - totalMinor <= n - 1
      BY <1>1, <1>2, <1>3
    <3>2. \A a, x, t \in Nat : a > 0 /\ t <= a - 1 /\ a * x - t <= a - 1 => x < 2
      <4> SUFFICES ASSUME NEW a \in Nat, NEW x \in Nat, NEW t \in Nat,
                          a > 0, t <= a - 1, a * x - t <= a - 1, x >= 2
                   PROVE  FALSE
        OBVIOUS
      <4>1. a * x >= a * 2
        BY Z3
      <4> QED BY <4>1, Z3
    <3> QED BY <1>2, <2>2, <3>1, <3>2
  <2>4. k = totalMinor
    <3>1. Positive(out) = [i \in A |-> 1]
      BY <1>4, <2>3
    <3> DEFINE ones == Positive(out)
    <3>2. SumOf(ones) = SumOver(ones, A) /\ \A i \in A : ones[i] = IF i \in A THEN 1 ELSE 0
      <4>1. DOMAIN ones = A
        BY <3>1
      <4> QED BY <3>1, <4>1, SumOfIs
    <3> HIDE DEF ones
    <3>3. SumOver(ones, A) = k
      BY <1>3, <3>2, SumOfOnes
    <3> QED BY <1>5, <3>2, <3>3 DEF ones
  <2>5. /\ more \in [A -> Nat] /\ k \in Nat \ {0}
        /\ \A i \in A : k * more[i] - totalMinor \in (1 - k) .. (k - 1)
    BY <1>3, <1>5, EqualSplit, EqualWithin
  <2> HIDE DEF k, more
  <2>6. \A i \in A : more[i] = 1
    <3> SUFFICES ASSUME NEW i \in A PROVE more[i] = 1
      OBVIOUS
    <3>1. more[i] \in Nat /\ k * more[i] - k \in (1 - k) .. (k - 1)
      BY <2>4, <2>5
    <3>2. \A a, x \in Nat : a > 0 /\ a * x - a \in (1 - a) .. (a - 1) => x = 1
      <4> SUFFICES ASSUME NEW a \in Nat, NEW x \in Nat, a > 0,
                          a * x - a >= 1 - a, a * x - a <= a - 1, x # 1
                   PROVE  FALSE
        OBVIOUS
      <4>1. CASE x = 0
        BY <4>1, Z3
      <4>2. CASE x >= 2
        <5>1. a * x >= a * 2
          BY <4>2, Z3
        <5> QED BY <5>1, Z3
      <4> QED BY <4>1, <4>2
    <3> QED BY <2>5, <3>1, <3>2
  <2>7. Positive(more) = [i \in A |-> 1]
    BY <2>5, <2>6 DEF Positive
  <2>8. Positive(out) = [i \in A |-> 1]
    BY <1>4, <2>3
  <2> QED BY <1>3, <1>5, <2>7, <2>8 DEF out, more
<1> QED BY <1>3, <1>6, <1>7

(* Amounts above nought, shown in fields and read again.                   *)
LEMMA PositiveBack ==
  ASSUME NEW minor, minor = [m \in DOMAIN minor |-> minor[m]],
         DOMAIN minor \subseteq Members,
         \A m \in DOMAIN minor : minor[m] \in Int /\ minor[m] > 0, NEW c
  PROVE  Positive(Read(Amounts(minor, c), c)) = minor
<1> DEFINE M == DOMAIN minor
<1>1. \A m \in M : parseAmount(minorToAmountString(minor[m], c), c) = minor[m]
  BY RoundTrip
<1>2. Read(Amounts(minor, c), c) = [m \in Members |-> IF m \in M THEN minor[m] ELSE 0]
  BY <1>1, BlankIs DEF Read, Amounts
<1>3. {m \in Members : (IF m \in M THEN minor[m] ELSE 0) > 0} = M
  OBVIOUS
<1>4. Positive(Read(Amounts(minor, c), c)) = [m \in M |-> minor[m]]
  BY <1>2, <1>3 DEF Positive
<1> QED BY <1>4

(* What the split form's fields say, and the same kept and shown again.    *)
Numbers(method, inputs, c) == splitMembersFromInputs(method, Members, inputs, c)

LEMMA NumbersAre ==
  ASSUME NEW w \in Weighted, NEW inputs \in [Members -> Text], NEW c
  PROVE  Numbers(w, inputs, c)
           = [m \in Members |-> IF w = "adjustment" THEN parseSignedAmount(inputs[m], c)
                                ELSE inputs[m].n]
<1>1. CASE w = "adjustment"
  BY <1>1 DEF Numbers, splitMembersFromInputs
<1>2. CASE w = "shares" \/ w = "percent"
  BY <1>2 DEF Numbers, splitMembersFromInputs
<1> QED BY <1>1, <1>2 DEF Weighted

LEMMA SignedRoundTrip ==
  /\ \A n \in Int : \A c : parseSignedAmount(minorToAmountString(n, c), c) = n
  /\ \A c : parseSignedAmount(Blank, c) = 0
  /\ \A text \in Text : \A c : parseSignedAmount(text, c) \in Int
<1>1. ASSUME NEW text \in Text, NEW c
      PROVE  /\ [text EXCEPT !.n = Abs(@)] = [form |-> text.form, n |-> Abs(text.n)]
             /\ Abs(text.n) \in Nat /\ Abs(text.n) = IF text.n < 0 THEN -text.n ELSE text.n
             /\ parseAmount([form |-> text.form, n |-> Abs(text.n)], c) \in Nat
             /\ text.form # "plain" \/ minorUnitScale(c) = 1
                  => parseAmount([form |-> text.form, n |-> Abs(text.n)], c) = Abs(text.n)
  BY DEF Text, Abs, parseAmount
<1>2. ASSUME NEW text \in Text, NEW c
      PROVE  /\ parseSignedAmount(text, c) \in Int
             /\ text.form # "plain" \/ minorUnitScale(c) = 1
                  => parseSignedAmount(text, c) = text.n
  <2>1. text.n \in Int
    BY DEF Text
  <2> DEFINE magnitude == parseAmount([form |-> text.form, n |-> Abs(text.n)], c)
  <2>2. parseSignedAmount(text, c) = IF text.n < 0 THEN -magnitude ELSE magnitude
    BY <1>1, Zenon DEF parseSignedAmount
  <2>3. /\ magnitude \in Nat /\ Abs(text.n) = IF text.n < 0 THEN -text.n ELSE text.n
        /\ text.form # "plain" \/ minorUnitScale(c) = 1 => magnitude = Abs(text.n)
    BY <1>1
  <2> HIDE DEF magnitude
  <2> QED BY <2>1, <2>2, <2>3
<1>3. ASSUME NEW n \in Int, NEW c
      PROVE  parseSignedAmount(minorToAmountString(n, c), c) = n
  <2>1. minorToAmountString(n, c) \in Text /\ minorToAmountString(n, c).n = n
    BY RoundTrip
  <2>2. minorToAmountString(n, c).form # "plain" \/ minorUnitScale(c) = 1
    BY DEF minorToAmountString, Point, Plain
  <2> QED BY <1>2, <2>1, <2>2
<1>4. \A c : parseSignedAmount(Blank, c) = 0
  <2>1. Blank.form # "plain" /\ Blank \in Text /\ Blank.n = 0
    BY BlankIs DEF Blank
  <2> QED BY <1>2, <2>1
<1> QED BY <1>2, <1>3, <1>4

LEMMA NumbersBack ==
  ASSUME NEW w \in Weighted, NEW inputs \in [Members -> Text], NEW c
  PROVE  LET stored == splitInputsToStored(w, Members, inputs, c)
             back == splitInputsFromStored(w, Members, stored, c)
         IN  /\ back \in [Members -> Text]
             /\ Numbers(w, back, c) = Numbers(w, inputs, c)
             /\ splitInputsToStored(w, Members, back, c) = stored
<1> DEFINE read == Numbers(w, inputs, c)
           stored == splitInputsToStored(w, Members, inputs, c)
           back == splitInputsFromStored(w, Members, stored, c)
<1>1. w \notin {"equal", "exact"}
  BY DEF Weighted
<1>2. \A more : splitInputsToStored(w, Members, more, c)
                 = [m \in {j \in Members : Numbers(w, more, c)[j] # 0} |-> Numbers(w, more, c)[m]]
  BY <1>1 DEF splitInputsToStored, Numbers
<1>3. read \in [Members -> Int]
  <2>1. \A m \in Members : inputs[m] \in Text /\ inputs[m].n \in Int
    BY DEF Text
  <2>2. \A m \in Members : parseSignedAmount(inputs[m], c) \in Int
    BY <2>1, SignedRoundTrip
  <2> QED BY <2>1, <2>2, NumbersAre
<1> HIDE DEF read
<1>4. stored = [m \in {j \in Members : read[j] # 0} |-> read[m]]
  BY <1>2 DEF read
<1> HIDE DEF stored
<1>5. back = [m \in Members |-> IF read[m] = 0 THEN Blank
                                ELSE IF w = "adjustment" THEN minorToAmountString(read[m], c)
                                ELSE Plain(read[m])]
  BY <1>4 DEF splitInputsFromStored
<1> HIDE DEF back
<1>6. \A m \in Members : /\ minorToAmountString(read[m], c) \in Text
                          /\ Plain(read[m]) \in Text /\ Plain(read[m]).n = read[m]
                          /\ parseSignedAmount(minorToAmountString(read[m], c), c) = read[m]
  BY <1>3, RoundTrip, SignedRoundTrip DEF Plain, Text
<1>7. back \in [Members -> Text]
  BY <1>5, <1>6, BlankIs
<1>8. Numbers(w, back, c) = read
  <2>1. Numbers(w, back, c)
          = [m \in Members |-> IF w = "adjustment" THEN parseSignedAmount(back[m], c)
                               ELSE back[m].n]
    BY <1>7, NumbersAre
  <2>2. \A m \in Members :
          (IF w = "adjustment" THEN parseSignedAmount(back[m], c) ELSE back[m].n) = read[m]
    BY <1>5, <1>6, BlankIs, SignedRoundTrip
  <2> QED BY <1>3, <2>1, <2>2
<1>9. splitInputsToStored(w, Members, back, c) = stored
  BY <1>2, <1>4, <1>8
<1> QED BY <1>7, <1>8, <1>9 DEF read, back, stored

(* The pieces of "shares".                                                 *)
Shown(f) ==
  splitMembersFromInputs(f.method, IF f.method = "equal" THEN f.included ELSE Members,
    IF f.method \in Weighted THEN f.weights[f.method] ELSE BlankFields, f.currency)

LEMMA SharesAre ==
  ASSUME NEW f
  PROVE  shares(f) =
           IF amountMinor(f) <= 0 THEN None
           ELSE IF f.method = "exact" THEN Positive(Read(f.exact, f.currency))
           ELSE IF ~Splittable(f.method, amountMinor(f), Shown(f)) THEN None
           ELSE Positive(computeSplit(f.method, amountMinor(f), Shown(f)))
  BY Zenon DEF shares, Shown

LEMMA SplitsEqually ==
  ASSUME NEW totalMinor \in Nat, NEW given
  PROVE  Splittable("equal", totalMinor, given) <=> DOMAIN given # {}
  BY DEF Splittable

(* A form that can be saved.                                               *)
Sendable(f) == f \in Forms /\ saveHint(f) = "none"

LEMMA SendableIs ==
  ASSUME NEW f, Sendable(f)
  PROVE  /\ amountMinor(f) \in Nat /\ amountMinor(f) > 0
         /\ shares(f) # None /\ DOMAIN shares(f) # {} /\ remaining(f) = 0
         /\ DOMAIN payers(f) # {} /\ payersRemaining(f) = 0
<1>1. amountMinor(f) \in Int
  BY Parsed DEF Sendable, Forms, amountMinor
<1>2. /\ ~(amountMinor(f) <= 0) /\ shares(f) # None /\ DOMAIN shares(f) # {}
      /\ remaining(f) = 0 /\ DOMAIN payers(f) # {} /\ payersRemaining(f) = 0
  BY Zenon DEF Sendable, saveHint
<1> QED BY <1>1, <1>2

(* The form an expense reopens on: its fields one by one.                  *)
LEMMA ReopenedIs ==
  ASSUME NEW e
  PROVE  LET g == Reopened(e) IN
           /\ g.amount = minorToAmountString(e.amountMinor, e.currency)
           /\ g.described = TRUE /\ g.currency = e.currency /\ g.method = e.method
           /\ g.included = IF e.method = "equal" THEN DOMAIN e.shares ELSE Members
           /\ g.exact = Amounts(e.shares, e.currency)
           /\ \A w \in Weighted : w = e.method =>
                g.weights[w] = splitInputsFromStored(w, Members, e.splitInput, e.currency)
           /\ g.multiPayer = (Cardinality(DOMAIN e.payers) > 1)
           /\ g.payer = CHOOSE m \in DOMAIN e.payers : \A k \in DOMAIN e.payers : m <= k
           /\ g.payerAmounts = Amounts(e.payers, e.currency)
<1> DEFINE lead == CHOOSE m \in DOMAIN e.payers : \A k \in DOMAIN e.payers : m <= k
           who == IF e.method = "equal" THEN DOMAIN e.shares ELSE Members
           many == Cardinality(DOMAIN e.payers) > 1
           weights == [w \in Weighted |-> IF w # e.method THEN BlankFields
                         ELSE splitInputsFromStored(w, Members, e.splitInput, e.currency)]
<1>1. Reopened(e) =
        [amount |-> minorToAmountString(e.amountMinor, e.currency), described |-> TRUE,
         currency |-> e.currency, method |-> e.method, included |-> who,
         exact |-> Amounts(e.shares, e.currency), weights |-> weights,
         multiPayer |-> many, payer |-> lead, payerAmounts |-> Amounts(e.payers, e.currency)]
  BY DEF Reopened
<1>2. \A w \in Weighted : w = e.method =>
        weights[w] = splitInputsFromStored(w, Members, e.splitInput, e.currency)
  OBVIOUS
<1> HIDE DEF weights, lead, who, many
<1> QED BY <1>1, <1>2 DEF lead, who, many

(* The payers are the same.                                                *)
LEMMA SamePayers ==
  ASSUME NEW f, Sendable(f), NEW g, g = Reopened(payload(f)), amountMinor(g) = amountMinor(f)
  PROVE  payers(g) = payers(f)
<1> DEFINE p == payers(f)
           total == amountMinor(f)
           c == f.currency
<1>1. total \in Nat /\ total > 0 /\ DOMAIN p # {} /\ total - SumOf(p) = 0
  BY SendableIs DEF payersRemaining
<1>2. payload(f).payers = p /\ payload(f).currency = c
  BY DEF payload
<1>3. /\ g.multiPayer = (Cardinality(DOMAIN p) > 1)
      /\ g.payer = CHOOSE m \in DOMAIN p : \A k \in DOMAIN p : m <= k
      /\ g.payerAmounts = Amounts(p, c) /\ g.currency = c
  BY <1>2, ReopenedIs
<1>4. /\ p = [m \in DOMAIN p |-> p[m]] /\ DOMAIN p \subseteq Members
      /\ \A m \in DOMAIN p : p[m] \in Int /\ p[m] > 0
  <2>1. CASE ~f.multiPayer
    <3>1. p = [m \in {f.payer} |-> total] /\ f.payer \in Members
      BY <2>1 DEF payers, Sendable, Forms
    <3> HIDE DEF p, total
    <3> QED BY <1>1, <3>1
  <2>2. CASE f.multiPayer
    <3>1. p = Positive(Read(f.payerAmounts, c)) /\ Read(f.payerAmounts, c) \in [Members -> Int]
      BY <2>2, ReadIs DEF payers, Sendable, Forms
    <3> HIDE DEF p
    <3> QED BY <3>1 DEF Positive
  <2> QED BY <2>1, <2>2
<1>5. IsFiniteSet(DOMAIN p) /\ DOMAIN p \in SUBSET Int
  BY <1>4, MembersAssumption, FS_Subset
<1> HIDE DEF p, total
<1>6. CASE Cardinality(DOMAIN p) > 1
  <2>1. payers(g) = Positive(Read(Amounts(p, c), c))
    BY <1>3, <1>6 DEF payers
  <2> QED BY <1>4, <2>1, PositiveBack DEF p
<1>7. CASE ~(Cardinality(DOMAIN p) > 1)
  <2>1. PICK k : DOMAIN p = {k}
    <3>1. Cardinality(DOMAIN p) \in Nat /\ Cardinality(DOMAIN p) # 0
      BY <1>1, <1>5, FS_EmptySet, FS_CardinalityType
    <3>2. Cardinality(DOMAIN p) = 1
      BY <1>7, <3>1
    <3> QED BY <1>5, <3>2, FS_Singleton
  <2>2. g.payer \in DOMAIN p
    BY <1>1, <1>3, <1>5, FirstExists
  <2>3. p[k] = total
    <3>1. SumOf(p) = SumOver(p, {k})
      BY <2>1, SumOfIs
    <3>2. SumOver(p, {k}) = p[k]
      <4>1. IsFiniteSet({}) /\ k \notin {} /\ {} \cup {k} = {k} /\ p[k] \in Int
        BY <1>4, <2>1, FS_EmptySet
      <4> DEFINE none == {}
      <4> HIDE DEF none
      <4>2. SumOver(p, none \cup {k}) = p[k] + SumOver(p, none)
        BY <4>1, SumAdd DEF none
      <4> QED BY <4>1, <4>2, SumEmpty DEF none
    <3>3. SumOf(p) \in Int
      BY <1>4, <2>1, <3>1, <3>2
    <3> QED BY <1>1, <3>1, <3>2, <3>3
  <2>4. payers(g) = [m \in {g.payer} |-> total]
    BY <1>3, <1>7 DEF payers, total
  <2> QED BY <1>4, <2>1, <2>2, <2>3, <2>4 DEF p
<1> QED BY <1>6, <1>7

(* The shares are the same, and so is what is kept of the fields.          *)
LEMMA SameShares ==
  ASSUME NEW f, Sendable(f), NEW g, g = Reopened(payload(f)), amountMinor(g) = amountMinor(f)
  PROVE  shares(g) = shares(f) /\ payload(g).splitInput = payload(f).splitInput
<1> DEFINE s == shares(f)
           total == amountMinor(f)
           c == f.currency
           w == f.method
           inputs == IF w \in Weighted THEN f.weights[w] ELSE BlankFields
           kept == splitInputsToStored(w, Members, inputs, c)
<1>1. total \in Nat /\ total > 0 /\ s # None /\ DOMAIN s # {}
  BY SendableIs
<1>2. w \in Methods /\ f.included \in SUBSET Members /\ f.exact \in [Members -> Text]
      /\ f.weights \in [Weighted -> [Members -> Text]]
  BY DEF Sendable, Forms
<1>3. /\ payload(f).shares = s /\ payload(f).currency = c /\ payload(f).method = w
      /\ payload(f).splitInput = kept
  BY DEF payload
<1>4. /\ g.currency = c /\ g.method = w /\ g.exact = Amounts(s, c)
      /\ g.included = IF w = "equal" THEN DOMAIN s ELSE Members
      /\ w \in Weighted => g.weights[w] = splitInputsFromStored(w, Members, kept, c)
  <2> DEFINE e == payload(f)
  <2>1. /\ e.shares = s /\ e.currency = c /\ e.method = w /\ e.splitInput = kept
    BY <1>3
  <2> HIDE DEF e
  <2>2. LET h == Reopened(e) IN
          /\ h.currency = e.currency /\ h.method = e.method
          /\ h.exact = Amounts(e.shares, e.currency)
          /\ h.included = IF e.method = "equal" THEN DOMAIN e.shares ELSE Members
          /\ \A v \in Weighted : v = e.method =>
               h.weights[v] = splitInputsFromStored(v, Members, e.splitInput, e.currency)
    BY ReopenedIs
  <2>3. g = Reopened(e)
    BY DEF e
  <2> HIDE DEF s, w, c, kept
  <2> QED BY <2>1, <2>2, <2>3
<1>5. payload(g).splitInput
        = splitInputsToStored(w, Members, IF w \in Weighted THEN g.weights[w] ELSE BlankFields, c)
  BY <1>4 DEF payload
<1>6. s = IF w = "exact" THEN Positive(Read(f.exact, c))
          ELSE IF ~Splittable(w, total, Shown(f)) THEN None
          ELSE Positive(computeSplit(w, total, Shown(f)))
  BY <1>1, SharesAre
<1>7. shares(g) = IF w = "exact" THEN Positive(Read(Amounts(s, c), c))
                  ELSE IF ~Splittable(w, total, Shown(g)) THEN None
                  ELSE Positive(computeSplit(w, total, Shown(g)))
  BY <1>1, <1>4, SharesAre
<1> HIDE DEF s, total, kept
<1>8. CASE w = "exact"
  <2>1. s = Positive(Read(f.exact, c)) /\ Read(f.exact, c) \in [Members -> Int]
    BY <1>2, <1>6, <1>8, ReadIs
  <2>2. /\ s = [m \in DOMAIN s |-> s[m]] /\ DOMAIN s \subseteq Members
        /\ \A m \in DOMAIN s : s[m] \in Int /\ s[m] > 0
    BY <2>1 DEF Positive
  <2>3. shares(g) = s
    BY <1>7, <1>8, <2>2, PositiveBack
  <2>4. w \notin Weighted
    BY <1>8 DEF Weighted
  <2> QED BY <1>3, <1>5, <2>3, <2>4 DEF s, kept
<1>9. CASE w = "equal"
  <2> DEFINE given == Shown(f)
             again == Shown(g)
  <2>1. DOMAIN given = f.included /\ DOMAIN again = DOMAIN s
    BY <1>4, <1>9 DEF Shown, splitMembersFromInputs
  <2> HIDE DEF given, again
  <2>2. Splittable("equal", total, given) /\ s = Positive(computeSplit("equal", total, given))
    BY <1>1, <1>6, <1>9 DEF given
  <2>3. DOMAIN given # {} /\ DOMAIN given \in SUBSET Int /\ IsFiniteSet(DOMAIN given)
    BY <1>1, <1>2, <2>1, <2>2, SplitsEqually, MembersAssumption, FS_Subset
  <2>4. Positive(computeSplit("equal", total, again)) = s /\ Splittable("equal", total, again)
    BY <1>1, <2>1, <2>2, <2>3, EqualAgain, SplitsEqually
  <2>5. shares(g) = s
    BY <1>7, <1>9, <2>4 DEF again
  <2>6. w \notin Weighted
    BY <1>9 DEF Weighted
  <2> QED BY <1>3, <1>5, <2>5, <2>6 DEF s, kept
<1>10. CASE w \in Weighted
  <2>1. inputs \in [Members -> Text] /\ inputs = f.weights[w] /\ w # "equal" /\ w # "exact"
    BY <1>2, <1>10 DEF Weighted
  <2> DEFINE back == splitInputsFromStored(w, Members, kept, c)
  <2>2. /\ Shown(f) = Numbers(w, f.weights[w], c)
        /\ Shown(g) = Numbers(w, g.weights[w], c)
    BY <1>4, <1>10, <2>1, Zenon DEF Shown, Numbers
  <2>3. Numbers(w, back, c) = Numbers(w, inputs, c)
        /\ splitInputsToStored(w, Members, back, c) = kept
    BY <1>10, <2>1, NumbersBack DEF kept
  <2>4. g.weights[w] = back
    BY <1>4, <1>10
  <2> HIDE DEF back, inputs
  <2>5. Shown(g) = Shown(f)
    BY <2>1, <2>2, <2>3, <2>4
  <2> QED BY <1>3, <1>5, <1>6, <1>7, <1>10, <2>1, <2>3, <2>4, <2>5 DEF s
<1> QED BY <1>2, <1>8, <1>9, <1>10 DEF Methods

(* An expense that reopens as it was filed.                                *)
Reopens(e) == saveHint(Reopened(e)) = "none" /\ payload(Reopened(e)) = e

LEMMA SentReopens ==
  ASSUME NEW f, Sendable(f)
  PROVE  Reopens(payload(f))
<1> DEFINE e == payload(f)
           g == Reopened(e)
<1>1. /\ e.amountMinor = amountMinor(f) /\ e.currency = f.currency /\ e.method = f.method
      /\ e.payers = payers(f) /\ e.shares = shares(f)
      /\ e = [amountMinor |-> e.amountMinor, currency |-> e.currency, method |-> e.method,
              payers |-> e.payers, shares |-> e.shares, splitInput |-> e.splitInput]
  BY DEF payload
<1> HIDE DEF e
<1>2. /\ g.amount = minorToAmountString(e.amountMinor, e.currency)
      /\ g.described = TRUE /\ g.currency = e.currency /\ g.method = e.method
  BY ReopenedIs
<1> HIDE DEF g
<1>3. amountMinor(g) = amountMinor(f)
  BY <1>1, <1>2, SendableIs, RoundTrip DEF amountMinor
<1>4. payers(g) = payers(f)
  BY <1>3, SamePayers DEF g, e
<1>5. shares(g) = shares(f) /\ payload(g).splitInput = e.splitInput
  BY <1>3, SameShares DEF g, e
<1>6. payload(g) = e
  <2>1. payload(g) = [amountMinor |-> amountMinor(g), currency |-> g.currency,
                      method |-> g.method, payers |-> payers(g), shares |-> shares(g),
                      splitInput |-> payload(g).splitInput]
    BY DEF payload
  <2> QED BY <1>1, <1>2, <1>3, <1>4, <1>5, <2>1, Zenon
<1>7. remaining(g) = remaining(f) /\ payersRemaining(g) = payersRemaining(f)
  BY <1>3, <1>4, <1>5 DEF remaining, payersRemaining
<1>8. saveHint(g) = "none"
  <2>1. /\ ~(amountMinor(g) <= 0) /\ shares(g) # None /\ DOMAIN shares(g) # {}
        /\ remaining(g) = 0 /\ DOMAIN payers(g) # {} /\ payersRemaining(g) = 0
    BY <1>3, <1>4, <1>5, <1>7, SendableIs
  <2> QED BY <1>2, <2>1, Zenon DEF saveHint
<1> QED BY <1>6, <1>8 DEF Reopens, g, e

(* The expenses there are were filed by the form.                          *)
FiledByForm == \A e \in Expenses : \E f : Sendable(f) /\ e = payload(f)

AllReopen ==
  /\ \A r \in requests : Reopens(r.body)
  /\ \A f \in filed : Reopens(f.body)

LEMMA NextReopens ==
  ASSUME FieldsOK, OneOut, AllReopen, [Next]_vars
  PROVE  AllReopen'
<1> USE DEF AllReopen
<1>1. CASE submit
  <2> DEFINE r == [n |-> saves + 1, stage |-> "sent", allow |-> allowDuplicate,
                   body |-> payload(form)]
  <2>1. requests' = requests \cup {r} /\ filed' = filed
    BY <1>1 DEF submit, Send
  <2>2. r.body = payload(form) /\ Sendable(form)
    BY <1>1 DEF submit, Sendable, FieldsOK
  <2> HIDE DEF r
  <2>3. Reopens(r.body)
    BY <2>2, SentReopens
  <2> QED BY <2>1, <2>3
<1>2. ASSUME NEW r \in requests, LookUp(r) \/ Store(r) PROVE AllReopen'
  <2>1. PICK stage : requests' = Move(r, stage)
    BY <1>2 DEF LookUp, Store
  <2>2. PICK s : requests' = {s} /\ s.body = r.body
    BY <2>1, Moved DEF OneOut
  <2> DEFINE row == [n |-> r.n, allow |-> r.allow, body |-> r.body]
  <2>3. filed' \subseteq filed \cup {row} /\ row.body = r.body
    BY <1>2 DEF LookUp, Store
  <2> HIDE DEF row
  <2> QED BY <2>2, <2>3
<1>3. ASSUME NEW r \in requests, Answered(r) \/ Failed(r) PROVE AllReopen'
  BY <1>3 DEF Answered, Failed
<1>4. CASE Elsewhere \/ UNCHANGED vars
  BY <1>4 DEF Elsewhere, filing, vars
<1> QED BY <1>1, <1>2, <1>3, <1>4, StepsElsewhere DEF Next

(* Opening what was filed and saving it untouched files the same again, by *)
(* whatever method, in whatever currency, for any members: if those the    *)
(* group already held came from this form, so will every later one.        *)
THEOREM Reopening ==
  ASSUME FiledByForm
  PROVE  Spec => []ReopensAsFiled
<1> DEFINE Inv == FieldsOK /\ OneOut /\ AllReopen
<1>1. Init => Inv
  <2> SUFFICES ASSUME Init PROVE Inv
    OBVIOUS
  <2>1. OneOut
    BY DEF Init, OneOut, Requests, OneSaveAtATime, FlagsOK
  <2>2. \A e \in Expenses : Reopens(e)
    BY SentReopens DEF FiledByForm
  <2>3. PICK there \in SUBSET Expenses :
          filed = {[n |-> 0, allow |-> FALSE, body |-> e] : e \in there}
    BY ExpensesAssumption DEF Init
  <2>4. requests = {}
    BY DEF Init
  <2> QED BY <2>1, <2>2, <2>3, <2>4, InitFields DEF AllReopen
<1>2. Inv /\ [Next]_vars => Inv'
  BY NextFields, NextOneOut, NextReopens
<1>3. Inv => ReopensAsFiled
  BY DEF AllReopen, Reopens, ReopensAsFiled
<1> HIDE DEF Inv
<1> QED BY <1>1, <1>2, <1>3, PTL DEF Spec

-----------------------------------------------------------------------------
(* The sheet of "Split by item" by itself, over any receipts and card      *)
(* slips.                                                                  *)

(* A receipt as the sheet holds it.                                        *)
LEMMA SheetReceipt ==
  ASSUME SheetTypeOK
  PROVE  /\ Legible(parsed)
         /\ \E r \in Receipts :
              /\ parsed = foldSummaryLines(r)
              /\ parsed.totalMinor = r.totalMinor
              /\ \A i \in DOMAIN parsed.items :
                   /\ i \in DOMAIN r.items
                   /\ parsed.items[i] = r.items[i] /\ r.items[i].role = "thing"
              /\ (/\ FiguresDue(r)
                  /\ \A i \in DOMAIN r.items :
                       r.items[i].role # "thing" => r.items[i].totalMinor >= 0)
                   => FiguresDue(parsed)
<1>1. PICK r \in Receipts : parsed = foldSummaryLines(r)
  BY DEF SheetTypeOK
<1>2. /\ {"items", "taxMinor", "tipMinor", "totalMinor"} \subseteq DOMAIN r
      /\ r.items \in Seq([totalMinor : Int,
                          role : {"thing", "tax", "tip", "total", "net"}])
      /\ {r.taxMinor, r.tipMinor, r.totalMinor} \subseteq Figure
  BY ReceiptsAssumption
<1>3. Legible(r) /\ DOMAIN r.items \subseteq Int
  <2>1. DOMAIN r.items = 1..Len(r.items) /\ Len(r.items) \in Nat
    BY <1>2
  <2>2. IsFiniteSet(DOMAIN r.items)
    BY <2>1, FS_Interval
  <2>3. \A i \in DOMAIN r.items : r.items[i].totalMinor \in Int
    <3>1. \A row \in Row : row.totalMinor \in Int
      BY DEF Row
    <3>2. r.items \in Seq(Row)
      BY <1>2 DEF Row, Roles
    <3>3. \A i \in 1..Len(r.items) : r.items[i] \in Row
      BY <3>2
    <3> QED BY <2>1, <3>1, <3>3
  <2> QED BY <1>2, <2>1, <2>2, <2>3 DEF Legible
<1> QED BY <1>1, <1>2, <1>3, FoldedIs

(* The bill on the sheet.                                                  *)
LEMMA SheetBill ==
  ASSUME SheetTypeOK
  PROVE  /\ bill = receiptBill(parsed, ignored, OrZero(tipMinor))
         /\ OrZero(tipMinor) \in Nat
         /\ Billed(bill, parsed, OrZero(tipMinor), SumOf(Kept(parsed.items, ignored)))
<1>1. bill = receiptBill(parsed, ignored, OrZero(tipMinor))
  BY DEF bill
<1>2. OrZero(tipMinor) \in Nat
  BY DEF SheetTypeOK, OrZero
<1> QED BY <1>1, <1>2, SheetReceipt, BillIs

-----------------------------------------------------------------------------
(* The sheet's state                                                       *)

(* The tip is what the last slip said above the printed total, and the     *)
(* scan that runs closed over that total.                                  *)
Governed ==
  parsed.totalMinor # NoFigure =>
    /\ slipTotal # NoFigure =>
         tipMinor # NoFigure /\ slipTotal = parsed.totalMinor + tipMinor
    /\ slipScan # NoFigure => slipScan = parsed.totalMinor

LEMMA SheetStarts == SheetInit => SheetTypeOK /\ Governed
<1> SUFFICES ASSUME SheetInit PROVE SheetTypeOK /\ Governed
  OBVIOUS
<1> QED BY DEF SheetInit, SheetTypeOK, Lines, Figure, Governed

LEMMA SheetTyped == SheetTypeOK /\ [SheetNext]_sheetVars => SheetTypeOK'
<1> SUFFICES ASSUME SheetTypeOK, [SheetNext]_sheetVars PROVE SheetTypeOK'
  OBVIOUS
<1> USE DEF SheetTypeOK, Lines, Figure
<1>1. CASE UNCHANGED sheetVars
  BY <1>1 DEF sheetVars
<1>2. ASSUME NEW i \in Lines, toggleIgnored(i) PROVE SheetTypeOK'
  BY <1>2 DEF toggleIgnored
<1>3. ASSUME NEW i \in Lines, NEW m \in Members, toggle(i, m)
      PROVE  SheetTypeOK'
  BY <1>3 DEF toggle
<1>4. CASE splitRestEqually
  BY <1>4 DEF splitRestEqually
<1>5. CASE onSlipFile
  <2>1. slipScan' \in Int
    <3>1. /\ OrZero(tipMinor) \in Nat
          /\ Billed(bill, parsed, OrZero(tipMinor), SumOf(Kept(parsed.items, ignored)))
      BY SheetBill
    <3>2. slipScan' = bill.totalMinor - OrZero(tipMinor)
      BY <1>5 DEF onSlipFile, billTotal
    <3> QED BY <3>1, <3>2 DEF Billed
  <2> QED BY <1>5, <2>1 DEF onSlipFile
<1>6. ASSUME NEW total \in SlipTotals, SlipAnswer(total) PROVE SheetTypeOK'
  <2>1. total \in Int \cup {NoFigure} /\ slipScan \in Int
    BY <1>6, SlipsAssumption DEF SlipAnswer, Figure
  <2> QED BY <1>6, <2>1 DEF SlipAnswer
<1>7. CASE Continue
  BY <1>7 DEF Continue
<1> QED BY <1>1, <1>2, <1>3, <1>4, <1>5, <1>6, <1>7 DEF SheetNext

LEMMA SheetGoverned == SheetTypeOK /\ Governed /\ [SheetNext]_sheetVars => Governed'
<1> SUFFICES ASSUME SheetTypeOK, Governed, [SheetNext]_sheetVars PROVE Governed'
  OBVIOUS
<1> USE DEF Governed
<1>1. CASE \/ UNCHANGED sheetVars \/ splitRestEqually \/ Continue
           \/ \E i \in Lines : toggleIgnored(i) \/ \E m \in Members : toggle(i, m)
  <2>1. UNCHANGED <<parsed, tipMinor, slipTotal, slipScan>>
    BY <1>1 DEF sheetVars, splitRestEqually, Continue, toggleIgnored, toggle
  <2> QED BY <2>1
<1>2. CASE onSlipFile
  <2>1. /\ UNCHANGED <<parsed, tipMinor, slipTotal>>
        /\ slipScan' = bill.totalMinor - OrZero(tipMinor)
    BY <1>2 DEF onSlipFile, billTotal
  <2>2. parsed.totalMinor # NoFigure => slipScan' = parsed.totalMinor
    BY <2>1, SheetBill DEF Billed
  <2> QED BY <2>1, <2>2
<1>3. ASSUME NEW total \in SlipTotals, SlipAnswer(total) PROVE Governed'
  <2>1. total \in Int \cup {NoFigure} /\ slipScan \in Int
    BY <1>3, SlipsAssumption DEF SlipAnswer, SheetTypeOK, Figure
  <2>2. parsed' = parsed /\ slipScan' = NoFigure
    BY <1>3 DEF SlipAnswer
  <2>3. CASE total # NoFigure /\ tipMinor' = total - slipScan /\ slipTotal' = total
    <3>1. tipMinor' # NoFigure
      BY <2>1, <2>3, NoFigureAssumption
    <3>2. slipTotal' = slipScan + tipMinor'
      BY <2>1, <2>3
    <3>3. parsed.totalMinor # NoFigure => slipScan = parsed.totalMinor
      BY <2>1, NoFigureAssumption
    <3> QED BY <2>2, <3>1, <3>2, <3>3
  <2>4. CASE UNCHANGED <<tipMinor, slipTotal>>
    BY <2>2, <2>4
  <2> QED BY <1>3, <2>3, <2>4 DEF SlipAnswer
<1> QED BY <1>1, <1>2, <1>3 DEF SheetNext

LEMMA SheetInvariant == SheetSpec => [](SheetTypeOK /\ Governed)
<1>1. SheetInit => SheetTypeOK /\ Governed
  BY SheetStarts
<1>2. SheetTypeOK /\ Governed /\ [SheetNext]_sheetVars => (SheetTypeOK /\ Governed)'
  BY SheetTyped, SheetGoverned
<1> QED BY <1>1, <1>2, PTL DEF SheetSpec

(* A printed total, an ignored line, any number of slips: the bill comes   *)
(* to what the last slip said.                                             *)
THEOREM SlipDecides == SheetSpec => []SlipGoverns
<1>1. SheetTypeOK /\ Governed => SlipGoverns
  <2> SUFFICES ASSUME SheetTypeOK, Governed, parsed.totalMinor # NoFigure,
                      slipTotal # NoFigure
               PROVE  bill.totalMinor = slipTotal
    BY DEF SlipGoverns
  <2>1. OrZero(tipMinor) = tipMinor /\ slipTotal = parsed.totalMinor + tipMinor
    BY DEF Governed, OrZero
  <2> QED BY <2>1, SheetBill DEF Billed
<1> QED BY <1>1, SheetInvariant, PTL

(* computeSplit refuses an amount below nought: of such a line no share is *)
(* computed and nothing is drawn.                                          *)
LinesDue ==
  \A r \in Receipts : \A i \in DOMAIN r.items :
    r.items[i].role = "thing" => r.items[i].totalMinor >= 0

(* Neither a printed total, nor a tax, nor a tip carries a sign.           *)
SheetFiguresDue ==
  \A r \in Receipts :
    /\ FiguresDue(r)
    /\ \A i \in DOMAIN r.items : r.items[i].role # "thing" => r.items[i].totalMinor >= 0

(* The lines somebody had are served, whatever else is not.                *)
LEMMA SheetServes ==
  ASSUME LinesDue, SheetTypeOK,
         NEW off, \A i \in DOMAIN parsed.items \ off : assign[i] # {}
  PROVE  Served(Members, parsed.items, assign, off)
<1>1. \A i \in DOMAIN parsed.items : assign[i] \in SUBSET Members
  BY DEF SheetTypeOK, Lines
<1>2. /\ IsFiniteSet(DOMAIN parsed.items)
      /\ \A i \in DOMAIN parsed.items : parsed.items[i].totalMinor \in Int
  BY SheetReceipt DEF Legible
<1>3. \A i \in DOMAIN parsed.items : parsed.items[i].totalMinor >= 0
  BY SheetReceipt DEF LinesDue
<1> QED BY <1>1, <1>2, <1>3 DEF Served

(* Once every kept line has somebody and the lines come to anything, the   *)
(* shares come to exactly the bill: printed or added up, with its tax, its *)
(* tip, the slip's tip and what the lines do not account for.              *)
THEOREM SharesReconcile ==
  ASSUME LinesDue
  PROVE  SheetSpec => []SharesAddUp
<1>1. SheetTypeOK => SharesAddUp
  <2> SUFFICES ASSUME SheetTypeOK, allAssigned(parsed.items, assign, ignored),
                      bill.itemsSum > 0
               PROVE  SumOf(perMember) = bill.totalMinor
    BY DEF SharesAddUp
  <2>1. Served(Members, parsed.items, assign, ignored)
    BY SheetServes DEF allAssigned
  <2> DEFINE b == receiptBill(parsed, ignored, OrZero(tipMinor))
             out == assignedShares(parsed.items, assign, ignored, b.extraMinor)
  <2>2. b = bill /\ OrZero(tipMinor) \in Int
    BY SheetBill
  <2>3. out = perMember
    BY <2>2 DEF perMember
  <2>4. b.itemsSum > 0 => SumOf(out) = b.totalMinor
    BY <2>1, <2>2, SheetReceipt, MembersAssumption, SharesComeToBill
  <2> HIDE DEF b, out
  <2> QED BY <2>2, <2>3, <2>4
<1> QED BY <1>1, SheetInvariant, PTL

(* The lines somebody had, whether all of them have somebody or not.       *)
LEMMA SheetProportion ==
  ASSUME LinesDue, SheetFiguresDue, SheetTypeOK
  PROVE  ExtraInProportion
<1> DEFINE items == parsed.items
           off == ignored \cup {k \in DOMAIN items : assign[k] = {}}
           out == ItemShares(items, assign, ignored)
           M == Had(items, assign, off)
           S == SumOf(out)
           b == bill
<1>1. out = ItemShares(items, assign, off)
  <2>1. {k \in DOMAIN items \ ignored : assign[k] # {}}
          = {k \in DOMAIN items \ off : assign[k] # {}}
    OBVIOUS
  <2> HIDE DEF off
  <2> QED BY <2>1, Zenon DEF ItemShares
<1>2. Served(Members, items, assign, off)
  BY SheetServes
<1>3. Members \in SUBSET Int /\ IsFiniteSet(Members)
  BY MembersAssumption
<1>4. out \in [M -> Nat]
  BY <1>1, <1>2, <1>3, ItemSharesAddUp
<1>5. M \in SUBSET Int /\ IsFiniteSet(M)
  <2>1. M \in SUBSET Members
    BY <1>2 DEF Had, Served
  <2> HIDE DEF M
  <2> QED BY <1>3, <2>1, FS_Subset
<1>6. /\ b.itemsSum \in Int /\ b.totalMinor \in Int /\ b.extraMinor \in Int
      /\ b.extraMinor = b.totalMinor - b.itemsSum
  BY SheetBill DEF Billed
<1>7. b.itemsSum >= 0 => b.totalMinor >= 0
  <2>1. FiguresDue(parsed)
    BY SheetReceipt DEF SheetFiguresDue
  <2>2. /\ parsed.totalMinor # NoFigure => parsed.totalMinor >= 0
        /\ OrZero(parsed.taxMinor) >= 0 /\ OrZero(parsed.tipMinor) >= 0
        /\ OrZero(parsed.taxMinor) \in Int /\ OrZero(parsed.tipMinor) \in Int
    BY <2>1, SheetReceipt DEF FiguresDue, Due, OrZero, Legible, Figure
  <2> QED BY <2>2, SheetBill DEF Billed
<1>8. perMember = Prorated(out, b.extraMinor)
  BY DEF perMember, assignedShares
<1>9. ExtraInProportion <=>
        (S > 0 /\ S = b.itemsSum =>
           \A m \in DOMAIN out :
             /\ perMember[m] >= 0
             /\ Abs(perMember[m] * S - out[m] * b.totalMinor) < S)
  <2>1. ItemShares(parsed.items, assign, ignored) = out
    OBVIOUS
  <2> HIDE DEF out
  <2> QED BY <2>1 DEF ExtraInProportion, Proportional, Abs
<1> HIDE DEF out, b, M
<1> SUFFICES ASSUME S > 0, S = b.itemsSum, NEW m \in M
             PROVE  /\ Prorated(out, b.extraMinor)[m] >= 0
                    /\ Abs(Prorated(out, b.extraMinor)[m] * S - out[m] * b.totalMinor) < S
  BY <1>4, <1>8, <1>9
<1>10. /\ Prorated(out, b.extraMinor) \in [M -> Int]
       /\ S + b.extraMinor >= 0 => \A k \in M : Prorated(out, b.extraMinor)[k] >= 0
  BY <1>4, <1>5, <1>6, ProratedAddsUp
<1>11. Prorated(out, b.extraMinor)[m] * S - out[m] * (S + b.extraMinor) \in (1 - S) .. (S - 1)
  BY <1>4, <1>5, <1>6, ProratedFair
<1>12. S \in Int /\ S + b.extraMinor = b.totalMinor /\ b.totalMinor >= 0
  BY <1>6, <1>7
<1> HIDE DEF S
<1>13. \A x, s \in Int : x \in (1 - s) .. (s - 1) => Abs(x) < s
  BY DEF Abs
<1>14. Prorated(out, b.extraMinor)[m] * S - out[m] * b.totalMinor \in (1 - S) .. (S - 1)
  BY <1>11, <1>12
<1> QED BY <1>10, <1>12, <1>13, <1>14

(* Of a receipt whose figures carry no sign nobody is charged a whole unit *)
(* more or less than the bill in proportion to what they had, and nobody   *)
(* is paid.                                                                *)
THEOREM ExtraProrated ==
  ASSUME LinesDue, SheetFiguresDue
  PROVE  SheetSpec => []ExtraInProportion
<1>1. SheetTypeOK => ExtraInProportion
  BY SheetProportion
<1> QED BY <1>1, SheetInvariant, PTL
=============================================================================

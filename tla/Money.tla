-------------------------------- MODULE Money --------------------------------
(***************************************************************************)
(* The arithmetic of packages/core that both clients build on: minor       *)
(* units, largest-remainder apportionment, the five split methods, the     *)
(* form fields they are typed into, and the bill a receipt adds up to.     *)
(* Every operator is pure.                                                 *)
(***************************************************************************)
EXTENDS Integers, Sequences, FiniteSets, FiniteSetsExt

CONSTANTS
  Members,      \* of the group that shares the expense
  ZeroDecimal,  \* the currencies written without cents
  NoFigure      \* null: a figure the parser did not find, a field left blank

(* Ids are ordered, because ties are broken by id.                         *)
ASSUME MembersAssumption == Members \subseteq Int /\ IsFiniteSet(Members)

ASSUME NoFigureAssumption == NoFigure \notin Int

Figure == Int \cup {NoFigure}

SumOf(f) == MapThenSumSet(LAMBDA i : f[i], DOMAIN f)
Abs(n) == IF n < 0 THEN -n ELSE n

-----------------------------------------------------------------------------
(* money.ts                                                                *)

minorUnitScale(currency) == IF currency \in ZeroDecimal THEN 1 ELSE 100

(* a / b to the nearest integer, halves away from zero; b > 0.             *)
HalfAway(a, b) ==
  IF a >= 0 THEN (2 * a + b) \div (2 * b) ELSE -((-2 * a + b) \div (2 * b))

bridgeMinor(minor, fromScale, currency) ==
  LET to == minorUnitScale(currency) IN
    IF fromScale = to THEN minor ELSE HalfAway(minor * to, fromScale)

(* What an amount field holds: digits with cents behind a point, plain     *)
(* digits, or nothing.  "n" counts hundredths in the first form and whole  *)
(* units in the second.                                                    *)
Point(n) == [form |-> "point", n |-> n]
Plain(n) == [form |-> "plain", n |-> n]
Blank == [form |-> "blank", n |-> 0]
Text == [form : {"point", "plain", "blank"}, n : Int]

(* A zero-decimal currency strips every non-digit: the point, and the sign.*)
parseAmount(text, currency) ==
  IF minorUnitScale(currency) = 1 THEN Abs(text.n)
  ELSE IF text.form = "plain" THEN 100 * text.n ELSE text.n

(* The sign is peeled off before the digits are read.                      *)
parseSignedAmount(text, currency) ==
  LET magnitude == parseAmount([text EXCEPT !.n = Abs(@)], currency) IN
    IF text.n < 0 THEN -magnitude ELSE magnitude

minorToAmountString(minor, currency) ==
  IF minorUnitScale(currency) = 1 THEN Plain(minor) ELSE Point(minor)

rescaleAmountString(text, from, to) ==
  IF text = Blank \/ minorUnitScale(from) = minorUnitScale(to) THEN text
  ELSE minorToAmountString(
         bridgeMinor(parseAmount(text, from), minorUnitScale(from), to), to)

(* Every figure of a parse, re-expressed in the scale of "currency".       *)
normalizeParsedReceipt(parsed, currency) ==
  LET bridge(m) == IF m = NoFigure THEN m
                   ELSE bridgeMinor(m, parsed.scale, currency)
      row(item) == [item EXCEPT !.totalMinor = bridge(@)]
  IN [parsed EXCEPT
        !.currency = currency,
        !.scale = minorUnitScale(currency),
        !.items = [i \in DOMAIN @ |-> row(@[i])],
        !.taxMinor = bridge(@), !.tipMinor = bridge(@), !.totalMinor = bridge(@)]

-----------------------------------------------------------------------------
(* split.ts                                                                *)

(* Not the code: the floor of the proportion, and nobody gets the rest.    *)
apportionFloors(totalMinor, weight) ==
  [i \in DOMAIN weight |-> (totalMinor * weight[i]) \div SumOf(weight)]

(* totalMinor over integer weights whose sum is positive: everyone gets    *)
(* the floor, the units left over go to the largest remainders.            *)
apportion(totalMinor, weight) ==
  LET W == SumOf(weight)
      base == [i \in DOMAIN weight |-> (totalMinor * weight[i]) \div W]
      rem == [i \in DOMAIN weight |-> (totalMinor * weight[i]) % W]
      leftover == totalMinor - SumOf(base)
      Ahead(i) == {j \in DOMAIN weight :
                     rem[j] > rem[i] \/ (rem[j] = rem[i] /\ j < i)}
  IN [i \in DOMAIN weight |->
        base[i] + (IF Cardinality(Ahead(i)) < leftover THEN 1 ELSE 0)]

(* What computeSplit asks of its arguments before it splits anything;      *)
(* "given" holds each member's amount, count, percentage or offset.        *)
Splittable(method, totalMinor, given) ==
  /\ totalMinor >= 0
  /\ DOMAIN given # {}
  /\ CASE method = "equal" -> TRUE
       [] method = "exact" ->
            (\A i \in DOMAIN given : given[i] >= 0) /\ SumOf(given) = totalMinor
       [] method = "shares" ->
            (\A i \in DOMAIN given : given[i] >= 0) /\ SumOf(given) > 0
       [] method = "percent" ->
            (\A i \in DOMAIN given : given[i] >= 0) /\ SumOf(given) = 100
       [] method = "adjustment" -> SumOf(given) <= totalMinor

computeSplit(method, totalMinor, given) ==
  LET offset == [i \in DOMAIN given |-> IF method = "adjustment" THEN given[i] ELSE 0]
      weight == [i \in DOMAIN given |->
                   IF method \in {"shares", "percent"} THEN given[i] ELSE 1]
      base == apportion(totalMinor - SumOf(offset), weight)
  IN IF method = "exact" THEN given ELSE [i \in DOMAIN given |-> base[i] + offset[i]]

(* The numbers behind the split form's fields; a blank one counts 0.       *)
splitMembersFromInputs(method, ids, inputs, currency) ==
  [i \in ids |->
     CASE method = "equal" -> 1
       [] method = "exact" -> parseAmount(inputs[i], currency)
       [] method \in {"shares", "percent"} -> inputs[i].n
       [] method = "adjustment" -> parseSignedAmount(inputs[i], currency)]

(* Not the code: only what is above 0 is kept.                             *)
splitInputsAboveZero(method, ids, inputs, currency) ==
  LET read == splitMembersFromInputs(method, ids, inputs, currency) IN
    IF method \in {"equal", "exact"} THEN <<>>
    ELSE [i \in {j \in ids : read[j] > 0} |-> read[i]]

(* What is kept of them for the next edit: the members left blank or at 0  *)
(* are dropped, and two of the methods are restored from the shares.       *)
splitInputsToStored(method, ids, inputs, currency) ==
  LET read == splitMembersFromInputs(method, ids, inputs, currency) IN
    IF method \in {"equal", "exact"} THEN <<>>
    ELSE [i \in {j \in ids : read[j] # 0} |-> read[i]]

splitInputsFromStored(method, ids, stored, currency) ==
  [i \in ids |->
     IF i \notin DOMAIN stored THEN Blank
     ELSE IF method = "adjustment" THEN minorToAmountString(stored[i], currency)
     ELSE Plain(stored[i])]

(* The fields of a set that balances its total keep balancing it: the      *)
(* total crosses the scales and is shared out again by the old weights.    *)
rescaleAmountFields(inputs, totalText, from, to) ==
  LET each == [i \in DOMAIN inputs |-> rescaleAmountString(inputs[i], from, to)]
      total == parseAmount(totalText, from)
      weight == [i \in {j \in DOMAIN inputs : inputs[j] # Blank} |->
                   parseAmount(inputs[i], from)]
      positive == [i \in {j \in DOMAIN weight : weight[j] > 0} |-> weight[i]]
      parts == apportion(bridgeMinor(total, minorUnitScale(from), to), positive)
  IN CASE minorUnitScale(from) = minorUnitScale(to) -> inputs
       [] minorUnitScale(from) # minorUnitScale(to)
          /\ (\/ total <= 0
              \/ SumOf(weight) # total
              \/ \E i \in DOMAIN weight : weight[i] < 0
              \/ DOMAIN positive = {}) -> each
       [] OTHER ->
            [i \in DOMAIN inputs |->
               IF i \in DOMAIN positive THEN minorToAmountString(parts[i], to)
               ELSE each[i]]

-----------------------------------------------------------------------------
(* receipt-summary.ts and receipt-assign.ts                                *)

FirstOf(items, role, found) ==
  LET rows == {i \in DOMAIN items : items[i].role = role} IN
    IF found # NoFigure \/ rows = {} THEN found
    ELSE items[CHOOSE i \in rows : \A j \in rows : i <= j].totalMinor

(* Rows whose name says tax, tip, total or net leave the item list; a tax  *)
(* or tip the parser did not find is taken from the first such row.  The   *)
(* lines left keep the numbers they had, which only tell them apart.       *)
foldSummaryLines(parsed) ==
  [parsed EXCEPT
     !.items = [i \in {k \in DOMAIN @ : @[k].role = "thing"} |-> @[i]],
     !.taxMinor = FirstOf(parsed.items, "tax", @),
     !.tipMinor = FirstOf(parsed.items, "tip", @)]

OrZero(figure) == IF figure = NoFigure THEN 0 ELSE figure

receiptBill(parsed, ignored, slipTipMinor) ==
  LET kept == [i \in DOMAIN parsed.items \ ignored |-> parsed.items[i].totalMinor]
      billTotal == IF parsed.totalMinor # NoFigure THEN parsed.totalMinor
                   ELSE SumOf(kept) + OrZero(parsed.taxMinor) + OrZero(parsed.tipMinor)
  IN [itemsSum |-> SumOf(kept),
      billTotal |-> billTotal,
      totalMinor |-> billTotal + slipTipMinor,
      extraMinor |-> billTotal + slipTipMinor - SumOf(kept)]

(* Each member's parts of the items, added up.                             *)
AddedUp(split) ==
  [m \in UNION {DOMAIN split[i] : i \in DOMAIN split} |->
     SumOf([i \in {k \in DOMAIN split : m \in DOMAIN split[k]} |-> split[i][m]])]

(* What each member's items come to: every kept item equally among its     *)
(* assignees.                                                              *)
ItemShares(items, assign, ignored) ==
  AddedUp([i \in {k \in DOMAIN items \ ignored : assign[k] # {}} |->
             computeSplit("equal", items[i].totalMinor, [m \in assign[i] |-> 0])])

(* Not the code: a discount is shared out evenly.                          *)
ProratedEvenly(out, extraMinor) ==
  LET evenly == computeSplit("equal", Abs(extraMinor), out)
  IN IF DOMAIN out = {} THEN out
     ELSE [m \in DOMAIN out |->
             out[m] + (IF extraMinor > 0 THEN evenly[m] ELSE -evenly[m])]

(* The extra in proportion to what each member's items came to.            *)
Prorated(out, extraMinor) ==
  LET weights == [m \in {k \in DOMAIN out : out[k] > 0} |-> out[m]]
      prorated == computeSplit("shares", Abs(extraMinor), weights)
  IN IF extraMinor = 0 \/ DOMAIN weights = {} THEN out
     ELSE [m \in DOMAIN out |->
             out[m] + (IF m \notin DOMAIN weights THEN 0
                       ELSE IF extraMinor > 0 THEN prorated[m] ELSE -prorated[m])]

assignedShares(items, assign, ignored, extraMinor) ==
  Prorated(ItemShares(items, assign, ignored), extraMinor)

allAssigned(items, assign, ignored) ==
  \A i \in DOMAIN items \ ignored : assign[i] # {}
=============================================================================

----------------------------- MODULE AssignItems -----------------------------
(***************************************************************************)
(* "Split by item": the sheet both clients open on a parsed receipt to say *)
(* who had what (AssignItemsSheet of the web and of the phone).  A line    *)
(* can be ignored, a card slip can be scanned for the tip, and Continue    *)
(* hands the per-member totals back to the expense form.                   *)
(***************************************************************************)
EXTENDS Money

CONSTANTS
  Receipts,    \* the parses the instance starts from
  SlipTotals   \* what a card slip can turn out to say, NoFigure included

(* What a parse looks like; a figure may carry a sign.                     *)
ASSUME ReceiptsAssumption ==
  \A r \in Receipts :
    /\ {"items", "taxMinor", "tipMinor", "totalMinor"} \subseteq DOMAIN r
    /\ r.items \in Seq([totalMinor : Int,
                        role : {"thing", "tax", "tip", "total", "net"}])
    /\ {r.taxMinor, r.tipMinor, r.totalMinor} \subseteq Figure

ASSUME SlipsAssumption == SlipTotals \subseteq Figure

VARIABLES
  parsed,    \* the receipt, summary rows already folded away
  assign,    \* line -> the members who had it
  ignored,   \* lines that are not part of the bill
  tipMinor,  \* the tip taken from a card slip, NoFigure before one is read
  slipTotal, \* what that slip said in all (remembered for the properties)
  slipScan,  \* NoFigure, or the bill total the running slip scan closed over
  done       \* the sheet has handed its result over or was closed

sheetVars == <<parsed, assign, ignored, tipMinor, slipTotal, slipScan, done>>

Lines == DOMAIN parsed.items

bill == receiptBill(parsed, ignored, OrZero(tipMinor))
perMember == assignedShares(parsed.items, assign, ignored, bill.extraMinor)

(* The total without the tip already taken from an earlier slip.           *)
billTotal == bill.totalMinor - OrZero(tipMinor)

(* Restoring a line never brings back the members it had before: an        *)
(* ignored line has none.                                                  *)
SheetTypeOK ==
  /\ parsed \in {foldSummaryLines(r) : r \in Receipts}
  /\ ignored \subseteq Lines
  /\ assign \in [Lines -> SUBSET Members]
  /\ \A i \in ignored : assign[i] = {}
  /\ tipMinor \in Nat \cup {NoFigure}
  /\ slipTotal \in Figure
  /\ slipScan \in Figure
  /\ done \in BOOLEAN

SheetInit ==
  /\ \E r \in Receipts : parsed = foldSummaryLines(r) /\ parsed.items # <<>>
  /\ assign = [i \in Lines |-> {}]
  /\ ignored = {}
  /\ tipMinor = NoFigure
  /\ slipTotal = NoFigure
  /\ slipScan = NoFigure
  /\ done = FALSE

(* The busy overlay of a running slip scan covers the sheet.               *)
Editable == ~done /\ slipScan = NoFigure

-----------------------------------------------------------------------------
toggle(i, m) ==
  /\ Editable
  /\ i \notin ignored
  /\ assign' = [assign EXCEPT ![i] = IF m \in @ THEN @ \ {m} ELSE @ \cup {m}]
  /\ UNCHANGED <<parsed, ignored, tipMinor, slipTotal, slipScan, done>>

toggleIgnored(i) ==
  /\ Editable
  /\ \/ /\ i \in ignored
        /\ ignored' = ignored \ {i}
        /\ UNCHANGED assign
     \/ /\ i \notin ignored
        /\ ignored' = ignored \cup {i}
        /\ assign' = [assign EXCEPT ![i] = {}]
  /\ UNCHANGED <<parsed, tipMinor, slipTotal, slipScan, done>>

splitRestEqually ==
  /\ Editable
  /\ ~allAssigned(parsed.items, assign, ignored)
  /\ assign' = [i \in Lines |->
                  IF i \notin ignored /\ assign[i] = {} THEN Members ELSE assign[i]]
  /\ UNCHANGED <<parsed, ignored, tipMinor, slipTotal, slipScan, done>>

(* Not the code: the scan remembers the total with the last slip's tip.    *)
onSlipFileOverTotal ==
  /\ Editable
  /\ slipScan' = bill.totalMinor
  /\ UNCHANGED <<parsed, assign, ignored, tipMinor, slipTotal, done>>

(* The scan closes over the bill total of the render that started it.      *)
onSlipFile ==
  /\ Editable
  /\ slipScan' = billTotal
  /\ UNCHANGED <<parsed, assign, ignored, tipMinor, slipTotal, done>>

(* It ends: with a total no lower than the bill, whose difference is the   *)
(* tip, or with an error, a cancel or a total that cannot be, which change *)
(* nothing.                                                                *)
SlipAnswer(total) ==
  LET usable == total # NoFigure /\ total >= slipScan IN
  /\ slipScan # NoFigure
  /\ slipScan' = NoFigure
  /\ \/ /\ usable
        /\ tipMinor' = total - slipScan
        /\ slipTotal' = total
     \/ /\ ~usable
        /\ UNCHANGED <<tipMinor, slipTotal>>
  /\ UNCHANGED <<parsed, assign, ignored, done>>

(* Continue, enabled once every kept line has somebody; or the sheet is    *)
(* closed.                                                                 *)
Continue ==
  /\ Editable
  /\ allAssigned(parsed.items, assign, ignored)
  /\ done' = TRUE
  /\ UNCHANGED <<parsed, assign, ignored, tipMinor, slipTotal, slipScan>>

SheetNext ==
  \/ \E i \in Lines : toggleIgnored(i) \/ \E m \in Members : toggle(i, m)
  \/ splitRestEqually
  \/ onSlipFile
  \/ \E total \in SlipTotals : SlipAnswer(total)
  \/ Continue

SheetSpec == SheetInit /\ [][SheetNext]_sheetVars

-----------------------------------------------------------------------------
(* receipt-assign.ts promises that once every kept line has an assignee    *)
(* the shares sum to exactly the total, tax, tip and unread difference     *)
(* included.  It does so whenever a kept line is worth something: then     *)
(* nothing of the bill is left for nobody to pay.                          *)
SharesAddUp ==
  allAssigned(parsed.items, assign, ignored) /\ bill.itemsSum > 0
    => SumOf(perMember) = bill.totalMinor

(* The shares follow what each member had, to the unit.                    *)
Proportional(out, sum) ==
  sum > 0 /\ sum = bill.itemsSum =>
    \A m \in DOMAIN out :
      /\ perMember[m] >= 0
      /\ Abs(perMember[m] * sum - out[m] * bill.totalMinor) < sum

(* The extra follows what each member had, to the unit: once the lines are *)
(* assigned nobody is charged a whole unit more or less than the exact     *)
(* proportion, and a discount never turns a share around.                  *)
ExtraInProportion ==
  LET out == ItemShares(parsed.items, assign, ignored) IN Proportional(out, SumOf(out))

(* The card slip governs: a bill with a printed total comes to what the    *)
(* last slip said, however many slips were scanned before and whatever was *)
(* ignored in between.                                                     *)
SlipGoverns ==
  parsed.totalMinor # NoFigure /\ slipTotal # NoFigure
    => bill.totalMinor = slipTotal

=============================================================================

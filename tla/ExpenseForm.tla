----------------------------- MODULE ExpenseForm -----------------------------
(***************************************************************************)
(* The expense form of both clients (AddExpenseSheet of the web and of the *)
(* phone): its fields, the receipt scan that fills them, Save, and what    *)
(* the server files.  A field holds a text of Money.  Other fields (date,  *)
(* category, notes, the typed exchange rate) only travel with the rest.    *)
(***************************************************************************)
EXTENDS Money

CONSTANTS
  Clients,       \* of {"web", "phone"}
  User,          \* a member of the group
  Currencies,    \* the codes the clients know
  Expenses,      \* the expenses an instance may open the form on, and
  Held,          \* those of them a new one may meet in the group
  None,          \* no expense, no receipt, no parse
  Parses,        \* what the model can read off a photo
  TypedAmounts,  \* what is typed into an amount field ...
  TypedCounts,   \* ... as a share count or a percentage ...
  TypedOffsets,  \* ... and as an adjustment
  MaxEdits,      \* bounds of an instance: fields typed or picked and scans,
  MaxSaves       \* presses of Save that went through

Weighted == {"shares", "percent", "adjustment"}
Methods == {"equal", "exact"} \cup Weighted

ASSUME FormAssumption ==
  /\ Clients \subseteq {"web", "phone"}
  /\ MaxEdits \in Nat /\ MaxSaves \in Nat

ASSUME UserAssumption == User \in Members

ASSUME TypedAssumption == TypedAmounts \cup TypedCounts \cup TypedOffsets \subseteq Text

(* What the server holds of an expense: ExpenseService::validate lets no   *)
(* payer and no share below nought in.                                     *)
ASSUME ExpensesAssumption ==
  /\ Held \subseteq Expenses
  /\ \A e \in Expenses :
       /\ e.currency \in Currencies /\ e.method \in Methods
       /\ e.amountMinor \in Nat
       /\ DOMAIN e.shares \subseteq Members
       /\ \A m \in DOMAIN e.shares : e.shares[m] \in Nat
       /\ DOMAIN e.payers \subseteq Members /\ DOMAIN e.payers # {}
       /\ \A m \in DOMAIN e.payers : e.payers[m] \in Nat
       /\ \A m \in DOMAIN e.splitInput : e.splitInput[m] \in Int

(* What the model reads off a photo; a figure may carry a sign.            *)
ASSUME ParsesAssumption ==
  \A p \in Parses :
    /\ DOMAIN p = {"currency", "scale", "items", "taxMinor", "tipMinor",
                   "totalMinor", "merchant"}
    /\ p.scale \in {1, 100}
    /\ p.items \in Seq([totalMinor : Int,
                        role : {"thing", "tax", "tip", "total", "net"}])
    /\ {p.taxMinor, p.tipMinor, p.totalMinor} \subseteq Figure
    /\ p.merchant \in BOOLEAN

(* null is no split.                                                       *)
ASSUME NoneAssumption == \A M \in SUBSET Members : None \notin [M -> Int]

VARIABLES
  client,         \* which of the two this is
  editing,        \* the expense being edited, or None
  form,           \* the fields
  receiptId,      \* the linked photo: the number of the edit that took it
  lastParsed,     \* the last parse, kept for "Split by item"
  assigning,      \* "Split by item" is open
  scan,           \* the running scan
  saving,         \* Save waits for its answer
  allowDuplicate, \* Save reads "Add it anyway"
  requests,       \* Saves on their way to the server or back
  filed,          \* what the server holds of this form
  closed,         \* the form is gone
  edits, saves

fields == <<form, receiptId, lastParsed, assigning>>
filing == <<saving, allowDuplicate, requests, filed, saves>>
vars == <<client, editing, fields, scan, filing, closed, edits>>

-----------------------------------------------------------------------------
(* What the form computes                                                  *)

BlankFields == [m \in Members |-> Blank]

(* A new expense starts empty, split equally, paid by the user.            *)
NewForm(currency) ==
  [amount |-> Blank, described |-> FALSE, currency |-> currency,
   method |-> "equal", included |-> Members, exact |-> BlankFields,
   weights |-> [w \in Weighted |-> BlankFields],
   multiPayer |-> FALSE, payer |-> User, payerAmounts |-> BlankFields]

Amounts(minor, currency) ==
  [m \in Members |-> IF m \in DOMAIN minor
                     THEN minorToAmountString(minor[m], currency) ELSE Blank]

(* A filed expense reopens on the method it was split by.                  *)
Reopened(e) ==
  [amount |-> minorToAmountString(e.amountMinor, e.currency),
   described |-> TRUE,
   currency |-> e.currency,
   method |-> e.method,
   included |-> IF e.method = "equal" THEN DOMAIN e.shares ELSE Members,
   exact |-> Amounts(e.shares, e.currency),
   weights |-> [w \in Weighted |->
                  IF w # e.method THEN BlankFields
                  ELSE splitInputsFromStored(w, Members, e.splitInput, e.currency)],
   multiPayer |-> Cardinality(DOMAIN e.payers) > 1,
   payer |-> CHOOSE m \in DOMAIN e.payers : \A k \in DOMAIN e.payers : m <= k,
   payerAmounts |-> Amounts(e.payers, e.currency)]

amountMinor(f) == parseAmount(f.amount, f.currency)

Positive(minor) == [m \in {k \in DOMAIN minor : minor[k] > 0} |-> minor[m]]

Read(texts, currency) == [m \in Members |-> parseAmount(texts[m], currency)]

(* Each member's share, or None where the inputs cannot be split yet.      *)
shares(f) ==
  LET ids == IF f.method = "equal" THEN f.included ELSE Members
      inputs == IF f.method \in Weighted THEN f.weights[f.method] ELSE BlankFields
      given == splitMembersFromInputs(f.method, ids, inputs, f.currency)
  IN IF amountMinor(f) <= 0 THEN None
     ELSE IF f.method = "exact" THEN Positive(Read(f.exact, f.currency))
     ELSE IF ~Splittable(f.method, amountMinor(f), given) THEN None
     ELSE Positive(computeSplit(f.method, amountMinor(f), given))

remaining(f) ==
  amountMinor(f) - (IF shares(f) = None THEN 0 ELSE SumOf(shares(f)))

payers(f) ==
  IF ~f.multiPayer THEN [m \in {f.payer} |-> amountMinor(f)]
  ELSE Positive(Read(f.payerAmounts, f.currency))

payersRemaining(f) == amountMinor(f) - SumOf(payers(f))

(* Why Save would not go through, in the order the form reads.             *)
saveHint(f) ==
  IF amountMinor(f) <= 0 THEN "amount"
  ELSE IF ~f.described THEN "description"
  ELSE IF shares(f) = None \/ DOMAIN shares(f) = {} THEN "split"
  ELSE IF remaining(f) # 0 THEN "remaining"
  ELSE IF DOMAIN payers(f) = {} THEN "payer"
  ELSE IF payersRemaining(f) # 0 THEN "payers"
  ELSE "none"

Balanced(f) == saveHint(f) \in {"none", "description"}

(* What Save sends.                                                        *)
payload(f) ==
  [amountMinor |-> amountMinor(f), currency |-> f.currency, method |-> f.method,
   payers |-> payers(f), shares |-> shares(f),
   splitInput |-> splitInputsToStored(f.method, Members,
                    IF f.method \in Weighted THEN f.weights[f.method] ELSE BlankFields,
                    f.currency)]

-----------------------------------------------------------------------------
NoScan == [stage |-> "idle", cancelled |-> FALSE, photo |-> 0]

(* The form can be touched: no sheet or busy overlay lies over it.         *)
Usable == ~closed /\ ~assigning /\ scan = NoScan

TypeOK ==
  /\ client \in Clients
  /\ editing \in Expenses \cup {None}
  /\ form.amount \in Text /\ form.described \in BOOLEAN
  /\ form.currency \in Currencies /\ form.method \in Methods
  /\ form.included \in SUBSET Members /\ form.exact \in [Members -> Text]
  /\ form.weights \in [Weighted -> [Members -> Text]]
  /\ form.multiPayer \in BOOLEAN /\ form.payer \in Members
  /\ form.payerAmounts \in [Members -> Text]
  /\ receiptId \in Nat \cup {None}
  /\ lastParsed = None \/ lastParsed.currency \in Currencies
  /\ assigning \in BOOLEAN /\ (assigning => lastParsed # None)
  /\ scan \in [stage : {"idle", "prepare", "upload", "line", "asking"},
              cancelled : BOOLEAN, photo : Nat]
  /\ saving \in BOOLEAN /\ allowDuplicate \in BOOLEAN
  /\ saving <=> requests # {}
  /\ \A r \in requests : r.stage \in {"sent", "clear", "twin", "stored"}
  /\ closed \in BOOLEAN

(* A form opens empty, in the group's home currency or the one used last,  *)
(* or on an expense; the group may hold one that looks like it already.    *)
Init ==
  /\ client \in Clients
  /\ \/ editing = None /\ \E c \in Currencies : form = NewForm(c)
     \/ editing \in Expenses /\ form = Reopened(editing)
  /\ \E there \in IF editing = None THEN SUBSET Held ELSE {{editing}} :
       filed = {[n |-> 0, allow |-> FALSE, body |-> e] : e \in there}
  /\ receiptId = None /\ lastParsed = None /\ assigning = FALSE
  /\ scan = NoScan
  /\ saving = FALSE /\ allowDuplicate = FALSE /\ requests = {}
  /\ closed = FALSE
  /\ edits = 0 /\ saves = 0

-----------------------------------------------------------------------------
(* Filling the form in by hand                                             *)

Edit(f) ==
  /\ Usable
  /\ edits < MaxEdits
  /\ edits' = edits + 1
  /\ form' = f
  /\ UNCHANGED <<client, editing, receiptId, lastParsed, assigning, scan, filing,
                 closed>>

TypeAmount == \E t \in TypedAmounts : Edit([form EXCEPT !.amount = t])

Describe == Edit([form EXCEPT !.described = ~@])

(* The sign of an offset stays outside of its rescaling.                   *)
rescaleOffset(text, from, to) ==
  IF text.n >= 0 THEN rescaleAmountString(text, from, to)
  ELSE [rescaleAmountString([text EXCEPT !.n = -@], from, to) EXCEPT !.n = -@]

(* Not the code: every amount crosses the scales on its own.               *)
rescaledEach(f, next) ==
  LET Cross(text) == rescaleAmountString(text, f.currency, next) IN
  [f EXCEPT !.amount = Cross(@),
            !.exact = [m \in Members |-> Cross(@[m])],
            !.payerAmounts = [m \in Members |-> Cross(@[m])],
            !.weights["adjustment"] = [m \in Members |-> rescaleOffset(@[m], f.currency, next)],
            !.currency = next]

(* Another currency keeps the number on the screen.  Exact shares and      *)
(* payer amounts cross as a set, adjustments one by one.                   *)
rescaled(f, next) ==
  [f EXCEPT
     !.amount = rescaleAmountString(@, f.currency, next),
     !.exact = rescaleAmountFields(@, f.amount, f.currency, next),
     !.payerAmounts = rescaleAmountFields(@, f.amount, f.currency, next),
     !.weights["adjustment"] =
        [m \in Members |-> rescaleOffset(@[m], f.currency, next)],
     !.currency = next]

PickCurrency == \E c \in Currencies : Edit(rescaled(form, c))

ChoosePayer == ~form.multiPayer /\ \E m \in Members : Edit([form EXCEPT !.payer = m])

(* Unless payer amounts are there already the payer starts with it all.    *)
ManyPayers ==
  LET hasAny == DOMAIN Positive(Read(form.payerAmounts, form.currency)) # {}
      kept == hasAny \/ amountMinor(form) <= 0
  IN /\ ~form.multiPayer
     /\ Edit([form EXCEPT
                !.multiPayer = TRUE,
                !.payerAmounts[form.payer] =
                  IF kept THEN @
                  ELSE minorToAmountString(amountMinor(form), form.currency)])

PayerFields ==
  /\ form.multiPayer
  /\ \/ Edit([form EXCEPT !.multiPayer = FALSE])
     \/ \E m \in Members, t \in TypedAmounts : Edit([form EXCEPT !.payerAmounts[m] = t])

PickMethod == \E m \in Methods : Edit([form EXCEPT !.method = m])

Include ==
  /\ form.method = "equal"
  /\ \/ \E who \in {Members, {User}} : Edit([form EXCEPT !.included = who])
     \/ \E m \in Members :
          Edit([form EXCEPT !.included = IF m \in @ THEN @ \ {m} ELSE @ \cup {m}])

TypeShare ==
  \E m \in Members :
    \/ /\ form.method = "exact"
       /\ \E t \in TypedAmounts : Edit([form EXCEPT !.exact[m] = t])
    \/ /\ form.method \in Weighted
       /\ \E t \in IF form.method = "adjustment" THEN TypedOffsets ELSE TypedCounts :
            Edit([form EXCEPT !.weights[form.method][m] = t])

-----------------------------------------------------------------------------
(* A parse in the form                                                     *)

(* The currency a parse is pinned to: its own if the client knows it.      *)
parseCurrency(parsed) ==
  IF parsed.currency \in Currencies THEN parsed.currency ELSE form.currency

pinned(parsed) ==
  foldSummaryLines(normalizeParsedReceipt(parsed, parseCurrency(parsed)))

(* The printed total, or what the lines read add up to.  The split, the    *)
(* payers and their amounts are left alone.                                *)
applyParse(parsed) ==
  LET p == pinned(parsed)
      total == IF p.totalMinor # NoFigure THEN p.totalMinor
               ELSE IF p.items # <<>> THEN receiptBill(p, {}, 0).billTotal
               ELSE NoFigure
  IN /\ lastParsed' = p
     /\ form' = [form EXCEPT
          !.amount = IF total = NoFigure THEN @ ELSE minorToAmountString(total, p.currency),
          !.currency = p.currency,
          !.described = @ \/ parsed.merchant]

SplitByItem ==
  /\ Usable
  /\ lastParsed # None /\ lastParsed.items # <<>>
  /\ assigning' = TRUE
  /\ UNCHANGED <<client, editing, form, receiptId, lastParsed, scan, filing, closed,
                 edits>>

(* What "Split by item" hands back, for one way of saying who had what.    *)
Assigned(assign) ==
  LET bill == receiptBill(lastParsed, {}, 0) IN
  [currency |-> lastParsed.currency,
   totalMinor |-> bill.totalMinor,
   shares |-> assignedShares(lastParsed.items, assign, {}, bill.extraMinor)]

(* Not the code: the result is read in the currency the form shows.        *)
applyAssignmentInPlace(result) ==
  form' = [form EXCEPT
            !.amount = minorToAmountString(result.totalMinor, form.currency),
            !.currency = result.currency,
            !.method = "exact",
            !.exact = Amounts(result.shares, form.currency)]

applyAssignment(result) ==
  form' = [form EXCEPT
            !.amount = minorToAmountString(result.totalMinor, result.currency),
            !.currency = result.currency,
            !.method = "exact",
            !.exact = Amounts(result.shares, result.currency)]

(* Its Continue, open once every line has somebody, or its Close.  With    *)
(* somebody on a line below nought the sheet cannot be drawn: computeSplit *)
(* throws.                                                                 *)
AssignDone ==
  /\ assigning
  /\ assigning' = FALSE
  /\ \/ /\ \A i \in DOMAIN lastParsed.items : lastParsed.items[i].totalMinor >= 0
        /\ \E assign \in [DOMAIN lastParsed.items -> (SUBSET Members) \ {{}}] :
             applyAssignment(Assigned(assign))
     \/ UNCHANGED form
  /\ UNCHANGED <<client, editing, receiptId, lastParsed, scan, filing, closed,
                 edits>>

-----------------------------------------------------------------------------
(* The scan                                                                *)

Scan(stage) == [scan EXCEPT !.stage = stage]

ScanStep(next) ==
  /\ scan' = next
  /\ UNCHANGED <<client, editing, fields, filing, closed, edits>>

StartScan(stage, photo) ==
  /\ Usable
  /\ edits < MaxEdits
  /\ edits' = edits + 1
  /\ scan' = [stage |-> stage, cancelled |-> FALSE, photo |-> photo]
  /\ UNCHANGED <<client, editing, fields, filing, closed>>

(* A photo is picked.  It is read and shrunk before the upload starts ...  *)
onScanFile == StartScan("prepare", edits + 1)

(* ... which can fail; from the upload on there is something to cancel.    *)
Prepared ==
  /\ scan.stage = "prepare"
  /\ ScanStep(Scan("upload")) \/ ScanStep(NoScan)

(* The photo taken before is sent to the parser again.                     *)
onRescan == receiptId # None /\ StartScan("asking", receiptId)

(* An answer with a parse fills the form in; one without still links the   *)
(* photo.  The waiting that went on for too long ends with such an answer. *)
ScanAnswered ==
  /\ scan.stage \in {"upload", "asking"}
  /\ receiptId' = scan.photo
  /\ \/ \E p \in Parses : applyParse(p)
     \/ UNCHANGED <<form, lastParsed>>
  /\ scan' = NoScan
  /\ UNCHANGED <<client, editing, assigning, filing, closed, edits>>

ScanFailed ==
  /\ scan.stage \in {"upload", "asking"}
  /\ ScanStep(NoScan)

(* Not the code: the wait does not look at a cancel from before it.        *)
sleepRegardless == client = "phone" /\ ScanStep(Scan("line"))

(* The web's wait only hears a Cancel pressed while it lasts ...           *)
sleep == client = "web" /\ ScanStep(Scan("line"))

(* ... the phone's looks first whether one came during the question.       *)
sleepUnless ==
  /\ client = "phone"
  /\ ScanStep(IF scan.cancelled THEN NoScan ELSE Scan("line"))

(* The parser is taken: wait for a turn, and ask again with the ticket.    *)
Queued == scan.stage \in {"upload", "asking"} /\ (sleep \/ sleepUnless)

awaitTurn == scan.stage = "line" /\ ScanStep(Scan("asking"))

WaitedTooLong ==
  /\ scan.stage = "line"
  /\ receiptId' = scan.photo
  /\ scan' = NoScan
  /\ UNCHANGED <<client, editing, form, lastParsed, assigning, filing, closed, edits>>

(* Cancel on the web aborts one signal once; who is not listening at that  *)
(* moment never hears of it.                                               *)
abort ==
  /\ client = "web"
  /\ ~scan.cancelled
  /\ ScanStep(IF scan.stage \in {"upload", "line"} THEN NoScan
              ELSE [scan EXCEPT !.cancelled = TRUE])

(* On the phone it stops the upload or wakes the wait, leaves a mark for   *)
(* the next wait while a question is out, and before the upload does       *)
(* nothing.                                                                *)
waitCancel ==
  /\ client = "phone"
  /\ scan.stage # "prepare"
  /\ ScanStep(IF scan.stage \in {"upload", "line"} THEN NoScan
              ELSE [scan EXCEPT !.cancelled = TRUE])

Cancel == scan # NoScan /\ (abort \/ waitCancel)

-----------------------------------------------------------------------------
(* Save, and what becomes of it                                            *)

Send ==
  /\ saving' = TRUE
  /\ saves' = saves + 1
  /\ requests' = requests \cup
       {[n |-> saves + 1, stage |-> "sent", allow |-> allowDuplicate,
         body |-> payload(form)]}
  /\ UNCHANGED <<client, editing, fields, scan, allowDuplicate, filed, closed,
                 edits>>

(* Not the code: a second press does not wait for the first.               *)
submitAgain ==
  /\ Usable
  /\ saves < MaxSaves
  /\ saveHint(form) = "none"
  /\ Send

submit ==
  /\ Usable
  /\ saves < MaxSaves
  /\ saveHint(form) = "none"
  /\ ~saving
  /\ Send

(* What makes two expenses the same one to the server, in the model's one  *)
(* description and date: amount, currency and who paid, not the split.     *)
Twins(a, b) ==
  /\ a.amountMinor = b.amountMinor
  /\ a.currency = b.currency
  /\ DOMAIN a.payers = DOMAIN b.payers

Move(r, stage) == (requests \ {r}) \cup {[r EXCEPT !.stage = stage]}

(* A new expense is looked up first, unless the request says it may be a   *)
(* second one; an edit is not.                                             *)
LookUp(r) ==
  LET twin == /\ editing = None /\ ~r.allow
              /\ \E f \in filed : Twins(f.body, r.body)
  IN /\ r.stage = "sent"
     /\ requests' = Move(r, IF twin THEN "twin" ELSE "clear")
     /\ UNCHANGED <<client, editing, fields, scan, saving, allowDuplicate, filed,
                    saves, closed, edits>>

Store(r) ==
  /\ r.stage = "clear"
  /\ requests' = Move(r, "stored")
  /\ filed' = (IF editing = None THEN filed ELSE {}) \cup
               {[n |-> r.n, allow |-> r.allow, body |-> r.body]}
  /\ UNCHANGED <<client, editing, fields, scan, saving, allowDuplicate, saves,
                 closed, edits>>

(* Stored closes the form; a twin turns Save into "Add it anyway".         *)
Answered(r) ==
  /\ r.stage \in {"stored", "twin"}
  /\ requests' = requests \ {r}
  /\ saving' = FALSE
  /\ closed' = (closed \/ r.stage = "stored")
  /\ allowDuplicate' = (allowDuplicate \/ r.stage = "twin")
  /\ UNCHANGED <<client, editing, fields, scan, filed, saves, edits>>

(* Not the code: only an answer unlocks Save.                              *)
FailedLocked(r) ==
  /\ r.stage # "clear"
  /\ requests' = requests \ {r}
  /\ UNCHANGED <<client, editing, fields, scan, saving, allowDuplicate, filed, saves,
                 closed, edits>>

(* Any other refusal, a request that never arrived, or an answer that did  *)
(* not: an error under the form, which stays as it is.                     *)
Failed(r) ==
  /\ r.stage # "clear"
  /\ requests' = requests \ {r}
  /\ saving' = FALSE
  /\ UNCHANGED <<client, editing, fields, scan, allowDuplicate, filed, saves, closed,
                 edits>>

Next ==
  \/ TypeAmount \/ Describe \/ PickCurrency
  \/ ChoosePayer \/ ManyPayers \/ PayerFields
  \/ PickMethod \/ Include \/ TypeShare
  \/ SplitByItem \/ AssignDone
  \/ onScanFile \/ onRescan \/ Prepared
  \/ ScanAnswered \/ ScanFailed \/ Queued \/ awaitTurn \/ WaitedTooLong \/ Cancel
  \/ submit
  \/ \E r \in requests : LookUp(r) \/ Store(r) \/ Answered(r) \/ Failed(r)

Spec == Init /\ [][Next]_vars

-----------------------------------------------------------------------------
(* A retry on a flaky connection or an eager finger never doubles an       *)
(* expense in silence: of two that look the same, one was filed by a press *)
(* of "Add it anyway" (issue #76).                                         *)
FiledOnceUnlessConfirmed ==
  \A a, b \in filed : a # b /\ Twins(a.body, b.body) => a.allow \/ b.allow

(* What makes it inductive: one Save is out at a time, and once the server *)
(* has found no twin of a new expense none is filed before it.             *)
OneSaveAtATime ==
  /\ saving <=> requests # {}
  /\ \A r, s \in requests : r = s

ClearOfTwins ==
  /\ editing # None => \A f, g \in filed : f = g
  /\ editing = None =>
       \A r \in requests : r.stage = "clear" /\ ~r.allow =>
         \A f \in filed : ~Twins(f.body, r.body)

(* Opening what was filed and saving it untouched files the same again:    *)
(* what is stored of a split is enough to type it in once more.            *)
ReopensAsFiled ==
  \A f \in filed :
    /\ saveHint(Reopened(f.body)) = "none"
    /\ payload(Reopened(f.body)) = f.body

(* Amounts that add up keep adding up when the currency is picked anew     *)
(* (issue #74): exact shares and payer amounts never need retyping.        *)
RescaleKeepsBalance ==
  [][/\ PickCurrency
     /\ Balanced(form)
     /\ form.method = "exact" /\ amountMinor(form') > 0
     => Balanced(form')]_vars

(* "Split by item" bills what the receipt came to, in the receipt's own    *)
(* currency, and hands over exact shares that reconcile with it, whatever  *)
(* happened to the form's currency since the scan, as long as there is     *)
(* something on the receipt to pay for.                                    *)
AssignmentReconciles ==
  [][assigning /\ form' # form =>
       LET bill == receiptBill(lastParsed, {}, 0) IN
         bill.itemsSum > 0 =>
           /\ form'.currency = lastParsed.currency
           /\ amountMinor(form') = bill.totalMinor
           /\ remaining(form') = 0]_vars

(* On the phone a scan that was cancelled never asks for its turn again.   *)
CancelledStaysOut ==
  client = "phone" => ~(scan.cancelled /\ scan.stage = "line")

(* The doc comment of awaitTurn says so of both: "Cancelling gives the     *)
(* place up so the people behind move up at once."                         *)
CancelGivesPlaceUp == ~(scan.cancelled /\ scan.stage = "line")
=============================================================================

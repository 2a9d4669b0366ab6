---------------------------- MODULE MCExpenseForm ----------------------------
(* Two members, a currency with cents and one without; expenses of four    *)
(* split methods to reopen, and receipts in either currency or in none.    *)
EXTENDS ExpenseForm

Bill(amount, currency, method, paid, shared, input) ==
  [amountMinor |-> amount, currency |-> currency, method |-> method,
   payers |-> paid, shares |-> shared, splitInput |-> input]

Only(m, n) == [k \in {m} |-> n]
Both(a, b) == [k \in {1, 2} |-> IF k = 1 THEN a ELSE b]

SomeExpenses ==
  {Bill(301, "EUR", "exact", Both(1, 300), Both(150, 151), <<>>),
   Bill(300, "EUR", "adjustment", Only(2, 300), Both(125, 175), Only(1, -50)),
   Bill(3, "CLP", "percent", Only(1, 3), Both(2, 1), Both(50, 50)),
   Bill(1, "CLP", "equal", Only(1, 1), Only(1, 1), <<>>)}

OneOfThem == {Bill(3, "CLP", "percent", Only(1, 3), Both(2, 1), Both(50, 50))}

Row(amount, role) == [totalMinor |-> amount, role |-> role]
Parse(currency, scale, items, total, merchant) ==
  [currency |-> currency, scale |-> scale, items |-> items, taxMinor |-> NoFigure,
   tipMinor |-> NoFigure, totalMinor |-> total, merchant |-> merchant]

SomeParses ==
  {Parse("CLP", 1, <<Row(2, "thing"), Row(1, "thing")>>, 4, TRUE),
   Parse(None, 100, <<Row(150, "thing"), Row(51, "tax")>>, NoFigure, FALSE)}

SomeAmounts == {Plain(3), Point(301)}
SomeCounts == {Plain(1), Plain(2)}
SomeOffsets == {Point(-50), Plain(1)}
=============================================================================

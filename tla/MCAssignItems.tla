---------------------------- MODULE MCAssignItems ----------------------------
(* Receipts small enough for TLC: rows that sum below, to and above the    *)
(* printed total, no printed total, and a card slip's summary rows.        *)
EXTENDS AssignItems

Row(amount, role) == [totalMinor |-> amount, role |-> role]
Parse(items, tax, tip, total) ==
  [items |-> items, taxMinor |-> tax, tipMinor |-> tip, totalMinor |-> total]

SomeReceipts ==
  {Parse(<<Row(5, "thing"), Row(3, "thing"), Row(7, "thing")>>, NoFigure, NoFigure, 19),
   Parse(<<Row(5, "thing"), Row(1, "thing"), Row(0, "thing")>>, NoFigure, NoFigure, 2),
   Parse(<<Row(4, "thing"), Row(2, "tax"), Row(6, "thing"), Row(3, "tip")>>,
         NoFigure, NoFigure, NoFigure),
   Parse(<<Row(10, "thing"), Row(2, "tax")>>, 1, NoFigure, 13)}

SomeSlips == {NoFigure, 15, 20, 22}
=============================================================================

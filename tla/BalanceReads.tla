---------------------------- MODULE BalanceReads ----------------------------
(***************************************************************************)
(* GET /groups/{id}/balances while the group is being written to.          *)
(* BalanceService::forGroup asks for the expense rows, then for their      *)
(* payers, then for their shares, then for the settlements, in separate    *)
(* statements with no transaction around them; between two of them the     *)
(* requests of GroupRequests take any steps of theirs.                     *)
(***************************************************************************)
EXTENDS GroupRequests

VARIABLES
  reader,    \* the next SELECT and what the earlier ones answered
  rewritten  \* history: the expenses it has found that an update changed since

readVars == <<vars, reader, rewritten>>

NothingRead == [next |-> "rows", rows |-> {}, rate |-> <<>>, paid |-> <<>>,
                owed |-> <<>>, settled |-> [u \in Users |-> 0]]

ReadInit == Init /\ reader = NothingRead /\ rewritten = {}

-----------------------------------------------------------------------------
(* expenses(): the rows, with their rates, first; an empty list asks       *)
(* nothing further.                                                        *)
SelectRows ==
  /\ reader.next = "rows"
  /\ reader' = [reader EXCEPT
       !.rows = LiveExpenses,
       !.rate = [e \in LiveExpenses |-> expense[e].bill.rate],
       !.next = IF LiveExpenses = {} THEN "settlements" ELSE "payers"]
  /\ UNCHANGED <<vars, rewritten>>

(* childAmounts('expense_payers'), by the ids of the rows read before.     *)
SelectPayers ==
  /\ reader.next = "payers"
  /\ reader' = [reader EXCEPT
       !.paid = [e \in reader.rows |-> expense[e].bill.paid],
       !.next = "shares"]
  /\ UNCHANGED <<vars, rewritten>>

(* Not the code: the shares come with a condition on deleted_at of their   *)
(* own, so that those of an expense deleted in the meantime are missing.   *)
SelectLiveShares ==
  /\ reader.next = "shares"
  /\ reader' = [reader EXCEPT
       !.owed = [e \in reader.rows |->
                   IF e \in LiveExpenses THEN expense[e].bill.owed ELSE <<>>],
       !.next = "settlements"]
  /\ UNCHANGED <<vars, rewritten>>

SelectShares ==
  /\ reader.next = "shares"
  /\ reader' = [reader EXCEPT
       !.owed = [e \in reader.rows |-> expense[e].bill.owed],
       !.next = "settlements"]
  /\ UNCHANGED <<vars, rewritten>>

SelectSettlements ==
  /\ reader.next = "settlements"
  /\ reader' = [reader EXCEPT
       !.settled = [u \in Users |-> SettledNet(u)], !.next = "answer"]
  /\ UNCHANGED <<vars, rewritten>>

(* The net of u as forGroup adds it up from what it read.                  *)
ReadNet(u) ==
  MapThenSumSet(LAMBDA e :
      Entry(convertEffects(Effects(reader.paid[e], reader.owed[e]), reader.rate[e]), u),
    reader.rows)
    + reader.settled[u]

(* Simplify::debts refuses nets that do not cancel, and the request fails. *)
Answer ==
  /\ reader.next = "answer"
  /\ reader' = NothingRead
  /\ rewritten' = {}
  /\ UNCHANGED vars

ReadBalances ==
  SelectRows \/ SelectPayers \/ SelectShares \/ SelectSettlements \/ Answer

(* Somebody else's request takes a step.                                   *)
Meanwhile ==
  /\ Next
  /\ rewritten' =
       rewritten \cup {e \in reader.rows : expense'[e].bill # expense[e].bill}
  /\ UNCHANGED reader

ReadNext == ReadBalances \/ Meanwhile

ReadSpec == ReadInit /\ [][ReadNext]_readVars

-----------------------------------------------------------------------------
(* Creating, deleting, restoring, paying and settling cannot tear a read:  *)
(* only the rewriting of an expense it had already found can.              *)
OnlyRewritesTear ==
  reader.next = "answer" /\ rewritten = {} =>
    MapThenSumSet(ReadNet, Users) = 0

(* What makes it inductive: rows are never unwritten, what a statement has *)
(* answered about one that nobody rewrote is what the row still says, and  *)
(* the settlements cancelled when they were read.                          *)
ReaderOK ==
  /\ reader = [next |-> reader.next, rows |-> reader.rows, rate |-> reader.rate,
               paid |-> reader.paid, owed |-> reader.owed, settled |-> reader.settled]
  /\ reader.next \in {"rows", "payers", "shares", "settlements", "answer"}
  /\ reader.rows \subseteq ExpenseIds
  /\ \A e \in reader.rows : expense[e].status # "absent"

UpToDate ==
  \A e \in reader.rows \ rewritten :
    /\ reader.rate[e] = expense[e].bill.rate
    /\ reader.next \in {"shares", "settlements", "answer"} =>
         reader.paid[e] = expense[e].bill.paid
    /\ reader.next \in {"settlements", "answer"} =>
         reader.owed[e] = expense[e].bill.owed

OverAll(net) == MapThenSumSet(LAMBDA u : net[u], Users)

SettledEvenly ==
  reader.next = "answer" =>
    /\ reader.settled \in [Users -> Int]
    /\ OverAll(reader.settled) = 0

ReadInv == ReaderOK /\ UpToDate /\ SettledEvenly

=============================================================================

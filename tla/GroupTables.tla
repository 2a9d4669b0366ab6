---------------------------- MODULE GroupTables ----------------------------
(***************************************************************************)
(* The rows one SlyTab group owns in MySQL, and what a single statement    *)
(* (or a single transaction) of the API reads from them or does to them.   *)
(* Nothing here says who may run which statement, or in what order: that   *)
(* is GroupRules (a whole operation at once) and GroupRequests (one        *)
(* statement at a time, requests interleaved).                             *)
(***************************************************************************)
EXTENDS Integers, FiniteSetsExt

CONSTANTS
  Users,          \* people with an account (or a placeholder for one)
  Creator,        \* groups.created_by
  ExpenseIds,     \* ids INSERT INTO expenses may use, each at most once
  SettlementIds,  \* ids INSERT INTO settlements may use, each at most once
  ReceiptIds,     \* ids INSERT INTO receipts may use, each at most once
  Bills,          \* the expense bodies clients send, sound or not
  Amounts,        \* settlement amounts, in minor units
  None            \* SQL NULL, or a field a request does not carry

(***************************************************************************)
(* A bill is the part of an expense body that the books depend on: `label' *)
(* stands for date, description and currency, `paid' and `owed' are the    *)
(* payers and shares lists, functions on the people they name.  `rate' is  *)
(* what so many of its minor units are at home, None for an expense in the *)
(* group's own currency; it is stored with the expense.                    *)
(***************************************************************************)
Parties(b) == DOMAIN b.paid \cup DOMAIN b.owed

ASSUME CreatorAssumption == Creator \in Users

(* Tables are finite.                                                      *)
ASSUME IdsAssumption ==
  IsFiniteSet(Users) /\ IsFiniteSet(ExpenseIds) /\ IsFiniteSet(SettlementIds)

ASSUME BillsAssumption ==
  \A b \in Bills :
    /\ Parties(b) \subseteq Users
    /\ b.total \in Nat
    /\ b.paid \in [DOMAIN b.paid -> Nat]
    /\ b.owed \in [DOMAIN b.owed -> Nat]
    /\ b.rate # None => b.rate \in [home : Nat \ {0}, per : Nat \ {0}]

ASSUME AmountsAssumption == Amounts \subseteq Nat \ {0}

ASSUME NoneAssumption == None \notin Bills \cup ReceiptIds \cup Users

(* Bodies of the requests that write money. `slips' are the receipts an    *)
(* expense names, `force' its allowDuplicate.                              *)
Posts == [bill : Bills, slips : SUBSET ReceiptIds, force : BOOLEAN]

Deals == {d \in [from : Users, to : Users, amount : Amounts] : d.from # d.to}

VARIABLES
  group,       \* the row of `groups': unborn, present or erased; its two stamps
  membership,  \* user -> no row, an active row, or a row with left_at set
  closed,      \* users whose account was deleted (users.deleted_at)
  invite,      \* whether an unexpired row of invites exists
  expense,     \* rows of expenses with their payers and shares
  settlement,  \* rows of settlements
  receipt      \* receipt -> absent, loose, or the expense it is linked to

tables == <<group, membership, closed, invite, expense, settlement, receipt>>

NoExpense == [status |-> "absent", bill |-> None, slip |-> None]

NoSettlement ==
  [status |-> "absent", from |-> None, to |-> None, amount |-> 0, by |-> None]

(* A "lapsed" expense was soft-deleted more than 30 days ago; a "removed"  *)
(* settlement is a deleted row, kept apart from "absent" because a ULID is *)
(* never drawn twice.                                                      *)
ExpenseRow ==
  [status : {"absent", "live", "deleted", "lapsed"},
   bill : Bills \cup {None}, slip : ReceiptIds \cup {None}]

SettlementRow ==
  [status : {"absent", "pending", "confirmed", "removed"},
   from : Users \cup {None}, to : Users \cup {None},
   amount : Amounts \cup {0}, by : Users \cup {None}]

TablesTypeOK ==
  /\ group \in [row : {"unborn", "present", "erased"},
                locked : BOOLEAN, archived : BOOLEAN]
  /\ membership \in [Users -> {"none", "active", "left"}]
  /\ closed \subseteq Users
  /\ invite \in BOOLEAN
  /\ expense \in [ExpenseIds -> ExpenseRow]
  /\ settlement \in [SettlementIds -> SettlementRow]
  /\ receipt \in [ReceiptIds -> {"absent", "loose"} \cup ExpenseIds]

TablesInit ==
  /\ group = [row |-> "unborn", locked |-> FALSE, archived |-> FALSE]
  /\ membership = [u \in Users |-> "none"]
  /\ closed = {}
  /\ invite = FALSE
  /\ expense = [e \in ExpenseIds |-> NoExpense]
  /\ settlement = [s \in SettlementIds |-> NoSettlement]
  /\ receipt = [r \in ReceiptIds |-> "absent"]

-----------------------------------------------------------------------------
(* What a SELECT answers.                                                  *)

GroupPresent == group.row = "present"

IsMember(u) == membership[u] = "active"

Settleable == GroupPresent /\ ~group.archived

Unlocked == GroupPresent /\ ~group.locked

LiveExpenses == {e \in ExpenseIds : expense[e].status = "live"}

(* Not the code: nobody adds up the shares.                                *)
SoundPayers(b) ==
  /\ b.total > 0
  /\ DOMAIN b.paid # {} /\ DOMAIN b.owed # {}
  /\ MapThenSumSet(LAMBDA u : b.paid[u], DOMAIN b.paid) = b.total

(* The rules on an expense body that do not read the database: a positive  *)
(* total, and payers and shares that each add up to it.                    *)
SoundBill(b) ==
  /\ b.total > 0
  /\ DOMAIN b.paid # {} /\ DOMAIN b.owed # {}
  /\ MapThenSumSet(LAMBDA u : b.paid[u], DOMAIN b.paid) = b.total
  /\ MapThenSumSet(LAMBDA u : b.owed[u], DOMAIN b.owed) = b.total

Validates(post) ==
  /\ SoundBill(post.bill)
  /\ \A u \in Parties(post.bill) : IsMember(u)
  /\ GroupPresent
  /\ \A r \in post.slips : receipt[r] # "absent"

(* Same label, amount and payers; the split is deliberately not compared.  *)
Twins(b, c) ==
  b.label = c.label /\ b.total = c.total /\ DOMAIN b.paid = DOMAIN c.paid

DuplicateOf(b) == \E e \in LiveExpenses : Twins(b, expense[e].bill)

Entry(f, u) == IF u \in DOMAIN f THEN f[u] ELSE 0

(* What an expense does to each of its people, in its own currency: what   *)
(* they paid less what they consumed.                                      *)
Effects(paid, owed) ==
  [u \in DOMAIN paid \cup DOMAIN owed |-> Entry(paid, u) - Entry(owed, u)]

(* Money::convert: halves go away from zero.                               *)
Convert(minor, rate) ==
  LET Rounded(n) == (2 * n * rate.home + rate.per) \div (2 * rate.per)
  IN  IF minor < 0 THEN -Rounded(-minor) ELSE Rounded(minor)

(* Each effect is rounded on its own; what that leaves over goes to the    *)
(* largest of them.  Of several it is the smallest id's: a fixed one.      *)
convertEffects(effects, rate) ==
  LET converted == [u \in DOMAIN effects |-> Convert(effects[u], rate)]
      residual == -MapThenSumSet(LAMBDA u : converted[u], DOMAIN effects)
      Size(u) == IF converted[u] < 0 THEN -converted[u] ELSE converted[u]
      target == CHOOSE u \in DOMAIN effects :
                  \A v \in DOMAIN effects : Size(v) <= Size(u)
  IN  IF rate = None THEN effects
      ELSE [converted EXCEPT ![target] = @ + residual]

ExpenseNet(u) ==
  MapThenSumSet(LAMBDA e :
      LET b == expense[e].bill
      IN  Entry(convertEffects(Effects(b.paid, b.owed), b.rate), u),
    LiveExpenses)

(* Only a confirmed settlement moves a balance.                            *)
SettledNet(u) ==
  LET Confirmed == {s \in SettlementIds : settlement[s].status = "confirmed"}
      Sent == {s \in Confirmed : settlement[s].from = u}
      Received == {s \in Confirmed : settlement[s].to = u}
      Total(S) == MapThenSumSet(LAMBDA s : settlement[s].amount, S)
  IN  Total(Sent) - Total(Received)

NetFor(u) == ExpenseNet(u) + SettledNet(u)

MayErase(u) ==
  /\ GroupPresent
  /\ u = Creator \/ Cardinality({v \in Users : IsMember(v)}) <= 1

NoExpenseRows == \A e \in ExpenseIds : expense[e].status = "absent"

NoSettlementRows ==
  \A s \in SettlementIds : settlement[s].status \in {"absent", "removed"}

-----------------------------------------------------------------------------
(* What a write does. A foreign key that does not hold makes the statement *)
(* fail and its transaction roll back: the rows stay as they were.         *)

InsertGroup ==
  /\ group' = [group EXCEPT !.row = IF @ = "unborn" THEN "present" ELSE @]
  /\ UNCHANGED <<membership, closed, invite, expense, settlement, receipt>>

(* PRIMARY KEY (group_id, user_id), FOREIGN KEY to groups.                 *)
InsertMembership(u) ==
  /\ membership' = [membership EXCEPT
       ![u] = IF GroupPresent /\ @ = "none" THEN "active" ELSE @]
  /\ UNCHANGED <<group, closed, invite, expense, settlement, receipt>>

ReviveMembership(u) ==
  /\ membership' = [membership EXCEPT
       ![u] = IF @ = "none" THEN @ ELSE "active"]
  /\ UNCHANGED <<group, closed, invite, expense, settlement, receipt>>

EndMembership(u) ==
  /\ membership' = [membership EXCEPT
       ![u] = IF @ = "active" THEN "left" ELSE @]
  /\ UNCHANGED <<group, closed, invite, expense, settlement, receipt>>

(* One transaction: the account is anonymised and every membership ends,   *)
(* whatever is still owed.                                                 *)
CloseAccount(u) ==
  /\ closed' = closed \cup {u}
  /\ membership' = [membership EXCEPT
       ![u] = IF @ = "active" THEN "left" ELSE @]
  /\ UNCHANGED <<group, invite, expense, settlement, receipt>>

SetLocked(b) ==
  /\ group' = [group EXCEPT !.locked = IF GroupPresent THEN b ELSE @]
  /\ UNCHANGED <<membership, closed, invite, expense, settlement, receipt>>

SetArchived ==
  /\ group' = [group EXCEPT !.archived = GroupPresent \/ @]
  /\ UNCHANGED <<membership, closed, invite, expense, settlement, receipt>>

(* Not the code: no foreign key from expenses and settlements to groups.   *)
EraseUnreferenced ==
  /\ group' = [row |-> "erased", locked |-> FALSE, archived |-> FALSE]
  /\ membership' = [u \in Users |-> "none"]
  /\ invite' = FALSE
  /\ receipt' = [r \in ReceiptIds |-> "absent"]
  /\ UNCHANGED <<closed, expense, settlement>>

(* The erasing transaction deletes receipts, invites, memberships and the  *)
(* group. expenses and settlements are not in its list, so one such row    *)
(* makes the last DELETE violate its foreign key and undoes the rest.      *)
EraseGroup ==
  IF GroupPresent /\ NoExpenseRows /\ NoSettlementRows
  THEN /\ group' = [row |-> "erased", locked |-> FALSE, archived |-> FALSE]
       /\ membership' = [u \in Users |-> "none"]
       /\ invite' = FALSE
       /\ receipt' = [r \in ReceiptIds |-> "absent"]
       /\ UNCHANGED <<closed, expense, settlement>>
  ELSE UNCHANGED tables

InsertInvite ==
  /\ invite' = (invite \/ GroupPresent)
  /\ UNCHANGED <<group, membership, closed, expense, settlement, receipt>>

InsertReceipt ==
  IF GroupPresent
  THEN \E r \in ReceiptIds :
         /\ receipt[r] = "absent"
         /\ receipt' = [receipt EXCEPT ![r] = "loose"]
         /\ UNCHANGED <<group, membership, closed, invite, expense, settlement>>
  ELSE UNCHANGED tables

(* expenses.receipt_id holds the first of the receipts a body names.       *)
FirstSlip(slips) == IF slips = {} THEN None ELSE CHOOSE r \in slips : TRUE

(* Everything linked to e comes loose, then the named receipts are linked, *)
(* whichever expense they were linked to before.                           *)
LinkReceipts(e, slips) ==
  receipt' = [r \in ReceiptIds |->
                IF r \in slips /\ receipt[r] # "absent" THEN e
                ELSE IF receipt[r] = e THEN "loose" ELSE receipt[r]]

(* The creating transaction: row, payers, shares, receipt links.           *)
InsertExpense(post) ==
  IF GroupPresent
  THEN \E e \in ExpenseIds :
         /\ expense[e].status = "absent"
         /\ expense' = [expense EXCEPT ![e] =
              [status |-> "live", bill |-> post.bill,
               slip |-> FirstSlip(post.slips)]]
         /\ LinkReceipts(e, post.slips)
         /\ UNCHANGED <<group, membership, closed, invite, settlement>>
  ELSE UNCHANGED tables

(* The updating transaction has no condition on deleted_at: it rewrites    *)
(* the row, payers and shares of an expense deleted in the meantime too.   *)
RewriteExpense(e, post) ==
  /\ expense' = [expense EXCEPT
       ![e].bill = post.bill, ![e].slip = FirstSlip(post.slips)]
  /\ LinkReceipts(e, post.slips)
  /\ UNCHANGED <<group, membership, closed, invite, settlement>>

StampExpense(e, status) ==
  /\ expense' = [expense EXCEPT ![e].status = status]
  /\ UNCHANGED <<group, membership, closed, invite, settlement, receipt>>

(* A payment its payee records is confirmed on the spot.                   *)
InsertSettlement(u, deal) ==
  IF GroupPresent
  THEN \E s \in SettlementIds :
         /\ settlement[s].status = "absent"
         /\ settlement' = [settlement EXCEPT ![s] =
              [status |-> IF deal.to = u THEN "confirmed" ELSE "pending",
               from |-> deal.from, to |-> deal.to,
               amount |-> deal.amount, by |-> u]]
         /\ UNCHANGED <<group, membership, closed, invite, expense, receipt>>
  ELSE UNCHANGED tables

(* Neither statement has a condition on status: an UPDATE of a row deleted *)
(* in the meantime matches nothing, a DELETE takes a row confirmed in the  *)
(* meantime with it.                                                       *)
ConfirmSettlement(s) ==
  /\ settlement' = [settlement EXCEPT
       ![s].status = IF @ = "pending" THEN "confirmed" ELSE @]
  /\ UNCHANGED <<group, membership, closed, invite, expense, receipt>>

DeleteSettlement(s) ==
  /\ settlement' = [settlement EXCEPT ![s].status = "removed"]
  /\ UNCHANGED <<group, membership, closed, invite, expense, receipt>>

-----------------------------------------------------------------------------
(* Time passing: an invite outlives its seven days, a deleted expense its  *)
(* thirty-day restore window.                                              *)

InviteExpires ==
  /\ invite
  /\ invite' = FALSE
  /\ UNCHANGED <<group, membership, closed, expense, settlement, receipt>>

RestoreLapses(e) ==
  /\ expense[e].status = "deleted"
  /\ StampExpense(e, "lapsed")

TimePasses == InviteExpires \/ \E e \in ExpenseIds : RestoreLapses(e)

=============================================================================

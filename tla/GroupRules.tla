----------------------------- MODULE GroupRules -----------------------------
(***************************************************************************)
(* What the API promises about one group, request by request: every        *)
(* operation happens all at once, under the condition the code checks for  *)
(* it.  GroupRequests has the same operations one statement at a time;     *)
(* with a single request in flight it implements this module.              *)
(***************************************************************************)
EXTENDS GroupTables

(* A signed-in member of a group whose money may still change.             *)
Writer(u) == IsMember(u) /\ Settleable /\ Unlocked

-----------------------------------------------------------------------------
FoundGroup(u) == u = Creator /\ group.row = "unborn" /\ InsertGroup

SeatFounder(u) ==
  /\ u = Creator
  /\ membership[u] = "none"
  /\ InsertMembership(u)

Lock(u) == IsMember(u) /\ Settleable /\ SetLocked(TRUE)

Unlock(u) == IsMember(u) /\ Settleable /\ SetLocked(FALSE)

Archive(u) == IsMember(u) /\ SetArchived

Erase(u) ==
  IsMember(u) /\ NoExpenseRows /\ NoSettlementRows /\ MayErase(u) /\ EraseGroup

CreateInvite(u) == Writer(u) /\ InsertInvite

(* The weaker check on purpose: whoever was invited before a lock may      *)
(* still come in, so as to settle up.                                      *)
Join(u) ==
  /\ Settleable
  /\ \/ membership[u] = "none" /\ InsertMembership(u)
     \/ membership[u] = "left" /\ ReviveMembership(u)

AddKnownMember(u, target) ==
  /\ Writer(u)
  /\ target \notin closed
  /\ ~IsMember(target)
  /\ \/ ReviveMembership(target)
     \/ membership[target] = "none" /\ InsertMembership(target)

Leave(u) == IsMember(u) /\ NetFor(u) = 0 /\ EndMembership(u)

Upload(u) == Writer(u) /\ InsertReceipt

CreateExpense(u, post) ==
  /\ Writer(u)
  /\ Validates(post)
  /\ post.force \/ ~DuplicateOf(post.bill)
  /\ InsertExpense(post)

UpdateExpense(u, e, post) ==
  /\ e \in LiveExpenses
  /\ Writer(u)
  /\ Validates(post)
  /\ RewriteExpense(e, post)

SoftDelete(u, e) ==
  e \in LiveExpenses /\ Writer(u) /\ StampExpense(e, "deleted")

(* No word about the lock or the archive: neither stops a restore.         *)
Restore(u, e) ==
  expense[e].status = "deleted" /\ IsMember(u) /\ StampExpense(e, "live")

Pay(u, deal) ==
  /\ u \in {deal.from, deal.to}
  /\ Settleable
  /\ IsMember(deal.from) /\ IsMember(deal.to)
  /\ InsertSettlement(u, deal)

Confirm(u, s) ==
  settlement[s].status = "pending" /\ settlement[s].to = u /\ ConfirmSettlement(s)

(* What two people agreed on stays; what its payee alone wrote down may go.*)
Withdraw(u, s) ==
  /\ settlement[s].status \in {"pending", "confirmed"}
  /\ u \in {settlement[s].from, settlement[s].to}
  /\ settlement[s].status = "confirmed" => settlement[s].by = settlement[s].to
  /\ DeleteSettlement(s)

-----------------------------------------------------------------------------
GroupOperation(u) ==
  \/ FoundGroup(u) \/ SeatFounder(u)
  \/ Lock(u) \/ Unlock(u) \/ Archive(u) \/ Erase(u)
  \/ CreateInvite(u) \/ Join(u) \/ Leave(u) \/ CloseAccount(u)
  \/ \E v \in Users : AddKnownMember(u, v)

ExpenseOperation(u) ==
  \/ Upload(u)
  \/ \E post \in Posts : CreateExpense(u, post)
  \/ \E e \in ExpenseIds :
       \/ \E post \in Posts : UpdateExpense(u, e, post)
       \/ SoftDelete(u, e)
       \/ Restore(u, e)

SettlementOperation(u) ==
  \/ \E deal \in Deals : Pay(u, deal)
  \/ \E s \in SettlementIds : Confirm(u, s) \/ Withdraw(u, s)

Next ==
  \/ \E u \in Users :
       GroupOperation(u) \/ ExpenseOperation(u) \/ SettlementOperation(u)
  \/ TimePasses

Spec == TablesInit /\ [][Next]_tables

=============================================================================

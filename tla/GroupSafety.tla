---------------------------- MODULE GroupSafety ----------------------------
(***************************************************************************)
(* What must hold of the books of a group however requests interleave, and *)
(* what holds as long as they do not.                                      *)
(***************************************************************************)
EXTENDS GroupRequests

CountsFor(s) == settlement[s].status \in {"pending", "confirmed"}

(* Every expense, deleted or not, and every settlement belongs to a group  *)
(* that exists, and everyone named in it has a membership row there: an    *)
(* erase racing a create never strands money (GroupService::delete, the    *)
(* transactions and foreign keys behind it).                               *)
MoneyHasItsGroup ==
  /\ \A e \in ExpenseIds : expense[e].status # "absent" =>
       /\ GroupPresent
       /\ \A u \in Parties(expense[e].bill) : membership[u] # "none"
  /\ \A s \in SettlementIds : CountsFor(s) =>
       /\ GroupPresent
       /\ membership[settlement[s].from] # "none"
       /\ membership[settlement[s].to] # "none"

(* Nobody's money appears or vanishes: over everyone, ex-members included, *)
(* the balances BalanceService::forGroup computes cancel out.              *)
NetsCancel == MapThenSumSet(NetFor, Users) = 0

(* The request that takes this step.                                       *)
Acts(p) == job'[p] # job[p]

(* A lock holds the books still (FR-2.7): a request that arrived after it  *)
(* and asks assertWritable changes nothing while it stays on.              *)
LockHolds ==
  [][\A p \in late.lock :
       Acts(p) /\ job[p].op \in WritableOps => UNCHANGED tables]_vars

(* An archived group is read-only for every request that asks              *)
(* assertSettleable or assertWritable and arrived after the archiving.     *)
ArchiveHolds ==
  [][\A p \in late.archive :
       Acts(p) /\ job[p].op \in SettleableOps => UNCHANGED tables]_vars

(* A settlement moves balances only on its payee's word: it becomes        *)
(* confirmed in a step of a request of its payee, by recording it or by    *)
(* confirming it (SettlementService::create, confirm).                     *)
ConfirmedByPayee ==
  [][\A s \in SettlementIds :
       settlement[s].status # "confirmed" /\ settlement'[s].status = "confirmed"
         => \E p \in Requests : Acts(p) /\ job[p].by = settlement'[s].to]_vars

(* "A confirmed settlement is normally final": one that its payer recorded *)
(* and its payee confirmed never changes again (SettlementService::delete).*)
ConfirmedIsFinal ==
  [][\A s \in SettlementIds :
       settlement[s].status = "confirmed" /\ settlement[s].by = settlement[s].from
         => settlement'[s] = settlement[s]]_vars

(* A member leaves a group only with a zero balance (FR-2.4); deleting the *)
(* account is the one way out that does not ask.                           *)
LeaveSquare ==
  [][\A u \in Users :
       IsMember(u) /\ membership'[u] = "left" /\ u \notin closed'
         => NetFor(u) = 0]_vars

(* A double-tapped Save files one expense: a create that was not told to   *)
(* allow it never adds a twin of a live expense (ExpenseService::create).  *)
NoTwinFiled ==
  [][\A p \in Requests, e \in ExpenseIds :
       /\ Acts(p)
       /\ job[p].op = "create" /\ ~job[p].body.force
       /\ expense[e].status = "absent" /\ expense'[e].status = "live"
       => ~DuplicateOf(expense'[e].bill)]_vars

(* The balances of a locked group hold still while people pay each other:  *)
(* what expenses contribute to them stays as it is (assertWritable).       *)
LockedBalancesHoldStill ==
  [][group.locked /\ group'.locked =>
       \A u \in Users : ExpenseNet(u)' = ExpenseNet(u)]_vars

-----------------------------------------------------------------------------
(***************************************************************************)
(* What makes these inductive: a request remembers what it has verified.   *)
(***************************************************************************)
Passed(p, statement) ==
  \E i \in DOMAIN Script[job[p].op] :
    i < job[p].pc /\ Script[job[p].op][i] = statement

HasRow(u) == GroupPresent => membership[u] # "none"

(* A row that was written names its bill, or its two people.               *)
Filled ==
  /\ \A e \in ExpenseIds :
       expense[e].status # "absent" => expense[e].bill \in Bills
  /\ \A s \in SettlementIds : settlement[s].status # "absent" =>
       settlement[s].from \in Users /\ settlement[s].to \in Users

(* What a request has verified about people and rows stays true of them.   *)
Vetted ==
  \A p \in Requests : Busy(p) =>
    /\ job[p].op \in {"update", "softDelete", "restore"} =>
         expense[job[p].row].status # "absent"
    /\ job[p].op \in {"confirm", "withdraw"} =>
         settlement[job[p].row].status # "absent"
    /\ Passed(p, "validate") =>
         /\ group.row # "unborn"
         /\ \A u \in Parties(job[p].body.bill) : HasRow(u)
    /\ Passed(p, "parties") =>
         /\ group.row # "unborn"
         /\ HasRow(job[p].body.from) /\ HasRow(job[p].body.to)
    /\ Passed(p, "mayConfirm") => settlement[job[p].row].to = job[p].by

(* A request that began under the present lock has not got past the check. *)
LockBites ==
  \A p \in late.lock : group.locked /\ Busy(p) /\ ~Passed(p, "unlocked")

ArchiveBites ==
  \A p \in late.archive : group.archived /\ Busy(p) /\ ~Passed(p, "settleable")

(* Every bill in the books adds up, and so does every bill that a request  *)
(* in flight has had validated.                                            *)
BillsAddUp ==
  /\ \A e \in ExpenseIds :
       expense[e].status # "absent" => SoundBill(expense[e].bill)
  /\ \A p \in Requests :
       Busy(p) /\ Passed(p, "validate") => SoundBill(job[p].body.bill)

IInv ==
  /\ TypeOK /\ Filled /\ Vetted /\ BillsAddUp /\ MoneyHasItsGroup
  /\ LockBites /\ ArchiveBites

-----------------------------------------------------------------------------
(***************************************************************************)
(* What holds when requests come one at a time: nothing has happened       *)
(* behind the back of the one in flight.                                   *)
(***************************************************************************)
OneAtATime == \A p, q \in Requests : p = q

Checks ==
  {"member", "settleable", "unlocked", "noExpenses", "noSettlements",
   "mayErase", "invited", "alive", "notMember", "zeroBalance", "live",
   "deleted", "validate", "twin", "parties", "mayConfirm", "mayDelete"}

(* What a check that lets its request through has found.                   *)
Verified(p, s) ==
  /\ s = "member" => IsMember(job[p].by)
  /\ s = "settleable" => Settleable
  /\ s = "unlocked" => Unlocked
  /\ s = "noExpenses" => NoExpenseRows
  /\ s = "noSettlements" => NoSettlementRows
  /\ s = "mayErase" => MayErase(job[p].by)
  /\ s = "alive" => job[p].row \notin closed
  /\ s = "notMember" => ~IsMember(job[p].row)
  /\ s = "zeroBalance" => NetFor(job[p].by) = 0
  /\ s = "live" => job[p].row \in LiveExpenses
  /\ s = "deleted" => expense[job[p].row].status = "deleted"
  /\ s = "validate" => Validates(job[p].body)
  /\ s = "twin" => job[p].body.force \/ ~DuplicateOf(job[p].body.bill)
  /\ s = "parties" =>
       GroupPresent /\ IsMember(job[p].body.from) /\ IsMember(job[p].body.to)
  /\ s = "mayConfirm" => /\ settlement[job[p].row].status = "pending"
                         /\ settlement[job[p].row].to = job[p].by
  /\ s = "mayDelete" =>
       /\ settlement[job[p].row].status \in {"pending", "confirmed"}
       /\ job[p].by \in {settlement[job[p].row].from, settlement[job[p].row].to}
       /\ settlement[job[p].row].status = "confirmed" =>
            settlement[job[p].row].by = settlement[job[p].row].to

(* What the route or the first statement of a handler has made sure of.    *)
WellMade(p) ==
  /\ job[p].op = "found" => job[p].by = Creator
  /\ job[p].op = "pay" => job[p].by \in {job[p].body.from, job[p].body.to}
  /\ At(p, "revive") /\ job[p].op = "join" => membership[job[p].row] = "left"
  /\ At(p, "enlist") => membership[job[p].row] = "none"

(* Nobody settles with themselves.                                         *)
TwoSided ==
  \A s \in SettlementIds : settlement[s].status # "absent" =>
    settlement[s].from # settlement[s].to

StillSo ==
  /\ TwoSided
  /\ \A p \in Requests : Busy(p) =>
       /\ WellMade(p)
       /\ \A s \in Checks : Passed(p, s) => Verified(p, s)

(* With one request in flight each handler is one operation of GroupRules. *)
ImplementsRules == Rules!Spec

=============================================================================

------------------------- MODULE GroupSafety_proofs -------------------------
(***************************************************************************)
(* For any number of people, requests, expenses, settlements and receipts, *)
(* any bills and any set of operations: what GroupSafety claims of a group *)
(* under interleaved requests, and BalanceReads of who reads its balances  *)
(* meanwhile, proved from one inductive invariant.                         *)
(***************************************************************************)
EXTENDS GroupSafety, BalanceReads, Sums, TLAPS

-----------------------------------------------------------------------------
(* Facts about the scripts, read off the table.                            *)

(* No handler ends with a check, and each write has its one place.         *)
LEMMA ScriptSteps ==
  \A op \in DOMAIN Script : \A i \in DOMAIN Script[op] :
    /\ i \in Nat /\ 1 \in DOMAIN Script[op]
    /\ Script[op][i] \in Checks \cup {"insertGroup", "revive"}
         => i + 1 \in DOMAIN Script[op]
    /\ Script[op][i] = "readRow" => i + 1 \in DOMAIN Script[op]
                                    /\ i + 2 \in DOMAIN Script[op]
  BY DEF Script, Checks

(* What stands before a write of money.                                    *)
LEMMA ScriptMoney ==
  \A op \in DOMAIN Script : \A i \in DOMAIN Script[op] :
    LET Before(s) == \E k \in DOMAIN Script[op] : k < i /\ Script[op][k] = s
    IN  /\ Script[op][i] = "insertExpense" => op = "create" /\ Before("validate")
        /\ Script[op][i] = "rewriteExpense" => op = "update" /\ Before("validate")
        /\ Script[op][i] \in {"stampDeleted", "stampLive"}
             => op \in {"softDelete", "restore"}
        /\ Script[op][i] = "insertSettlement" => op = "pay" /\ Before("parties")
        /\ Script[op][i] = "confirmSettlement"
             => op = "confirm" /\ Before("mayConfirm")
        /\ Script[op][i] = "deleteSettlement" => op = "withdraw"
        /\ Script[op][i] \in {"revive", "enlist"} => op \in {"join", "add"}
        /\ Script[op][i] = "validate" => op \in {"create", "update"}
        /\ Script[op][i] = "parties" => op = "pay"
        /\ Script[op][i] = "mayConfirm" => op = "confirm"
  BY DEF Script

LEMMA JobFacts ==
  ASSUME JobsTypeOK, NEW p \in Requests, Busy(p)
  PROVE  /\ job[p].op \in Operations /\ job[p].op \in DOMAIN Script
         /\ job[p] \in JobOf(job[p].op)
         /\ job[p].by \in Users
         /\ job[p].row \in RowOf(job[p].op)
         /\ job[p].body \in BodyOf(job[p].op)
         /\ job[p].pc \in DOMAIN Script[job[p].op]
<1>1. PICK op \in Operations : job[p] \in JobOf(op)
  BY DEF JobsTypeOK, Busy, Idle
<1> QED BY <1>1, OperationsAssumption DEF JobOf

-----------------------------------------------------------------------------
(* How a step moves the jobs.                                              *)

LEMMA FinishJob ==
  ASSUME JobsTypeOK, NEW p \in Requests, Finish(p)
  PROVE  /\ JobsTypeOK'
         /\ ~Busy(p)'
         /\ \A q \in Requests \ {p} : job'[q] = job[q]
  BY DEF JobsTypeOK, Finish, Busy, Idle

LEMMA AdvanceJob ==
  ASSUME JobsTypeOK, NEW p \in Requests, Busy(p), NEW n \in {1, 2},
         job[p].pc + n \in DOMAIN Script[job[p].op],
         job' = [job EXCEPT ![p].pc = @ + n]
  PROVE  /\ JobsTypeOK'
         /\ Busy(p)'
         /\ job'[p].op = job[p].op /\ job'[p].by = job[p].by
         /\ job'[p].row = job[p].row /\ job'[p].body = job[p].body
         /\ job'[p].pc = job[p].pc + n
         /\ \A q \in Requests \ {p} : job'[q] = job[q]
<1>1. job[p].op \in Operations /\ job[p] \in JobOf(job[p].op)
  BY JobFacts
<1>2. job'[p] = [job[p] EXCEPT !.pc = job[p].pc + n]
  BY DEF JobsTypeOK
<1>3. job'[p] \in JobOf(job[p].op)
  BY <1>1, <1>2 DEF JobOf
<1> QED BY <1>1, <1>2, <1>3 DEF JobsTypeOK, JobOf, Busy

LEMMA ArriveJob ==
  ASSUME JobsTypeOK, NEW p \in Requests, NEW op, NEW u \in Users,
         NEW row \in RowOf(op), NEW body \in BodyOf(op),
         Arrive(p, op, u, row, body)
  PROVE  /\ JobsTypeOK'
         /\ UNCHANGED tables
         /\ ~Busy(p)
         /\ job'[p] = [op |-> op, by |-> u, row |-> row, body |-> body, pc |-> 1]
         /\ op \in DOMAIN Script
         /\ \A q \in Requests \ {p} : job'[q] = job[q]
<1>1. op \in Operations /\ op \in DOMAIN Script
  BY OperationsAssumption DEF Arrive
<1>2. 1 \in DOMAIN Script[op]
  BY <1>1 DEF Script
<1>3. job'[p] = [op |-> op, by |-> u, row |-> row, body |-> body, pc |-> 1]
  BY DEF Arrive, JobsTypeOK
<1>4. job'[p] \in JobOf(op)
  BY <1>2, <1>3 DEF JobOf
<1> QED BY <1>1, <1>3, <1>4 DEF Arrive, JobsTypeOK

-----------------------------------------------------------------------------
(* What a statement does to the types of the rows.                         *)

LEMMA GroupWriteType ==
  ASSUME TablesTypeOK, NEW u \in Users,
         \/ InsertGroup \/ InsertMembership(u) \/ ReviveMembership(u)
         \/ EndMembership(u) \/ CloseAccount(u)
         \/ SetLocked(TRUE) \/ SetLocked(FALSE) \/ SetArchived
         \/ EraseGroup \/ InsertInvite \/ InsertReceipt
  PROVE  TablesTypeOK'
<1>1. CASE InsertGroup
  <2>1. group' \in [row : {"unborn", "present", "erased"},
                    locked : BOOLEAN, archived : BOOLEAN]
    BY <1>1 DEF InsertGroup, TablesTypeOK
  <2> QED BY <1>1, <2>1 DEF InsertGroup, TablesTypeOK
<1>2. CASE InsertMembership(u) \/ ReviveMembership(u) \/ EndMembership(u)
  BY <1>2 DEF InsertMembership, ReviveMembership, EndMembership, TablesTypeOK
<1>3. CASE CloseAccount(u)
  BY <1>3 DEF CloseAccount, TablesTypeOK
<1>4. CASE SetLocked(TRUE) \/ SetLocked(FALSE) \/ SetArchived
  <2>1. group \in [row : {"unborn", "present", "erased"},
                   locked : BOOLEAN, archived : BOOLEAN]
    BY DEF TablesTypeOK
  <2>2. PICK b \in BOOLEAN : \/ group' = [group EXCEPT !.locked = b]
                             \/ group' = [group EXCEPT !.archived = b]
    <3>1. CASE SetLocked(TRUE)
      BY <3>1, <2>1 DEF SetLocked
    <3>2. CASE SetLocked(FALSE)
      BY <3>2, <2>1 DEF SetLocked
    <3>3. CASE SetArchived
      BY <3>3, <2>1 DEF SetArchived, GroupPresent
    <3> QED BY <1>4, <3>1, <3>2, <3>3
  <2>3. group' \in [row : {"unborn", "present", "erased"},
                    locked : BOOLEAN, archived : BOOLEAN]
    BY <2>1, <2>2
  <2> QED BY <1>4, <2>3 DEF SetLocked, SetArchived, TablesTypeOK
<1>5. CASE EraseGroup
  <2>1. CASE UNCHANGED tables
    BY <2>1 DEF TablesTypeOK, tables
  <2>2. CASE ~UNCHANGED tables
    <3>1. /\ group' = [row |-> "erased", locked |-> FALSE, archived |-> FALSE]
          /\ membership' = [v \in Users |-> "none"]
          /\ invite' = FALSE
          /\ receipt' = [r \in ReceiptIds |-> "absent"]
          /\ UNCHANGED <<closed, expense, settlement>>
      BY <1>5, <2>2 DEF EraseGroup
    <3> QED BY <3>1 DEF TablesTypeOK
  <2> QED BY <2>1, <2>2
<1>6. CASE InsertInvite
  BY <1>6 DEF InsertInvite, GroupPresent, TablesTypeOK
<1>7. CASE InsertReceipt
  BY <1>7 DEF InsertReceipt, TablesTypeOK, tables
<1> QED
  BY <1>1, <1>2, <1>3, <1>4, <1>5, <1>6, <1>7

LEMMA FirstSlipType ==
  ASSUME NEW slips \in SUBSET ReceiptIds
  PROVE  FirstSlip(slips) \in ReceiptIds \cup {None}
  BY DEF FirstSlip

LEMMA LinkType ==
  ASSUME TablesTypeOK, NEW e \in ExpenseIds, NEW slips, LinkReceipts(e, slips)
  PROVE  receipt' \in [ReceiptIds -> {"absent", "loose"} \cup ExpenseIds]
  BY DEF TablesTypeOK, LinkReceipts

LEMMA MoneyWriteType ==
  ASSUME TablesTypeOK,
         \/ \E post \in Posts : InsertExpense(post)
         \/ \E e \in ExpenseIds, post \in Posts : RewriteExpense(e, post)
         \/ \E e \in ExpenseIds, status \in {"live", "deleted", "lapsed"} :
              StampExpense(e, status)
         \/ \E u \in Users, deal \in Deals : InsertSettlement(u, deal)
         \/ \E s \in SettlementIds : ConfirmSettlement(s) \/ DeleteSettlement(s)
  PROVE  TablesTypeOK'
<1>1. ASSUME NEW post \in Posts, InsertExpense(post) PROVE TablesTypeOK'
  <2>1. CASE ~GroupPresent
    BY <1>1, <2>1 DEF InsertExpense, TablesTypeOK, tables
  <2>2. CASE GroupPresent
    <3>1. post.bill \in Bills /\ FirstSlip(post.slips) \in ReceiptIds \cup {None}
      BY FirstSlipType DEF Posts
    <3>2. PICK e \in ExpenseIds :
            /\ expense' = [expense EXCEPT ![e] =
                 [status |-> "live", bill |-> post.bill,
                  slip |-> FirstSlip(post.slips)]]
            /\ LinkReceipts(e, post.slips)
            /\ UNCHANGED <<group, membership, closed, invite, settlement>>
      BY <1>1, <2>2 DEF InsertExpense
    <3>3. expense' \in [ExpenseIds -> ExpenseRow]
      BY <3>1, <3>2 DEF TablesTypeOK, ExpenseRow
    <3> QED BY <3>2, <3>3, LinkType DEF TablesTypeOK
  <2> QED BY <2>1, <2>2
<1>2. ASSUME NEW e \in ExpenseIds, NEW post \in Posts, RewriteExpense(e, post)
      PROVE  TablesTypeOK'
  <2>1. post.bill \in Bills /\ FirstSlip(post.slips) \in ReceiptIds \cup {None}
    BY FirstSlipType DEF Posts
  <2>2. expense' \in [ExpenseIds -> ExpenseRow]
    BY <1>2, <2>1 DEF RewriteExpense, TablesTypeOK, ExpenseRow
  <2> QED BY <1>2, <2>2, LinkType DEF RewriteExpense, TablesTypeOK
<1>3. ASSUME NEW e \in ExpenseIds, NEW status \in {"live", "deleted", "lapsed"},
             StampExpense(e, status)
      PROVE  TablesTypeOK'
  BY <1>3 DEF StampExpense, TablesTypeOK, ExpenseRow
<1>4. ASSUME NEW u \in Users, NEW deal \in Deals, InsertSettlement(u, deal)
      PROVE  TablesTypeOK'
  <2>1. deal.from \in Users /\ deal.to \in Users /\ deal.amount \in Amounts
    BY DEF Deals
  <2> QED
    BY <1>4, <2>1 DEF InsertSettlement, TablesTypeOK, SettlementRow, tables
<1>5. ASSUME NEW s \in SettlementIds, ConfirmSettlement(s) \/ DeleteSettlement(s)
      PROVE  TablesTypeOK'
  BY <1>5 DEF ConfirmSettlement, DeleteSettlement, TablesTypeOK, SettlementRow
<1> QED
  BY <1>1, <1>2, <1>3, <1>4, <1>5

-----------------------------------------------------------------------------
(* The three kinds of step a request takes: it arrives; it reads, and goes *)
(* on or gives up; it writes.                                              *)

LEMMA BeginArrives ==
  ASSUME NEW p \in Requests, Begin(p)
  PROVE  \E op \in Operations, u \in Users :
           \E row \in RowOf(op), body \in BodyOf(op) :
             /\ Arrive(p, op, u, row, body)
             /\ op \in {"update", "softDelete", "restore"} =>
                  expense[row].status # "absent"
             /\ op \in {"confirm", "withdraw"} => settlement[row].status # "absent"
<1> USE DEF RowOf, BodyOf
<1>1. CASE BeginPlain(p)
  BY <1>1 DEF BeginPlain, Arrive, PlainOps
<1>2. CASE BeginFound(p)
  BY <1>2, CreatorAssumption DEF BeginFound, Arrive
<1>3. CASE BeginJoin(p)
  BY <1>3 DEF BeginJoin, Arrive
<1>4. CASE BeginAdd(p)
  BY <1>4 DEF BeginAdd, Arrive
<1>5. CASE BeginCreate(p)
  BY <1>5 DEF BeginCreate, Arrive
<1>6. CASE BeginUpdate(p)
  <2>1. PICK u \in Users, e \in ExpenseIds, post \in Posts :
          expense[e].status # "absent" /\ Arrive(p, "update", u, e, post)
    BY <1>6 DEF BeginUpdate
  <2>2. "update" \in Operations
    BY <2>1 DEF Arrive
  <2> QED BY <2>1, <2>2
<1>7. CASE BeginOnExpense(p)
  BY <1>7 DEF BeginOnExpense, Arrive
<1>8. CASE BeginPay(p)
  BY <1>8 DEF BeginPay, Arrive
<1>9. CASE BeginOnSettlement(p)
  BY <1>9 DEF BeginOnSettlement, Arrive
<1> QED
  BY <1>1, <1>2, <1>3, <1>4, <1>5, <1>6, <1>7, <1>8, <1>9 DEF Begin

LEMMA BeginStep ==
  ASSUME JobsTypeOK, NEW p \in Requests, Begin(p)
  PROVE  /\ UNCHANGED tables
         /\ JobsTypeOK'
         /\ ~Busy(p)
         /\ job'[p].op \in DOMAIN Script
         /\ job'[p].pc = 1
         /\ job'[p].op \in {"update", "softDelete", "restore"} =>
              expense[job'[p].row].status # "absent"
         /\ job'[p].op \in {"confirm", "withdraw"} =>
              settlement[job'[p].row].status # "absent"
         /\ \A q \in Requests \ {p} : job'[q] = job[q]
<1>1. PICK op \in Operations, u \in Users :
        \E row \in RowOf(op), body \in BodyOf(op) :
          /\ Arrive(p, op, u, row, body)
          /\ op \in {"update", "softDelete", "restore"} =>
               expense[row].status # "absent"
          /\ op \in {"confirm", "withdraw"} => settlement[row].status # "absent"
  BY BeginArrives
<1>2. PICK row \in RowOf(op), body \in BodyOf(op) :
        /\ Arrive(p, op, u, row, body)
        /\ op \in {"update", "softDelete", "restore"} =>
             expense[row].status # "absent"
        /\ op \in {"confirm", "withdraw"} => settlement[row].status # "absent"
  BY <1>1
<1>3. /\ JobsTypeOK' /\ UNCHANGED tables /\ ~Busy(p) /\ op \in DOMAIN Script
      /\ job'[p] = [op |-> op, by |-> u, row |-> row, body |-> body, pc |-> 1]
      /\ \A q \in Requests \ {p} : job'[q] = job[q]
  BY <1>2, ArriveJob
<1> QED
  BY <1>2, <1>3

LEMMA ReadStep ==
  ASSUME NEW p \in Requests, Read(p)
  PROVE  /\ UNCHANGED tables
         /\ \/ \E s \in Checks :
                  At(p, s) /\ (Finish(p) \/ (Advance(p) /\ Verified(p, s)))
            \/ /\ At(p, "readRow")
               /\ \/ Finish(p) \/ Advance(p)
                  \/ job' = [job EXCEPT ![p].pc = @ + 2]
<1>1. CASE ReadMembershipRow(p)
  BY <1>1 DEF ReadMembershipRow, Advance
<1>2. CASE AssertMember(p) \/ CountExpenses(p) \/ CountSettlements(p)
           \/ CheckMayErase(p) \/ FindInvite(p) \/ CheckAlive(p)
  BY <1>2 DEF AssertMember, CountExpenses, CountSettlements, CheckMayErase,
     FindInvite, CheckAlive, Check, Verified, Checks
<1>3. CASE CheckNotMember(p) \/ CheckZeroBalance(p) \/ FindLive(p)
           \/ FindDeleted(p) \/ CheckDuplicate(p)
  BY <1>3 DEF CheckNotMember, CheckZeroBalance, FindLive, FindDeleted,
     CheckDuplicate, Check, Verified, Checks
<1>4. CASE AssertSettleable(p) \/ AssertUnlocked(p) \/ Validate(p)
  BY <1>4 DEF AssertSettleable, AssertUnlocked, Validate, Check, Verified, Checks
<1>5. CASE AssertParties(p) \/ CheckMayConfirm(p)
  BY <1>5 DEF AssertParties, CheckMayConfirm, Check, Verified, Checks
<1>6. CASE CheckMayDelete(p)
  BY <1>6 DEF CheckMayDelete, Check, Verified, Checks
<1> QED
  BY <1>1, <1>2, <1>3, <1>4, <1>5, <1>6 DEF Read

LEMMA WriteStep ==
  ASSUME NEW p \in Requests, WriteGroup(p) \/ WriteMoney(p)
  PROVE  /\ Busy(p)
         /\ \/ Finish(p)
            \/ At(p, "insertGroup") /\ Advance(p)
            \/ At(p, "revive") /\ Advance(p)
<1>1. CASE DoInsertGroup(p)
  BY <1>1 DEF DoInsertGroup, At
<1>2. CASE DoRevive(p)
  BY <1>2 DEF DoRevive, At
<1>3. CASE DoInsertFounder(p) \/ DoEnlist(p) \/ DoEndMembership(p)
           \/ DoCloseAccount(p) \/ DoSetLocked(p) \/ DoClearLocked(p)
           \/ DoArchive(p) \/ DoErase(p) \/ DoInsertInvite(p)
  BY <1>3 DEF DoInsertFounder, DoEnlist, DoEndMembership, DoCloseAccount,
     DoSetLocked, DoClearLocked, DoArchive, DoErase, DoInsertInvite, Write, At
<1>4. CASE WriteMoney(p)
  BY <1>4 DEF WriteMoney, Write, DoInsertReceipt, DoInsertExpense, At,
     DoRewriteExpense, DoStampDeleted, DoStampLive, DoInsertSettlement,
     DoConfirmSettlement, DoDeleteSettlement
<1> QED
  BY <1>1, <1>2, <1>3, <1>4 DEF WriteGroup

LEMMA PassedByStep ==
  ASSUME JobsTypeOK, NEW p \in Requests, Busy(p), NEW n \in {1, 2}, NEW s \in Checks,
         job[p].pc + n \in DOMAIN Script[job[p].op],
         n = 2 => At(p, "readRow"),
         job' = [job EXCEPT ![p].pc = @ + n], Passed(p, s)'
  PROVE  Passed(p, s) \/ At(p, s)
<1>1. /\ job'[p].op = job[p].op /\ job'[p].pc = job[p].pc + n
      /\ job[p].op \in DOMAIN Script /\ job[p].pc \in DOMAIN Script[job[p].op]
  BY AdvanceJob, JobFacts
<1>2. PICK i \in DOMAIN Script[job[p].op] :
        i < job[p].pc + n /\ Script[job[p].op][i] = s
  BY <1>1 DEF Passed
<1>3. i \in Nat /\ job[p].pc \in Nat
  BY <1>1, <1>2, ScriptSteps
<1>4. CASE i < job[p].pc
  BY <1>2, <1>4 DEF Passed
<1>5. CASE i = job[p].pc
  BY <1>2, <1>5 DEF At
<1>6. CASE i = job[p].pc + 1 /\ n = 2
  <2>1. \A op \in DOMAIN Script : \A k \in DOMAIN Script[op] :
          Script[op][k] = "readRow" => Script[op][k + 1] = "revive"
    BY DEF Script
  <2>2. Script[job[p].op][i] = "revive"
    BY <1>1, <1>6, <2>1 DEF At
  <2> QED BY <1>2, <2>2 DEF Checks
<1> QED
  BY <1>2, <1>3, <1>4, <1>5, <1>6

LEMMA JobStep ==
  ASSUME JobsTypeOK, NEW p \in Requests,
         Read(p) \/ WriteGroup(p) \/ WriteMoney(p) \/ Die(p)
  PROVE  /\ Busy(p)
         /\ JobsTypeOK'
         /\ \A q \in Requests \ {p} : job'[q] = job[q]
         /\ \/ ~Busy(p)'
            \/ /\ Busy(p)'
               /\ job'[p].op = job[p].op /\ job'[p].by = job[p].by
               /\ job'[p].row = job[p].row /\ job'[p].body = job[p].body
               /\ \A s \in Checks : Passed(p, s)' =>
                    Passed(p, s) \/ (At(p, s) /\ Verified(p, s))
<1>1. Busy(p)
  <2>1. CASE Read(p)
    <3>1. (\E s : At(p, s)) => Busy(p)
      BY DEF At
    <3> QED BY <2>1, <3>1, ReadStep
  <2>2. CASE WriteGroup(p) \/ WriteMoney(p)
    BY <2>2, WriteStep
  <2> QED BY <2>1, <2>2 DEF Die
<1>2. /\ job[p].op \in DOMAIN Script
      /\ job[p].pc \in DOMAIN Script[job[p].op]
  BY <1>1, JobFacts
<1>3. CASE Finish(p)
  BY <1>1, <1>3, FinishJob
<1>4. ASSUME NEW s, At(p, s), Advance(p),
             s \in Checks \cup {"insertGroup", "revive", "readRow"},
             Verified(p, s)
      PROVE  /\ Busy(p)' /\ JobsTypeOK'
             /\ \A q \in Requests \ {p} : job'[q] = job[q]
             /\ job'[p].op = job[p].op /\ job'[p].by = job[p].by
             /\ job'[p].row = job[p].row /\ job'[p].body = job[p].body
             /\ \A v \in Checks : Passed(p, v)' =>
                  Passed(p, v) \/ (At(p, v) /\ Verified(p, v))
  <2>1. Script[job[p].op][job[p].pc] = s
    BY <1>4 DEF At
  <2>2. job[p].pc + 1 \in DOMAIN Script[job[p].op]
    BY <1>2, <1>4, <2>1, ScriptSteps
  <2>3. job' = [job EXCEPT ![p].pc = @ + 1]
    BY <1>4 DEF Advance
  <2>4. \A v \in Checks : Passed(p, v)' => Passed(p, v) \/ At(p, v)
    <3>1. 1 \in {1, 2} /\ (1 = 2 => At(p, "readRow"))
      OBVIOUS
    <3> QED BY <1>1, <2>2, <2>3, <3>1, PassedByStep
  <2>5. \A v \in Checks : At(p, v) => v = s
    BY <2>1 DEF At
  <2> QED BY <1>1, <1>4, <2>2, <2>3, <2>4, <2>5, AdvanceJob
<1>5. CASE At(p, "readRow") /\ job' = [job EXCEPT ![p].pc = @ + 2]
  <2>1. job[p].pc + 2 \in DOMAIN Script[job[p].op]
    BY <1>2, <1>5, ScriptSteps DEF At
  <2>2. \A v \in Checks : Passed(p, v)' => Passed(p, v) \/ At(p, v)
    BY <1>1, <1>5, <2>1, PassedByStep
  <2>3. \A v \in Checks : ~At(p, v)
    BY <1>5 DEF At, Checks
  <2> QED BY <1>1, <1>5, <2>1, <2>2, <2>3, AdvanceJob
<1>6. Verified(p, "insertGroup") /\ Verified(p, "revive") /\ Verified(p, "readRow")
  BY DEF Verified
<1>7. CASE Read(p)
  BY <1>1, <1>3, <1>4, <1>5, <1>6, <1>7, ReadStep
<1>8. CASE WriteGroup(p) \/ WriteMoney(p)
  BY <1>1, <1>3, <1>4, <1>6, <1>8, WriteStep
<1>9. CASE Die(p)
  BY <1>3, <1>9 DEF Die
<1> QED
  BY <1>7, <1>8, <1>9

-----------------------------------------------------------------------------
(* Type correctness.                                                       *)

(* At a write, the request's sender, row and body are what it writes.      *)
LEMMA WriteGroupType ==
  ASSUME TypeOK, NEW p \in Requests, WriteGroup(p)
  PROVE  TablesTypeOK'
<1>1. Busy(p) /\ TablesTypeOK /\ JobsTypeOK
  BY WriteStep DEF TypeOK
<1>2. job[p].by \in Users
  BY <1>1, JobFacts
<1>3. (At(p, "revive") \/ At(p, "enlist")) => job[p].row \in Users
  BY <1>1, JobFacts, ScriptMoney DEF At, RowOf
<1>4. \E u \in Users :
         \/ InsertGroup \/ InsertMembership(u) \/ ReviveMembership(u)
         \/ EndMembership(u) \/ CloseAccount(u)
         \/ SetLocked(TRUE) \/ SetLocked(FALSE) \/ SetArchived
         \/ EraseGroup \/ InsertInvite \/ InsertReceipt
  BY <1>2, <1>3 DEF WriteGroup, Write, DoInsertGroup, DoInsertFounder, DoRevive,
     DoEnlist, DoEndMembership, DoCloseAccount, DoSetLocked, DoClearLocked,
     DoArchive, DoErase, DoInsertInvite
<1> QED
  BY <1>1, <1>4, GroupWriteType

LEMMA MoneyTarget ==
  ASSUME JobsTypeOK, NEW p \in Requests
  PROVE  /\ At(p, "insertExpense") =>
              job[p].body \in Posts /\ Passed(p, "validate")
         /\ At(p, "rewriteExpense") =>
              /\ job[p].op = "update" /\ job[p].row \in ExpenseIds
              /\ job[p].body \in Posts /\ Passed(p, "validate")
         /\ (At(p, "stampDeleted") \/ At(p, "stampLive")) =>
              /\ job[p].op \in {"softDelete", "restore"}
              /\ job[p].row \in ExpenseIds
         /\ At(p, "insertSettlement") =>
              /\ job[p].by \in Users
              /\ job[p].body \in Deals /\ Passed(p, "parties")
         /\ At(p, "confirmSettlement") =>
              /\ job[p].op = "confirm" /\ job[p].row \in SettlementIds
              /\ Passed(p, "mayConfirm")
         /\ At(p, "deleteSettlement") =>
              job[p].op = "withdraw" /\ job[p].row \in SettlementIds
<1>1. SUFFICES ASSUME Busy(p)
               PROVE  /\ At(p, "insertExpense") =>
                           job[p].body \in Posts /\ Passed(p, "validate")
                      /\ At(p, "rewriteExpense") =>
                           /\ job[p].op = "update" /\ job[p].row \in ExpenseIds
                           /\ job[p].body \in Posts /\ Passed(p, "validate")
                      /\ (At(p, "stampDeleted") \/ At(p, "stampLive")) =>
                           /\ job[p].op \in {"softDelete", "restore"}
                           /\ job[p].row \in ExpenseIds
                      /\ At(p, "insertSettlement") =>
                           /\ job[p].by \in Users
                           /\ job[p].body \in Deals /\ Passed(p, "parties")
                      /\ At(p, "confirmSettlement") =>
                           /\ job[p].op = "confirm"
                           /\ job[p].row \in SettlementIds
                           /\ Passed(p, "mayConfirm")
                      /\ At(p, "deleteSettlement") =>
                           job[p].op = "withdraw" /\ job[p].row \in SettlementIds
  BY DEF At
<1> QED
  BY <1>1, JobFacts, ScriptMoney DEF At, Passed, RowOf, BodyOf

LEMMA WriteMoneyType ==
  ASSUME TypeOK, NEW p \in Requests, WriteMoney(p)
  PROVE  TablesTypeOK'
<1>1. TablesTypeOK /\ JobsTypeOK
  BY DEF TypeOK
<1>2. CASE DoInsertReceipt(p)
  BY <1>1, <1>2, GroupWriteType, CreatorAssumption DEF DoInsertReceipt, Write
<1>3. CASE WriteMoney(p) /\ ~DoInsertReceipt(p)
  <2>1. \/ \E post \in Posts : InsertExpense(post)
        \/ \E e \in ExpenseIds, post \in Posts : RewriteExpense(e, post)
        \/ \E e \in ExpenseIds, status \in {"live", "deleted", "lapsed"} :
             StampExpense(e, status)
        \/ \E u \in Users, deal \in Deals : InsertSettlement(u, deal)
        \/ \E s \in SettlementIds : ConfirmSettlement(s) \/ DeleteSettlement(s)
    BY <1>1, <1>3, MoneyTarget DEF WriteMoney, Write, DoInsertExpense,
       DoRewriteExpense, DoStampDeleted, DoStampLive, DoInsertSettlement,
       DoConfirmSettlement, DoDeleteSettlement
  <2> QED BY <1>1, <2>1, MoneyWriteType
<1> QED
  BY <1>2, <1>3

LEMMA TimeType ==
  ASSUME TypeOK, DaysPass
  PROVE  TablesTypeOK' /\ JobsTypeOK'
<1>1. CASE InviteExpires
  BY <1>1 DEF DaysPass, InviteExpires, TypeOK, TablesTypeOK, JobsTypeOK
<1>2. CASE \E e \in ExpenseIds : RestoreLapses(e)
  <2>1. TablesTypeOK'
    BY <1>2, MoneyWriteType DEF RestoreLapses, TypeOK
  <2>2. JobsTypeOK'
    BY DEF DaysPass, TypeOK, JobsTypeOK
  <2> QED BY <2>1, <2>2
<1> QED
  BY <1>1, <1>2 DEF DaysPass, TimePasses

LEMMA InitTypeOK == Init => TypeOK
<1> SUFFICES ASSUME Init PROVE TypeOK
  OBVIOUS
<1>1. TablesTypeOK
  BY DEF Init, TablesInit, TablesTypeOK, NoExpense, NoSettlement, ExpenseRow,
     SettlementRow
<1>2. JobsTypeOK
  BY DEF Init, JobsTypeOK
<1> QED BY <1>1, <1>2 DEF Init, TypeOK

LEMMA NextTypeOK == TypeOK /\ [Next]_vars => TypeOK'
<1> SUFFICES ASSUME TypeOK, [Next]_vars PROVE TypeOK'
  OBVIOUS
<1>1. CASE Next
  <2>1. late' \in [lock : SUBSET Requests, archive : SUBSET Requests]
    BY <1>1 DEF Next, Latecomers
  <2>2. ASSUME NEW p \in Requests, Begin(p)
        PROVE  TablesTypeOK' /\ JobsTypeOK'
    BY <2>2, BeginStep DEF TypeOK, tables, TablesTypeOK
  <2>3. ASSUME NEW p \in Requests, Read(p)
        PROVE  TablesTypeOK' /\ JobsTypeOK'
    BY <2>3, ReadStep, JobStep DEF TypeOK, tables, TablesTypeOK
  <2>4. ASSUME NEW p \in Requests, WriteGroup(p) \/ WriteMoney(p)
        PROVE  TablesTypeOK' /\ JobsTypeOK'
    BY <2>4, WriteGroupType, WriteMoneyType, JobStep DEF TypeOK
  <2>5. ASSUME NEW p \in Requests, Die(p)
        PROVE  TablesTypeOK' /\ JobsTypeOK'
    BY <2>5, JobStep DEF Die, TypeOK, tables, TablesTypeOK
  <2> QED
    BY <1>1, <2>1, <2>2, <2>3, <2>4, <2>5, TimeType DEF Next, Step, TypeOK
<1>2. CASE UNCHANGED vars
  BY <1>2 DEF vars, tables, TypeOK, TablesTypeOK, JobsTypeOK
<1> QED
  BY <1>1, <1>2

(* Rows, requests in flight and the two histories keep their shape.        *)
THEOREM TypeCorrect == Spec => []TypeOK
  BY InitTypeOK, NextTypeOK, PTL DEF Spec

-----------------------------------------------------------------------------
(* Rows only ever go one way: an erased group stays erased, a member of a  *)
(* group that exists keeps a row in it, an expense or settlement that was  *)
(* written is never unwritten, and a settlement's two people stay.         *)

Onward ==
  /\ group.row # "unborn" => group'.row # "unborn"
  /\ group.row # "unborn" /\ group'.row = "present" => group.row = "present"
  /\ \A u \in Users :
       group'.row = "present" /\ membership[u] # "none" => membership'[u] # "none"
  /\ \A e \in ExpenseIds :
       expense[e].status # "absent" => expense'[e].status # "absent"
  /\ \A s \in SettlementIds : settlement[s].status # "absent" =>
       /\ settlement'[s].status # "absent"
       /\ settlement'[s].from = settlement[s].from
       /\ settlement'[s].to = settlement[s].to

LEMMA OnwardTables == UNCHANGED tables => Onward
  BY DEF tables, Onward

LEMMA OnwardGroup ==
  ASSUME TablesTypeOK, NEW p \in Requests, WriteGroup(p)
  PROVE  Onward
<1>1. CASE DoInsertGroup(p)
  BY <1>1 DEF DoInsertGroup, InsertGroup, Onward, TablesTypeOK
<1>2. CASE DoInsertFounder(p) \/ DoEnlist(p)
  BY <1>2 DEF DoInsertFounder, DoEnlist, Write, InsertMembership, Onward,
     TablesTypeOK
<1>3. CASE DoRevive(p)
  BY <1>3 DEF DoRevive, ReviveMembership, Onward, TablesTypeOK
<1>4. CASE DoEndMembership(p) \/ DoCloseAccount(p)
  BY <1>4 DEF DoEndMembership, DoCloseAccount, Write, EndMembership,
     CloseAccount, Onward, TablesTypeOK
<1>5. CASE DoSetLocked(p) \/ DoClearLocked(p)
  <2>1. \E b \in BOOLEAN : SetLocked(b)
    BY <1>5 DEF DoSetLocked, DoClearLocked, Write
  <2> QED BY <2>1 DEF SetLocked, Onward, TablesTypeOK
<1>6. CASE DoArchive(p)
  <2>1. SetArchived
    BY <1>6 DEF DoArchive, Write
  <2>2. group'.row = group.row
    BY <2>1 DEF SetArchived, TablesTypeOK
  <2> QED BY <2>1, <2>2 DEF SetArchived, Onward
<1>7. CASE DoErase(p)
  <2>1. EraseGroup
    BY <1>7 DEF DoErase, Write
  <2> QED BY <2>1, OnwardTables DEF EraseGroup, Onward
<1>8. CASE DoInsertInvite(p)
  BY <1>8 DEF DoInsertInvite, Write, InsertInvite, Onward
<1> QED
  BY <1>1, <1>2, <1>3, <1>4, <1>5, <1>6, <1>7, <1>8 DEF WriteGroup

LEMMA OnwardMoney ==
  ASSUME TypeOK, NEW p \in Requests, WriteMoney(p)
  PROVE  Onward
<1>0. TablesTypeOK /\ JobsTypeOK
  BY DEF TypeOK
<1>1. CASE DoInsertReceipt(p)
  BY <1>1, OnwardTables DEF DoInsertReceipt, Write, InsertReceipt, Onward
<1>2. CASE DoInsertExpense(p)
  <2>1. InsertExpense(job[p].body)
    BY <1>2 DEF DoInsertExpense, Write
  <2>2. CASE UNCHANGED tables
    BY <2>2, OnwardTables
  <2>3. CASE ~UNCHANGED tables
    <3>1. PICK e \in ExpenseIds :
            /\ expense' = [expense EXCEPT ![e] =
                 [status |-> "live", bill |-> job[p].body.bill,
                  slip |-> FirstSlip(job[p].body.slips)]]
            /\ UNCHANGED <<group, membership, closed, invite, settlement>>
      BY <2>1, <2>3 DEF InsertExpense
    <3> QED BY <1>0, <3>1 DEF Onward, TablesTypeOK
  <2> QED BY <2>2, <2>3
<1>3. CASE DoRewriteExpense(p)
  BY <1>0, <1>3 DEF DoRewriteExpense, Write, RewriteExpense, Onward, TablesTypeOK
<1>4. CASE DoStampDeleted(p) \/ DoStampLive(p)
  <2>1. PICK status \in {"live", "deleted"} : StampExpense(job[p].row, status)
    BY <1>4 DEF DoStampDeleted, DoStampLive, Write
  <2> QED BY <1>0, <2>1 DEF StampExpense, Onward, TablesTypeOK
<1>5. CASE DoInsertSettlement(p)
  <2>1. InsertSettlement(job[p].by, job[p].body)
    BY <1>5 DEF DoInsertSettlement, Write
  <2>2. CASE UNCHANGED tables
    BY <2>2, OnwardTables
  <2>3. CASE ~UNCHANGED tables
    <3>1. PICK s \in SettlementIds :
            /\ settlement[s].status = "absent"
            /\ settlement' = [settlement EXCEPT ![s] = settlement'[s]]
            /\ UNCHANGED <<group, membership, closed, invite, expense, receipt>>
      BY <1>0, <2>1, <2>3 DEF InsertSettlement, TablesTypeOK
    <3> QED BY <1>0, <3>1 DEF Onward, TablesTypeOK
  <2> QED BY <2>2, <2>3
<1>6. CASE DoConfirmSettlement(p) \/ DoDeleteSettlement(p)
  BY <1>0, <1>6 DEF DoConfirmSettlement, DoDeleteSettlement, Write,
     ConfirmSettlement, DeleteSettlement, Onward, TablesTypeOK, SettlementRow
<1> QED
  BY <1>1, <1>2, <1>3, <1>4, <1>5, <1>6 DEF WriteMoney

LEMMA OnwardTime ==
  ASSUME TablesTypeOK, DaysPass
  PROVE  Onward
<1>1. CASE InviteExpires
  BY <1>1 DEF InviteExpires, Onward
<1>2. ASSUME NEW e \in ExpenseIds, RestoreLapses(e) PROVE Onward
  BY <1>2 DEF RestoreLapses, StampExpense, Onward, TablesTypeOK
<1> QED
  BY <1>1, <1>2 DEF DaysPass, TimePasses

LEMMA OnwardNext ==
  ASSUME TypeOK, Next
  PROVE  Onward
<1>1. ASSUME NEW p \in Requests, Step(p) PROVE Onward
  <2>1. CASE Begin(p) \/ Read(p) \/ Die(p)
    <3>1. UNCHANGED tables
      BY <2>1, BeginStep, ReadStep DEF Die, TypeOK
    <3> QED BY <3>1, OnwardTables
  <2> QED
    BY <1>1, <2>1, OnwardGroup, OnwardMoney DEF Step, TypeOK
<1> QED
  BY <1>1, OnwardTime DEF Next, TypeOK

-----------------------------------------------------------------------------
(* What a request has verified stays true, because rows only go one way.   *)

(* How one step changes what a request is and has passed.                  *)
LEMMA Remembers ==
  ASSUME TypeOK, Next, NEW p \in Requests, Busy(p)'
  PROVE  \/ /\ ~Busy(p) /\ \A s \in Checks : ~Passed(p, s)'
            /\ job'[p].op \in {"update", "softDelete", "restore"} =>
                 expense[job'[p].row].status # "absent"
            /\ job'[p].op \in {"confirm", "withdraw"} =>
                 settlement[job'[p].row].status # "absent"
         \/ /\ Busy(p)
            /\ job'[p].op = job[p].op /\ job'[p].by = job[p].by
            /\ job'[p].row = job[p].row /\ job'[p].body = job[p].body
            /\ \A s \in Checks : Passed(p, s)' =>
                 Passed(p, s) \/ (At(p, s) /\ Verified(p, s) /\ UNCHANGED tables)
<1>0. JobsTypeOK
  BY DEF TypeOK
<1>1. CASE job'[p] = job[p]
  BY <1>1 DEF Busy, Passed
<1>2. CASE job'[p] # job[p]
  <2>1. PICK q \in Requests : Step(q)
    BY <1>2 DEF Next, DaysPass
  <2>2. p = q
    BY <1>0, <1>2, <2>1, BeginStep, JobStep DEF Step
  <2>3. CASE Begin(p)
    <3>1. \A s \in Checks : ~Passed(p, s)'
      <4>1. \A i \in DOMAIN Script[job'[p].op] : i \in Nat /\ i >= 1
        BY <1>0, <2>3, BeginStep DEF Script
      <4> QED BY <1>0, <2>3, <4>1, BeginStep DEF Passed
    <3> QED BY <1>0, <2>3, <3>1, BeginStep
  <2>4. CASE Read(p) \/ WriteGroup(p) \/ WriteMoney(p) \/ Die(p)
    <3>1. /\ Busy(p)
          /\ job'[p].op = job[p].op /\ job'[p].by = job[p].by
          /\ job'[p].row = job[p].row /\ job'[p].body = job[p].body
          /\ \A s \in Checks : Passed(p, s)' =>
               Passed(p, s) \/ (At(p, s) /\ Verified(p, s))
      BY <1>0, <2>4, JobStep
    <3>2. CASE Read(p) \/ Die(p)
      BY <3>1, <3>2, ReadStep DEF Die
    <3>3. CASE WriteGroup(p) \/ WriteMoney(p)
      <4>1. \A s \in Checks : ~At(p, s)
        BY <3>3 DEF WriteGroup, WriteMoney, Write, DoInsertGroup, DoInsertFounder,
           DoRevive, DoEnlist, DoEndMembership, DoCloseAccount, DoSetLocked,
           DoClearLocked, DoArchive, DoErase, DoInsertInvite, DoInsertReceipt,
           DoInsertExpense, DoRewriteExpense, DoStampDeleted, DoStampLive,
           DoInsertSettlement, DoConfirmSettlement, DoDeleteSettlement, At, Checks
      <4> QED BY <3>1, <4>1
    <3> QED BY <2>4, <3>2, <3>3
  <2> QED BY <2>1, <2>2, <2>3, <2>4 DEF Step
<1> QED
  BY <1>1, <1>2

LEMMA InitVetted == Init => Vetted
  BY DEF Init, Vetted, Busy, Idle

LEMMA NextVetted ==
  ASSUME TypeOK, Vetted, Next
  PROVE  Vetted'
<1> SUFFICES ASSUME NEW p \in Requests, Busy(p)'
             PROVE  /\ job'[p].op \in {"update", "softDelete", "restore"} =>
                         expense'[job'[p].row].status # "absent"
                    /\ job'[p].op \in {"confirm", "withdraw"} =>
                         settlement'[job'[p].row].status # "absent"
                    /\ Passed(p, "validate")' =>
                         /\ group'.row # "unborn"
                         /\ \A u \in Parties(job'[p].body.bill) : HasRow(u)'
                    /\ Passed(p, "parties")' =>
                         /\ group'.row # "unborn"
                         /\ \A u \in {job'[p].body.from, job'[p].body.to} : HasRow(u)'
                    /\ Passed(p, "mayConfirm")' =>
                         settlement'[job'[p].row].to = job'[p].by
  BY DEF Vetted
<1>0. Onward /\ TablesTypeOK /\ JobsTypeOK
  BY OnwardNext DEF TypeOK
<1>1. JobsTypeOK'
  BY NextTypeOK DEF TypeOK
<1>2. /\ job'[p].row \in RowOf(job'[p].op) /\ job'[p].body \in BodyOf(job'[p].op)
      /\ job'[p].op \in DOMAIN Script
  <2>1. PICK op \in Operations : job'[p] \in JobOf(op)
    BY <1>1 DEF JobsTypeOK, Busy, Idle
  <2> QED BY <2>1, OperationsAssumption DEF JobOf
<1>3. \A u \in Users : group.row # "unborn" /\ HasRow(u) => HasRow(u)'
  BY <1>0 DEF HasRow, GroupPresent, Onward
<1>4. /\ job'[p].op \in {"update", "softDelete", "restore"} =>
           expense'[job'[p].row].status # "absent"
      /\ job'[p].op \in {"confirm", "withdraw"} =>
           settlement'[job'[p].row].status # "absent"
  BY <1>0, <1>2, Remembers DEF Vetted, Onward, RowOf
<1>5. ASSUME Passed(p, "validate")'
      PROVE  /\ group'.row # "unborn"
             /\ \A u \in Parties(job'[p].body.bill) : HasRow(u)'
  <2>1. PICK i \in DOMAIN Script[job'[p].op] : Script[job'[p].op][i] = "validate"
    BY <1>5 DEF Passed
  <2>2. job'[p].body \in Posts
    BY <1>2, <2>1, ScriptMoney DEF BodyOf
  <2>3. Parties(job'[p].body.bill) \subseteq Users
    BY <2>2, BillsAssumption DEF Posts
  <2>4. /\ group.row # "unborn"
        /\ \A u \in Parties(job'[p].body.bill) : HasRow(u)
    <3>1. CASE Busy(p) /\ Passed(p, "validate") /\ job'[p].body = job[p].body
      BY <3>1 DEF Vetted
    <3>2. CASE Verified(p, "validate") /\ job'[p].body = job[p].body
      BY <3>2 DEF Verified, Validates, GroupPresent, HasRow, IsMember
    <3> QED BY <1>5, <3>1, <3>2, Remembers DEF Checks
  <2> QED BY <1>0, <1>3, <2>3, <2>4 DEF Onward
<1>6. ASSUME Passed(p, "parties")'
      PROVE  /\ group'.row # "unborn"
             /\ \A u \in {job'[p].body.from, job'[p].body.to} : HasRow(u)'
  <2>1. PICK i \in DOMAIN Script[job'[p].op] : Script[job'[p].op][i] = "parties"
    BY <1>6 DEF Passed
  <2>2. job'[p].body \in Deals
    BY <1>2, <2>1, ScriptMoney DEF BodyOf
  <2>3. job'[p].body.from \in Users /\ job'[p].body.to \in Users
    BY <2>2 DEF Deals
  <2>4. /\ group.row # "unborn"
        /\ \A u \in {job'[p].body.from, job'[p].body.to} : HasRow(u)
    <3>1. CASE Busy(p) /\ Passed(p, "parties") /\ job'[p].body = job[p].body
      BY <3>1 DEF Vetted
    <3>2. CASE Verified(p, "parties") /\ job'[p].body = job[p].body
      BY <3>2 DEF Verified, GroupPresent, HasRow, IsMember
    <3> QED BY <1>6, <3>1, <3>2, Remembers DEF Checks
  <2> QED BY <1>0, <1>3, <2>3, <2>4 DEF Onward
<1>7. ASSUME Passed(p, "mayConfirm")'
      PROVE  settlement'[job'[p].row].to = job'[p].by
  <2>1. PICK i \in DOMAIN Script[job'[p].op] : Script[job'[p].op][i] = "mayConfirm"
    BY <1>7 DEF Passed
  <2>2. job'[p].row \in SettlementIds
    BY <1>2, <2>1, ScriptMoney DEF RowOf
  <2>3. /\ settlement[job'[p].row].status # "absent"
        /\ settlement[job'[p].row].to = job'[p].by
    <3>0. job'[p].op = "confirm"
      BY <1>2, <2>1, ScriptMoney
    <3>1. CASE Busy(p) /\ Passed(p, "mayConfirm") /\ job'[p].row = job[p].row
               /\ job'[p].by = job[p].by /\ job'[p].op = job[p].op
      BY <3>0, <3>1 DEF Vetted
    <3>2. CASE Verified(p, "mayConfirm") /\ job'[p].row = job[p].row
               /\ job'[p].by = job[p].by
      BY <3>2 DEF Verified
    <3> QED BY <1>7, <3>1, <3>2, Remembers DEF Checks
  <2> QED BY <1>0, <2>2, <2>3 DEF Onward
<1> QED
  BY <1>4, <1>5, <1>6, <1>7

-----------------------------------------------------------------------------
(* Every bill in the books adds up: it was validated on its way in.        *)

LEMMA InitBills == Init => BillsAddUp
  BY DEF Init, TablesInit, NoExpense, BillsAddUp, Busy, Idle

LEMMA BillsByTime ==
  ASSUME TablesTypeOK, TimePasses, NEW e \in ExpenseIds,
         expense'[e].status # "absent"
  PROVE  expense[e].status # "absent" /\ expense'[e].bill = expense[e].bill
<1>1. CASE InviteExpires
  BY <1>1 DEF InviteExpires
<1>2. ASSUME NEW x \in ExpenseIds, RestoreLapses(x)
      PROVE  expense[e].status # "absent" /\ expense'[e].bill = expense[e].bill
  BY <1>2 DEF RestoreLapses, StampExpense, TablesTypeOK, ExpenseRow
<1> QED BY <1>1, <1>2 DEF TimePasses

LEMMA GroupLeavesExpenses ==
  ASSUME NEW p \in Requests, WriteGroup(p)
  PROVE  expense' = expense
  BY DEF WriteGroup, Write, DoInsertGroup, DoInsertFounder, DoRevive,
     DoEnlist, DoEndMembership, DoCloseAccount, DoSetLocked, DoClearLocked,
     DoArchive, DoErase, DoInsertInvite, InsertGroup, InsertMembership,
     ReviveMembership, EndMembership, CloseAccount, SetLocked, SetArchived,
     EraseGroup, InsertInvite, tables

(* A bill comes into the books as the body of a request that had it        *)
(* validated.                                                              *)
LEMMA BillsByMoney ==
  ASSUME TypeOK, Vetted, NEW p \in Requests, WriteMoney(p),
         NEW e \in ExpenseIds, expense'[e].status # "absent"
  PROVE  \/ expense[e].status # "absent" /\ expense'[e].bill = expense[e].bill
         \/ /\ Busy(p) /\ Passed(p, "validate")
            /\ expense'[e].bill = job[p].body.bill
<1>0. TablesTypeOK /\ JobsTypeOK /\ Busy(p)
  BY WriteStep DEF TypeOK
<1>1. CASE DoInsertReceipt(p) \/ DoInsertSettlement(p) \/ DoConfirmSettlement(p)
           \/ DoDeleteSettlement(p)
  BY <1>1 DEF DoInsertReceipt, DoInsertSettlement, DoConfirmSettlement,
     DoDeleteSettlement, Write, InsertReceipt, InsertSettlement,
     ConfirmSettlement, DeleteSettlement, tables
<1>2. CASE DoInsertExpense(p)
  <2>1. Passed(p, "validate")
    BY <1>0, <1>2, MoneyTarget DEF DoInsertExpense, Write
  <2>2. \/ expense' = expense
        \/ \E x \in ExpenseIds : expense' = [expense EXCEPT ![x] =
             [status |-> "live", bill |-> job[p].body.bill,
              slip |-> FirstSlip(job[p].body.slips)]]
    BY <1>2 DEF DoInsertExpense, Write, InsertExpense, tables
  <2> QED BY <1>0, <2>1, <2>2 DEF TablesTypeOK
<1>3. CASE DoRewriteExpense(p)
  <2>1. Passed(p, "validate") /\ job[p].row \in ExpenseIds /\ job[p].op = "update"
    BY <1>0, <1>3, MoneyTarget DEF DoRewriteExpense, Write
  <2>2. expense[job[p].row].status # "absent"
    BY <1>0, <2>1 DEF Vetted
  <2>3. expense' = [expense EXCEPT ![job[p].row].bill = job[p].body.bill,
                                   ![job[p].row].slip = FirstSlip(job[p].body.slips)]
    BY <1>3 DEF DoRewriteExpense, Write, RewriteExpense
  <2> QED BY <1>0, <2>1, <2>2, <2>3 DEF TablesTypeOK, ExpenseRow
<1>4. CASE DoStampDeleted(p) \/ DoStampLive(p)
  <2>1. job[p].row \in ExpenseIds /\ job[p].op \in {"softDelete", "restore"}
    BY <1>0, <1>4, MoneyTarget DEF DoStampDeleted, DoStampLive, Write
  <2>2. expense[job[p].row].status # "absent"
    BY <1>0, <2>1 DEF Vetted
  <2>3. PICK status : expense' = [expense EXCEPT ![job[p].row].status = status]
    BY <1>4 DEF DoStampDeleted, DoStampLive, Write, StampExpense
  <2> QED BY <1>0, <2>1, <2>2, <2>3 DEF TablesTypeOK, ExpenseRow
<1> QED BY <1>1, <1>2, <1>3, <1>4 DEF WriteMoney

LEMMA NextBills ==
  ASSUME TypeOK, Vetted, BillsAddUp, Next
  PROVE  BillsAddUp'
<1>1. ASSUME NEW e \in ExpenseIds, expense'[e].status # "absent"
      PROVE  SoundBill(expense'[e].bill)
  <2>1. CASE DaysPass
    BY <1>1, <2>1, BillsByTime DEF DaysPass, TypeOK, BillsAddUp
  <2>2. ASSUME NEW p \in Requests, Step(p) PROVE SoundBill(expense'[e].bill)
    <3>1. CASE Begin(p) \/ Read(p) \/ Die(p)
      <4>1. expense' = expense
        BY <3>1, BeginStep, ReadStep DEF Die, tables, TypeOK
      <4> QED BY <1>1, <4>1 DEF BillsAddUp
    <3>2. CASE WriteGroup(p)
      BY <1>1, <3>2, GroupLeavesExpenses DEF BillsAddUp
    <3>3. CASE WriteMoney(p)
      BY <1>1, <3>3, BillsByMoney DEF BillsAddUp
    <3> QED BY <2>2, <3>1, <3>2, <3>3 DEF Step
  <2> QED BY <2>1, <2>2 DEF Next
<1>2. ASSUME NEW p \in Requests, Busy(p)', Passed(p, "validate")'
      PROVE  SoundBill(job'[p].body.bill)
  <2>1. /\ Busy(p) /\ job'[p].body = job[p].body
        /\ Passed(p, "validate") \/ Verified(p, "validate")
    BY <1>2, Remembers DEF Checks
  <2>2. CASE Passed(p, "validate")
    BY <2>1, <2>2 DEF BillsAddUp
  <2>3. CASE Verified(p, "validate")
    BY <2>1, <2>3 DEF Verified, Validates
  <2> QED BY <2>1, <2>2, <2>3
<1> QED BY <1>1, <1>2 DEF BillsAddUp

-----------------------------------------------------------------------------
(* Money always has its group and its people, row by row.                  *)

ExpenseSound(e) ==
  expense[e].status # "absent" =>
    /\ GroupPresent
    /\ expense[e].bill \in Bills
    /\ \A u \in Parties(expense[e].bill) : membership[u] # "none"

SettlementSound(s) ==
  /\ settlement[s].status # "absent" =>
       settlement[s].from \in Users /\ settlement[s].to \in Users
  /\ CountsFor(s) =>
       /\ GroupPresent
       /\ membership[settlement[s].from] # "none"
       /\ membership[settlement[s].to] # "none"

Books ==
  /\ \A e \in ExpenseIds : ExpenseSound(e)
  /\ \A s \in SettlementIds : SettlementSound(s)

LEMMA BooksByRow == Books <=> Filled /\ MoneyHasItsGroup
  BY DEF Books, ExpenseSound, SettlementSound, Filled, MoneyHasItsGroup

(* A row that a step leaves alone stays sound if the group stays.          *)
LEMMA ExpenseKept ==
  ASSUME NEW e \in ExpenseIds, ExpenseSound(e), Onward,
         GroupPresent => GroupPresent',
         expense'[e].status # "absent" => expense[e].status # "absent",
         expense'[e].bill = expense[e].bill
  PROVE  ExpenseSound(e)'
<1>1. SUFFICES ASSUME expense'[e].status # "absent"
               PROVE  /\ GroupPresent'
                      /\ expense'[e].bill \in Bills
                      /\ \A u \in Parties(expense'[e].bill) : membership'[u] # "none"
  BY DEF ExpenseSound
<1>2. /\ GroupPresent /\ expense[e].bill \in Bills
      /\ \A u \in Parties(expense[e].bill) : membership[u] # "none"
  BY <1>1 DEF ExpenseSound
<1>3. Parties(expense[e].bill) \subseteq Users
  BY <1>2, BillsAssumption
<1> QED BY <1>2, <1>3 DEF Onward, GroupPresent

LEMMA SettlementKept ==
  ASSUME NEW s \in SettlementIds, SettlementSound(s), Onward,
         GroupPresent => GroupPresent',
         CountsFor(s)' => CountsFor(s),
         settlement'[s].status # "absent" => settlement[s].status # "absent"
  PROVE  SettlementSound(s)'
  BY DEF SettlementSound, Onward, GroupPresent, CountsFor

LEMMA BooksKept ==
  ASSUME Books, Onward, GroupPresent => GroupPresent',
         UNCHANGED <<expense, settlement>>
  PROVE  Books'
<1>1. \A e \in ExpenseIds : ExpenseSound(e)'
  BY ExpenseKept DEF Books
<1>2. \A s \in SettlementIds : SettlementSound(s)'
  BY SettlementKept DEF Books, CountsFor
<1> QED BY <1>1, <1>2 DEF Books

LEMMA BooksGroup ==
  ASSUME TypeOK, Books, Onward, NEW p \in Requests, WriteGroup(p)
  PROVE  Books'
<1>1. CASE DoErase(p)
  <2>1. EraseGroup
    BY <1>1 DEF DoErase, Write
  <2>2. CASE UNCHANGED tables
    BY <2>2, BooksKept DEF tables, GroupPresent
  <2>3. CASE ~UNCHANGED tables
    BY <2>1, <2>3 DEF EraseGroup, NoExpenseRows, NoSettlementRows, Books,
       ExpenseSound, SettlementSound, CountsFor
  <2> QED BY <2>2, <2>3
<1>2. CASE WriteGroup(p) /\ ~DoErase(p)
  <2>1. UNCHANGED <<expense, settlement>>
    BY <1>2 DEF WriteGroup, Write, DoInsertGroup, DoInsertFounder, DoRevive,
       DoEnlist, DoEndMembership, DoCloseAccount, DoSetLocked, DoClearLocked,
       DoArchive, DoInsertInvite, InsertGroup, InsertMembership,
       ReviveMembership, EndMembership, CloseAccount, SetLocked, SetArchived,
       InsertInvite
  <2>2. CASE DoSetLocked(p) \/ DoClearLocked(p) \/ DoArchive(p) \/ DoInsertGroup(p)
    <3>1. GroupPresent => GroupPresent'
      BY <2>2 DEF DoSetLocked, DoClearLocked, DoArchive, DoInsertGroup, Write,
         SetLocked, SetArchived, InsertGroup, GroupPresent, TypeOK, TablesTypeOK
    <3> QED BY <2>1, <3>1, BooksKept
  <2>3. CASE group' = group
    BY <2>1, <2>3, BooksKept DEF GroupPresent
  <2>4. CASE DoInsertFounder(p) \/ DoRevive(p) \/ DoEnlist(p)
             \/ DoEndMembership(p) \/ DoCloseAccount(p) \/ DoInsertInvite(p)
    <3>1. group' = group
      BY <2>4 DEF Write, DoInsertFounder, DoRevive, DoEnlist, DoEndMembership,
         DoCloseAccount, DoInsertInvite, InsertMembership, ReviveMembership,
         EndMembership, CloseAccount, InsertInvite
    <3> QED BY <3>1, <2>3
  <2> QED BY <1>2, <2>2, <2>4 DEF WriteGroup
<1> QED
  BY <1>1, <1>2

LEMMA BooksMoney ==
  ASSUME TypeOK, Vetted, Books, Onward, NEW p \in Requests, WriteMoney(p)
  PROVE  Books'
<1>0. TablesTypeOK /\ JobsTypeOK /\ Busy(p)
  BY WriteStep DEF TypeOK
<1>1. CASE UNCHANGED tables
  BY <1>1, BooksKept DEF tables, GroupPresent
<1> SUFFICES ASSUME ~UNCHANGED tables PROVE Books'
  BY <1>1
<1>2. CASE DoInsertReceipt(p)
  BY <1>2, BooksKept DEF DoInsertReceipt, Write, InsertReceipt, GroupPresent
<1>3. CASE DoInsertExpense(p)
  <2>1. PICK e \in ExpenseIds :
          /\ GroupPresent
          /\ expense' = [expense EXCEPT ![e] =
               [status |-> "live", bill |-> job[p].body.bill,
                slip |-> FirstSlip(job[p].body.slips)]]
          /\ UNCHANGED <<group, membership, settlement>>
    BY <1>3 DEF DoInsertExpense, Write, InsertExpense
  <2>2. /\ job[p].body.bill \in Bills
        /\ \A u \in Parties(job[p].body.bill) : membership[u] # "none"
    BY <1>0, <1>3, <2>1, MoneyTarget DEF DoInsertExpense, Write, Vetted, HasRow, Posts
  <2>3. ExpenseSound(e)'
    BY <1>0, <2>1, <2>2 DEF ExpenseSound, GroupPresent, TablesTypeOK
  <2>4. \A x \in ExpenseIds \ {e} : ExpenseSound(x)'
    BY <1>0, <2>1, ExpenseKept DEF Books, GroupPresent, TablesTypeOK
  <2>5. \A s \in SettlementIds : SettlementSound(s)'
    BY <2>1, SettlementKept DEF Books, CountsFor, GroupPresent
  <2> QED BY <2>3, <2>4, <2>5 DEF Books
<1>4. CASE DoRewriteExpense(p)
  <2>0. job[p].row \in ExpenseIds
    BY <1>0, <1>4, MoneyTarget DEF DoRewriteExpense, Write
  <2>1. PICK e \in ExpenseIds :
        /\ e = job[p].row /\ job[p].op = "update"
        /\ job[p].body \in Posts /\ Passed(p, "validate")
    BY <1>0, <1>4, <2>0, MoneyTarget DEF DoRewriteExpense, Write
  <2>2. /\ expense' = [expense EXCEPT ![e].bill = job[p].body.bill,
                                      ![e].slip = FirstSlip(job[p].body.slips)]
        /\ UNCHANGED <<group, membership, settlement>>
    BY <1>4, <2>1 DEF DoRewriteExpense, Write, RewriteExpense
  <2>3. expense[e].status # "absent" /\ GroupPresent
    BY <1>0, <2>1 DEF Vetted, Books, ExpenseSound
  <2>4. /\ job[p].body.bill \in Bills
        /\ \A u \in Parties(job[p].body.bill) : membership[u] # "none"
    BY <1>0, <2>1, <2>3 DEF Vetted, HasRow, Posts
  <2>5. expense'[e].bill = job[p].body.bill
    BY <1>0, <2>1, <2>2 DEF TablesTypeOK, ExpenseRow
  <2>6. ExpenseSound(e)'
    BY <2>2, <2>3, <2>4, <2>5 DEF ExpenseSound, GroupPresent
  <2>7. \A x \in ExpenseIds \ {e} : expense'[x] = expense[x]
    BY <1>0, <2>1, <2>2 DEF TablesTypeOK
  <2>8. \A x \in ExpenseIds \ {e} : ExpenseSound(x)'
    BY <2>2, <2>7, ExpenseKept DEF Books, GroupPresent
  <2>9. \A s \in SettlementIds : SettlementSound(s)'
    BY <2>2, SettlementKept DEF Books, CountsFor, GroupPresent
  <2> QED BY <2>6, <2>8, <2>9 DEF Books
<1>5. CASE DoStampDeleted(p) \/ DoStampLive(p)
  <2> DEFINE e == job[p].row
  <2>1. PICK status \in {"live", "deleted"} : StampExpense(e, status)
    BY <1>5 DEF DoStampDeleted, DoStampLive, Write
  <2>2. e \in ExpenseIds /\ job[p].op \in {"softDelete", "restore"}
    BY <1>0, <1>5, MoneyTarget DEF DoStampDeleted, DoStampLive, Write
  <2>3. expense[e].status # "absent"
    BY <1>0, <2>2 DEF Vetted
  <2>4. \A x \in ExpenseIds : expense'[x].bill = expense[x].bill
    BY <1>0, <2>1 DEF StampExpense, TablesTypeOK, ExpenseRow
  <2>5. \A x \in ExpenseIds :
          expense'[x].status # "absent" => expense[x].status # "absent"
    BY <1>0, <2>1, <2>3 DEF StampExpense, TablesTypeOK
  <2>6. \A x \in ExpenseIds : ExpenseSound(x)'
    BY <2>1, <2>4, <2>5, ExpenseKept DEF Books, StampExpense, GroupPresent
  <2>7. \A s \in SettlementIds : SettlementSound(s)'
    BY <2>1, SettlementKept DEF Books, CountsFor, GroupPresent, StampExpense
  <2> QED BY <2>6, <2>7 DEF Books
<1>6. CASE DoInsertSettlement(p)
  <2>1. PICK s \in SettlementIds :
          /\ GroupPresent
          /\ settlement' = [settlement EXCEPT ![s] =
               [status |-> IF job[p].body.to = job[p].by
                           THEN "confirmed" ELSE "pending",
                from |-> job[p].body.from, to |-> job[p].body.to,
                amount |-> job[p].body.amount, by |-> job[p].by]]
          /\ UNCHANGED <<group, membership, expense>>
    BY <1>6 DEF DoInsertSettlement, Write, InsertSettlement
  <2>2. /\ job[p].body.from \in Users /\ job[p].body.to \in Users
        /\ membership[job[p].body.from] # "none"
        /\ membership[job[p].body.to] # "none"
    BY <1>0, <1>6, <2>1, MoneyTarget DEF DoInsertSettlement, Write, Vetted,
       HasRow, Deals
  <2>3. SettlementSound(s)'
    BY <1>0, <2>1, <2>2 DEF SettlementSound, GroupPresent, TablesTypeOK
  <2>4. \A x \in SettlementIds \ {s} : SettlementSound(x)'
    BY <1>0, <2>1, SettlementKept DEF Books, CountsFor, GroupPresent, TablesTypeOK
  <2>5. \A e \in ExpenseIds : ExpenseSound(e)'
    BY <2>1, ExpenseKept DEF Books, GroupPresent
  <2> QED BY <2>3, <2>4, <2>5 DEF Books
<1>7. CASE DoConfirmSettlement(p) \/ DoDeleteSettlement(p)
  <2> DEFINE r == job[p].row
  <2>1. /\ r \in SettlementIds
        /\ DoConfirmSettlement(p) => Passed(p, "mayConfirm")
    BY <1>0, <1>7, MoneyTarget DEF DoConfirmSettlement, DoDeleteSettlement, Write
  <2>2. UNCHANGED <<group, membership, expense>>
    BY <1>7 DEF DoConfirmSettlement, DoDeleteSettlement, Write,
       ConfirmSettlement, DeleteSettlement
  <2>3. \A s \in SettlementIds : CountsFor(s)' => CountsFor(s)
    BY <1>0, <1>7 DEF DoConfirmSettlement, DoDeleteSettlement, Write,
       ConfirmSettlement, DeleteSettlement, TablesTypeOK, SettlementRow, CountsFor
  <2>4. job[p].op \in {"confirm", "withdraw"}
    BY <1>0, <1>7, MoneyTarget DEF DoConfirmSettlement, DoDeleteSettlement, Write
  <2>5. settlement[r].status # "absent"
    BY <1>0, <2>4 DEF Vetted
  <2>6. \A s \in SettlementIds : settlement'[s].status # "absent" =>
                                 settlement[s].status # "absent"
    BY <1>0, <1>7, <2>1, <2>5 DEF DoConfirmSettlement, DoDeleteSettlement, Write,
       ConfirmSettlement, DeleteSettlement, TablesTypeOK, SettlementRow
  <2>7. \A s \in SettlementIds : SettlementSound(s)'
    BY <2>2, <2>3, <2>6, SettlementKept DEF Books, GroupPresent
  <2>8. \A e \in ExpenseIds : ExpenseSound(e)'
    BY <2>2, ExpenseKept DEF Books, GroupPresent
  <2> QED BY <2>7, <2>8 DEF Books
<1> QED
  BY <1>2, <1>3, <1>4, <1>5, <1>6, <1>7 DEF WriteMoney

LEMMA NextBooks ==
  ASSUME TypeOK, Vetted, Books, Next
  PROVE  Books'
<1>0. Onward
  BY OnwardNext
<1>1. ASSUME NEW p \in Requests, Step(p) PROVE Books'
  <2>1. CASE Begin(p) \/ Read(p) \/ Die(p)
    <3>1. UNCHANGED tables
      BY <2>1, BeginStep, ReadStep DEF Die, TypeOK
    <3> QED BY <1>0, <3>1, BooksKept DEF tables, GroupPresent
  <2> QED
    BY <1>0, <1>1, <2>1, BooksGroup, BooksMoney DEF Step
<1>2. CASE DaysPass
  <2>1. CASE InviteExpires
    BY <1>0, <2>1, BooksKept DEF InviteExpires, GroupPresent
  <2>2. ASSUME NEW e \in ExpenseIds, RestoreLapses(e) PROVE Books'
    <3>1. /\ \A x \in ExpenseIds : expense'[x].bill = expense[x].bill
          /\ \A x \in ExpenseIds :
               expense'[x].status # "absent" => expense[x].status # "absent"
          /\ group' = group /\ settlement' = settlement
      BY <2>2 DEF RestoreLapses, StampExpense, TypeOK, TablesTypeOK, ExpenseRow
    <3>2. \A x \in ExpenseIds : ExpenseSound(x)'
      BY <1>0, <3>1, ExpenseKept DEF Books, GroupPresent
    <3>3. \A s \in SettlementIds : SettlementSound(s)'
      BY <1>0, <3>1, SettlementKept DEF Books, CountsFor, GroupPresent
    <3> QED BY <3>2, <3>3 DEF Books
  <2> QED BY <1>2, <2>1, <2>2 DEF DaysPass, TimePasses
<1> QED
  BY <1>1, <1>2 DEF Next

LEMMA InitBooks == Init => Books
  BY DEF Init, TablesInit, NoExpense, NoSettlement, CountsFor, Books,
     ExpenseSound, SettlementSound

-----------------------------------------------------------------------------
(* A request that began under a stamp has not got past the check for it.   *)

LEMMA InitBites == Init => LockBites /\ ArchiveBites
  BY DEF Init, LockBites, ArchiveBites

LEMMA NextBites ==
  ASSUME TypeOK, LockBites, ArchiveBites, Next
  PROVE  LockBites' /\ ArchiveBites'
<1>1. ASSUME NEW p \in late'.lock
      PROVE  group'.locked /\ Busy(p)' /\ ~Passed(p, "unlocked")'
  <2>1. p \in Requests /\ group'.locked /\ Busy(p)' /\ (p \in late.lock \/ ~Busy(p))
    BY <1>1 DEF Next, Latecomers
  <2> QED BY <2>1, Remembers DEF LockBites, Verified, Unlocked, Checks
<1>2. ASSUME NEW p \in late'.archive
      PROVE  group'.archived /\ Busy(p)' /\ ~Passed(p, "settleable")'
  <2>1. /\ p \in Requests /\ group'.archived /\ Busy(p)'
        /\ p \in late.archive \/ ~Busy(p)
    BY <1>2 DEF Next, Latecomers
  <2> QED BY <2>1, Remembers DEF ArchiveBites, Verified, Settleable,
     Checks
<1> QED
  BY <1>1, <1>2 DEF LockBites, ArchiveBites

-----------------------------------------------------------------------------
(* The inductive invariant, and what follows from it.                      *)

LEMMA InitIInv == Init => IInv
  BY InitTypeOK, InitVetted, InitBills, InitBooks, BooksByRow, InitBites DEF IInv

LEMMA NextIInv == IInv /\ [Next]_vars => IInv'
<1>1. ASSUME IInv, Next PROVE IInv'
  <2>1. TypeOK /\ Vetted /\ BillsAddUp /\ Books /\ LockBites /\ ArchiveBites
    BY <1>1, BooksByRow DEF IInv
  <2>2. Books'
    BY <1>1, <2>1, NextBooks
  <2>3. Filled' /\ MoneyHasItsGroup'
    BY <2>2 DEF Books, ExpenseSound, SettlementSound, Filled, MoneyHasItsGroup,
       CountsFor
  <2> QED
    BY <1>1, <2>1, <2>3, NextTypeOK, NextVetted, NextBills, NextBites DEF IInv
<1>2. ASSUME IInv, UNCHANGED vars PROVE IInv'
  <2>1. /\ group' = group /\ membership' = membership /\ closed' = closed
        /\ invite' = invite /\ expense' = expense /\ settlement' = settlement
        /\ receipt' = receipt /\ job' = job /\ late' = late
    BY <1>2 DEF vars, tables
  <2>2. TypeOK'
    BY <1>2, <2>1 DEF IInv, TypeOK, TablesTypeOK, JobsTypeOK
  <2>3. Filled' /\ MoneyHasItsGroup'
    BY <1>2, <2>1 DEF IInv, Filled, MoneyHasItsGroup, CountsFor, GroupPresent
  <2>4. Vetted' /\ BillsAddUp'
    BY <1>2, <2>1 DEF IInv, Vetted, BillsAddUp, Busy, Passed, HasRow, GroupPresent
  <2>5. LockBites' /\ ArchiveBites'
    BY <1>2, <2>1 DEF IInv, LockBites, ArchiveBites, Busy, Passed
  <2> QED BY <2>2, <2>3, <2>4, <2>5 DEF IInv
<1> QED
  BY <1>1, <1>2

(* Whatever requests do, the books stay well typed and filled in, and what *)
(* each request in flight has verified stays true: the invariant that      *)
(* everything below rests on.                                              *)
THEOREM Invariance == Spec => []IInv
  BY InitIInv, NextIInv, PTL DEF Spec

(* However requests interleave and wherever they die, money belongs to a   *)
(* group that exists and to people with a membership row in it: erasing a  *)
(* group never races a create, an update or a payment into stranded rows   *)
(* (GroupService::delete; ExpenseService; SettlementService).              *)
THEOREM MoneyKeepsItsGroup == Spec => []MoneyHasItsGroup
<1>1. IInv => MoneyHasItsGroup
  BY DEF IInv
<1> QED
  BY <1>1, Invariance, PTL

-----------------------------------------------------------------------------
(* Balances cancel out.                                                    *)

(* What every person has of an expense, as convertEffects leaves it.       *)
Outcome(b) == convertEffects(Effects(b.paid, b.owed), b.rate)

(* The payers' amounts add up to the bill's total, and so do the shares.   *)
LEMMA BillTotals ==
  ASSUME NEW b, SoundBill(b)
  PROVE  SumOver(b.paid, DOMAIN b.paid) = b.total
         /\ SumOver(b.owed, DOMAIN b.owed) = b.total
  BY DEF SoundBill, SumOver, MapThenSumSet, MapThenFoldSet

LEMMA EntrySum ==
  ASSUME NEW P, IsFiniteSet(P), NEW f, DOMAIN f \subseteq P,
         \A u \in DOMAIN f : f[u] \in Int
  PROVE  /\ SumOver([u \in P |-> Entry(f, u)], P) = SumOver(f, DOMAIN f)
         /\ \A u \in P : Entry(f, u) \in Int
<1>1. [u \in P |-> Entry(f, u)] = Padded(f, P)
  BY DEF Entry, Padded
<1>2. \A u \in P : Entry(f, u) \in Int
  BY DEF Entry
<1> QED BY <1>1, <1>2, SumPadded

(* Who paid and who consumed come to the same.                             *)
LEMMA EffectsCancel ==
  ASSUME NEW b \in Bills, SoundBill(b)
  PROVE  /\ Effects(b.paid, b.owed) \in [Parties(b) -> Int]
         /\ SumOver(Effects(b.paid, b.owed), Parties(b)) = 0
<1> DEFINE P == Parties(b)
           paid == [u \in P |-> Entry(b.paid, u)]
           owed == [u \in P |-> Entry(b.owed, u)]
           effects == Effects(b.paid, b.owed)
<1>1. /\ IsFiniteSet(P) /\ DOMAIN b.paid \subseteq P /\ DOMAIN b.owed \subseteq P
      /\ b.total \in Nat
      /\ \A u \in DOMAIN b.paid : b.paid[u] \in Int
      /\ \A u \in DOMAIN b.owed : b.owed[u] \in Int
  <2>1. /\ P \subseteq Users /\ b.total \in Nat
        /\ b.paid \in [DOMAIN b.paid -> Nat] /\ b.owed \in [DOMAIN b.owed -> Nat]
    BY BillsAssumption
  <2>2. \A u \in DOMAIN b.paid : b.paid[u] \in Nat
    BY <2>1
  <2>3. \A u \in DOMAIN b.owed : b.owed[u] \in Nat
    BY <2>1
  <2>4. DOMAIN b.paid \subseteq P /\ DOMAIN b.owed \subseteq P
    BY DEF Parties
  <2>5. IsFiniteSet(P)
    BY <2>1, IdsAssumption, FS_Subset
  <2> QED BY <2>1, <2>2, <2>3, <2>4, <2>5
<1>2. /\ SumOver(paid, P) = b.total /\ \A u \in P : Entry(b.paid, u) \in Int
      /\ SumOver(owed, P) = b.total /\ \A u \in P : Entry(b.owed, u) \in Int
  <2> HIDE DEF P
  <2> QED BY <1>1, BillTotals, EntrySum
<1>3. effects = [u \in P |-> Entry(b.paid, u) - Entry(b.owed, u)]
  BY DEF Effects, Parties
<1>4. \A u \in P : paid[u] \in Int /\ owed[u] \in Int
                   /\ effects[u] = paid[u] - owed[u]
  <2> HIDE DEF P
  <2> QED BY <1>2, <1>3
<1>5. effects \in [P -> Int]
  <2> HIDE DEF P
  <2> QED BY <1>2, <1>3
<1>6. SumOver(effects, P) = SumOver(paid, P) - SumOver(owed, P)
  <2> HIDE DEF P, paid, owed, effects
  <2> QED BY <1>1, <1>4, SumMinus
<1>7. SumOver(effects, P) = 0
  <2> HIDE DEF P, paid, owed, effects
  <2> QED BY <1>1, <1>2, <1>6
<1> QED BY <1>5, <1>7

(* Moving the whole error of a sum to one of its terms leaves no error.    *)
Balanced(f, P, t) == [f EXCEPT ![t] = @ + (-SumOver(f, P))]

LEMMA ResidualPlaced ==
  ASSUME NEW P, IsFiniteSet(P), NEW f \in [P -> Int], NEW t \in P
  PROVE  /\ Balanced(f, P, t) \in [P -> Int]
         /\ SumOver(Balanced(f, P, t), P) = 0
<1> DEFINE sum == SumOver(f, P)
           g == [f EXCEPT ![t] = @ + (-sum)]
           rest == SumOver(f, P \ {t})
<1>1. sum \in Int /\ rest \in Int /\ sum = f[t] + rest
  <2>1. \A u \in P : f[u] \in Int
    OBVIOUS
  <2>2. IsFiniteSet(P \ {t}) /\ \A u \in P \ {t} : f[u] \in Int
    BY FS_RemoveElement
  <2> QED BY <2>1, <2>2, SumType, SumRemove
<1>2. g \in [P -> Int] /\ g[t] = f[t] - sum /\ \A u \in P \ {t} : g[u] = f[u]
  <2> HIDE DEF sum
  <2> QED BY <1>1
<1>3. SumOver(g, P) = g[t] + SumOver(g, P \ {t})
  <2> HIDE DEF g
  <2>1. \A u \in P : g[u] \in Int
    BY <1>2
  <2> QED BY <2>1, SumRemove
<1>4. SumOver(g, P \ {t}) = rest
  <2> HIDE DEF g
  <2> QED BY <1>2, FS_RemoveElement, SumCongruence
<1>5. f[t] \in Int
  OBVIOUS
<1>6. SumOver(g, P) = 0
  <2> HIDE DEF g, sum, rest
  <2> QED BY <1>1, <1>2, <1>3, <1>4, <1>5
<1> QED BY <1>2, <1>6 DEF Balanced

(* However the effects of a sound bill are converted, they cancel.         *)
LEMMA ConvertType ==
  ASSUME NEW n \in Int, NEW rate \in [home : Nat \ {0}, per : Nat \ {0}]
  PROVE  Convert(n, rate) \in Int
<1> DEFINE h == rate.home
           r == rate.per
           Rounded(k) == (2 * k * h + r) \div (2 * r)
<1>1. h \in Int /\ r \in Int /\ r > 0
  OBVIOUS
<1>2. \A k \in Int : Rounded(k) \in Int
  <2> HIDE DEF h, r
  <2>1. \A k \in Int : 2 * k * h + r \in Int
    BY <1>1
  <2>2. 2 * r \in Int /\ 2 * r > 0
    BY <1>1
  <2> DEFINE d == 2 * r
  <2>3. \A m \in Int : m \div d \in Int
    <3> HIDE DEF d
    <3> QED BY <2>2 DEF d
  <2> QED BY <2>1, <2>3
<1>3. Convert(n, rate) = IF n < 0 THEN -Rounded(-n) ELSE Rounded(n)
  BY DEF Convert
<1> HIDE DEF Rounded
<1> QED BY <1>2, <1>3

LEMMA OutcomeCancels ==
  ASSUME NEW b \in Bills, SoundBill(b)
  PROVE  /\ Outcome(b) \in [Parties(b) -> Int]
         /\ SumOver(Outcome(b), Parties(b)) = 0
<1> DEFINE P == Parties(b)
           effects == Effects(b.paid, b.owed)
           D == DOMAIN effects
           converted == [u \in D |-> Convert(effects[u], b.rate)]
           Size(u) == IF converted[u] < 0 THEN -converted[u] ELSE converted[u]
           target == CHOOSE u \in D : \A v \in D : Size(v) <= Size(u)
<1>1. effects \in [P -> Int] /\ SumOver(effects, P) = 0
  BY EffectsCancel
<1>2. CASE b.rate = None
  BY <1>1, <1>2 DEF Outcome, convertEffects
<1>3. CASE b.rate # None
  <2>1. b.rate \in [home : Nat \ {0}, per : Nat \ {0}]
    BY <1>3, BillsAssumption
  <2>2. D = P
    BY DEF Effects, Parties
  <2>3. converted \in [D -> Int]
    <3> HIDE DEF P, D, effects
    <3> QED BY <1>1, <2>1, <2>2, ConvertType
  <2>4. IsFiniteSet(D) /\ D # {}
    <3>1. P \subseteq Users
      BY BillsAssumption
    <3>2. P # {}
      BY DEF SoundBill, Parties
    <3> HIDE DEF D, P
    <3> QED BY <2>2, <3>1, <3>2, IdsAssumption, FS_Subset
  <2>5. target \in D
    <3> DEFINE size == [u \in D |-> Size(u)]
    <3>1. \A u \in D : size[u] \in Int /\ size[u] = Size(u)
      <4> HIDE DEF D, converted
      <4> QED BY <2>3
    <3>2. \E u \in D : \A v \in D : size[v] <= size[u]
      <4> HIDE DEF D, size
      <4> QED BY <2>4, <3>1, LargestExists
    <3>3. \E u \in D : \A v \in D : Size(v) <= Size(u)
      <4> HIDE DEF D, Size, size
      <4> QED BY <3>1, <3>2
    <3> HIDE DEF D, Size
    <3> QED BY <3>3
  <2>6. Outcome(b) = Balanced(converted, D, target)
    BY <1>3 DEF Outcome, Balanced, convertEffects, SumOver, MapThenSumSet, MapThenFoldSet
  <2>7. Outcome(b) \in [D -> Int] /\ SumOver(Outcome(b), D) = 0
    <3> HIDE DEF D, converted, target
    <3> QED BY <2>3, <2>4, <2>5, <2>6, ResidualPlaced
  <2> HIDE DEF D
  <2> QED BY <2>2, <2>7
<1> QED BY <1>2, <1>3

(* Lines that each cancel cancel together.                                 *)
LEMMA LinesCancel ==
  ASSUME NEW S, IsFiniteSet(S), NEW m \in [S -> [Users -> Int]],
         \A e \in S : SumOver(m[e], Users) = 0,
         NEW column, \A u \in Users : column[u] = SumOver([e \in S |-> m[e][u]], S)
  PROVE  /\ \A u \in Users : column[u] \in Int
         /\ SumOver(column, Users) = 0
<1> DEFINE n == [u \in Users |-> [e \in S |-> m[e][u]]]
           row == [e \in S |-> 0]
<1>1. Table(m, S, Users)
  BY DEF Table
<1>2. Margins(m, n, row, column, S, Users)
  <2>1. \A u \in Users : column[u] = SumOver(n[u], S)
    OBVIOUS
  <2>2. \A e \in S : \A u \in Users : n[u][e] = m[e][u]
    OBVIOUS
  <2>3. \A e \in S : row[e] = SumOver(m[e], Users)
    OBVIOUS
  <2> HIDE DEF n, row
  <2> QED BY <2>1, <2>2, <2>3 DEF Margins
<1>3. SumOver(row, S) = SumOver(column, Users)
  <2> HIDE DEF n, row
  <2> QED BY <1>1, <1>2, IdsAssumption, SumSwap
<1>4. SumOver(row, S) = 0
  <2>1. \A e \in S : row[e] = 0
    OBVIOUS
  <2> HIDE DEF row
  <2> QED BY <2>1, SumZero
<1>5. ASSUME NEW u \in Users PROVE column[u] \in Int
  <2> DEFINE line == [e \in S |-> m[e][u]]
  <2>1. \A e \in S : line[e] \in Int
    OBVIOUS
  <2>2. column[u] = SumOver(line, S)
    OBVIOUS
  <2> HIDE DEF line
  <2> QED BY <2>1, <2>2, SumType
<1> QED BY <1>3, <1>4, <1>5

(* So does what one sound bill does to everybody.                          *)
LEMMA BillCancels ==
  ASSUME NEW b \in Bills, SoundBill(b)
  PROVE  LET line == [u \in Users |-> Entry(Outcome(b), u)]
         IN  line \in [Users -> Int] /\ SumOver(line, Users) = 0
<1> DEFINE o == Outcome(b)
           line == [u \in Users |-> Entry(o, u)]
<1>1. o \in [Parties(b) -> Int] /\ SumOver(o, Parties(b)) = 0
  BY OutcomeCancels
<1>2. Parties(b) \subseteq Users
  BY BillsAssumption
<1>3. DOMAIN o = Parties(b) /\ \A u \in DOMAIN o : o[u] \in Int
  <2> HIDE DEF o
  <2> QED BY <1>1
<1>4. /\ SumOver(line, Users) = SumOver(o, DOMAIN o)
      /\ \A u \in Users : Entry(o, u) \in Int
  <2> HIDE DEF o
  <2> QED BY <1>2, <1>3, IdsAssumption, EntrySum
<1> QED BY <1>1, <1>3, <1>4

Share(e, u) == Entry(Outcome(expense[e].bill), u)

Confirmed == {s \in SettlementIds : settlement[s].status = "confirmed"}

Amount == [s \in SettlementIds |-> settlement[s].amount]

Total(S) == MapThenSumSet(LAMBDA s : settlement[s].amount, S)

(* The sums the books are made of, as sums over functions.                 *)
LEMMA ExpenseNetIs ==
  ASSUME NEW u
  PROVE  ExpenseNet(u) = SumOver([e \in LiveExpenses |-> Share(e, u)], LiveExpenses)
<1> DEFINE S == LiveExpenses
           f == [e \in S |-> Share(e, u)]
           Sums(g) == g = [s \in SUBSET S |->
             IF s = {} THEN 0 ELSE Share(Pick(s), u) + g[s \ {Pick(s)}]]
           iter == CHOOSE g : Sums(g)
<1>1. ExpenseNet(u) = iter[S]
  BY DEF ExpenseNet, MapThenSumSet, MapThenFoldSet, Pick, Share, Outcome
<1>2. IsFiniteSet(S)
  BY IdsAssumption, FS_Subset DEF LiveExpenses
<1>3. ASSUME NEW g PROVE IsSum(g, f, S) <=> Sums(g)
  <2>1. [s \in SUBSET S |-> IF s = {} THEN 0 ELSE f[Pick(s)] + g[s \ {Pick(s)}]]
          = [s \in SUBSET S |->
               IF s = {} THEN 0 ELSE Share(Pick(s), u) + g[s \ {Pick(s)}]]
    <3>1. \A s \in SUBSET S : s # {} => f[Pick(s)] = Share(Pick(s), u)
      <4> HIDE DEF S
      <4> QED BY PickIs
    <3> HIDE DEF f, S
    <3> QED BY <3>1
  <2> HIDE DEF f, S
  <2> QED BY <2>1 DEF IsSum
<1>4. IsSum(iter, f, S)
  <2>1. PICK g : IsSum(g, f, S)
    <3> HIDE DEF f, S
    <3> QED BY <1>2, SumExists
  <2> HIDE DEF Sums
  <2> QED BY <1>3, <2>1
<1> HIDE DEF iter, f, S
<1>5. iter[S] = SumOver(f, S)
  BY <1>2, <1>4, SumOfIter
<1> QED BY <1>1, <1>5 DEF f, S

LEMMA TotalIs ==
  ASSUME NEW S, S \subseteq SettlementIds
  PROVE  Total(S) = SumOver(Amount, S)
<1> DEFINE Sums(g) == g = [s \in SUBSET S |->
             IF s = {} THEN 0
             ELSE settlement[Pick(s)].amount + g[s \ {Pick(s)}]]
           iter == CHOOSE g : Sums(g)
<1>1. Total(S) = iter[S]
  BY DEF Total, MapThenSumSet, MapThenFoldSet, Pick
<1>2. IsFiniteSet(S)
  BY IdsAssumption, FS_Subset
<1>3. ASSUME NEW g PROVE IsSum(g, Amount, S) <=> Sums(g)
  <2>1. \A s \in SUBSET S : s # {} => Amount[Pick(s)] = settlement[Pick(s)].amount
    BY PickIs DEF Amount
  <2> QED BY <2>1 DEF IsSum
<1>4. IsSum(iter, Amount, S)
  <2>1. PICK g : IsSum(g, Amount, S)
    BY <1>2, SumExists
  <2> HIDE DEF Sums
  <2> QED BY <1>3, <2>1
<1> HIDE DEF iter
<1>5. iter[S] = SumOver(Amount, S)
  BY <1>2, <1>4, SumOfIter
<1> QED BY <1>1, <1>5

LEMMA NetsAre ==
  MapThenSumSet(NetFor, Users) = SumOver([u \in Users |-> NetFor(u)], Users)
<1> DEFINE f == [u \in Users |-> NetFor(u)]
           Sums(g) == g = [s \in SUBSET Users |->
             IF s = {} THEN 0 ELSE NetFor(Pick(s)) + g[s \ {Pick(s)}]]
           iter == CHOOSE g : Sums(g)
<1>1. MapThenSumSet(NetFor, Users) = iter[Users]
  BY DEF MapThenSumSet, MapThenFoldSet, Pick
<1>2. IsFiniteSet(Users)
  BY IdsAssumption
<1>3. ASSUME NEW g PROVE IsSum(g, f, Users) <=> Sums(g)
  <2>1. \A s \in SUBSET Users : s # {} => f[Pick(s)] = NetFor(Pick(s))
    BY PickIs
  <2> HIDE DEF f
  <2> QED BY <2>1 DEF IsSum
<1>4. IsSum(iter, f, Users)
  <2>1. PICK g : IsSum(g, f, Users)
    <3> HIDE DEF f
    <3> QED BY <1>2, SumExists
  <2> HIDE DEF Sums
  <2> QED BY <1>3, <2>1
<1> HIDE DEF iter, f
<1>5. iter[Users] = SumOver(f, Users)
  BY <1>2, <1>4, SumOfIter
<1> QED BY <1>1, <1>5 DEF f

(* What expenses do to people's balances cancels, expense by expense.      *)
LEMMA ExpensesCancel ==
  ASSUME TypeOK, Filled, BillsAddUp
  PROVE  /\ \A u \in Users : ExpenseNet(u) \in Int
         /\ SumOver([u \in Users |-> ExpenseNet(u)], Users) = 0
<1> DEFINE S == LiveExpenses
           m == [e \in S |-> [u \in Users |-> Share(e, u)]]
           column == [u \in Users |-> ExpenseNet(u)]
<1>1. IsFiniteSet(S)
  BY IdsAssumption, FS_Subset DEF LiveExpenses
<1>2. ASSUME NEW e \in S
      PROVE  m[e] \in [Users -> Int] /\ SumOver(m[e], Users) = 0
  <2>1. expense[e].bill \in Bills /\ SoundBill(expense[e].bill)
    BY DEF Filled, BillsAddUp, LiveExpenses
  <2> QED BY <2>1, BillCancels DEF Share
<1>3. ASSUME NEW u \in Users
      PROVE  column[u] = SumOver([e \in S |-> m[e][u]], S)
  <2>1. [e \in S |-> m[e][u]] = [e \in S |-> Share(e, u)]
    <3> HIDE DEF S
    <3> QED OBVIOUS
  <2> QED BY <2>1, ExpenseNetIs
<1>4. m \in [S -> [Users -> Int]]
  BY <1>2
<1>5. /\ \A u \in Users : column[u] \in Int
      /\ SumOver(column, Users) = 0
  <2> HIDE DEF S, m, column
  <2> QED BY <1>1, <1>2, <1>3, <1>4, LinesCancel
<1> QED BY <1>5
(* A settlement takes from one what it gives to another.                   *)
LEMMA SettlementsCancel ==
  ASSUME TypeOK, Filled
  PROVE  /\ \A u \in Users : SettledNet(u) \in Int
         /\ SumOver([u \in Users |-> SettledNet(u)], Users) = 0
<1> DEFINE S == Confirmed
           from == [s \in S |-> settlement[s].from]
           to == [s \in S |-> settlement[s].to]
           sent == [u \in Users |-> SumOver(Amount, {s \in S : from[s] = u})]
           received == [u \in Users |-> SumOver(Amount, {s \in S : to[s] = u})]
           net == [u \in Users |-> SettledNet(u)]
<1>1. IsFiniteSet(S) /\ IsFiniteSet(Users) /\ S \subseteq SettlementIds
  BY IdsAssumption, FS_Subset DEF Confirmed
<1>2. \A s \in S : Amount[s] \in Int
  <2>1. \A s \in SettlementIds : settlement[s] \in SettlementRow
    BY DEF TypeOK, TablesTypeOK
  <2>2. \A s \in SettlementIds : settlement[s].amount \in Amounts \cup {0}
    BY <2>1 DEF SettlementRow
  <2>3. Amounts \cup {0} \subseteq Int
    BY AmountsAssumption
  <2>4. \A s \in SettlementIds : Amount[s] = settlement[s].amount
    BY DEF Amount
  <2> HIDE DEF S
  <2> QED BY <1>1, <2>2, <2>3, <2>4
<1>3. from \in [S -> Users] /\ to \in [S -> Users]
  BY <1>1 DEF Filled, Confirmed
<1>4. ASSUME NEW u \in Users
      PROVE  net[u] = sent[u] - received[u]
  <2> DEFINE Sent == {s \in S : settlement[s].from = u}
             Received == {s \in S : settlement[s].to = u}
  <2>1. net[u] = Total(Sent) - Total(Received)
    BY DEF SettledNet, Confirmed, Total
  <2>2. /\ Sent = {s \in S : from[s] = u} /\ Received = {s \in S : to[s] = u}
        /\ Sent \subseteq SettlementIds /\ Received \subseteq SettlementIds
    <3> HIDE DEF S
    <3> QED BY <1>1
  <2> HIDE DEF Sent, Received, net, S
  <2>3. Total(Sent) = SumOver(Amount, Sent) /\ Total(Received) = SumOver(Amount, Received)
    BY <2>2, TotalIs
  <2> QED BY <2>1, <2>2, <2>3
<1>5. ASSUME NEW u \in Users PROVE sent[u] \in Int /\ received[u] \in Int
  <2> DEFINE Sent == {s \in S : from[s] = u}
             Received == {s \in S : to[s] = u}
  <2>1. Sent \subseteq S /\ Received \subseteq S
    OBVIOUS
  <2>2. sent[u] = SumOver(Amount, Sent) /\ received[u] = SumOver(Amount, Received)
    OBVIOUS
  <2> HIDE DEF Sent, Received, sent, received, S
  <2>3. IsFiniteSet(Sent) /\ IsFiniteSet(Received)
    BY <1>1, <2>1, FS_Subset
  <2> QED BY <1>2, <2>1, <2>2, <2>3, SumType
<1>6. SumOver(sent, Users) = SumOver(Amount, S)
  <2>1. Parts(sent, from, Amount, S, Users)
    BY DEF Parts
  <2> HIDE DEF from, sent, S
  <2> QED BY <1>1, <1>2, <1>3, <2>1, SumByOwner
<1>7. SumOver(received, Users) = SumOver(Amount, S)
  <2>1. Parts(received, to, Amount, S, Users)
    BY DEF Parts
  <2> HIDE DEF to, received, S
  <2> QED BY <1>1, <1>2, <1>3, <2>1, SumByOwner
<1>8. SumOver(net, Users) = SumOver(sent, Users) - SumOver(received, Users)
  <2> HIDE DEF net, sent, received
  <2> QED BY <1>1, <1>4, <1>5, SumMinus
<1>9. SumOver(Amount, S) \in Int
  <2> HIDE DEF S
  <2> QED BY <1>1, <1>2, SumType
<1>10. \A u \in Users : SettledNet(u) = net[u] /\ net[u] \in Int
  <2>1. \A u \in Users : net[u] \in Int
    <3> HIDE DEF net, sent, received
    <3> QED BY <1>4, <1>5
  <2> QED BY <2>1
<1>11. SumOver(net, Users) = 0
  <2> HIDE DEF net, sent, received, S
  <2> QED BY <1>6, <1>7, <1>8, <1>9
<1> QED BY <1>10, <1>11

LEMMA IInvCancels == IInv => NetsCancel
<1> SUFFICES ASSUME IInv PROVE NetsCancel
  OBVIOUS
<1> DEFINE spent == [u \in Users |-> ExpenseNet(u)]
           settled == [u \in Users |-> SettledNet(u)]
           net == [u \in Users |-> NetFor(u)]
<1>1. /\ \A u \in Users : spent[u] \in Int /\ settled[u] \in Int
      /\ SumOver(spent, Users) = 0 /\ SumOver(settled, Users) = 0
  BY ExpensesCancel, SettlementsCancel DEF IInv
<1>2. \A u \in Users : net[u] = spent[u] + settled[u]
  BY DEF NetFor
<1>3. SumOver(net, Users) = 0
  <2> HIDE DEF net, spent, settled
  <2>1. SumOver(net, Users) = SumOver(spent, Users) + SumOver(settled, Users)
    BY <1>1, <1>2, IdsAssumption, SumPlus
  <2> QED BY <1>1, <2>1
<1> QED BY <1>3, NetsAre DEF NetsCancel

(* Nobody's money appears or vanishes: whatever requests do to the books   *)
(* of a group, at the same time and dying half-way, over everyone its      *)
(* balances cancel out; what conversion to the home currency rounds away   *)
(* never remains (BalanceService::forGroup; ExpenseService's validation;   *)
(* Money::convertEffects).                                                 *)
THEOREM NothingVanishes == Spec => []NetsCancel
  BY IInvCancels, Invariance, PTL

-----------------------------------------------------------------------------
(* A read of the balances, while requests go on.                           *)

(* What forGroup makes of an expense from what it has read of it, and of   *)
(* all of them.                                                            *)
Found(e, u) ==
  Entry(convertEffects(Effects(reader.paid[e], reader.owed[e]), reader.rate[e]), u)

FoundNet(u) ==
  MapThenSumSet(LAMBDA e :
      Entry(convertEffects(Effects(reader.paid[e], reader.owed[e]), reader.rate[e]), u),
    reader.rows)

LEMMA FoundNetIs ==
  ASSUME NEW u, IsFiniteSet(reader.rows)
  PROVE  FoundNet(u) = SumOver([e \in reader.rows |-> Found(e, u)], reader.rows)
<1> DEFINE S == reader.rows
           f == [e \in S |-> Found(e, u)]
           Sums(g) == g = [s \in SUBSET S |->
             IF s = {} THEN 0 ELSE Found(Pick(s), u) + g[s \ {Pick(s)}]]
           iter == CHOOSE g : Sums(g)
<1>1. FoundNet(u) = iter[S]
  BY DEF FoundNet, MapThenSumSet, MapThenFoldSet, Pick, Found
<1>2. ASSUME NEW g PROVE IsSum(g, f, S) <=> Sums(g)
  <2>1. \A s \in SUBSET S : s # {} => f[Pick(s)] = Found(Pick(s), u)
    <3> HIDE DEF S
    <3> QED BY PickIs
  <2> HIDE DEF f, S
  <2> QED BY <2>1 DEF IsSum
<1>3. IsSum(iter, f, S)
  <2>1. PICK g : IsSum(g, f, S)
    <3> HIDE DEF f
    <3> QED BY SumExists
  <2> HIDE DEF Sums
  <2> QED BY <1>2, <2>1
<1> HIDE DEF iter, f
<1>4. iter[S] = SumOver(f, S)
  BY <1>3, SumOfIter
<1> QED BY <1>1, <1>4 DEF f

LEMMA ReadNetsAre ==
  MapThenSumSet(ReadNet, Users) = SumOver([u \in Users |-> ReadNet(u)], Users)
<1> DEFINE f == [u \in Users |-> ReadNet(u)]
           Sums(g) == g = [s \in SUBSET Users |->
             IF s = {} THEN 0 ELSE ReadNet(Pick(s)) + g[s \ {Pick(s)}]]
           iter == CHOOSE g : Sums(g)
<1>1. MapThenSumSet(ReadNet, Users) = iter[Users]
  BY DEF MapThenSumSet, MapThenFoldSet, Pick
<1>2. ASSUME NEW g PROVE IsSum(g, f, Users) <=> Sums(g)
  <2>1. \A s \in SUBSET Users : s # {} => f[Pick(s)] = ReadNet(Pick(s))
    BY PickIs
  <2> HIDE DEF f
  <2> QED BY <2>1 DEF IsSum
<1>3. IsSum(iter, f, Users)
  <2>1. PICK g : IsSum(g, f, Users)
    <3> HIDE DEF f
    <3> QED BY IdsAssumption, SumExists
  <2> HIDE DEF Sums
  <2> QED BY <1>2, <2>1
<1> HIDE DEF iter, f
<1>4. iter[Users] = SumOver(f, Users)
  BY <1>3, IdsAssumption, SumOfIter
<1> QED BY <1>1, <1>4 DEF f

(* Once read, the amounts of bills nobody rewrote cancel.                  *)
LEMMA FoundCancels ==
  ASSUME IInv, ReadInv, reader.next = "answer", rewritten = {}
  PROVE  /\ \A u \in Users : FoundNet(u) \in Int
         /\ SumOver([u \in Users |-> FoundNet(u)], Users) = 0
<1> DEFINE S == reader.rows
           m == [e \in S |-> [u \in Users |-> Found(e, u)]]
           column == [u \in Users |-> FoundNet(u)]
<1>1. IsFiniteSet(S) /\ S \subseteq ExpenseIds
  BY IdsAssumption, FS_Subset DEF ReadInv, ReaderOK
<1>2. ASSUME NEW e \in S
      PROVE  m[e] \in [Users -> Int] /\ SumOver(m[e], Users) = 0
  <2>1. expense[e].bill \in Bills /\ SoundBill(expense[e].bill)
    BY <1>1 DEF ReadInv, ReaderOK, IInv, Filled, BillsAddUp
  <2>2. /\ reader.rate[e] = expense[e].bill.rate
        /\ reader.paid[e] = expense[e].bill.paid
        /\ reader.owed[e] = expense[e].bill.owed
    BY DEF ReadInv, UpToDate
  <2>3. m[e] = [u \in Users |-> Entry(Outcome(expense[e].bill), u)]
    BY <2>2 DEF Found, Outcome
  <2> HIDE DEF m
  <2> QED BY <2>1, <2>3, BillCancels
<1>3. ASSUME NEW u \in Users
      PROVE  column[u] = SumOver([e \in S |-> m[e][u]], S)
  <2>1. [e \in S |-> m[e][u]] = [e \in S |-> Found(e, u)]
    <3> HIDE DEF S
    <3> QED OBVIOUS
  <2> QED BY <1>1, <2>1, FoundNetIs
<1>4. m \in [S -> [Users -> Int]]
  BY <1>2
<1>5. /\ \A u \in Users : column[u] \in Int
      /\ SumOver(column, Users) = 0
  <2> HIDE DEF S, m, column
  <2> QED BY <1>1, <1>2, <1>3, <1>4, LinesCancel
<1> QED BY <1>5

LEMMA ReadNetsCancel == IInv /\ ReadInv => OnlyRewritesTear
<1> SUFFICES ASSUME IInv, ReadInv, reader.next = "answer", rewritten = {}
             PROVE  MapThenSumSet(ReadNet, Users) = 0
  BY DEF OnlyRewritesTear
<1> DEFINE found == [u \in Users |-> FoundNet(u)]
           net == [u \in Users |-> ReadNet(u)]
<1>1. (\A u \in Users : found[u] \in Int) /\ SumOver(found, Users) = 0
  BY FoundCancels
<1>2. /\ \A u \in Users : reader.settled[u] \in Int
      /\ SumOver(reader.settled, Users) = 0
  BY DEF ReadInv, SettledEvenly, OverAll, SumOver, MapThenSumSet, MapThenFoldSet
<1>3. \A u \in Users : net[u] = found[u] + reader.settled[u]
  BY DEF ReadNet, FoundNet
<1>4. SumOver(net, Users) = 0
  <2> HIDE DEF net, found
  <2>1. SumOver(net, Users) = SumOver(found, Users) + SumOver(reader.settled, Users)
    BY <1>1, <1>2, <1>3, IdsAssumption, SumPlus
  <2> QED BY <1>1, <1>2, <2>1
<1> QED BY <1>4, ReadNetsAre

(* A SELECT finds what the rows say, and settlements that cancel.          *)
LEMMA SelectKeeps ==
  ASSUME IInv, ReadInv, ReadBalances
  PROVE  ReadInv'
<1> USE DEF ReadInv, ReaderOK, UpToDate, SettledEvenly
<1>1. CASE SelectRows
  <2>1. LiveExpenses \subseteq ExpenseIds /\ \A e \in LiveExpenses : expense[e].status # "absent"
    BY DEF LiveExpenses
  <2> QED BY <1>1, <2>1 DEF SelectRows, vars, tables
<1>2. CASE SelectPayers
  BY <1>2 DEF SelectPayers, vars, tables
<1>3. CASE SelectShares
  BY <1>3 DEF SelectShares, vars, tables
<1>4. CASE SelectSettlements
  <2> DEFINE settled == [u \in Users |-> SettledNet(u)]
  <2>1. settled \in [Users -> Int] /\ SumOver(settled, Users) = 0
    BY SettlementsCancel DEF IInv
  <2>2. reader'.settled = settled
    BY <1>4 DEF SelectSettlements
  <2>3. OverAll(settled) = 0
    BY <2>1 DEF OverAll, SumOver, MapThenSumSet, MapThenFoldSet
  <2>4. SettledEvenly'
    <3> HIDE DEF settled
    <3> QED BY <2>1, <2>2, <2>3
  <2>5. ReaderOK' /\ UpToDate'
    BY <1>4 DEF SelectSettlements, vars, tables
  <2> QED BY <2>4, <2>5
<1>5. CASE Answer
  BY <1>5 DEF Answer, NothingRead, vars, tables
<1> QED BY <1>1, <1>2, <1>3, <1>4, <1>5 DEF ReadBalances

(* Whatever a request writes, a row it leaves a bill says what it said.    *)
LEMMA MeanwhileKeeps ==
  ASSUME IInv, ReadInv, Meanwhile
  PROVE  ReadInv'
<1>1. UNCHANGED reader
  BY DEF Meanwhile
<1>2. \A e \in ExpenseIds :
        expense[e].status # "absent" => expense'[e].status # "absent"
  BY OnwardNext DEF Meanwhile, IInv, Onward
<1>3. \A e \in reader.rows \ rewritten' :
        e \notin rewritten /\ expense'[e].bill = expense[e].bill
  BY DEF Meanwhile
<1>4. ReaderOK' /\ SettledEvenly'
  BY <1>1, <1>2 DEF ReadInv, ReaderOK, SettledEvenly
<1>5. UpToDate'
  BY <1>1, <1>3 DEF ReadInv, UpToDate
<1> QED BY <1>4, <1>5 DEF ReadInv

LEMMA ReadersInvariance == ReadSpec => [](IInv /\ ReadInv)
<1>1. ReadInit => IInv /\ ReadInv
  <2>1. ReadInit => ReadInv
    BY DEF ReadInit, NothingRead, ReadInv, ReaderOK, UpToDate, SettledEvenly
  <2> QED BY <2>1, InitIInv DEF ReadInit
<1>2. IInv /\ ReadInv /\ [ReadNext]_readVars => (IInv /\ ReadInv)'
  <2> SUFFICES ASSUME IInv, ReadInv, [ReadNext]_readVars PROVE IInv' /\ ReadInv'
    OBVIOUS
  <2>1. CASE ReadBalances
    <3>1. UNCHANGED vars
      BY <2>1 DEF ReadBalances, SelectRows, SelectPayers, SelectShares, SelectSettlements,
         Answer
    <3> QED BY <2>1, <3>1, NextIInv, SelectKeeps
  <2>2. CASE Meanwhile
    BY <2>2, NextIInv, MeanwhileKeeps DEF Meanwhile
  <2>3. CASE UNCHANGED readVars
    <3>1. UNCHANGED vars /\ UNCHANGED <<tables, reader, rewritten>>
      BY <2>3 DEF readVars, vars
    <3>2. ReadInv'
      BY <3>1 DEF tables, ReadInv, ReaderOK, UpToDate, SettledEvenly
    <3> QED BY <3>1, <3>2, NextIInv
  <2> QED BY <2>1, <2>2, <2>3 DEF ReadNext
<1> QED BY <1>1, <1>2, PTL DEF ReadSpec

(* However many requests write while balances are read, SELECT by SELECT,  *)
(* the nets that forGroup adds up cancel, unless an update has rewritten   *)
(* an expense between the reading of its row and of its shares.            *)
THEOREM ReadsHold == ReadSpec => []OnlyRewritesTear
  BY ReadNetsCancel, ReadersInvariance, PTL

-----------------------------------------------------------------------------
(* The action properties.                                                  *)

Writes ==
  {"insertGroup", "insertFounder", "revive", "enlist", "endMembership",
   "closeAccount", "setLocked", "clearLocked", "setArchived", "eraseGroup",
   "insertInvite", "insertReceipt", "insertExpense", "rewriteExpense",
   "stampDeleted", "stampLive", "insertSettlement", "confirmSettlement",
   "deleteSettlement"}

(* In a handler that asks for an unlocked (or a settleable) group, the     *)
(* check comes before every write.                                         *)
LEMMA ScriptGuards ==
  \A op \in DOMAIN Script : \A i \in DOMAIN Script[op] :
    LET Before(s) == \E k \in DOMAIN Script[op] : k < i /\ Script[op][k] = s
    IN  Script[op][i] \in Writes =>
          /\ op \in WritableOps => Before("unlocked")
          /\ op \in SettleableOps => Before("settleable")
  BY DEF Script, Writes, WritableOps, SettleableOps

LEMMA WriteAt ==
  ASSUME NEW p \in Requests, WriteGroup(p) \/ WriteMoney(p)
  PROVE  \E s \in Writes : At(p, s)
  BY DEF WriteGroup, WriteMoney, Write, DoInsertGroup, DoInsertFounder,
     DoRevive, DoEnlist, DoEndMembership, DoCloseAccount, DoSetLocked,
     DoClearLocked, DoArchive, DoErase, DoInsertInvite, DoInsertReceipt,
     DoInsertExpense, DoRewriteExpense, DoStampDeleted, DoStampLive,
     DoInsertSettlement, DoConfirmSettlement, DoDeleteSettlement, Writes

(* A step of a request that has not passed the check its handler asks for  *)
(* leaves the tables alone.                                                *)
LEMMA UnpassedIsHarmless ==
  ASSUME TypeOK, Next, NEW p \in Requests, Acts(p), Busy(p),
         \/ job[p].op \in WritableOps /\ ~Passed(p, "unlocked")
         \/ job[p].op \in SettleableOps /\ ~Passed(p, "settleable")
  PROVE  UNCHANGED tables
<1>0. JobsTypeOK
  BY DEF TypeOK
<1>1. PICK q \in Requests : Step(q)
  BY DEF Next, DaysPass, Acts
<1>2. p = q
  BY <1>0, <1>1, BeginStep, JobStep DEF Step, Acts
<1>3. ~(WriteGroup(p) \/ WriteMoney(p))
  <2>1. SUFFICES ASSUME WriteGroup(p) \/ WriteMoney(p) PROVE FALSE
    OBVIOUS
  <2>2. PICK s \in Writes : At(p, s)
    BY <2>1, WriteAt
  <2>3. job[p].op \in DOMAIN Script /\ job[p].pc \in DOMAIN Script[job[p].op]
    BY <1>0, JobFacts
  <2>4. Script[job[p].op][job[p].pc] \in Writes
    BY <2>2 DEF At
  <2>5. /\ job[p].op \in WritableOps => Passed(p, "unlocked")
        /\ job[p].op \in SettleableOps => Passed(p, "settleable")
    BY <2>3, <2>4, ScriptGuards DEF Passed
  <2> QED BY <2>5
<1> QED
  BY <1>0, <1>1, <1>2, <1>3, BeginStep, ReadStep DEF Step, Die

(* No request that arrives after the lock gets a write of its past it, in  *)
(* any interleaving with lock and unlock (GroupService::assertWritable).   *)
THEOREM LockIsKept == Spec => LockHolds
<1>1. ASSUME IInv, [Next]_vars, NEW p \in late.lock, Acts(p),
             job[p].op \in WritableOps
      PROVE  UNCHANGED tables
  <2>1. p \in Requests /\ Busy(p) /\ ~Passed(p, "unlocked") /\ TypeOK
    BY <1>1 DEF IInv, LockBites, TypeOK
  <2>2. Next
    BY <1>1 DEF Acts, vars
  <2> QED BY <1>1, <2>1, <2>2, UnpassedIsHarmless
<1>2. IInv /\ [Next]_vars =>
        [\A p \in late.lock :
           Acts(p) /\ job[p].op \in WritableOps => UNCHANGED tables]_vars
  BY <1>1
<1> QED
  BY <1>2, Invariance, PTL DEF Spec, LockHolds

(* The same of the archive and everything that asks at least whether the   *)
(* group can be settled (GroupService::assertSettleable).                  *)
THEOREM ArchiveIsKept == Spec => ArchiveHolds
<1>1. ASSUME IInv, [Next]_vars, NEW p \in late.archive, Acts(p),
             job[p].op \in SettleableOps
      PROVE  UNCHANGED tables
  <2>1. p \in Requests /\ Busy(p) /\ ~Passed(p, "settleable") /\ TypeOK
    BY <1>1 DEF IInv, ArchiveBites, TypeOK
  <2>2. Next
    BY <1>1 DEF Acts, vars
  <2> QED BY <1>1, <2>1, <2>2, UnpassedIsHarmless
<1>2. IInv /\ [Next]_vars =>
        [\A p \in late.archive :
           Acts(p) /\ job[p].op \in SettleableOps => UNCHANGED tables]_vars
  BY <1>1
<1> QED
  BY <1>2, Invariance, PTL DEF Spec, ArchiveHolds

(* Nothing that is written about the group itself touches a settlement.    *)
LEMMA GroupLeavesSettlements ==
  ASSUME NEW p \in Requests, WriteGroup(p)
  PROVE  UNCHANGED settlement
  BY DEF WriteGroup, Write, DoInsertGroup, InsertGroup, DoInsertFounder,
     InsertMembership, DoRevive, ReviveMembership, DoEnlist, DoEndMembership,
     EndMembership, DoCloseAccount, CloseAccount, DoSetLocked, DoClearLocked,
     SetLocked, DoArchive, SetArchived, DoErase, EraseGroup, DoInsertInvite,
     InsertInvite, tables

(* A write that confirms s is one its payee asked for.                     *)
LEMMA WriteConfirms ==
  ASSUME TypeOK, Vetted, NEW p \in Requests, WriteMoney(p),
         NEW s \in SettlementIds, settlement[s].status # "confirmed",
         settlement'[s].status = "confirmed"
  PROVE  job[p].by = settlement'[s].to
<1>0. TablesTypeOK /\ JobsTypeOK /\ Busy(p)
  BY WriteStep DEF TypeOK
<1>1. CASE DoInsertSettlement(p)
  <2>1. InsertSettlement(job[p].by, job[p].body)
    BY <1>1 DEF DoInsertSettlement, Write
  <2>2. PICK r \in SettlementIds :
          settlement' = [settlement EXCEPT ![r] =
            [status |-> IF job[p].body.to = job[p].by THEN "confirmed"
                        ELSE "pending",
             from |-> job[p].body.from, to |-> job[p].body.to,
             amount |-> job[p].body.amount, by |-> job[p].by]]
    BY <2>1 DEF InsertSettlement, tables
  <2>3. r = s
    BY <1>0, <2>2 DEF TablesTypeOK
  <2> QED BY <1>0, <2>2, <2>3 DEF TablesTypeOK
<1>2. CASE DoConfirmSettlement(p)
  <2>1. ConfirmSettlement(job[p].row) /\ At(p, "confirmSettlement")
    BY <1>2 DEF DoConfirmSettlement, Write
  <2>2. job[p].row = s
    BY <1>0, <2>1 DEF ConfirmSettlement, TablesTypeOK
  <2>3. settlement[s].to = job[p].by
    BY <1>0, <2>1, <2>2, MoneyTarget DEF Vetted
  <2>4. settlement'[s].to = settlement[s].to
    BY <1>0, <2>1 DEF ConfirmSettlement, TablesTypeOK, SettlementRow
  <2> QED BY <2>3, <2>4
<1>3. CASE DoDeleteSettlement(p)
  BY <1>0, <1>3 DEF DoDeleteSettlement, Write, DeleteSettlement, TablesTypeOK,
     SettlementRow
<1>4. CASE ~(DoInsertSettlement(p) \/ DoConfirmSettlement(p)
              \/ DoDeleteSettlement(p))
  BY <1>4 DEF WriteMoney, Write, DoInsertReceipt, InsertReceipt, DoInsertExpense,
     InsertExpense, DoRewriteExpense, RewriteExpense, DoStampDeleted,
     DoStampLive, StampExpense, tables
<1> QED
  BY <1>1, <1>2, <1>3, <1>4

(* Money is counted as paid only on the word of the person it was paid to, *)
(* whatever else is in flight (SettlementService::create, confirm).        *)
THEOREM PayeeConfirms == Spec => ConfirmedByPayee
<1>1. ASSUME IInv, [Next]_vars, NEW s \in SettlementIds,
             settlement[s].status # "confirmed",
             settlement'[s].status = "confirmed"
      PROVE  \E p \in Requests : Acts(p) /\ job[p].by = settlement'[s].to
  <2>1. TypeOK /\ TablesTypeOK /\ JobsTypeOK /\ Vetted /\ Next
    BY <1>1 DEF IInv, TypeOK, vars, tables
  <2>2. ~DaysPass
    BY <1>1 DEF DaysPass, TimePasses, InviteExpires, RestoreLapses, StampExpense
  <2>3. PICK p \in Requests : Step(p)
    BY <2>1, <2>2 DEF Next
  <2>4. WriteMoney(p)
    BY <1>1, <2>1, <2>3, BeginStep, ReadStep, GroupLeavesSettlements
    DEF Step, Die, tables
  <2>5. Busy(p) /\ Finish(p)
    BY <2>4, WriteStep DEF WriteMoney, Write, DoInsertReceipt, DoInsertExpense,
       DoRewriteExpense, DoStampDeleted, DoStampLive, DoInsertSettlement,
       DoConfirmSettlement, DoDeleteSettlement
  <2>6. Acts(p)
    BY <2>1, <2>5, FinishJob DEF Acts, Busy
  <2> QED BY <1>1, <2>1, <2>4, <2>6, WriteConfirms
<1>2. IInv /\ [Next]_vars =>
        [\A s \in SettlementIds :
           settlement[s].status # "confirmed" /\ settlement'[s].status = "confirmed"
             => \E p \in Requests : Acts(p) /\ job[p].by = settlement'[s].to]_vars
  BY <1>1
<1> QED
  BY <1>2, Invariance, PTL DEF Spec, ConfirmedByPayee

-----------------------------------------------------------------------------
(* One request at a time: what it has found is still so when it writes.    *)

(* What a table of rows makes of somebody's balance.                       *)
NetIn(rows, payments, u) ==
  LET Settled == {s \in SettlementIds : payments[s].status = "confirmed"}
      Sum(S) == MapThenSumSet(LAMBDA s : payments[s].amount, S)
  IN  MapThenSumSet(LAMBDA e :
          LET b == rows[e].bill
          IN  Entry(convertEffects(Effects(b.paid, b.owed), b.rate), u),
        {e \in ExpenseIds : rows[e].status = "live"})
      + (Sum({s \in Settled : payments[s].from = u})
         - Sum({s \in Settled : payments[s].to = u}))

LEMMA NetKept ==
  ASSUME UNCHANGED <<expense, settlement>>, NEW u
  PROVE  NetFor(u)' = NetFor(u)
<1>1. NetFor(u) = NetIn(expense, settlement, u)
  BY DEF NetFor, ExpenseNet, SettledNet, LiveExpenses, NetIn
<1>2. NetFor(u)' = NetIn(expense', settlement', u)
  BY DEF NetFor, ExpenseNet, SettledNet, LiveExpenses, NetIn, MapThenSumSet,
     MapThenFoldSet
<1> QED BY <1>1, <1>2

LEMMA VerifiedKept ==
  ASSUME UNCHANGED tables, NEW p \in Requests, NEW s, Verified(p, s),
         job'[p].by = job[p].by, job'[p].row = job[p].row,
         job'[p].body = job[p].body
  PROVE  Verified(p, s)'
<1>1. UNCHANGED <<group, membership, closed, invite, expense, settlement, receipt>>
  BY DEF tables
<1>2. NetFor(job[p].by)' = NetFor(job[p].by)
  BY <1>1, NetKept
<1>3. ASSUME s = "zeroBalance" PROVE Verified(p, s)'
  BY <1>1, <1>3, NetKept DEF Verified
<1>4. s \in {"member", "settleable", "unlocked", "noExpenses", "noSettlements",
            "mayErase", "alive", "notMember", "live", "deleted"}
        => Verified(p, s)'
  BY <1>1 DEF Verified, IsMember, Settleable, Unlocked, GroupPresent,
     NoExpenseRows, NoSettlementRows, MayErase, LiveExpenses
<1>5. s \in {"validate", "twin", "parties", "mayConfirm", "mayDelete"}
        => Verified(p, s)'
  BY <1>1 DEF Verified, IsMember, GroupPresent, Validates, DuplicateOf,
     LiveExpenses
<1> QED BY <1>3, <1>4, <1>5 DEF Verified

LEMMA InitTwoSided == Init => TwoSided
  BY DEF Init, TablesInit, NoSettlement, TwoSided

LEMMA NextTwoSided ==
  ASSUME TypeOK, Vetted, TwoSided, Next
  PROVE  TwoSided'
<1>0. TablesTypeOK /\ JobsTypeOK
  BY DEF TypeOK
<1>1. CASE settlement' = settlement
  BY <1>1 DEF TwoSided
<1>2. CASE settlement' # settlement
  <2>1. PICK p \in Requests : WriteMoney(p)
    BY <1>0, <1>2, BeginStep, ReadStep, GroupLeavesSettlements
    DEF Next, Step, Die, DaysPass, TimePasses, InviteExpires, RestoreLapses,
        StampExpense, tables
  <2>2. CASE DoInsertSettlement(p)
    <3>1. job[p].body \in Deals
      BY <1>0, <2>2, MoneyTarget DEF DoInsertSettlement, Write
    <3>2. PICK r \in SettlementIds, status \in {"confirmed", "pending"} :
            settlement' = [settlement EXCEPT ![r] =
              [status |-> status, from |-> job[p].body.from,
               to |-> job[p].body.to, amount |-> job[p].body.amount,
               by |-> job[p].by]]
      BY <1>2, <2>2 DEF DoInsertSettlement, Write, InsertSettlement, tables
    <3>3. job[p].body.from # job[p].body.to
      BY <3>1 DEF Deals
    <3> QED BY <1>0, <3>2, <3>3 DEF TwoSided, TablesTypeOK
  <2>3. CASE DoConfirmSettlement(p) \/ DoDeleteSettlement(p)
    <3>1. job[p].row \in SettlementIds /\ settlement[job[p].row].status # "absent"
      BY <1>0, <2>3, MoneyTarget DEF DoConfirmSettlement, DoDeleteSettlement, Write,
         At, Vetted
    <3>2. \A s \in SettlementIds :
            /\ settlement'[s].from = settlement[s].from
            /\ settlement'[s].to = settlement[s].to
            /\ s # job[p].row => settlement'[s].status = settlement[s].status
      BY <1>0, <2>3, <3>1 DEF DoConfirmSettlement, DoDeleteSettlement, Write,
         ConfirmSettlement, DeleteSettlement, TablesTypeOK, SettlementRow
    <3> QED BY <3>1, <3>2 DEF TwoSided
  <2> QED BY <1>2, <2>1, <2>2, <2>3 DEF WriteMoney, Write, DoInsertReceipt,
       InsertReceipt, DoInsertExpense, InsertExpense, DoRewriteExpense,
       RewriteExpense, DoStampDeleted, DoStampLive, StampExpense, tables
<1> QED BY <1>1, <1>2

(* How the two statements that seat somebody are come to.                  *)
LEMMA ScriptEntry ==
  \A op \in DOMAIN Script : \A i \in DOMAIN Script[op] :
    /\ Script[op][1] \notin {"revive", "enlist"}
    /\ Script[op][i] \in Checks =>
         /\ Script[op][i + 1] # "enlist"
         /\ Script[op][i + 1] = "revive" => op # "join"
    /\ Script[op][i] = "readRow" =>
         op = "join" /\ Script[op][i + 1] = "revive" /\ Script[op][i + 2] = "enlist"
    /\ Script[op][i] = "revive" => Script[op][i + 1] = "enlist"
    /\ Script[op][i] = "insertGroup" =>
         op = "found" /\ i = 1 /\ Script[op][2] = "insertFounder"
  BY DEF Script, Checks

LEMMA BeginWellMade ==
  ASSUME JobsTypeOK, NEW p \in Requests, Begin(p)
  PROVE  WellMade(p)'
<1>1. /\ job'[p].op \in DOMAIN Script /\ job'[p].pc = 1
  BY BeginStep
<1>2. ~At(p, "revive")' /\ ~At(p, "enlist")'
  <2>1. 1 \in DOMAIN Script[job'[p].op]
    BY <1>1 DEF Script
  <2> QED BY <1>1, <2>1, ScriptEntry DEF At
<1>3. /\ job'[p].op = "found" => job'[p].by = Creator
      /\ job'[p].op = "pay" =>
           job'[p].by \in {job'[p].body.from, job'[p].body.to}
  BY DEF Begin, BeginPlain, BeginFound, BeginJoin, BeginAdd, BeginCreate,
     BeginUpdate, BeginOnExpense, BeginPay, BeginOnSettlement, Arrive, PlainOps,
     JobsTypeOK
<1> QED BY <1>2, <1>3 DEF WellMade

(* A request that goes on after its step has left the rows as they were,   *)
(* but for the founder's, which has checked nothing.                       *)
LEMMA GoesOnQuietly ==
  ASSUME TypeOK, NEW p \in Requests,
         Read(p) \/ WriteGroup(p) \/ WriteMoney(p) \/ Die(p), Busy(p)'
  PROVE  /\ UNCHANGED tables \/ (At(p, "insertGroup") /\ Advance(p))
         /\ \/ \E s \in Checks \cup {"insertGroup"} : At(p, s) /\ Advance(p)
            \/ At(p, "revive") /\ Advance(p) /\ membership[job[p].row] = "none"
            \/ /\ At(p, "readRow")
               /\ \/ Advance(p) /\ membership[job[p].row] = "left"
                  \/ /\ job' = [job EXCEPT ![p].pc = @ + 2]
                     /\ membership[job[p].row] = "none"
<1>0. JobsTypeOK /\ TablesTypeOK
  BY DEF TypeOK
<1>1. ~Finish(p)
  BY <1>0, FinishJob
<1>2. CASE ReadMembershipRow(p)
  BY <1>1, <1>2 DEF ReadMembershipRow
<1>3. CASE Read(p) /\ ~ReadMembershipRow(p)
  <2>1. ~At(p, "readRow")
    BY <1>3 DEF Read, AssertMember, AssertSettleable, AssertUnlocked,
       CountExpenses, CountSettlements, CheckMayErase, FindInvite, CheckAlive,
       CheckNotMember, CheckZeroBalance, FindLive, FindDeleted, Validate,
       CheckDuplicate, AssertParties, CheckMayConfirm, CheckMayDelete, Check, At
  <2> QED BY <1>1, <1>3, <2>1, ReadStep
<1>4. CASE DoInsertGroup(p)
  BY <1>4 DEF DoInsertGroup
<1>5. CASE DoRevive(p)
  <2>1. membership[job[p].row] = "none" /\ At(p, "revive") /\ Advance(p)
        /\ ReviveMembership(job[p].row)
    BY <1>1, <1>5 DEF DoRevive
  <2>2. membership' = membership
    BY <1>0, <2>1 DEF ReviveMembership, TablesTypeOK
  <2> QED BY <2>1, <2>2 DEF ReviveMembership, tables
<1>6. CASE (WriteGroup(p) \/ WriteMoney(p)) /\ ~DoInsertGroup(p) /\ ~DoRevive(p)
  BY <1>1, <1>6 DEF WriteGroup, WriteMoney, Write, DoInsertFounder, DoEnlist,
     DoEndMembership, DoCloseAccount, DoSetLocked, DoClearLocked, DoArchive,
     DoErase, DoInsertInvite, DoInsertReceipt, DoInsertExpense,
     DoRewriteExpense, DoStampDeleted, DoStampLive, DoInsertSettlement,
     DoConfirmSettlement, DoDeleteSettlement
<1>7. ~Die(p)
  BY <1>1 DEF Die
<1> QED BY <1>2, <1>3, <1>4, <1>5, <1>6, <1>7

LEMMA PcMoves ==
  ASSUME JobsTypeOK, NEW p \in Requests, Busy(p), NEW n \in {1, 2},
         job' = [job EXCEPT ![p].pc = @ + n]
  PROVE  job'[p].pc = job[p].pc + n
<1>1. job[p] \in JobOf(job[p].op) /\ job'[p] = [job[p] EXCEPT !.pc = @ + n]
  BY JobFacts DEF JobsTypeOK
<1> QED BY <1>1 DEF JobOf

LEMMA StepWellMade ==
  ASSUME TypeOK, NEW p \in Requests, WellMade(p),
         Read(p) \/ WriteGroup(p) \/ WriteMoney(p) \/ Die(p), Busy(p)'
  PROVE  WellMade(p)'
<1>0. JobsTypeOK
  BY DEF TypeOK
<1>1. /\ Busy(p)
      /\ job'[p].op = job[p].op /\ job'[p].by = job[p].by
      /\ job'[p].row = job[p].row /\ job'[p].body = job[p].body
  BY <1>0, JobStep
<1>2. job[p].op \in DOMAIN Script /\ job[p].pc \in DOMAIN Script[job[p].op]
  BY <1>0, <1>1, JobFacts
<1>3. /\ At(p, "revive")' /\ job[p].op = "join" => membership'[job[p].row] = "left"
      /\ At(p, "enlist")' => membership'[job[p].row] = "none"
  <2>1. ASSUME NEW s \in Checks \cup {"insertGroup"}, At(p, s), Advance(p)
        PROVE  /\ ~At(p, "enlist")'
               /\ At(p, "revive")' => job[p].op # "join"
    <3>1. job'[p].pc = job[p].pc + 1
      BY <1>0, <1>1, <2>1, PcMoves DEF Advance
    <3> QED BY <1>1, <1>2, <2>1, <3>1, ScriptEntry DEF At
  <2>2. CASE At(p, "revive") /\ Advance(p) /\ membership[job[p].row] = "none"
    <3>1. job'[p].pc = job[p].pc + 1
      BY <1>0, <1>1, <2>2, PcMoves DEF Advance
    <3>2. ~At(p, "revive")' /\ membership' = membership
      BY <1>1, <1>2, <2>2, <3>1, ScriptEntry, GoesOnQuietly DEF At, tables
    <3> QED BY <2>2, <3>2
  <2>3. CASE At(p, "readRow") /\ Advance(p) /\ membership[job[p].row] = "left"
    <3>1. job'[p].pc = job[p].pc + 1
      BY <1>0, <1>1, <2>3, PcMoves DEF Advance
    <3>2. ~At(p, "enlist")' /\ membership' = membership
      BY <1>1, <1>2, <2>3, <3>1, ScriptEntry, GoesOnQuietly DEF At, tables
    <3> QED BY <2>3, <3>2
  <2>4. CASE /\ At(p, "readRow") /\ job' = [job EXCEPT ![p].pc = @ + 2]
             /\ membership[job[p].row] = "none"
    <3>1. job'[p].pc = job[p].pc + 2
      BY <1>0, <1>1, <2>4, PcMoves
    <3>2. ~At(p, "revive")' /\ membership' = membership
      BY <1>1, <1>2, <2>4, <3>1, ScriptEntry, GoesOnQuietly DEF At, tables
    <3> QED BY <2>4, <3>2
  <2> QED BY <2>1, <2>2, <2>3, <2>4, GoesOnQuietly
<1> QED BY <1>1, <1>3 DEF WellMade

LEMMA InitStillSo == Init => StillSo
  BY InitTwoSided DEF Init, StillSo, Busy, Idle

LEMMA NextStillSo ==
  ASSUME OneAtATime, TypeOK, Vetted, StillSo, Next
  PROVE  StillSo'
<1>0. JobsTypeOK
  BY DEF TypeOK
<1>1. TwoSided'
  BY NextTwoSided DEF StillSo
<1> SUFFICES ASSUME NEW p \in Requests, Busy(p)'
             PROVE  /\ WellMade(p)'
                    /\ \A s \in Checks : Passed(p, s)' => Verified(p, s)'
  BY <1>1 DEF StillSo
<1>2. PICK q \in Requests : Step(q)
  BY DEF Next, DaysPass, Busy
<1>3. p = q
  BY DEF OneAtATime
<1>4. CASE Begin(p)
  <2>1. ~Busy(p)
    BY <1>0, <1>4, BeginStep
  <2>2. \A s \in Checks : ~Passed(p, s)'
    BY <2>1, Remembers
  <2> QED BY <1>0, <1>4, <2>2, BeginWellMade
<1>5. CASE Read(p) \/ WriteGroup(p) \/ WriteMoney(p) \/ Die(p)
  <2>1. /\ Busy(p)
        /\ job'[p].op = job[p].op /\ job'[p].by = job[p].by
        /\ job'[p].row = job[p].row /\ job'[p].body = job[p].body
    BY <1>0, <1>5, JobStep
  <2>2. WellMade(p)'
    BY <1>5, <2>1, StepWellMade DEF StillSo
  <2>3. ASSUME NEW s \in Checks, Passed(p, s)' PROVE Verified(p, s)'
    <3>1. Verified(p, s)
      <4>1. Passed(p, s) => Verified(p, s)
        BY <2>1 DEF StillSo
      <4> QED BY <2>1, <2>3, <4>1, Remembers
    <3>2. CASE UNCHANGED tables
      BY <2>1, <3>1, <3>2, VerifiedKept
    <3>3. CASE At(p, "insertGroup") /\ Advance(p)
      <4>1. job[p].op \in DOMAIN Script /\ job[p].pc \in DOMAIN Script[job[p].op]
        BY <1>0, <2>1, JobFacts
      <4>2. job[p].pc = 1 /\ job[p].op = "found"
        BY <3>3, <4>1, ScriptEntry DEF At
      <4>3. job'[p].pc = 2
        <5>1. job'[p].pc = job[p].pc + 1
          BY <1>0, <2>1, <3>3, PcMoves DEF Advance
        <5> QED BY <4>2, <5>1
      <4>4. ~Passed(p, s)'
        BY <2>1, <4>2, <4>3 DEF Passed, Script, Checks
      <4> QED BY <2>3, <4>4
    <3> QED BY <1>5, <3>2, <3>3, GoesOnQuietly
  <2> QED BY <2>2, <2>3
<1> QED BY <1>2, <1>3, <1>4, <1>5 DEF Step

LEMMA AloneInvariance ==
  ASSUME OneAtATime
  PROVE  Spec => [](IInv /\ StillSo)
<1>1. Init => IInv /\ StillSo
  BY InitIInv, InitStillSo
<1>2. IInv /\ StillSo /\ [Next]_vars => (IInv /\ StillSo)'
  <2>1. CASE Next
    BY <2>1, NextIInv, NextStillSo DEF IInv
  <2>2. ASSUME IInv, StillSo, UNCHANGED vars PROVE (IInv /\ StillSo)'
    <3>1. IInv'
      BY <2>2, NextIInv
    <3>2. \A p \in Requests : \A s : Verified(p, s) => Verified(p, s)'
      BY <2>2, VerifiedKept DEF vars
    <3> QED BY <2>2, <3>1, <3>2 DEF StillSo, TwoSided, WellMade, Busy, At, Passed,
         vars, tables
  <2> QED BY <2>1, <2>2
<1> QED BY <1>1, <1>2, PTL DEF Spec

(* What a request has verified, and still finds so, at each write.         *)
LEMMA ScriptRules ==
  \A op \in DOMAIN Script : \A i \in DOMAIN Script[op] :
    LET Before(s) == \E k \in DOMAIN Script[op] : k < i /\ Script[op][k] = s
        write == Script[op][i]
    IN  /\ write \in {"insertGroup", "insertFounder"} => op = "found"
        /\ write \in {"setLocked", "clearLocked"} =>
             Before("member") /\ Before("settleable")
        /\ write \in {"setArchived", "endMembership", "stampLive"} =>
             Before("member")
        /\ write = "eraseGroup" =>
             /\ Before("member") /\ Before("noExpenses")
             /\ Before("noSettlements") /\ Before("mayErase")
        /\ write \in {"insertInvite", "insertReceipt", "insertExpense",
                      "rewriteExpense", "stampDeleted"} =>
             Before("member") /\ Before("settleable") /\ Before("unlocked")
        /\ write \in {"revive", "enlist"} =>
             \/ op = "join" /\ Before("settleable")
             \/ /\ op = "add"
                /\ Before("member") /\ Before("settleable") /\ Before("unlocked")
                /\ Before("alive") /\ Before("notMember")
        /\ write = "endMembership" => Before("zeroBalance")
        /\ write = "insertExpense" => Before("twin") /\ Before("validate")
        /\ write = "rewriteExpense" => Before("live") /\ Before("validate")
        /\ write = "stampDeleted" => Before("live")
        /\ write = "stampLive" => Before("deleted")
        /\ write = "insertSettlement" =>
             op = "pay" /\ Before("settleable") /\ Before("parties")
        /\ write = "confirmSettlement" => Before("mayConfirm")
        /\ write = "deleteSettlement" => Before("mayDelete")
  BY DEF Script

LEMMA GroupWritesAreDue ==
  ASSUME JobsTypeOK, StillSo, NEW p \in Requests, Busy(p)
  PROVE  /\ At(p, "insertGroup") \/ At(p, "insertFounder") => job[p].by = Creator
         /\ At(p, "setLocked") \/ At(p, "clearLocked") =>
              IsMember(job[p].by) /\ Settleable
         /\ At(p, "setArchived") => IsMember(job[p].by)
         /\ At(p, "eraseGroup") =>
              /\ IsMember(job[p].by) /\ MayErase(job[p].by)
              /\ NoExpenseRows /\ NoSettlementRows
         /\ At(p, "insertInvite") => IsMember(job[p].by) /\ Settleable /\ Unlocked
         /\ At(p, "endMembership") => IsMember(job[p].by) /\ NetFor(job[p].by) = 0
<1>1. job[p].op \in DOMAIN Script /\ job[p].pc \in DOMAIN Script[job[p].op]
  BY JobFacts
<1>2. /\ WellMade(p)
      /\ \A s \in Checks : Passed(p, s) => Verified(p, s)
  BY DEF StillSo
<1>3. At(p, "insertGroup") \/ At(p, "insertFounder") => job[p].by = Creator
  BY <1>1, <1>2, ScriptRules DEF At, WellMade
<1>4. At(p, "setLocked") \/ At(p, "clearLocked") =>
        Passed(p, "member") /\ Passed(p, "settleable")
  BY <1>1, ScriptRules DEF At, Passed
<1>5. At(p, "setArchived") => Passed(p, "member")
  BY <1>1, ScriptRules DEF At, Passed
<1>6. At(p, "eraseGroup") =>
        /\ Passed(p, "member") /\ Passed(p, "mayErase")
        /\ Passed(p, "noExpenses") /\ Passed(p, "noSettlements")
  BY <1>1, ScriptRules DEF At, Passed
<1>7. At(p, "insertInvite") =>
        Passed(p, "member") /\ Passed(p, "settleable") /\ Passed(p, "unlocked")
  BY <1>1, ScriptRules DEF At, Passed
<1>8. At(p, "endMembership") => Passed(p, "member") /\ Passed(p, "zeroBalance")
  BY <1>1, ScriptRules DEF At, Passed
<1> QED
  BY <1>2, <1>3, <1>4, <1>5, <1>6, <1>7, <1>8 DEF Checks, Verified

LEMMA SeatsAreDue ==
  ASSUME JobsTypeOK, StillSo, NEW p \in Requests, Busy(p),
         At(p, "revive") \/ At(p, "enlist")
  PROVE  /\ job[p].row \in Users /\ Settleable
         /\ At(p, "enlist") => membership[job[p].row] = "none"
         /\ \/ At(p, "revive") => membership[job[p].row] = "left"
            \/ /\ IsMember(job[p].by) /\ Unlocked
               /\ job[p].row \notin closed /\ ~IsMember(job[p].row)
<1>1. job[p].op \in DOMAIN Script /\ job[p].pc \in DOMAIN Script[job[p].op]
  BY JobFacts
<1>2. /\ WellMade(p)
      /\ \A s \in Checks : Passed(p, s) => Verified(p, s)
  BY DEF StillSo
<1>3. /\ Passed(p, "settleable") /\ job[p].op \in {"join", "add"}
      /\ job[p].op = "add" =>
           /\ Passed(p, "member") /\ Passed(p, "unlocked")
           /\ Passed(p, "alive") /\ Passed(p, "notMember")
  BY <1>1, ScriptRules DEF At, Passed
<1>4. job[p].row \in Users
  BY <1>3, JobFacts DEF RowOf
<1> QED
  BY <1>2, <1>3, <1>4 DEF Checks, Verified, WellMade

LEMMA MoneyWritesAreDue ==
  ASSUME JobsTypeOK, StillSo, NEW p \in Requests, Busy(p)
  PROVE  /\ (At(p, "insertReceipt") \/ At(p, "insertExpense")
             \/ At(p, "rewriteExpense") \/ At(p, "stampDeleted"))
              => IsMember(job[p].by) /\ Settleable /\ Unlocked
         /\ At(p, "insertExpense") =>
              /\ Validates(job[p].body)
              /\ job[p].body.force \/ ~DuplicateOf(job[p].body.bill)
         /\ At(p, "rewriteExpense") =>
              job[p].row \in LiveExpenses /\ Validates(job[p].body)
         /\ At(p, "stampDeleted") => job[p].row \in LiveExpenses
         /\ At(p, "stampLive") =>
              expense[job[p].row].status = "deleted" /\ IsMember(job[p].by)
         /\ At(p, "insertSettlement") =>
              /\ job[p].by \in {job[p].body.from, job[p].body.to} /\ Settleable
              /\ IsMember(job[p].body.from) /\ IsMember(job[p].body.to)
         /\ At(p, "confirmSettlement") => Verified(p, "mayConfirm")
         /\ At(p, "deleteSettlement") => Verified(p, "mayDelete")
<1>1. job[p].op \in DOMAIN Script /\ job[p].pc \in DOMAIN Script[job[p].op]
  BY JobFacts
<1>2. /\ WellMade(p)
      /\ \A s \in Checks : Passed(p, s) => Verified(p, s)
  BY DEF StillSo
<1>3. (At(p, "insertReceipt") \/ At(p, "insertExpense")
       \/ At(p, "rewriteExpense") \/ At(p, "stampDeleted"))
        => Passed(p, "member") /\ Passed(p, "settleable") /\ Passed(p, "unlocked")
  BY <1>1, ScriptRules DEF At, Passed
<1>4. /\ At(p, "insertExpense") => Passed(p, "validate") /\ Passed(p, "twin")
      /\ At(p, "rewriteExpense") => Passed(p, "live") /\ Passed(p, "validate")
      /\ At(p, "stampDeleted") => Passed(p, "live")
      /\ At(p, "stampLive") => Passed(p, "deleted") /\ Passed(p, "member")
  BY <1>1, ScriptRules DEF At, Passed
<1>5. /\ At(p, "insertSettlement") =>
           /\ job[p].op = "pay"
           /\ Passed(p, "settleable") /\ Passed(p, "parties")
      /\ At(p, "confirmSettlement") => Passed(p, "mayConfirm")
      /\ At(p, "deleteSettlement") => Passed(p, "mayDelete")
  BY <1>1, ScriptRules DEF At, Passed
<1>6. /\ At(p, "confirmSettlement") => Verified(p, "mayConfirm")
      /\ At(p, "deleteSettlement") => Verified(p, "mayDelete")
  BY <1>2, <1>5 DEF Checks
<1> QED
  BY <1>2, <1>3, <1>4, <1>5, <1>6 DEF Checks, Verified, WellMade

(* GroupRules reads and writes the same rows by the same definitions.      *)
LEMMA RulesRead ==
  /\ \A u : /\ Rules!IsMember(u) <=> IsMember(u)
            /\ Rules!MayErase(u) <=> MayErase(u)
            /\ Rules!NetFor(u) = NetFor(u)
  /\ Rules!Settleable <=> Settleable
  /\ Rules!Unlocked <=> Unlocked
  /\ Rules!NoExpenseRows <=> NoExpenseRows
  /\ Rules!NoSettlementRows <=> NoSettlementRows
  /\ Rules!LiveExpenses = LiveExpenses
  /\ \A post : Rules!Validates(post) <=> Validates(post)
  /\ \A b : Rules!DuplicateOf(b) <=> DuplicateOf(b)
  /\ Rules!Posts = Posts /\ Rules!Deals = Deals
<1>1. \A u : Rules!NetFor(u) = NetFor(u)
  BY DEF Rules!NetFor, NetFor, Rules!ExpenseNet, ExpenseNet, Rules!SettledNet,
     SettledNet, Rules!LiveExpenses, LiveExpenses, Rules!convertEffects,
     convertEffects, Rules!Effects, Effects, Rules!Entry, Entry,
     Rules!Convert, Convert, Rules!MapThenSumSet, MapThenSumSet,
     Rules!MapThenFoldSet, MapThenFoldSet
<1>2. \A b : Rules!SoundBill(b) <=> SoundBill(b)
  BY DEF Rules!SoundBill, SoundBill, Rules!MapThenSumSet, MapThenSumSet,
     Rules!MapThenFoldSet, MapThenFoldSet
<1>3. \A post : Rules!Validates(post) <=> Validates(post)
  BY <1>2 DEF Rules!Validates, Validates, Rules!Parties, Parties,
     Rules!IsMember, IsMember, Rules!GroupPresent, GroupPresent
<1>4. \A b : Rules!DuplicateOf(b) <=> DuplicateOf(b)
  BY DEF Rules!DuplicateOf, DuplicateOf, Rules!Twins, Twins,
     Rules!LiveExpenses, LiveExpenses
<1>5. /\ \A u : /\ Rules!IsMember(u) <=> IsMember(u)
                /\ Rules!MayErase(u) <=> MayErase(u)
      /\ Rules!Settleable <=> Settleable
      /\ Rules!Unlocked <=> Unlocked
      /\ Rules!NoExpenseRows <=> NoExpenseRows
      /\ Rules!NoSettlementRows <=> NoSettlementRows
      /\ Rules!LiveExpenses = LiveExpenses
      /\ Rules!Posts = Posts /\ Rules!Deals = Deals
  BY DEF Rules!IsMember, IsMember, Rules!MayErase, MayErase, Rules!Cardinality,
     Cardinality, Rules!GroupPresent,
     GroupPresent, Rules!Settleable, Settleable, Rules!Unlocked, Unlocked,
     Rules!NoExpenseRows, NoExpenseRows, Rules!NoSettlementRows,
     NoSettlementRows, Rules!LiveExpenses, LiveExpenses, Rules!Posts, Posts,
     Rules!Deals, Deals
<1> QED BY <1>1, <1>3, <1>4, <1>5

LEMMA RulesWriteGroup ==
  /\ InsertGroup => Rules!InsertGroup
  /\ \A u : /\ InsertMembership(u) => Rules!InsertMembership(u)
            /\ ReviveMembership(u) => Rules!ReviveMembership(u)
            /\ EndMembership(u) => Rules!EndMembership(u)
            /\ CloseAccount(u) => Rules!CloseAccount(u)
  /\ \A b : SetLocked(b) => Rules!SetLocked(b)
  /\ SetArchived => Rules!SetArchived
  /\ InsertInvite => Rules!InsertInvite
  BY DEF InsertGroup, Rules!InsertGroup, InsertMembership,
     Rules!InsertMembership, ReviveMembership, Rules!ReviveMembership,
     EndMembership, Rules!EndMembership, CloseAccount, Rules!CloseAccount,
     SetLocked, Rules!SetLocked, SetArchived, Rules!SetArchived, InsertInvite,
     Rules!InsertInvite, GroupPresent, Rules!GroupPresent

LEMMA RulesErase == EraseGroup => Rules!EraseGroup
  BY DEF EraseGroup, Rules!EraseGroup, GroupPresent, Rules!GroupPresent,
     NoExpenseRows, Rules!NoExpenseRows, NoSettlementRows,
     Rules!NoSettlementRows, tables, Rules!tables

LEMMA RulesReceipt == InsertReceipt => Rules!InsertReceipt
  BY DEF InsertReceipt, Rules!InsertReceipt, GroupPresent, Rules!GroupPresent,
     tables, Rules!tables

LEMMA RulesCreate == \A post : InsertExpense(post) => Rules!InsertExpense(post)
  BY DEF InsertExpense, Rules!InsertExpense, GroupPresent, Rules!GroupPresent,
     FirstSlip, Rules!FirstSlip, LinkReceipts, Rules!LinkReceipts, tables,
     Rules!tables

LEMMA RulesRewrite ==
  /\ \A e, post : RewriteExpense(e, post) => Rules!RewriteExpense(e, post)
  /\ \A e, status : StampExpense(e, status) => Rules!StampExpense(e, status)
  BY DEF RewriteExpense, Rules!RewriteExpense, StampExpense,
     Rules!StampExpense, FirstSlip, Rules!FirstSlip, LinkReceipts,
     Rules!LinkReceipts

LEMMA RulesSettle ==
  /\ \A u, deal : InsertSettlement(u, deal) => Rules!InsertSettlement(u, deal)
  /\ \A s : /\ ConfirmSettlement(s) => Rules!ConfirmSettlement(s)
            /\ DeleteSettlement(s) => Rules!DeleteSettlement(s)
  BY DEF InsertSettlement, Rules!InsertSettlement, GroupPresent,
     Rules!GroupPresent, tables, Rules!tables, ConfirmSettlement,
     Rules!ConfirmSettlement, DeleteSettlement, Rules!DeleteSettlement

LEMMA RulesTime == TimePasses => Rules!TimePasses
  BY RulesRewrite DEF TimePasses, Rules!TimePasses, InviteExpires,
     Rules!InviteExpires, RestoreLapses, Rules!RestoreLapses

-----------------------------------------------------------------------------
(* Each write is the operation its handler is for.                         *)

LEMMA GroupWriteImplements ==
  ASSUME TypeOK, StillSo, NEW p \in Requests, WriteGroup(p)
  PROVE  Rules!Next \/ UNCHANGED tables
<1>0. JobsTypeOK /\ TablesTypeOK /\ Busy(p) /\ job[p].by \in Users
  BY WriteStep, JobFacts DEF TypeOK
<1> USE RulesRead, RulesWriteGroup, GroupWritesAreDue
<1>1. CASE DoInsertGroup(p)
  <2>1. CASE group.row = "unborn"
    <3>1. Rules!FoundGroup(job[p].by)
      BY <1>0, <1>1, <2>1 DEF DoInsertGroup, Rules!FoundGroup
    <3> QED BY <1>0, <3>1 DEF Rules!Next, Rules!GroupOperation
  <2>2. CASE group.row # "unborn"
    BY <1>0, <1>1, <2>2 DEF DoInsertGroup, InsertGroup, TablesTypeOK, tables
  <2> QED BY <2>1, <2>2
<1>2. CASE DoInsertFounder(p)
  <2>1. CASE membership[job[p].by] = "none"
    <3>1. Rules!SeatFounder(job[p].by)
      BY <1>0, <1>2, <2>1 DEF DoInsertFounder, Write, Rules!SeatFounder
    <3> QED BY <1>0, <3>1 DEF Rules!Next, Rules!GroupOperation
  <2>2. CASE membership[job[p].by] # "none"
    BY <1>0, <1>2, <2>2 DEF DoInsertFounder, Write, InsertMembership,
       TablesTypeOK, tables
  <2> QED BY <2>1, <2>2
<1>3. CASE DoRevive(p) \/ DoEnlist(p)
  <2>1. At(p, "revive") \/ At(p, "enlist")
    BY <1>3 DEF DoRevive, DoEnlist, Write
  <2>2. /\ job[p].row \in Users /\ Settleable
        /\ At(p, "enlist") => membership[job[p].row] = "none"
        /\ \/ At(p, "revive") => membership[job[p].row] = "left"
           \/ /\ IsMember(job[p].by) /\ Unlocked
              /\ job[p].row \notin closed /\ ~IsMember(job[p].row)
    BY <1>0, <2>1, SeatsAreDue
  <2>3. \/ At(p, "revive") /\ ReviveMembership(job[p].row)
        \/ membership[job[p].row] = "none" /\ InsertMembership(job[p].row)
    BY <1>3, <2>2 DEF DoRevive, DoEnlist, Write
  <2>4. CASE At(p, "revive") => membership[job[p].row] = "left"
    <3>1. Rules!Join(job[p].row)
      BY <2>2, <2>3, <2>4 DEF Rules!Join
    <3> QED BY <2>2, <3>1 DEF Rules!Next, Rules!GroupOperation
  <2>5. CASE /\ IsMember(job[p].by) /\ Unlocked
             /\ job[p].row \notin closed /\ ~IsMember(job[p].row)
    <3>1. Rules!AddKnownMember(job[p].by, job[p].row)
      BY <2>2, <2>3, <2>5 DEF Rules!AddKnownMember, Rules!Writer
    <3> QED BY <1>0, <2>2, <3>1 DEF Rules!Next, Rules!GroupOperation
  <2> QED BY <2>2, <2>4, <2>5
<1>4. CASE DoEndMembership(p)
  <2>1. Rules!Leave(job[p].by)
    BY <1>0, <1>4 DEF DoEndMembership, Write, Rules!Leave
  <2> QED BY <1>0, <2>1 DEF Rules!Next, Rules!GroupOperation
<1>5. CASE DoCloseAccount(p)
  BY <1>0, <1>5 DEF DoCloseAccount, Write, Rules!Next, Rules!GroupOperation
<1>6. CASE DoSetLocked(p) \/ DoClearLocked(p)
  <2>1. Rules!Lock(job[p].by) \/ Rules!Unlock(job[p].by)
    BY <1>0, <1>6 DEF DoSetLocked, DoClearLocked, Write, Rules!Lock, Rules!Unlock
  <2> QED BY <1>0, <2>1 DEF Rules!Next, Rules!GroupOperation
<1>7. CASE DoArchive(p)
  <2>1. Rules!Archive(job[p].by)
    BY <1>0, <1>7 DEF DoArchive, Write, Rules!Archive
  <2> QED BY <1>0, <2>1 DEF Rules!Next, Rules!GroupOperation
<1>8. CASE DoErase(p)
  <2>1. Rules!Erase(job[p].by)
    BY <1>0, <1>8, RulesErase DEF DoErase, Write, Rules!Erase
  <2> QED BY <1>0, <2>1 DEF Rules!Next, Rules!GroupOperation
<1>9. CASE DoInsertInvite(p)
  <2>1. Rules!CreateInvite(job[p].by)
    BY <1>0, <1>9 DEF DoInsertInvite, Write, Rules!CreateInvite, Rules!Writer
  <2> QED BY <1>0, <2>1 DEF Rules!Next, Rules!GroupOperation
<1> QED
  BY <1>1, <1>2, <1>3, <1>4, <1>5, <1>6, <1>7, <1>8, <1>9 DEF WriteGroup

LEMMA MoneyWriteImplements ==
  ASSUME TypeOK, StillSo, NEW p \in Requests, WriteMoney(p)
  PROVE  Rules!Next
<1>0. JobsTypeOK /\ Busy(p) /\ job[p].by \in Users
  BY WriteStep, JobFacts DEF TypeOK
<1>1. CASE DoInsertReceipt(p)
  <2>1. Rules!Upload(job[p].by)
    BY <1>0, <1>1, RulesRead, RulesReceipt, MoneyWritesAreDue
    DEF DoInsertReceipt, Write, Rules!Upload, Rules!Writer
  <2> QED BY <1>0, <2>1 DEF Rules!Next, Rules!ExpenseOperation
<1>2. CASE DoInsertExpense(p)
  <2>1. job[p].body \in Rules!Posts
    BY <1>0, <1>2, MoneyTarget, RulesRead DEF DoInsertExpense, Write
  <2>2. Rules!CreateExpense(job[p].by, job[p].body)
    BY <1>0, <1>2, RulesRead, RulesCreate, MoneyWritesAreDue
    DEF DoInsertExpense, Write, Rules!CreateExpense, Rules!Writer
  <2> QED BY <1>0, <2>1, <2>2 DEF Rules!Next, Rules!ExpenseOperation
<1>3. CASE DoRewriteExpense(p)
  <2>1. job[p].row \in ExpenseIds /\ job[p].body \in Rules!Posts
    BY <1>0, <1>3, MoneyTarget, RulesRead DEF DoRewriteExpense, Write
  <2>2. Rules!UpdateExpense(job[p].by, job[p].row, job[p].body)
    BY <1>0, <1>3, RulesRead, RulesRewrite, MoneyWritesAreDue
    DEF DoRewriteExpense, Write, Rules!UpdateExpense, Rules!Writer
  <2> QED BY <1>0, <2>1, <2>2 DEF Rules!Next, Rules!ExpenseOperation
<1>4. CASE DoStampDeleted(p) \/ DoStampLive(p)
  <2>1. job[p].row \in ExpenseIds
    BY <1>0, <1>4, MoneyTarget DEF DoStampDeleted, DoStampLive, Write
  <2>2. Rules!SoftDelete(job[p].by, job[p].row) \/ Rules!Restore(job[p].by, job[p].row)
    BY <1>0, <1>4, RulesRead, RulesRewrite, MoneyWritesAreDue
    DEF DoStampDeleted, DoStampLive, Write, Rules!SoftDelete, Rules!Restore,
        Rules!Writer
  <2> QED BY <1>0, <2>1, <2>2 DEF Rules!Next, Rules!ExpenseOperation
<1>5. CASE DoInsertSettlement(p)
  <2>1. job[p].body \in Rules!Deals
    BY <1>0, <1>5, MoneyTarget, RulesRead DEF DoInsertSettlement, Write
  <2>2. Rules!Pay(job[p].by, job[p].body)
    BY <1>0, <1>5, RulesRead, RulesSettle, MoneyWritesAreDue
    DEF DoInsertSettlement, Write, Rules!Pay
  <2> QED BY <1>0, <2>1, <2>2 DEF Rules!Next, Rules!SettlementOperation
<1>6. CASE DoConfirmSettlement(p) \/ DoDeleteSettlement(p)
  <2>1. job[p].row \in SettlementIds
    BY <1>0, <1>6, MoneyTarget DEF DoConfirmSettlement, DoDeleteSettlement, Write
  <2>2. Rules!Confirm(job[p].by, job[p].row) \/ Rules!Withdraw(job[p].by, job[p].row)
    BY <1>0, <1>6, RulesSettle, MoneyWritesAreDue
    DEF DoConfirmSettlement, DoDeleteSettlement, Write, Verified,
        Rules!Confirm, Rules!Withdraw
  <2> QED BY <1>0, <2>1, <2>2 DEF Rules!Next, Rules!SettlementOperation
<1> QED
  BY <1>1, <1>2, <1>3, <1>4, <1>5, <1>6 DEF WriteMoney

(* What a step with a write in it does, and what every other step does.    *)
LEMMA StepKinds ==
  ASSUME JobsTypeOK, [Next]_vars
  PROVE  \/ UNCHANGED tables
         \/ TimePasses
         \/ \E p \in Requests : WriteGroup(p) \/ WriteMoney(p)
  BY BeginStep, ReadStep DEF Next, Step, Die, DaysPass, vars

(* Statement by statement, and wherever a request dies, the API does what  *)
(* GroupRules says at one stroke, as long as requests come one at a time:  *)
(* every handler's checks are those of its operation and nothing it has    *)
(* read goes stale (the services of groups, expenses and settlements).     *)
THEOREM RulesImplemented ==
  ASSUME OneAtATime
  PROVE  Spec => ImplementsRules
<1>1. Init => Rules!TablesInit
  BY DEF Init, TablesInit, Rules!TablesInit, NoExpense, Rules!NoExpense,
     NoSettlement, Rules!NoSettlement
<1>2. IInv /\ StillSo /\ [Next]_vars => [Rules!Next]_(Rules!tables)
  <2>1. SUFFICES ASSUME IInv, StillSo, [Next]_vars
                 PROVE  Rules!Next \/ UNCHANGED tables
    BY DEF tables, Rules!tables
  <2>2. TypeOK /\ JobsTypeOK
    BY <2>1 DEF IInv, TypeOK
  <2>3. CASE TimePasses
    BY <2>3, RulesTime DEF Rules!Next
  <2> QED BY <2>1, <2>2, <2>3, StepKinds, GroupWriteImplements,
             MoneyWriteImplements
<1> QED
  BY <1>1, <1>2, AloneInvariance, PTL DEF Spec, ImplementsRules, Rules!Spec

(* Only the account's deletion lets a member out who owes or is owed, when *)
(* requests come one at a time (GroupService::leave and the balance it     *)
(* reads).                                                                 *)
THEOREM LeavesSquare ==
  ASSUME OneAtATime
  PROVE  Spec => LeaveSquare
<1>1. ASSUME IInv, StillSo, [Next]_vars, NEW u \in Users,
             IsMember(u), membership'[u] = "left", u \notin closed'
      PROVE  NetFor(u) = 0
  <2>1. TypeOK /\ JobsTypeOK /\ TablesTypeOK
    BY <1>1 DEF IInv, TypeOK
  <2>2. membership' # membership
    BY <1>1 DEF IsMember
  <2>3. PICK p \in Requests : WriteGroup(p)
    BY <1>1, <2>1, <2>2, StepKinds DEF tables, TimePasses, InviteExpires,
       RestoreLapses, StampExpense, WriteMoney, Write, DoInsertReceipt,
       InsertReceipt, DoInsertExpense, InsertExpense, DoRewriteExpense,
       RewriteExpense, DoStampDeleted, DoStampLive, DoInsertSettlement,
       InsertSettlement, DoConfirmSettlement, ConfirmSettlement,
       DoDeleteSettlement, DeleteSettlement
  <2>4. CASE DoEndMembership(p)
    <3>1. u = job[p].by
      BY <1>1, <2>1, <2>4 DEF DoEndMembership, Write, EndMembership, IsMember,
         TablesTypeOK
    <3> QED BY <1>1, <2>1, <2>3, <2>4, <3>1, WriteStep, GroupWritesAreDue
            DEF DoEndMembership, Write
  <2>5. CASE DoCloseAccount(p)
    BY <1>1, <2>1, <2>5 DEF DoCloseAccount, Write, CloseAccount, IsMember,
       TablesTypeOK
  <2>6. CASE DoInsertFounder(p) \/ DoRevive(p) \/ DoEnlist(p)
    BY <1>1, <2>1, <2>6 DEF DoInsertFounder, DoRevive, DoEnlist, Write,
       InsertMembership, ReviveMembership, IsMember, TablesTypeOK
  <2>7. CASE DoErase(p)
    BY <1>1, <2>7 DEF DoErase, Write, EraseGroup, tables, IsMember
  <2> QED BY <2>2, <2>3, <2>4, <2>5, <2>6, <2>7 DEF WriteGroup, Write,
       DoInsertGroup, InsertGroup, DoSetLocked, DoClearLocked, SetLocked,
       DoArchive, SetArchived, DoInsertInvite, InsertInvite
<1>2. IInv /\ StillSo /\ [Next]_vars =>
        [\A u \in Users :
           IsMember(u) /\ membership'[u] = "left" /\ u \notin closed'
             => NetFor(u) = 0]_vars
  BY <1>1
<1> QED
  BY <1>2, AloneInvariance, PTL DEF Spec, LeaveSquare

(* A payment that its payer recorded and its payee has confirmed stays as  *)
(* it is when requests come one at a time (SettlementService::delete).     *)
THEOREM ConfirmedStays ==
  ASSUME OneAtATime
  PROVE  Spec => ConfirmedIsFinal
<1>1. ASSUME IInv, StillSo, [Next]_vars, NEW s \in SettlementIds,
             settlement[s].status = "confirmed",
             settlement[s].by = settlement[s].from
      PROVE  settlement'[s] = settlement[s]
  <2>1. TypeOK /\ JobsTypeOK /\ TablesTypeOK
    BY <1>1 DEF IInv, TypeOK
  <2>2. SUFFICES ASSUME settlement' # settlement
                 PROVE  settlement'[s] = settlement[s]
    OBVIOUS
  <2>3. PICK p \in Requests : WriteMoney(p)
    BY <1>1, <2>1, <2>2, StepKinds, GroupLeavesSettlements DEF tables,
       TimePasses, InviteExpires, RestoreLapses, StampExpense
  <2>4. Busy(p)
    BY <2>3, WriteStep
  <2>5. CASE DoInsertSettlement(p)
    BY <1>1, <2>1, <2>5 DEF DoInsertSettlement, Write, InsertSettlement, tables,
       TablesTypeOK
  <2>6. CASE DoConfirmSettlement(p)
    BY <1>1, <2>1, <2>6 DEF DoConfirmSettlement, Write, ConfirmSettlement,
       TablesTypeOK, SettlementRow
  <2>7. CASE DoDeleteSettlement(p)
    <3>1. Verified(p, "mayDelete")
      BY <1>1, <2>1, <2>4, <2>7, MoneyWritesAreDue DEF DoDeleteSettlement, Write
    <3>2. settlement[s].from # settlement[s].to
      BY <1>1 DEF StillSo, TwoSided
    <3>3. job[p].row # s
      BY <1>1, <3>1, <3>2 DEF Verified
    <3> QED BY <2>1, <2>7, <3>3 DEF DoDeleteSettlement, Write, DeleteSettlement,
         TablesTypeOK
  <2> QED BY <2>2, <2>3, <2>5, <2>6, <2>7 DEF WriteMoney, Write,
       DoInsertReceipt, InsertReceipt, DoInsertExpense, InsertExpense,
       DoRewriteExpense, RewriteExpense, DoStampDeleted, DoStampLive,
       StampExpense, tables
<1>2. IInv /\ StillSo /\ [Next]_vars =>
        [\A s \in SettlementIds :
           settlement[s].status = "confirmed"
             /\ settlement[s].by = settlement[s].from
             => settlement'[s] = settlement[s]]_vars
  BY <1>1
<1> QED
  BY <1>2, AloneInvariance, PTL DEF Spec, ConfirmedIsFinal

=============================================================================

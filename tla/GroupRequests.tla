--------------------------- MODULE GroupRequests ---------------------------
(***************************************************************************)
(* The API at work on one group: PHP requests in flight at the same time,  *)
(* each running its handler one SQL statement (or one transaction) after   *)
(* the other on an autocommit connection.  Between two of its statements   *)
(* any other request may run some of its own, and a request may die.       *)
(***************************************************************************)
EXTENDS GroupTables, Sequences

CONSTANTS
  Requests,    \* requests that may be in flight at once
  Operations   \* the handlers this instance exercises

(***************************************************************************)
(* Each handler, route and service together, as the statements it runs in  *)
(* order.  A check that fails ends the request with an error reply.        *)
(***************************************************************************)
Script ==
  [found        |-> <<"insertGroup", "insertFounder">>,
   lock         |-> <<"member", "settleable", "setLocked">>,
   unlock       |-> <<"member", "settleable", "clearLocked">>,
   archive      |-> <<"member", "setArchived">>,
   erase        |-> <<"member", "noExpenses", "noSettlements", "mayErase",
                      "eraseGroup">>,
   invite       |-> <<"member", "settleable", "unlocked", "insertInvite">>,
   join         |-> <<"invited", "settleable", "readRow", "revive", "enlist">>,
   add          |-> <<"member", "settleable", "unlocked", "alive",
                      "notMember", "revive", "enlist">>,
   leave        |-> <<"member", "zeroBalance", "endMembership">>,
   closeAccount |-> <<"closeAccount">>,
   upload       |-> <<"member", "settleable", "unlocked", "insertReceipt">>,
   create       |-> <<"member", "settleable", "unlocked", "validate", "twin",
                      "insertExpense">>,
   update       |-> <<"live", "member", "settleable", "unlocked", "validate",
                      "rewriteExpense">>,
   softDelete   |-> <<"live", "member", "settleable", "unlocked",
                      "stampDeleted">>,
   restore      |-> <<"deleted", "member", "stampLive">>,
   pay          |-> <<"member", "settleable", "parties", "insertSettlement">>,
   confirm      |-> <<"mayConfirm", "confirmSettlement">>,
   withdraw     |-> <<"mayDelete", "deleteSettlement">>]

ASSUME OperationsAssumption == Operations \subseteq DOMAIN Script

(* The operations that ask assertWritable, and those that ask at least     *)
(* assertSettleable.                                                       *)
WritableOps == {op \in DOMAIN Script : \E i \in DOMAIN Script[op] :
                                          Script[op][i] = "unlocked"}
SettleableOps == {op \in DOMAIN Script : \E i \in DOMAIN Script[op] :
                                          Script[op][i] = "settleable"}

VARIABLES
  job,  \* request -> what it was asked and how far it has come
  late  \* history: the requests that began under the present lock, and
        \* those that began once the group was archived

vars == <<tables, job, late>>

(* `row' is the id in the URL (or the body's userId), `body' the rest of   *)
(* the request, `pc' the next statement of its script.                     *)
Idle == [op |-> "idle", by |-> None, row |-> None, body |-> None, pc |-> 0]

RowOf(op) ==
  IF op \in {"update", "softDelete", "restore"} THEN ExpenseIds
  ELSE IF op \in {"confirm", "withdraw"} THEN SettlementIds
  ELSE IF op \in {"found", "join", "add"} THEN Users ELSE {None}

BodyOf(op) ==
  IF op \in {"create", "update"} THEN Posts
  ELSE IF op = "pay" THEN Deals ELSE {None}

JobOf(op) ==
  [op : {op}, by : Users, row : RowOf(op), body : BodyOf(op),
   pc : DOMAIN Script[op]]

JobsTypeOK ==
  /\ job = [p \in Requests |-> job[p]]
  /\ \A p \in Requests :
       job[p] = Idle \/ \E op \in Operations : job[p] \in JobOf(op)

TypeOK ==
  /\ TablesTypeOK
  /\ JobsTypeOK
  /\ late \in [lock : SUBSET Requests, archive : SUBSET Requests]

Init ==
  /\ TablesInit
  /\ job = [p \in Requests |-> Idle]
  /\ late = [lock |-> {}, archive |-> {}]

Busy(p) == job[p].op # "idle"

-----------------------------------------------------------------------------
(* A request arrives.  Its sender holds a session, so is not closed.       *)

Arrive(p, op, u, row, body) ==
  /\ op \in Operations
  /\ ~Busy(p)
  /\ u \notin closed
  /\ job' = [job EXCEPT
       ![p] = [op |-> op, by |-> u, row |-> row, body |-> body, pc |-> 1]]
  /\ UNCHANGED tables

PlainOps == {"lock", "unlock", "archive", "erase", "invite", "leave",
             "closeAccount", "upload"}

BeginPlain(p) ==
  \E op \in PlainOps, u \in Users : Arrive(p, op, u, None, None)

BeginFound(p) == Arrive(p, "found", Creator, Creator, None)

BeginJoin(p) == \E u \in Users : Arrive(p, "join", u, u, None)

(* The person to add shares another group with the sender.                 *)
BeginAdd(p) ==
  \E u, v \in Users : u # v /\ Arrive(p, "add", u, v, None)

BeginCreate(p) ==
  \E u \in Users, post \in Posts : Arrive(p, "create", u, None, post)

BeginUpdate(p) ==
  \E u \in Users, e \in ExpenseIds, post \in Posts :
    /\ expense[e].status # "absent"
    /\ ~post.force
    /\ Arrive(p, "update", u, e, post)

BeginOnExpense(p) ==
  \E u \in Users, e \in ExpenseIds, op \in {"softDelete", "restore"} :
    expense[e].status # "absent" /\ Arrive(p, op, u, e, None)

BeginPay(p) ==
  \E u \in Users, deal \in Deals :
    u \in {deal.from, deal.to} /\ Arrive(p, "pay", u, None, deal)

BeginOnSettlement(p) ==
  \E u \in Users, s \in SettlementIds, op \in {"confirm", "withdraw"} :
    settlement[s].status # "absent" /\ Arrive(p, op, u, s, None)

Begin(p) ==
  \/ BeginPlain(p) \/ BeginFound(p) \/ BeginJoin(p) \/ BeginAdd(p)
  \/ BeginCreate(p) \/ BeginUpdate(p) \/ BeginOnExpense(p)
  \/ BeginPay(p) \/ BeginOnSettlement(p)

-----------------------------------------------------------------------------
(* One statement of a request in flight.                                   *)

At(p, statement) == Busy(p) /\ Script[job[p].op][job[p].pc] = statement

Advance(p) == job' = [job EXCEPT ![p].pc = @ + 1]

Finish(p) == job' = [job EXCEPT ![p] = Idle]

(* A SELECT and the condition on what it answers.                          *)
Check(p, statement, condition) ==
  /\ At(p, statement)
  /\ IF condition THEN Advance(p) ELSE Finish(p)
  /\ UNCHANGED tables

(* Not the code: the archive stops nobody, or the lock stops nobody.       *)
AssertPresent(p) == Check(p, "settleable", GroupPresent)

AssertUnlockable(p) == Check(p, "unlocked", GroupPresent)

AssertMember(p) == Check(p, "member", IsMember(job[p].by))

AssertSettleable(p) == Check(p, "settleable", Settleable)

AssertUnlocked(p) == Check(p, "unlocked", Unlocked)

CountExpenses(p) == Check(p, "noExpenses", NoExpenseRows)

CountSettlements(p) == Check(p, "noSettlements", NoSettlementRows)

CheckMayErase(p) == Check(p, "mayErase", MayErase(job[p].by))

FindInvite(p) == Check(p, "invited", invite)

CheckAlive(p) == Check(p, "alive", job[p].row \notin closed)

(* Not the code: only those who owe are kept in.                           *)
CheckNoDebt(p) == Check(p, "zeroBalance", NetFor(job[p].by) >= 0)

CheckNotMember(p) == Check(p, "notMember", ~IsMember(job[p].row))

CheckZeroBalance(p) == Check(p, "zeroBalance", NetFor(job[p].by) = 0)

FindLive(p) == Check(p, "live", job[p].row \in LiveExpenses)

FindDeleted(p) == Check(p, "deleted", expense[job[p].row].status = "deleted")

Validate(p) == Check(p, "validate", Validates(job[p].body))

CheckDuplicate(p) ==
  Check(p, "twin", job[p].body.force \/ ~DuplicateOf(job[p].body.bill))

(* Not the code: either side may confirm.                                  *)
CheckEitherSide(p) ==
  Check(p, "mayConfirm",
        /\ settlement[job[p].row].status = "pending"
        /\ job[p].by \in {settlement[job[p].row].from, settlement[job[p].row].to})

AssertParties(p) ==
  Check(p, "parties", /\ GroupPresent
                      /\ IsMember(job[p].body.from) /\ IsMember(job[p].body.to))

(* Not the code: who recorded a confirmed payment does not matter.         *)
CheckParty(p) ==
  LET s == settlement[job[p].row]
  IN  Check(p, "mayDelete", /\ s.status \in {"pending", "confirmed"}
                            /\ job[p].by \in {s.from, s.to})

CheckMayConfirm(p) ==
  Check(p, "mayConfirm", /\ settlement[job[p].row].status = "pending"
                         /\ settlement[job[p].row].to = job[p].by)

CheckMayDelete(p) ==
  LET s == settlement[job[p].row]
  IN  Check(p, "mayDelete",
            /\ s.status \in {"pending", "confirmed"}
            /\ job[p].by \in {s.from, s.to}
            /\ s.status = "confirmed" => s.by = s.to)

(* join: no row leads to the INSERT, a row with left_at to the UPDATE, an  *)
(* active row to neither.                                                  *)
ReadMembershipRow(p) ==
  /\ At(p, "readRow")
  /\ CASE membership[job[p].row] = "none" -> job' = [job EXCEPT ![p].pc = @ + 2]
       [] membership[job[p].row] = "left" -> Advance(p)
       [] OTHER -> Finish(p)
  /\ UNCHANGED tables

(* The reading statements, all of them.                                    *)
Read(p) ==
  \/ AssertMember(p) \/ AssertSettleable(p) \/ AssertUnlocked(p)
  \/ CountExpenses(p) \/ CountSettlements(p) \/ CheckMayErase(p)
  \/ FindInvite(p) \/ CheckAlive(p) \/ CheckNotMember(p) \/ CheckZeroBalance(p)
  \/ FindLive(p) \/ FindDeleted(p) \/ Validate(p) \/ CheckDuplicate(p)
  \/ AssertParties(p) \/ CheckMayConfirm(p) \/ CheckMayDelete(p)
  \/ ReadMembershipRow(p)

(* A write that ends its handler: all but two of them do.                  *)
Write(p, statement, effect) == At(p, statement) /\ effect /\ Finish(p)

DoInsertGroup(p) == At(p, "insertGroup") /\ InsertGroup /\ Advance(p)

DoInsertFounder(p) == Write(p, "insertFounder", InsertMembership(job[p].by))

(* UPDATE memberships; when it matches no row the INSERT comes next.       *)
DoRevive(p) ==
  /\ At(p, "revive")
  /\ ReviveMembership(job[p].row)
  /\ IF membership[job[p].row] = "none" THEN Advance(p) ELSE Finish(p)

(* Not the code: leaving does not end the request.                         *)
DoEndMembershipAndGoOn(p) ==
  At(p, "endMembership") /\ EndMembership(job[p].by) /\ Advance(p)

DoEnlist(p) == Write(p, "enlist", InsertMembership(job[p].row))

DoEndMembership(p) == Write(p, "endMembership", EndMembership(job[p].by))

DoCloseAccount(p) == Write(p, "closeAccount", CloseAccount(job[p].by))

DoSetLocked(p) == Write(p, "setLocked", SetLocked(TRUE))

DoClearLocked(p) == Write(p, "clearLocked", SetLocked(FALSE))

DoArchive(p) == Write(p, "setArchived", SetArchived)

DoErase(p) == Write(p, "eraseGroup", EraseGroup)

DoInsertInvite(p) == Write(p, "insertInvite", InsertInvite)

DoInsertReceipt(p) == Write(p, "insertReceipt", InsertReceipt)

DoInsertExpense(p) == Write(p, "insertExpense", InsertExpense(job[p].body))

DoRewriteExpense(p) ==
  Write(p, "rewriteExpense", RewriteExpense(job[p].row, job[p].body))

DoStampDeleted(p) == Write(p, "stampDeleted", StampExpense(job[p].row, "deleted"))

DoStampLive(p) == Write(p, "stampLive", StampExpense(job[p].row, "live"))

DoInsertSettlement(p) ==
  Write(p, "insertSettlement", InsertSettlement(job[p].by, job[p].body))

DoConfirmSettlement(p) ==
  Write(p, "confirmSettlement", ConfirmSettlement(job[p].row))

DoDeleteSettlement(p) ==
  Write(p, "deleteSettlement", DeleteSettlement(job[p].row))

WriteGroup(p) ==
  \/ DoInsertGroup(p) \/ DoInsertFounder(p) \/ DoRevive(p) \/ DoEnlist(p)
  \/ DoEndMembership(p) \/ DoCloseAccount(p) \/ DoSetLocked(p)
  \/ DoClearLocked(p) \/ DoArchive(p) \/ DoErase(p) \/ DoInsertInvite(p)

WriteMoney(p) ==
  \/ DoInsertReceipt(p) \/ DoInsertExpense(p) \/ DoRewriteExpense(p)
  \/ DoStampDeleted(p) \/ DoStampLive(p) \/ DoInsertSettlement(p)
  \/ DoConfirmSettlement(p) \/ DoDeleteSettlement(p)

(* The process is killed, or the connection lost, between two statements.  *)
Die(p) == Busy(p) /\ Finish(p) /\ UNCHANGED tables

Step(p) == Begin(p) \/ Read(p) \/ WriteGroup(p) \/ WriteMoney(p) \/ Die(p)

(* Days pass only while no request, which lives for seconds, is in flight. *)
DaysPass ==
  /\ \A p \in Requests : ~Busy(p)
  /\ TimePasses
  /\ UNCHANGED job

(* The requests in flight that began while a stamp was on the group, when  *)
(* it has stayed on since: `before' they were, and `frozen' it still is.   *)
Latecomers(before, frozen) ==
  {p \in Requests : frozen /\ Busy(p)' /\ (p \in before \/ ~Busy(p))}

Next ==
  /\ (\E p \in Requests : Step(p)) \/ DaysPass
  /\ late' = [lock |-> Latecomers(late.lock, group'.locked),
              archive |-> Latecomers(late.archive, group'.archived)]

Spec == Init /\ [][Next]_vars

Rules == INSTANCE GroupRules

=============================================================================

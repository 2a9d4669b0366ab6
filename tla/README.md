# SlyTab, specified

TLA+ models of SlyTab, the private expense splitter: a PHP API over MySQL
(`api/`), TypeScript clients (`apps/web`, `apps/mobile`) and a shared core
library (`packages/core`). Paths below are relative to the repository root.

The project asks one kind of question: *what stays true of people's money, of
the line for the receipt reader, and of what a phone or a browser shows, when
requests interleave, die half-way, are answered late or not at all, or come in
an order nobody wrote a test for?*

## 1. The system

The API has no long-lived process. Each request is a PHP process that runs its
handler, statement by statement, on an autocommit MySQL connection, and is gone
when it has replied. Only four operations use a transaction: creating an
expense, updating one, erasing a group, deleting an account. Everything else
is a row of separate SELECTs followed by one write, so whatever a handler has
checked may no longer be so when it writes. Foreign keys and primary keys are
the only constraints the database itself keeps; slots in front of the vision
model are `flock()`s on files.

| Component | State | Operations | Hard part | What makes it correct |
|---|---|---|---|---|
| Group lifecycle and membership (`GroupService`) | `groups` row with `locked_at`, `archived_at`; `memberships` with `left_at`; `invites` | found, lock, unlock, archive, erase, invite, join, add, leave | checks and write are separate statements; erase against everything | money keeps its group; a lock and an archive stop what comes after them; members leave square |
| Expenses (`ExpenseService`) | `expenses` with `deleted_at`, payers, shares; `receipts.expense_id` | create (with duplicate guard), update, soft-delete, restore for 30 days | double taps; restore; an update of a row deleted meanwhile | books balance; no unasked twin; a locked group's balances hold still |
| Settlements (`SettlementService`) | `settlements` with `status`, `recorded_by` | record, confirm, withdraw or decline | confirm against withdraw | confirmed on the payee's word only; final once two people agreed |
| Balances (`BalanceService`) | none: derived | net, pairwise, per currency | five SELECTs without a snapshot; rounding of converted amounts | nets cancel |
| Debt simplification (`Domain/Simplify.php`, `simplify.ts`) | none: a function | net balances to transfers | ties, ex-members, sums that do not cancel | the plan settles everyone, with few transfers, and the loop ends |
| Scan queue (`ScanQueue`) | `scan_queue` tickets; lock files; in the client, a ticket and a time to ask again | admit, release, cancel, purge | polling clients, killed processes, probes that look like locks | one parse per backend; oldest ticket first; every wait ends |
| Receipts (`ReceiptService`) | `receipts` rows, image files, `.parse.json` | upload, rescan, prune originals | files and rows apart; prune against parse | no receipt anyone can still see loses its image |
| Accounts, sessions, single-use tokens (`AuthService`, `AuthHandoffService`, `PasswordResetService`, `EmailVerificationService`) | `users`, `sessions`, `auth_handoffs`, `password_resets`, `email_verifications` | register, sign in, revoke, reset, hand off, delete | read-then-consume in separate statements | a token works once; a reset ends every older session |
| Notifications, digests, reminders, bug reports, alerts (`EmailNotificationService`, `ReminderService`, `BugReportService`, `OpsAlertService`, `NotificationService`) | `notification_emails`, `bug_reports`, `ops_alerts`, `users.notify_level` | queue, flush, sweep, nudge, report, forward, alert | recorded-then-sent against sent-then-marked; overlapping cron runs; processes that die; a mail server that refuses | nothing counts as sent that the mail server was not given; nobody is mailed twice inside a cooling-off period; what is queued is given to it at last |
| Splitwise import (`ImportService`, `SplitwiseApiImportService`) | writes expenses and settlements | import, re-import | partly failed imports repeated; twins within one file | an import repeated changes nothing |
| Split and money arithmetic (`split.ts`, `money.ts`, `receipt-assign.ts`, `receipt-summary.ts`; mirrored by `Domain/Split.php`, `Support/Money.php`) | none | apportion, split, rescale, fold, assign | largest remainder, currencies without cents, offsets below zero, what is stored of a split | parts add up to the whole; what is filed reopens as it was |
| Rate limiter, FX rates, activity, categories, avatars | one table or file each | | | |
| Expense form (`AddExpenseSheet`, `AssignItemsSheet` of both clients) | its fields, the linked receipt, the last parse, the running scan, Save's guard and "Add it anyway" | type, pick, split, scan, cancel, assign items, save, reopen | answers lost, late or repeated; a currency picked after amounts were typed | filed once; balanced stays balanced; a cancelled scan stays cancelled |
| Shell, sign-in, servers, cache (`App`, `AppShell`, `Auth`, `api.ts`, `cache.ts`, `backends.ts`) | token and server in use, tokens kept, list of servers, user shown, GETs in flight, cached answers | restore, sign in (form, Apple, Google), sign out, delete, switch, add, forget, follow a link, load | sign-ins, switches and loads overlap; a GET outlives its session | token, server and user move together; nothing of another server is shown; the spinner goes away |
| Screens (the rest of both clients) | mounted screens, open sheets, guards, writes out, loads under way | some fifty buttons that write, then close, load or lead on | a second press, a late answer, a reload that joins an older one | one row per opening; no guard stays up; the screen catches up |

Components call each other directly within a request; between requests they
meet only in MySQL rows and lock files. The only callbacks are the client's
timer (ask again) and cron (digests, reminders, migrations).
`PROJECT.json` lists every component with its sources, what is modelled of it
and, under `hazards`, the places where it can go wrong unseen.

## 2. The modules

| Module | What it is | Lines up with |
|---|---|---|
| `GroupTables` | the rows one group owns, what a SELECT on them answers and what a single write (or transaction) does | migrations 001, 005, 022; the SQL of `GroupService`, `ExpenseService`, `SettlementService`, `BalanceService` |
| `GroupRules` | the abstract specification: every operation all at once, under the condition the code checks for it | the same services, one action per public method |
| `GroupRequests` | the API at work: requests in flight, each running its handler's statements in order; any of them may die | `Routes/Api.php` and the services it calls |
| `GroupSafety` | the properties of the books, and the inductive invariant | |
| `GroupSafety_proofs` | their proofs, and `BalanceReads`' | |
| `Sums` | lemmas on sums over finite sets and on shares of an amount, for the proofs of the books, the plans and the splits | |
| `BalanceReads` | a reader of balances, SELECT by SELECT, while the requests of `GroupRequests` run | `BalanceService::forGroup`, `expenses`, `childAmounts` |
| `Simplify` | the greedy loop, a transfer a step | `Domain/Simplify.php`, `packages/core/src/simplify.ts` |
| `Simplify_proofs` | its proofs | |
| `Turns` | the abstract specification of the scan queue: clients that ask, wait and are read, backends that read for one client at a time | what `ScanQueue.php` promises `ReceiptService` and the clients |
| `ScanQueue` | slots, tickets, `admit()` one statement at a time, clients that poll, the clock | `ScanQueue.php`, `ReceiptService::rescan` and `ingest`, `awaitTurn` in both clients |
| `ScanQueue_proofs` | its proofs, and that it implements `Turns` | |
| `Money` | minor units, apportionment, the split methods, form fields, receipts as pure operators | `packages/core/src`: `money.ts`, `split.ts`, `receipt-summary.ts`, `receipt-assign.ts` |
| `AssignItems` | the sheet that shares out a receipt's lines, with ignored lines and the card slip | `AssignItemsSheet` in `Group.tsx` and `App.tsx` |
| `ExpenseForm` | the expense form with its scan, Save, and the rows the server files of it | `AddExpenseSheet` and `awaitTurn` in `Group.tsx` and `App.tsx`, `ExpenseService::create` |
| `ExpenseForm_proofs` | its proofs, those of `AssignItems`, and the lemmas on `Money` both rest on | |
| `Session` | who is signed in, on which server, and whose data is shown | `App.tsx` of both clients, `Auth.tsx`, `api.ts`, `cache.ts`, `backends.ts` |
| `Session_proofs` | its proofs | |
| `Screens` | every other screen and sheet: what its buttons send and what either answer does | `Group.tsx`, `Home.tsx`, `App.tsx`, the screens and `api.ts` |
| `Screens_proofs` | its proofs | |
| `Mail` | what the server mails, service by service, with the record each keeps of it; requests and cron calls side by side, either of which may die | `EmailNotificationService.php`, `ReminderService.php`, `BugReportService.php`, `OpsAlertService.php`, `POST /bug-sync` |
| `Mail_proofs` | its proofs | |
| `MCGroup`, `MCBalanceReads`, `MCSimplify`, `MCScanQueue`, `MCAssignItems`, `MCExpenseForm`, `MCSession`, `MCScreens`, `MCMail` | the bills, people, tables, receipts, accounts, habits and topics the runs use | |

`GroupRequests` EXTENDS `GroupTables` and instantiates `GroupRules` (as
`Rules`); `BalanceReads` EXTENDS `GroupRequests`. So the rows and what a statement
does to them are written once and used by the atomic view, the interleaved view
and the torn reader. `AssignItems` and `ExpenseForm` EXTEND `Money`;
`ExpenseForm` uses of an assignment what `AssignItems` shows of it, exact shares
for any way of sharing the lines. `ScanQueue` instantiates `Turns` (as
`Clients`).

### State and actions against the code

*Groups.* `group.row` is "unborn", "present" or "erased"; `locked` and
`archived` are whether the two stamps are NULL. `membership[u]` is no row, an
active row or one with `left_at`. An expense row is "live", "deleted" or, past
its 30 days, "lapsed"; its payers and shares are one `bill` because they are
written in one transaction, with the rate that `convertEffects` applies. A
removed settlement keeps its id out of use, since ULIDs do not repeat. `job[p]` is a request: its operation, sender, row,
body, and the next statement of its `Script`. `Script` is the heart of
`GroupRequests`: for each handler the SELECTs and writes in the order of the
code, route included. A check that fails ends the request, as the code's
`ApiException` does; a foreign key that does not hold makes its write do
nothing, as the rolled-back statement does. `late` is a history variable: the
requests that began while the present lock, or the archive, was already there.

*Scan queue.* `older[t]` is the set of tickets with a smaller `created_at`;
two INSERTs within one millisecond are equally old, and `thisMs` holds the
tickets of the current one. `stale` tickets are past their 45 seconds.
`slot[i]` is who holds lock file i. `pc[p]` follows one client: at home,
waiting, or somewhere inside `admit()` or a parse. `elders` is a history
variable: those who were in line before a client when it asked.

`Turns` sees of it only where each client is (away, asking, waiting, reading)
and whom each backend reads for. A lock held by a request that is being read, or
about to drop its ticket, is a backend serving it; one held by a probe serves
nobody (`Stage`, `Serving`).

*Money.* A field's text is `Point(n)` ("3.01"), `Plain(n)` ("3") or `Blank`:
the forms that parse differently. `parseAmount` strips what the currency does
not use, so the text "3.01" is 301 pesos, as in the code; that is why a switch
of currencies must rescale the texts. Percentages and share counts are whole.

*Expense form.* `form` holds the fields, `scan` one scan with its stage and
whether Cancel was pressed in it, `requests` the Saves between client and
server, each with the body it was sent with. `filed` is what the server holds;
"clear" and "stored" are the two sides of the INSERT, so that an answer can be
lost on either side of it. On the web a cancel is an abort that only a
listening fetch or timer hears; on the phone it is a mark that the next wait
reads.

*Session.* A token is the account it opens. `flows` are restores and switches
under way, step by step; `calls` are sign-ins, profile saves and deletions
awaiting an answer; `gets` the coalesced GETs with their callers, `listed`
while a new caller would join. `edits` are changes of the list of servers under
way, from the list each read at its press to its last write; `cut` are the
servers whose session stayed behind when forgetting them was cut short. `mount`
numbers the screens, so that an answer knows whether its caller is still there.
`disturbed` records that a press was made while an answer that changes the
session was out or a change of the list was being written.

*Screens.* A handler is a record: the sheet it is on, the guard it raises, who
holds the guard (the opening or the screen under it), which answers take it
down, whether each acceptance is a row, whose picture it makes old, what is
loaded then and what closes, opens or follows. `WebReceived` or
`PhoneAddFriend` each read off one function of the code; one machine presses,
serves, answers and loses. `version` counts the server's changes, `shown` is the
version a screen paints, `floor` the one it owes its person when no load is out.

*Mail.* `job[p]` is a PHP process: the statement it is at, what called it, what
it still has on its list and what it has in hand. A row of `note` is "none",
"fresh" inside the ten minutes' grace, "ripe", or "sent"; `recent` is who has
been reminded of what kind of thing inside its cooldown; a report is "new", "old"
past its two minutes, or "forwarded"; an owner alert has fired never, within its
cooldown, or before. The history variables say what became of it, against what
those rows say: `mailed`, `nagged`, `taken` and `alarmed` count what the mail
server took, `lost` are the notes in a mail it refused; `crossed` names what two processes have worked through at one time, and
`faults` counts the deaths and exceptions. `Throw` is the `try` around each of
the cron's jobs: the next one runs all the same.

*Definitions marked "Not the code:"* (in `Session`, "Mutant:") are plausible
mistakes in the definition they sit near. They are used by nothing in the
models; each was put in place of the true definition once to see that a property
notices (`mutants` in `PROJECT.json`).

### What is abstracted

- One group at a time. Operations on different groups share only user rows.
- Descriptions, dates and categories are a bill's `label`; receipts, invites
  and people are model values. An expense abroad carries its exchange rate as
  a fraction, where the code has a float: the last bit of a product may round
  differently, the residual takes up any such difference. The pairwise ledger
  and the per-currency view, which decide nothing, are left out.
- `validate()` reads memberships, receipts and the group in several SELECTs,
  `assertWritable` reads the two stamps in two, and `netFor` in five; in
  `GroupRequests` each is one statement. `BalanceReads` takes the last apart.
- A `join` writes either the UPDATE or the INSERT, as it found the row; it
  never falls from one to the other, because a membership row disappears only
  with its group.
- Activity records leave the state modelled here alone and are left out; mail
  is modelled apart from what causes it. `addMemberByEmail` and `directGroup` are not
  modelled yet, nor are the renaming PATCH and imports.
- Days (an invite's expiry, the restore window) pass only while no request is
  in flight: requests live for seconds.
- MySQL commits statements in some order and every statement reads what has
  committed. That `created_at` is taken slightly before a row is visible is not
  modelled beyond ties within a millisecond.
- *Expense form.* Date, category, notes and a typed exchange rate travel with
  the rest and are left out; so the twins of the server are compared by amount,
  currency and payers, on one description and day. Amounts of exact shares and
  payers are typed without a sign. A connection is not reported lost while the
  server is between its search for a twin and the INSERT (a fetch outlives
  those microseconds). An overlay that covers the form also keeps its keyboard
  out.
- *Session.* One path stands for every GET. The list of servers is read when the
  button is pressed and written later, so that two changes can lose one another;
  the probe of a new server is part of that wait. `removeBackend`'s three writes
  are a step each, and a kill falls between any two of them; so is the choice of
  a server. Elsewhere a write to the keystore or the cache takes effect at once. The
  keystore may refuse the list, a choice (`setActiveFailed`,
  `chooseDefaultFailed`) and the deletion of a forgotten server's token
  (`dropToken`); that it refuses the token of a sign-in or a sign-out, which
  `rememberToken` swallows, or cannot be read, is not modelled. `loadActive`'s
  three reads are one step. Joining by an
  invite link, the remount on a change of theme and the avatar's second
  `me()` are left out.
- *Screens.* A press sees the render before it: no two presses in one tick of
  JavaScript. A yes to a confirmation is part of the press. Any open sheet can
  be pressed, not the topmost only: more behaviours than the program has. One
  GET stands for the loads of a screen, and an answer that is lost counts as one
  never given. The POST behind the web's invite sheet is left out. Searches and
  filters of lists are not modelled.
- *Mail.* A note, a report and an alert each happen once, but owner alerts and
  reminders fire again after their cooldown. The mail server may refuse a
  report, which is tried again, and a note or a digest, which is logged and lost
  (`deliver`, `sendDigest`); that it refuses a reminder or an alert to the owner
  is logged too, and counts as sent here. Addresses are confirmed, and good: `queue`
  passes over the others, nothing but closing the account changes one, and so
  `flushDigests`' branch for unmailable people (lines 147-150) has nobody to
  serve. The receipt to the reporter, push, and the cron's two pruning jobs are
  left out. Ten minutes may pass anywhere,
  but nothing takes as long as what its own rows wait for: two minutes to
  forward a report, days to send a reminder, an hour to send an alert. A
  behaviour is about one *topic*; the services share no rows but `users`.

## 3. What the runs check

Passing runs, with their distinct states:

| Run | Shows | States |
|---|---|---|
| `group_serial` | one request in flight: every handler implements its operation of `GroupRules`; nets cancel; confirmed settlements are final; members leave square | 1153k |
| `group_races` | two requests: money keeps its group and its people's rows; who comes after a lock or an archive changes nothing; only the payee's own requests confirm | 1446k |
| `scan_turns` | three clients, two backends, probes, crashes, an unwritable lock directory: slots guard the model; oldest first, one place each | 1350k |
| `scan_liveness` | two clients under fairness: every wait ends; the statements implement `Turns` | 8k |
| `reads_only_rewrites` | a torn read of balances needs an update of an expense it had found, however a request's statements fall between the reader's; converted halves that do not add up still cancel | 839k |
| `simplify_plans` | all 6561 nets of four people in -4..4: settled, lean, finished, or refused | 15k |
| `assign_items` | every way to share three lines among three people, ignoring some, before or after a slip: shares add up, the extra is in proportion, the slip governs | 17k |
| `expense_form` | filed once unless confirmed; reopened as filed; a change of currency keeps the balance; assigned items come to the receipt; a cancelled scan stays out of the line | 683k |
| `session` | token, server and user move together while nothing overtakes an answer or a change of the list, killed between any two writes; nothing of another server is shown; an answer is not painted over by what was cached before it; the spinner goes | 1656k |
| `screens` | one row per opening and failure; every guard that is up has a write out; the screen in front catches up | 2625k |
| `mail` | nothing counts as sent that the mail server was not given; mailed once but for deaths and overlaps; once per cooldown; what is queued is given to the mail server at last, and a report is taken by it | 356k |

One run TLC must refute, a property against something the repository says of
itself (section 6): `session_shared_get`.

`ConfirmedIsFinal` and `LeaveSquare` hold while one request runs at a time
(theorems `ConfirmedStays`, `LeavesSquare`) and fail when two do. That is what the
serial run is for: the *rules* are right, the *atomicity* is missing. `FirstComeFirstServed` holds
while clients ask again in time (`Punctual`) and fails when one comes back after
its ticket went stale. `OnePlaceInLine` is checked with each receipt open in one
dialog only. `SessionsMoveTogetherUndisturbed` is `SessionsMoveTogether` for as
long as no press overtakes an answer or a change of the list. Section 6 says how to see each of them
fail.

**Bounds.** Two people (one of them the creator, so both sides of every
permission exist), one expense id and one settlement id, each used at most
once, in `group_serial` a receipt and three bills (one of them abroad), amounts
of one, one or two requests in flight. The reader of balances has a third person,
because the effects of two cancel however they are rounded: only three can leave
a residual; beside it one request writes, from start to end as often as there is
something to write, and two bills, one at home and one abroad, are all a rewriting needs.
Every race
the properties speak of is between a checker and a writer, so two requests
suffice to find it and a third adds interleavings, not conflicts; the theorems
cover any number. Each run names the operations it exercises
(`Operations`), so that a race is explored to its end. Scan queue: three
clients, as the newcomer, the waiting and the served are three roles; two
backends, so that the loop over lock files and the probes have something to
pass by; a line of two places, so that it overflows and order means something;
four tickets, so that an id is free while others are remembered. Simplify:
four people give two creditors and two debtors with every tie, five are needed
for the counterexample of `FewestTransfers`.

Assignment: three people, three lines (one of them worth nothing), a slip above and one
below the bill; two remainders of one cent meet a tie. Form: two members, a
currency with cents and one without, two edits by hand or by scan from any of
the forms an expense can reopen in, two Saves; receipts in either currency or
in none. One edit leads from a balanced form to any switch of currency, two
lead through a scan to an assignment, and a second Save is what a lost answer
or an eager finger costs. Session: two servers with an account each (two people on one of them are in
`session_shared_get`, any number in the theorems), four presses and two loads: a
link to a new server, a sign-in there, "Forget" and a kill between two of its
writes take four, signing in, loading, signing out and in again with a load
three presses and two loads. Screens: a person opens three screens or
sheets (`MaxOpens`), presses two buttons that write (`MaxWrites`), and keeps to one *habit*, the pages
and sheets used together (`SomeHabits`); every handler is in a habit, and the
conflicts are within a sheet or between a sheet and its page. `MaxVersion`
leaves room for the person's own writes, others' fill the rest. Mail: two people,
since a digest is one person's and must not touch another's; an edit and a
comment for one of them, so that a digest has two rows and may miss the later;
two payments for one person inside one cooldown; two reports and two milestones,
for a list that is cut short by a death; two processes, as every race is between
two; one death or exception. Topics are the sets of events that can disturb one
another (`SomeTopics`).

**Deadlock** is checked except in `group_serial` (both accounts may be deleted,
and then nobody can ask for anything), in the Simplify run (a loop that has
ended), and in `expense_form`, `session`, `session_shared_get` and `screens`,
where the bounds on presses stop the person, and in `assign_items`, where the
sheet ends with its Continue.

**Symmetry** is used for ticket ids only: no property or other constant tells
them apart, and runs with it check no liveness.

**Fairness** is assumed in four places. `Simplify`: the loop runs. `ScanQueue`
(`FairSpec`): PHP runs a request it has accepted; the vision model answers or
times out; a waiting client asks again (`awaitTurn` is a loop); the clock
moves, so a millisecond ends and an abandoned ticket goes stale; the server is
not killed for ever; and of infinitely many tries at a lock, not all but
finitely many meet a probe of `busySlots()`, which holds a free lock for
microseconds while clients ask seconds apart. The last is weaker than assuming
that a client gets the lock, and is needed: probes do make a free slot look
busy. Nothing is assumed of cancelling, vanishing or new arrivals. `Session`
(`FairSpec`): a restore or a switch under way goes on, for the keystore answers
and a fetch resolves or rejects at last. Whether the server is there, knows the
token or can be reached is left open. `Mail` (`FairSpec`): a process that is not
killed goes on; the ten minutes and the two minutes pass; the cron is called
again and again, and gets a process again and again although an instance has few
(hence strong fairness); and a mail server that is asked about a report over and
over takes it some day. Nothing of the kind is assumed of a digest, which it is
asked about once: `EverybodyTold` promises that alerts are *given* to it.

## 4. What is proved

`GroupSafety_proofs`, `Simplify_proofs`, `ScanQueue_proofs`, `ExpenseForm_proofs`,
`Mail_proofs`, `Session_proofs` and `Screens_proofs` hold the theorems, and `Sums`
lemmas that three of them share, for every value of the constants that meets the ASSUMEs
(`CreatorAssumption`: the creator is a user; `IdsAssumption`: finitely many users
and rows; `BillsAssumption`: bills name users
and amounts are natural numbers, whether or not they add up;
`AmountsAssumption`: settlements are of a positive amount; `NoneAssumption`;
`OperationsAssumption`; in `Simplify`, `MembersAssumption` and `NetsAssumption`:
finitely many members, whole balances; in `ScanQueue`, `ScanOfAssumption`,
`ParallelAssumption`, `MaxWaitingAssumption`; in `Mail`, `MailAssumption`, and
`NamesAssumption`: nobody is called what the model calls a kind of process; in
the form, `MembersAssumption`: members are finitely many, and numbered;
`TypedAssumption`, `ExpensesAssumption`, `ParsesAssumption`: what is typed is text,
an expense opened has shares and payers not below nought, as `validate` sees to,
and a parse has figures, *of either sign*; `NoneAssumption`: null is no split; in
`AssignItems`, `ReceiptsAssumption` and `SlipsAssumption`, the same of its receipts; in
`Session`, `SessionAssumption`; in `Screens`, `ScreensAssumption`: room on the server
for one change more than the person's presses) and what the theorem itself assumes:

| Theorem | States |
|---|---|
| `TypeCorrect` (groups) | `Spec => []TypeOK` |
| `MoneyKeepsItsGroup` | `Spec => []MoneyHasItsGroup` |
| `LockIsKept`, `ArchiveIsKept` | `Spec => LockHolds`, `Spec => ArchiveHolds` |
| `PayeeConfirms` | `Spec => ConfirmedByPayee` |
| `NothingVanishes` | `Spec => []NetsCancel` |
| `Invariance` | `Spec => []IInv`, the invariant under the six above |
| `ReadsHold` | `ReadSpec => []OnlyRewritesTear` |
| `RulesImplemented` | `OneAtATime` (at most one request in flight): `Spec => ImplementsRules`, that is `Rules!Spec` |
| `LeavesSquare`, `ConfirmedStays` | `OneAtATime`: `Spec => LeaveSquare`, `Spec => ConfirmedIsFinal` |
| `TypeCorrect` (simplify) | `Spec => []TypeOK` |
| `PlansSettle`, `PlansAreLean` | `Spec => []PlanSettles`, `Spec => []PlanIsLean` |
| `LoopCountsDown` | `Spec => [](StepsLeft \in Nat) /\ CountsDown` |
| `TypeCorrect` (queue) | `Spec => []TypeOK` |
| `SlotsHold` | `Spec => []SlotsGuardTheModel` |
| `TurnsImplemented` | `Spec => ImplementsTurns`, that is `Clients!Spec` |
| `OnePlaceEach` | `OneTabPerScan`: `Spec => []OnePlaceInLine` |
| `TurnsGoOldestFirst` | `OneTabPerScan`, `Punctual`, finitely many ticket ids: `Spec => FirstComeFirstServed` |
| `FiledOnce` | `HeldApart` (what the group holds already are expenses apart from one another): `Spec => []FiledOnceUnlessConfirmed` |
| `StaysOut` | `Spec => []CancelledStaysOut` |
| `TypeCorrect` (form) | `Spec => []TypeOK` |
| `Reconciles` | `UnsignedFigures`, `UnsignedTyping`: `Spec => AssignmentReconciles` |
| `BalanceSurvives` | the same: `Spec => RescaleKeepsBalance` |
| `Reopening` | `FiledByForm` (the expenses there are were filed by this form): `Spec => []ReopensAsFiled` |
| `SlipDecides` | `SheetSpec => []SlipGoverns` |
| `SharesReconcile` | `LinesDue`: `SheetSpec => []SharesAddUp` |
| `ExtraProrated` | `LinesDue`, `SheetFiguresDue`: `SheetSpec => []ExtraInProportion` |
| `TypeCorrect` (session) | `Spec => []TypeOK` |
| `MovesTogether` | `Spec => []SessionsMoveTogetherUndisturbed` |
| `PaintsOneServer` | `Spec => []SameServerShown` |
| `AnswersStay` | `Spec => FreshStays` |
| `TypeCorrect` (screens) | `Spec => []TypeOK` |
| `OneRowEach` | `Spec => []OneRowPerOpening` |
| `ShowsTheLatest` | `Spec => []CatchesUp` |
| `TypeCorrect` (mail) | `Spec => []Typed`: the tables keep their types, and a process has in hand what its statement works on |
| `MarksAreTrue` | `Spec => []NothingMarkedUnsaid` |
| `CooldownsHold` | `Spec => []OncePerCooldown` |
| `MailedOnceEach` | `Spec => []MailedOnce` |

`MoneyHasItsGroup` is not inductive: an expense is inserted long after its
people were validated. `IInv` adds what a request in flight may rely on:

- `Vetted`: once a request has passed "validate" (or "parties"), the people in
  its body have a membership row *unless the group has been erased*, and an
  erased group takes no INSERT. Membership rows never disappear otherwise,
  leaving only stamps them. This is why the foreign key to `groups` is enough,
  and why the missing one to `memberships` does no harm. And once it has passed
  "mayConfirm", the payee of its row is its sender for good.
- `LockBites`, `ArchiveBites`: a request that began under the present stamp has
  not passed the check for it, so its writes are out of reach.
- `Filled`: written rows have a bill, or two people.

The step proof takes each statement in turn; the requests other than the one
that moves keep what they had verified because the rows they look at only grow
(`GroupTables`' writes each leave all but one table alone).

`NetsCancel` is a sum over the members of sums over the expenses. It rests on
`BillsAddUp` (what an expense on file names as paid and as owed is its total: `create`
and `update` both go through `validate`), on `convertEffects`' residual, which makes
the converted halves of one bill cancel whatever the rate and the rounding, and on a
change of the order of summation. Sums over sets are folds, and induction with an
operator as parameter is out of the provers' reach; `Sums` does it with first-order
facts only: a set of subsets that has the empty set, and with a set that set and one
element more, has every finite set (`SetInduction`). What a sum is over one element
more (`SumIs`) comes first; swapping two sums, sums by owner, differences and the
sum of natural numbers follow.

`ReadsHold` is about any number of requests that write while one reads. `ReadInv`
says what a SELECT's answer is still worth: a row that was found keeps a bill
(`ReaderOK`: deleting only stamps it, and a group with an expense is never erased), what has been read of a row that nobody rewrote
is what the row still says (`UpToDate`), and the settlements cancelled when they were
read (`SettledEvenly`, from `Filled`). So a bill read in three pieces cancels as it
would in one (`BillCancels`), and the nets are the sums of such bills over the members
(`ReadNetsCancel`, with the order of summation changed as for `NetsCancel`). Of an
expense abroad even a torn read cancels; the theorem says of no other read that it fails.

`RulesImplemented` is the argument that the rules are right and only the atomicity
is missing. Take one request. `StillSo` says of it that whatever a check has found
(`Verified`, one clause for each check a handler can have passed) is found still:
between its check and its write there are only its own statements, and none of them
disturbs what it has checked. Then each statement that writes, in each handler that
has it, is the operation of `GroupRules` with its whole condition, and every other
statement leaves the tables alone. The same facts give `LeavesSquare` (the zero
balance is zero at the UPDATE) and `ConfirmedStays` (a withdrawal's "pending" is
pending at the DELETE; an erasing that found no settlement meets none). With two
requests `StillSo` is false, and so are both properties (section 6). `TwoSided`
(nobody settles with themselves) is what makes the recorder of a payment its payer or
its payee and not both.

`Simplify`'s loop is right because of what it keeps: `OnTrack` (what has moved and
what is still open make up each balance, and as much is open on either side),
`Sided` (nobody changes sides: transfers go from those who owe to those who are owed)
and `Shrinking` (every transfer squares someone, the last one two people). When one
side is empty so is the other, by `OnTrack`, and the plan settles; with `Shrinking` it
has fewer transfers than people with a balance. The same fact bounds the loop:
`StepsLeft` starts at two more than these people and falls with every step.

`SlotsGuardTheModel` is made inductive by two facts: a client has only one lock
at a time, and a lock is held only at the steps that hold one (reading,
dropping its ticket, probing).

`TurnsImplemented` needs that invariant: a backend that is handed out was free
to `Turns` because a lock that nobody holds serves nobody, and a parse that ends
frees the backend because its lock is the only one it holds. Every other step
maps to a stutter (`Hidden`) or to one move of one client (`Moved`).

`OnePlaceInLine` and `FirstComeFirstServed` hold across several statements, so
the invariant carries what a request has found: `Placed` (one that found no
ticket still has none, one that found a ticket holds its own scan's) and
`StillAhead` (whoever was in line before a client when it asked, and is in line
still, is before its ticket; a ticket just refreshed is not stale when it is
counted). Both break where two tabs scan one receipt, `StillAhead` also where a
ticket goes stale under a client that waits: hence the assumptions, which are
those of the run.

`FiledOnceUnlessConfirmed` becomes inductive with `OneSaveAtATime` (Save is
locked exactly while a request is out) and `ClearOfTwins` (once the server has
found no twin, none is filed before the INSERT). The second rests on the first:
with two requests out it is false, which is the race of `NoTwinFiled`.

The arithmetic of `Money` is proved for every total and every set of weights before
the form is looked at. `apportion` gives everyone the floor of the proportion; what
is left over is the sum of the remainders divided by the sum of the weights, hence
natural and less than the number of people (`ApportionDeals`, with `Sums`). A rank
that is a strict order has exactly n people among its first n, so handing a unit to
whoever has fewer than n before them hands out n units: the parts add up
(`Apportioned`), each within a unit of the proportion, and none above its weight when
the total is not above the sum of the weights (`ApportionedWithin`), which is why a
discount turns no share around. `computeSplit`, `ItemShares` and `Prorated` inherit
it: `ItemSharesAddUp` by changing the order of a sum over lines of sums over people,
`SharesComeToBill` from both.

`TypeCorrect` of the form rests on one fact more (`FieldsOK`): a sheet that is open
has a parse, a parse has figures, and every field is text of whole numbers through
any number of currencies, scans and splits. `Reconciles` and `BalanceSurvives` add
`Nonnegative`: no amount in a field is below nought. `Reconciles` then follows the
hand-over: what `assignedShares` adds up to, written into the fields and read back
(`RoundTrip`), is what `remaining` compares with the amount. For `BalanceSurvives`,
`FieldsBalance` shows that the rescaled parts, read again, come to the rescaled
total, and that those left blank stay out of the sum.

`Reopening` holds for any text that was typed, signs and all. A weighted method reads
the same numbers again from what was kept of its fields (`NumbersBack`); exact shares
and payer amounts above nought are read back (`PositiveBack`), and one payer alone
has paid it all. The equal split is the delicate one, because it reopens on those it
gave anything and not on those it was made among: with fewer units than people each
of the former had exactly one, and among themselves they have one again
(`EqualAgain`). Imports, which the form did not file, are beyond `FiledByForm`.

The hypotheses of `Reconciles` and `BalanceSurvives` are needed. A currency without cents strips every sign
(`parseAmount`), so that an amount typed below nought comes back above it, and
then nothing adds up any more; and the server's `parsePrinted` keeps a sign the model
has printed before a tax or a total. `UnsignedTyping` and `UnsignedFigures` say that
nobody and nothing does so; `SheetFiguresDue` says the latter of the sheet's receipts.
`LinesDue` (no line below nought) is where the code itself stops: `computeSplit`
throws for such a line (section 6). The values of the runs meet all four.

Of the sheet by itself, in `AssignItems`, `SlipGoverns` becomes inductive with
`Governed`: the tip is what the last slip said above the printed total, and the scan that runs
closed over that total and not over one with an earlier tip in it.

`Session` is argued in three layers. `Together` says that, while nothing is
disturbed, at most one thing is under way, a change of the list among them
(`OneAtATime`), that a switch shows the spinner and knows what is stored
(`FlowFits`), that a change of the list finds the list as it read it, and then
what its own writes have left (`EditFits`), and that who signs in or saves is
still where they pressed (`CallFits`): so no answer finds another session than
the one it is for. A session outlives its server's place in the list only while
that is being forgotten (`BeingForgotten`) or when a kill or a refusal of the
keystore cut that short (`cut`). `Painted` rests on it: a GET that can be joined goes to the server
in use, and a user never replaces another without a screen in between, which
drops what was shown and read (`ShowPaints`). `Marked` needs neither: the number of
a load is not in `reading` once the load has painted.

`Screens` is one machine over some fifty handlers, so the proof asks of each
handler what the machine needs of it (`Proper`: a failure takes every guard down,
what is counted has a guard and closes its sheet or leaves its thanks, what
changes the page loads it). Then:

- `Guards`: a guard that is up is that of a write that is out and of an opening that
  is still there (`GuardsUp`), of one write only (`OneEach`), and the answer finds
  the page it was sent from exactly when that page is still mounted (`Belongs`).
- `Rows` makes `OneRowPerOpening` inductive: it counts with the rows the write
  that can still make one (`Sending`), and says why no other will come: the
  opening is gone, shows its thanks, or has a write out (`Spent`); only a failure,
  which is counted, gives it back.
- `Loads` makes `CatchesUp` inductive: one load of a path at a time, what it has
  read is no older than what its screens show or were promised (`Fresh`), and the
  screen in front has what it was promised or waits for it (`Awaited`).

The mail's four theorems hold for any number of processes and of deaths. The
invariants say what a process between two statements may count on:

- `HandedOver`: who is about to mark something has given it to the mail server,
  which took it or, if it is a digest, refused it.
- `Claimed`: an owner alert's INSERT or conditional UPDATE lets one process
  through, so whoever is about to send it is alone with it, at any overlap.
- `Staffed`: a process works on what its caller is for (`ForWhom`), and two with
  the same work are on record in `crossed` (`Apart`). So outside `crossed` a
  sweep, a digest or a forwarding is alone with its rows, and what it has read
  of them is still so when it writes: `RemindedOnce` (not counted yet, hence not
  sent), `Paid` (listed, hence not sent) and `Settled` (not forwarded).
- `Paid` and `Settled` also keep the account that makes `MailedOnce` inductive: a
  row that is unmarked, and in nobody's hands to mark, has been mailed at most
  once for each fault. A process that dies between the sending and its mark
  passes the extra mail from its hands to `faults`.
- `Inserted`, `OneEvent`: what happens is queued by one process, once, so that an
  alert that is mailed at once is never on a digest's list.
- `Distinct`: a request has its own new report in hand and the cron what was
  already old, which is why the two never forward one report.

## 5. What is only model-checked

- `FewestTransfers` and the other properties of section 6, which are false.
- Liveness (`TurnComes`, `Terminates`, `LeavesSplash`, `EverybodyTold`) rests on
  fairness and ENABLED and stays with TLC. The part of `Terminates` that is safety
  is proved: no step of the loop leaves it as far from its end (`LoopCountsDown`).

## 6. What the checks found

One disagreement between the code and what the repository says of it has a run
(`findings` in `PROJECT.json` quotes the lines):

- **Another account's data is painted** (`session_shared_get`, `OwnDataShown`).
  The web's map of GETs in flight outlives a sign-out (`apps/web/src/api.ts:249`):
  the next account's first load of the same path joins the last one's, paints its
  answer and caches it under its own key. `apps/web/src/cache.ts:24` says "a shared
  browser must never paint one account's data into another's". The phone's map
  is emptied on a switch of servers only.

Twelve more properties say what a comment or a document promises, do not hold, and
stay in the modules as definitions. Each is violated within a minute by taking
the run in the second column, naming the property alone, and setting what the
third column says:

| Property | Run to take | With |
|---|---|---|
| `LockedBalancesHoldStill` | `group_serial` | `ExpenseIds = {e1}`, no settlements or receipts, `Bills <- OneBill`, `Amounts = {1}`, `Requests = {q1}`, `Operations <- LockedRestoreOps` |
| `ConfirmedIsFinal` | `group_races` | `ExpenseIds = {}`, `SettlementIds = {s1}`, no receipts, `Bills <- OneBill`, `Amounts = {1}`, `Requests = {q1, q2}`, `Operations <- SettleRaceOps` |
| `NoTwinFiled` | `group_races` | `ExpenseIds = {e1, e2}`, no settlements or receipts, `Bills <- OneBill`, `Amounts = {1}`, `Requests = {q1, q2}`, `Operations <- DoubleTapOps` |
| `FirstComeFirstServed` | `scan_turns` | `Parallel = 1`, `Tickets = {t1, t2, t3}`, `MaxWaiting = 3`, `Punctual = FALSE` |
| `FewestTransfers` | `simplify_plans` | `Members = {1, 2, 3, 4, 5}`, `MaxNet = 4`, `Nets <- TwoCircles` |
| `CancelGivesPlaceUp` | `expense_form` | |
| `SessionsMoveTogether` | `session` | |
| `ForgottenForGood` (an invariant) | `session` | |
| `NewestStays` | `session` | `MaxMoves = 1`, `MaxLoads = 3` |
| `ClosesItsOwn` | `screens` | |
| `MutedHearsNothing` | `mail` | `Topics <- MutedTopics` |
| `ForwardedOnce` (an invariant) | `mail` | |

1. **A locked group's balances move.** `ExpenseService::restore`
   (`ExpenseService.php:452`) asks for membership only, never `assertWritable`;
   `GroupService.php:189` says "a locked one is mid-settlement — its balances have
   to hold still", as does FR-2.7 (`docs/requirements.md:73-75`).
2. **A confirmed settlement is deleted.** A withdrawal reads "pending", the payee
   confirms, the DELETE (`SettlementService.php:132`) has no condition on status;
   `SettlementService.php:117` says "A confirmed settlement is normally final".
3. **A double tap files twice.** The search for a twin (`ExpenseService.php:73`) is
   outside the transaction that inserts; lines 70-71 say "This is what stops a
   double-tapped Save". The form's own guard does stop it (`FiledOnceUnlessConfirmed`); two
   devices, or a caller without that guard, do not have it.
4. **A late client overtakes everyone.** A ticket purged between `find` and
   `countAhead` makes the subquery NULL and the count 0 (`ScanQueue.php:213`);
   line 30 says oldest ticket first. With punctual clients it is a theorem
   (`TurnsGoOldestFirst`).
5. **Not the minimum number of transfers.** Greedy pairing (`Simplify.php:43`)
   takes four for 3, 2, 2, -3, -4, where three do; `README.md:24-25` promises the
   minimum, FR-6.2 (`docs/requirements.md:252-253`) that it "minimizes" them.
6. **A cancelled scan keeps asking.** On the web, a cancel that falls between two
   waits is heard by nobody, and the scan goes on in line; the phone's mark is read
   (`CancelledStaysOut`).
7. **A late answer moves a session.** The answer to a sign-in, a profile save or a
   `me()` that comes after the session it belongs to was left writes its user or
   token over the next one's.
8. **A late answer closes another sheet.** Handlers close by the sheet's name:
   the answer to a sheet closed and opened again closes the new one.
9. **A digest reaches who has just opted out.** `flushDigests`
   (`EmailNotificationService.php:123`) reads no `notify_level`: rows queued before
   are still mailed after the page of the unsubscribe link has said "You will no
   longer get activity emails from SlyTab" (`Routes/Api.php:265`).
10. **A report is forwarded twice.** Who dies between the mail server's yes and the
   UPDATE (`BugReportService.php:177`), or two overlapping crons, send it again;
   `docs/requirements.md:354-355` says "never twice". `MailedOnce` bounds by what.
11. **What was cached paints over what was loaded.** `landed`
   (`apps/mobile/src/cache.ts:90`) is one load's own. When that load fails with
   its disk still to answer, and the next one is answered first, the older value
   replaces the newer; `cache.ts:81-82` says "painting stale data over fresh data
   would be a bug". `FreshStays` is what the mark does ensure.
12. **A forgotten server keeps its session.** `removeBackend`
   (`apps/mobile/src/backends.ts:186`) writes the list before it deletes the token:
   an app killed in between, or a keystore whose refusal line 187 swallows, leaves
   the token of a server that is no longer listed; added again later, the server
   is signed in without a password. Lines 179-182 say "leaving it behind would mean
   removing a server from the list without removing the credential it holds, which
   is the opposite of what removing it means".

The models contain more behaviours of the kind, stated by no property:

- an archived group still settles: `confirm` and `delete` of a settlement never
  ask `assertSettleable`, whatever FR-2.7 says, so `GroupRules` has no such
  guard and `ArchiveHolds` speaks of the operations that do ask;
- a member leaves owing when an expense or a confirmation lands between the
  balance check and the UPDATE (`LeaveSquare` with two requests);
- a receipt has two places in line when two dialogs ask at once, and the line
  overflows its 25 places by as many requests as are between count and INSERT;
- balances fail to load when payers and shares are read around an update:
  `OnlyRewritesTear` says that nothing else can do it. Of an expense abroad such
  a read does not even fail: `convertEffects` (`BalanceService.php:326`) takes
  whatever is missing for a rounding residual and gives it to the largest
  effect, so the nets cancel and are wrong until the next load;
- buttons without a guard (a payment, a new group, a comment, an invitation by
  mail or by link, the verification mail) file twice when pressed twice;
  `OneRowPerOpening` counts the guarded forms only;
- after the profile is saved with another home currency, the web's Home keeps the
  totals of the old one until it is loaded again (`Unfollowed`);
- a milestone whose process dies between the claim and the mail is never
  announced, and a reminder in the same place is skipped for its cooldown:
  `once` and `record` write first, as their comments want;
- a digest that the mail server refuses is lost: `deliver` logs it
  (`EmailNotificationService.php:180`), its rows are marked all the same, and the
  cron's answer counts it as sent. The class says it is best-effort, and so
  `EverybodyTold` ends at the mail server; `RefusedAgain` (an invariant, in `mail`)
  shows the loss;
- two sweeps, or two presses of "remind", at one time send a reminder twice
  (`OncePerCooldown` excepts them by `crossed`);
- a receipt line below nought, which the parser lets through, cannot be split by
  item: `computeSplit` throws (`packages/core/src/split.ts:194`) in the render that
  follows the first name put on it, and nothing catches it on the sheet. Such a line
  can be ignored; `AssignDone` asks that no line handed over is below nought;
- on the web an avatar's upload closes the profile with what was typed there
  (`Home.tsx:306`, against the warning at `Home.tsx:561`).

## 7. Plan

Money came first (groups, expenses, settlements, the line in front of the
reader), then the arithmetic behind it (`Money`, `AssignItems`) and the clients
(`ExpenseForm`, `Session`, `Screens`), then the mail. What is left, in this order:

1. `SingleUse`: handoff, password reset and email verification with the server's
   sessions: an abstract "a token is redeemed once" and the code's
   read-then-consume.
2. `Import`: rows, payments and twins; import repeated after a partial failure.
3. `DirectGroups`: two people who befriend each other, placeholders claimed.
4. `Receipts`: files, links to expenses, pruning against parsing.

Not planned, with reasons: signature checks and token exchange with Google and
Apple, image normalisation and the model's reading of a receipt (outside
services and I/O); activity, categories, avatars, push, metrics and
release notes (single statements nobody reads back to decide anything); the
PHP copies of the arithmetic (`Split.php`, and `Support/Money.php` but for
`convert`), held to the TypeScript that `Money` models by shared test vectors
(`SharedVectorsTest.php`); where exchange rates come from (`FxService`); helpers that only format text, dates and colours; deployment scripts and tests.

## 8. Running it

    tlc -workers 2 -config group_serial.cfg MCGroup     # any cfg, with its MC module
    tlapm Sums.tla
    tlapm GroupSafety_proofs.tla
    tlapm Simplify_proofs.tla
    tlapm ScanQueue_proofs.tla
    tlapm ExpenseForm_proofs.tla
    tlapm Mail_proofs.tla
    tlapm Session_proofs.tla
    tlapm Screens_proofs.tla

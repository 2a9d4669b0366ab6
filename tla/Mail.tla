-------------------------------- MODULE Mail --------------------------------
(***************************************************************************)
(* The mail the server sends: activity alerts and their digests, reminders *)
(* and nudges, bug reports handed to support, and alerts to the owner.     *)
(* Each service keeps its own record of what was mailed, and each in an    *)
(* order of its own: reminders and immediate alerts are recorded and then  *)
(* sent, digests and reports are sent and then marked, owner alerts are    *)
(* claimed by one conditional statement.  The processes are people's       *)
(* requests and the calls of the cron, which may overlap; any of them may  *)
(* die between two statements.                                             *)
(***************************************************************************)
EXTENDS Naturals, FiniteSets

CONSTANTS
  People,     \* whom alerts and reminders go to
  Events,     \* what happens in groups,
  Audience,   \* to which members, but for who did it,
  Urgent,     \* the ones mailed at once: settlements and joins
  Dues,       \* what people are reminded of
  Reports,    \* bug reports
  Milestones, \* owner alerts that fire once, ever
  Thresholds, \* owner alerts that fire once per cooldown
  None,       \* nothing in hand
  Jobs,       \* bounds of an instance: requests and cron calls at one time,
  Topics,     \* what a behaviour is about, events among it,
  MaxFaults   \* and processes that die, or statements that fail

Kinds == {"settlement", "balance", "nudge"}
Levels == {"all", "important", "none"}
Notes == UNION {{e} \X Audience[e] : e \in Events}
Keys == Milestones \cup Thresholds

ASSUME MailAssumption ==
  /\ Urgent \subseteq Events /\ Audience \in [Events -> SUBSET People]
  /\ \A d \in Dues : d.kind \in Kinds /\ d.to \in People
  /\ Milestones \cap Thresholds = {}
  /\ MaxFaults \in Nat

(* Nobody goes by the name of a kind of process.                           *)
ASSUME NamesAssumption ==
  People \cap {"nobody", "event", "reporter", "cron", "digest", "remind", "report"} = {}

VARIABLES
  topic,   \* what happens in this behaviour
  level,   \* users.notify_level
  alive,   \* whose account is not deleted
  note,    \* notification_emails but for the reminders; ripe past the grace
  recent,  \* <<person, kind>>s with a reminder inside its cooldown
  report,  \* bug_reports; old after two minutes
  alert,   \* ops_alerts: never fired, fired within the cooldown, or before
  job,     \* what each process is at
  mailed,  \* how often the mail server took each note,
  lost,    \* each note in a mail it refused,
  nagged,  \* each <<person, kind>> reminded inside one cooldown,
  taken,   \* each report taken by the mail server,
  alarmed, \* each key sent since it last cooled off
  faults,
  crossed  \* what two processes have done at one time

tables == <<level, alive, note, recent, report, alert>>
sent == <<mailed, lost, nagged, taken, alarmed>>
bounds == <<topic, faults>>
vars == <<tables, sent, job, bounds, crossed>>

(* Where a process is, on whose call, what it has yet to handle, and what  *)
(* it has in hand.                                                         *)
Idle == [at |-> "idle", by |-> "nobody", todo |-> {}, on |-> None]

TypeOK ==
  /\ level \in [People -> Levels] /\ alive \subseteq People
  /\ note \in [Notes -> {"none", "fresh", "ripe", "sent"}]
  /\ recent \subseteq People \X Kinds
  /\ report \in [Reports -> {"none", "new", "old", "forwarded"}]
  /\ alert \in [Keys -> {"never", "recent", "due"}]
  /\ mailed \in [Notes -> Nat] /\ lost \subseteq Notes
  /\ nagged \in [People \X Kinds -> Nat]
  /\ taken \in [Reports -> Nat] /\ alarmed \in [Keys -> Nat]
  /\ topic \in Topics /\ faults \in 0 .. MaxFaults

Init ==
  /\ topic \in Topics
  /\ level = [u \in People |-> "all"] /\ alive = People
  /\ note = [n \in Notes |-> "none"] /\ recent = {}
  /\ report = [r \in Reports |-> "none"]
  /\ alert = [k \in Keys |-> "never"]
  /\ job = [p \in Jobs |-> Idle]
  /\ mailed = [n \in Notes |-> 0] /\ lost = {}
  /\ nagged = [w \in People \X Kinds |-> 0]
  /\ taken = [r \in Reports |-> 0] /\ alarmed = [k \in Keys |-> 0]
  /\ faults = 0 /\ crossed = {}

-----------------------------------------------------------------------------
(* Processes                                                               *)

At(p, at) == job[p].at = at

Goto(p, at, todo, on) ==
  job' = [job EXCEPT ![p] = [at |-> at, by |-> @.by, todo |-> todo, on |-> on]]

End(p) == job' = [job EXCEPT ![p] = Idle]

(* One thing on the list is dealt with.  After the last, the cron goes on  *)
(* to its next part and anything else is done.                             *)
GoOn(p, list, todo) ==
  CASE todo # {} -> Goto(p, list, todo, None)
    [] todo = {} /\ list = "reports" -> Goto(p, "listDigest", {}, None)
    [] todo = {} /\ list = "digest" /\ job[p].by = "cron" -> Goto(p, "sweep", {}, None)
    [] OTHER -> End(p)

(* What two processes can both be working through.  A nudge goes by the    *)
(* name of its debtor.                                                     *)
Works(by) ==
  CASE by = "cron" -> {"report", "digest", "remind"}
    [] by \in {"reporter", "event"} -> {}
    [] OTHER -> {by}

Start(p, by, at, todo, on) ==
  /\ At(p, "idle")
  /\ job' = [job EXCEPT ![p] = [at |-> at, by |-> by, todo |-> todo, on |-> on]]
  /\ crossed' = crossed \cup
       UNION {Works(by) \cap Works(job[q].by) : q \in Jobs \ {p}}

(* A process is killed between two statements, or one of them throws: the  *)
(* cron's three jobs do not share a fate, anything else ends there.        *)
Die(p) ==
  /\ ~At(p, "idle") /\ faults < MaxFaults
  /\ faults' = faults + 1
  /\ End(p)
  /\ UNCHANGED <<tables, sent, topic, crossed>>

Throw(p) ==
  /\ job[p].by = "cron" /\ faults < MaxFaults
  /\ faults' = faults + 1
  /\ \/ /\ job[p].at \in {"forwardPending", "reports", "find", "dispatch", "forwarded"}
        /\ Goto(p, "listDigest", {}, None)
     \/ /\ job[p].at \in {"listDigest", "digest", "mark"}
        /\ Goto(p, "sweep", {}, None)
  /\ UNCHANGED <<tables, sent, topic, crossed>>

-----------------------------------------------------------------------------
(* Alerts about a group                                                    *)

Wants(u, speed) == level[u] = "all" \/ (level[u] = "important" /\ speed = "immediate")

(* Something happens in a group: its members and who of them wants to hear *)
(* of it are read at once.                                                 *)
queue(p, e) ==
  LET speed == IF e \in Urgent THEN "immediate" ELSE "digest" IN
  /\ e \in topic
  /\ \A u \in Audience[e] : note[<<e, u>>] = "none"
  /\ \A q \in Jobs : At(q, "insert") => \A n \in job[q].todo : n[1] # e
  /\ LET told == {m \in Audience[e] \cap alive : Wants(m, speed)}
     IN told # {} /\ Start(p, "event", "insert", {<<e, u>> : u \in told}, None)
  /\ UNCHANGED <<tables, sent, bounds>>

(* Settlements and joins are recorded as sent and go out at once, the rest *)
(* waits for the digest.                                                   *)
insertNote(p, n) ==
  LET immediate == n[1] \in Urgent IN
  /\ At(p, "insert") /\ n \in job[p].todo
  /\ note' = [note EXCEPT ![n] = IF immediate THEN "sent" ELSE "fresh"]
  /\ IF immediate THEN Goto(p, "deliver", job[p].todo \ {n}, n)
     ELSE GoOn(p, "insert", job[p].todo \ {n})
  /\ UNCHANGED <<level, alive, recent, report, alert, sent, bounds, crossed>>

(* A refusal by the mail server is logged, no more.                        *)
deliver(p) ==
  /\ At(p, "deliver")
  /\ \/ mailed' = [mailed EXCEPT ![job[p].on] = @ + 1] /\ lost' = lost
     \/ lost' = lost \cup {job[p].on} /\ mailed' = mailed
  /\ GoOn(p, "insert", job[p].todo)
  /\ UNCHANGED <<tables, nagged, taken, alarmed, bounds, crossed>>

(* Not the code: rows still inside the grace.                              *)
listDigestYoung(p) ==
  /\ At(p, "listDigest")
  /\ GoOn(p, "digest", {n \in Notes : n[2] \in alive /\ note[n] = "fresh"})
  /\ UNCHANGED <<tables, sent, bounds, crossed>>

(* Rows past the grace; the route that forces a digest has none.           *)
listDigest(p) ==
  /\ At(p, "listDigest")
  /\ GoOn(p, "digest",
          {n \in Notes : /\ n[2] \in alive
                         /\ \/ note[n] = "ripe"
                            \/ (note[n] = "fresh" /\ job[p].by = "digest")})
  /\ UNCHANGED <<tables, sent, bounds, crossed>>

Rows(p, u) == {n \in job[p].todo : n[2] = u}

(* One mail for all of a person's rows, which the mail server takes or     *)
(* refuses: this too is logged ...                                         *)
sendDigest(p, u) ==
  /\ At(p, "digest") /\ Rows(p, u) # {}
  /\ \/ /\ mailed' = [n \in Notes |-> mailed[n] + (IF n \in Rows(p, u) THEN 1 ELSE 0)]
        /\ lost' = lost
     \/ lost' = lost \cup Rows(p, u) /\ mailed' = mailed
  /\ Goto(p, "mark", job[p].todo, u)
  /\ UNCHANGED <<tables, nagged, taken, alarmed, bounds, crossed>>

(* Not the code: all the person's rows are marked, later ones too.         *)
markAllSent(p) ==
  LET u == job[p].on IN
  /\ At(p, "mark")
  /\ note' = [n \in Notes |-> IF n[2] = u /\ note[n] # "none" THEN "sent" ELSE note[n]]
  /\ GoOn(p, "digest", job[p].todo \ Rows(p, u))
  /\ UNCHANGED <<level, alive, recent, report, alert, sent, bounds, crossed>>

(* ... and the rows are marked, whether it was taken or not.               *)
markSent(p) ==
  LET rows == Rows(p, job[p].on) IN
  /\ At(p, "mark")
  /\ note' = [n \in Notes |-> IF n \in rows THEN "sent" ELSE note[n]]
  /\ GoOn(p, "digest", job[p].todo \ rows)
  /\ UNCHANGED <<level, alive, recent, report, alert, sent, bounds, crossed>>

-----------------------------------------------------------------------------
(* Reminders                                                               *)

Swept == {d \in Dues : "reminders" \in topic /\ d.kind # "nudge"}

(* Payments nobody confirmed, with their payees' preferences, and balances *)
(* nobody touched: whichever there are.                                    *)
sweep(p, due) ==
  /\ At(p, "sweep")
  /\ GoOn(p, "due", {d \in due : d.kind = "settlement" =>
                                   d.to \in alive /\ level[d.to] # "none"})
  /\ UNCHANGED <<tables, sent, bounds, crossed>>

(* Payments first.  A debtor is looked up only now.                        *)
person(p, d) ==
  /\ At(p, "due") /\ d \in job[p].todo
  /\ d.kind = "balance" => \A c \in job[p].todo : c.kind = "balance"
  /\ IF d.kind = "settlement" \/ (d.to \in alive /\ level[d.to] # "none")
     THEN Goto(p, "count", job[p].todo \ {d}, d)
     ELSE GoOn(p, "due", job[p].todo \ {d})
  /\ UNCHANGED <<tables, sent, bounds, crossed>>

What(p) == <<job[p].on.to, job[p].on.kind>>

(* Nothing is sent about what was mailed of inside the cooling-off period. *)
shouldSend(p) ==
  /\ At(p, "count")
  /\ IF What(p) \in recent THEN GoOn(p, "due", job[p].todo)
     ELSE Goto(p, "record", job[p].todo, job[p].on)
  /\ UNCHANGED <<tables, sent, bounds, crossed>>

(* Recorded first: a mail that fails is skipped, never repeated.           *)
record(p) ==
  /\ At(p, "record")
  /\ recent' = recent \cup {What(p)}
  /\ Goto(p, "send", job[p].todo, job[p].on)
  /\ UNCHANGED <<level, alive, note, report, alert, sent, bounds, crossed>>

send(p) ==
  /\ At(p, "send")
  /\ nagged' = [nagged EXCEPT ![What(p)] = @ + 1]
  /\ GoOn(p, "due", job[p].todo)
  /\ UNCHANGED <<tables, mailed, lost, taken, alarmed, bounds, crossed>>

(* A creditor asks a debtor by hand.                                       *)
nudge(p, d) ==
  /\ "nudges" \in topic /\ d.kind = "nudge"
  /\ Start(p, d.to, "due", {d}, None)
  /\ UNCHANGED <<tables, sent, bounds>>

-----------------------------------------------------------------------------
(* Bug reports                                                             *)

(* Where forward() returns to: the cron has a list, a report's request is  *)
(* done.                                                                   *)
Forwarded(p) == IF job[p].by = "cron" THEN GoOn(p, "reports", job[p].todo) ELSE End(p)

reportBug(p, r) ==
  /\ "reports" \in topic /\ report[r] = "none"
  /\ report' = [report EXCEPT ![r] = "new"]
  /\ Start(p, "reporter", "find", {}, r)
  /\ UNCHANGED <<level, alive, note, recent, alert, sent, bounds>>

(* Not the code: every report, however young.                              *)
forwardPendingAtOnce(p) ==
  /\ At(p, "forwardPending")
  /\ GoOn(p, "reports", {r \in Reports : report[r] \in {"new", "old"}})
  /\ UNCHANGED <<tables, sent, bounds, crossed>>

(* Every report the request could not forward, once it is two minutes old. *)
forwardPending(p) ==
  /\ At(p, "forwardPending")
  /\ GoOn(p, "reports", {r \in Reports : report[r] = "old"})
  /\ UNCHANGED <<tables, sent, bounds, crossed>>

nextReport(p, r) ==
  /\ At(p, "reports") /\ r \in job[p].todo
  /\ Goto(p, "find", job[p].todo \ {r}, r)
  /\ UNCHANGED <<tables, sent, bounds, crossed>>

find(p) ==
  /\ At(p, "find")
  /\ IF report[job[p].on] \in {"new", "old"} THEN Goto(p, "dispatch", job[p].todo, job[p].on)
     ELSE Forwarded(p)
  /\ UNCHANGED <<tables, sent, bounds, crossed>>

accepted(p) ==
  /\ At(p, "dispatch")
  /\ taken' = [taken EXCEPT ![job[p].on] = @ + 1]
  /\ Goto(p, "forwarded", job[p].todo, job[p].on)
  /\ UNCHANGED <<tables, mailed, lost, nagged, alarmed, bounds, crossed>>

(* The mail server will not have it: the cron will try again.              *)
refused(p) ==
  /\ At(p, "dispatch")
  /\ Forwarded(p)
  /\ UNCHANGED <<tables, sent, bounds, crossed>>

markForwarded(p) ==
  /\ At(p, "forwarded")
  /\ report' = [report EXCEPT ![job[p].on] = "forwarded"]
  /\ Forwarded(p)
  /\ UNCHANGED <<level, alive, note, recent, alert, sent, bounds, crossed>>

-----------------------------------------------------------------------------
(* Alerts to the owner                                                     *)

(* A signup: every milestone at or below the count.                        *)
userMilestone(p, reached) ==
  /\ "owner" \in topic /\ reached # {}
  /\ Start(p, "event", "once", reached, None)
  /\ UNCHANGED <<tables, sent, bounds>>

(* INSERT IGNORE: the row appears or it does not.                          *)
once(p, k) ==
  /\ At(p, "once") /\ k \in job[p].todo
  /\ alert' = [alert EXCEPT ![k] = IF @ = "never" THEN "recent" ELSE @]
  /\ IF alert[k] = "never" THEN Goto(p, "alarm", job[p].todo \ {k}, k)
     ELSE GoOn(p, "once", job[p].todo \ {k})
  /\ UNCHANGED <<level, alive, note, recent, report, sent, bounds, crossed>>

(* A ticket made the line too long.                                        *)
scanQueueDeep(p, k) ==
  /\ "owner" \in topic
  /\ Start(p, "event", "throttled", {}, k)
  /\ UNCHANGED <<tables, sent, bounds>>

(* Not the code: the UPDATE has no condition on the cooldown.              *)
throttledAnyway(p) ==
  LET k == job[p].on IN
  /\ At(p, "throttled")
  /\ alert' = [alert EXCEPT ![k] = IF @ = "due" THEN "recent" ELSE @]
  /\ Goto(p, IF alert[k] = "never" THEN "insertAlert" ELSE "alarm", {}, k)
  /\ UNCHANGED <<level, alive, note, recent, report, sent, bounds, crossed>>

(* The conditional UPDATE: one caller wins.                                *)
throttled(p) ==
  LET k == job[p].on IN
  /\ At(p, "throttled")
  /\ alert' = [alert EXCEPT ![k] = IF @ = "due" THEN "recent" ELSE @]
  /\ Goto(p, IF alert[k] = "due" THEN "alarm" ELSE "insertAlert", {}, k)
  /\ UNCHANGED <<level, alive, note, recent, report, sent, bounds, crossed>>

(* Not due, or never fired: the INSERT tells which.                        *)
insertAlert(p) ==
  LET k == job[p].on IN
  /\ At(p, "insertAlert")
  /\ alert' = [alert EXCEPT ![k] = IF @ = "never" THEN "recent" ELSE @]
  /\ IF alert[k] = "never" THEN Goto(p, "alarm", {}, k) ELSE End(p)
  /\ UNCHANGED <<level, alive, note, recent, report, sent, bounds, crossed>>

alarm(p) ==
  /\ At(p, "alarm")
  /\ alarmed' = [alarmed EXCEPT ![job[p].on] = @ + 1]
  /\ GoOn(p, "once", job[p].todo)
  /\ UNCHANGED <<tables, mailed, lost, nagged, taken, bounds, crossed>>

-----------------------------------------------------------------------------
(* The owner's server, its clock and its people                            *)

(* POST /bug-sync every ten minutes, and its parts on routes of their own. *)
cron(p) == Start(p, "cron", "forwardPending", {}, None) /\ UNCHANGED <<tables, sent, bounds>>

forceDigest(p) ==
  /\ "digest" \in topic
  /\ Start(p, "digest", "listDigest", {}, None)
  /\ UNCHANGED <<tables, sent, bounds>>

forceReminders(p) ==
  /\ "reminders" \in topic
  /\ Start(p, "remind", "sweep", {}, None)
  /\ UNCHANGED <<tables, sent, bounds>>

Ripen(n) ==
  /\ note[n] = "fresh"
  /\ note' = [note EXCEPT ![n] = "ripe"]
  /\ UNCHANGED <<level, alive, recent, report, alert, sent, job, bounds, crossed>>

(* Nothing takes as long as what is waited for: two minutes to forward a   *)
(* report, ...                                                             *)
GrowOld(r) ==
  /\ report[r] = "new"
  /\ \A p \in Jobs : job[p].by = "reporter" => job[p].on # r
  /\ report' = [report EXCEPT ![r] = "old"]
  /\ UNCHANGED <<level, alive, note, recent, alert, sent, job, bounds, crossed>>

(* ... days to send a reminder, ...                                        *)
CoolOff(w) ==
  /\ w \in recent
  /\ \A p \in Jobs : At(p, "send") => What(p) # w
  /\ recent' = recent \ {w} /\ nagged' = [nagged EXCEPT ![w] = 0]
  /\ UNCHANGED <<level, alive, note, report, alert, mailed, lost, taken, alarmed, job,
                 bounds, crossed>>

(* ... an hour to alert the owner.                                         *)
FallDue(k) ==
  /\ alert[k] = "recent"
  /\ \A p \in Jobs : At(p, "alarm") => job[p].on # k
  /\ alert' = [alert EXCEPT ![k] = "due"] /\ alarmed' = [alarmed EXCEPT ![k] = 0]
  /\ UNCHANGED <<level, alive, note, recent, report, mailed, lost, nagged, taken, job,
                 bounds, crossed>>

(* PATCH /me, and the link in every mail.                                  *)
setLevel(u, l) ==
  /\ "settings" \in topic /\ u \in alive /\ level[u] # l
  /\ level' = [level EXCEPT ![u] = l]
  /\ UNCHANGED <<alive, note, recent, report, alert, sent, job, bounds, crossed>>

updateProfile(u) == \E l \in Levels : setLevel(u, l)
unsubscribe(u) == setLevel(u, "none")

deleteAccount(u) ==
  /\ "leaving" \in topic /\ u \in alive
  /\ alive' = alive \ {u}
  /\ UNCHANGED <<level, note, recent, report, alert, sent, job, bounds, crossed>>

Step(p) ==
  \/ \E n \in Notes : insertNote(p, n)
  \/ deliver(p) \/ listDigest(p) \/ markSent(p)
  \/ \E u \in People : sendDigest(p, u)
  \/ \E due \in SUBSET Swept : sweep(p, due)
  \/ \E d \in Dues : person(p, d)
  \/ shouldSend(p) \/ record(p) \/ send(p)
  \/ forwardPending(p) \/ find(p) \/ accepted(p) \/ refused(p)
  \/ markForwarded(p)
  \/ \E r \in Reports : nextReport(p, r)
  \/ \E k \in Keys : once(p, k)
  \/ throttled(p) \/ insertAlert(p) \/ alarm(p)

Call(p) ==
  \/ \E e \in Events : queue(p, e)
  \/ \E d \in Dues : nudge(p, d)
  \/ \E r \in Reports : reportBug(p, r)
  \/ \E reached \in SUBSET Milestones : userMilestone(p, reached)
  \/ \E k \in Thresholds : scanQueueDeep(p, k)
  \/ cron(p) \/ forceDigest(p) \/ forceReminders(p)

Pass ==
  \/ \E n \in Notes : Ripen(n)
  \/ \E r \in Reports : GrowOld(r)
  \/ \E w \in recent : CoolOff(w)
  \/ \E k \in Thresholds : FallDue(k)

Change == \E u \in People : updateProfile(u) \/ unsubscribe(u) \/ deleteAccount(u)

Next ==
  \/ \E p \in Jobs : Step(p) \/ Call(p) \/ Die(p) \/ Throw(p)
  \/ Pass \/ Change

Spec == Init /\ [][Next]_vars

(* The cron keeps being run, whatever else keeps the few processes of an   *)
(* instance busy; what runs goes on; time passes; and a mail server that   *)
(* is asked about a report again and again takes it some day.              *)
FairSpec ==
  /\ Spec
  /\ \A p \in Jobs : WF_vars(Step(p))
  /\ SF_vars(\E p \in Jobs : cron(p))
  /\ \A n \in Notes : WF_vars(Ripen(n))
  /\ \A r \in Reports :
       /\ SF_vars(GrowOld(r))
       /\ SF_vars(\E p \in Jobs : job[p].on = r /\ accepted(p))

-----------------------------------------------------------------------------
(* Properties                                                              *)

(* A row of the digest counts as sent only after the mail server took it   *)
(* or refused it, and a report as forwarded only after it took it.         *)
NothingMarkedUnsaid ==
  /\ \A n \in Notes :
       note[n] = "sent" /\ n[1] \notin Urgent => mailed[n] >= 1 \/ n \in lost
  /\ \A r \in Reports : report[r] = "forwarded" => taken[r] >= 1

(* However often the cron runs: what two processes did not work through at *)
(* one time is mailed once, and once more for each that died before it had *)
(* marked it.                                                              *)
MailedOnce ==
  /\ "digest" \notin crossed => \A n \in Notes : mailed[n] <= 1 + faults
  /\ "report" \notin crossed => \A r \in Reports : taken[r] <= 1 + faults

(* Nobody is reminded of a kind of debt twice inside its cooldown, by      *)
(* sweeps or by hand, unless two did so at one time; and the owner, who is *)
(* alerted by whoever comes first, hears of a milestone once and of a      *)
(* threshold once per cooldown.                                            *)
OncePerCooldown ==
  /\ \A w \in People \X Kinds :
       nagged[w] >= 2 => (IF w[2] = "nudge" THEN w[1] ELSE "remind") \in crossed
  /\ \A k \in Keys : alarmed[k] <= 1

(* Whatever dies: an alert queued for the digest is given to the mail      *)
(* server in the end, unless its person is gone, and a bug report reaches  *)
(* support.  A report that is refused is tried again; an alert that is     *)
(* refused is lost.  (Each happens once, so that what waits for ever would *)
(* be waiting for good.)                                                   *)
EverybodyTold ==
  []<>(/\ \A n \in Notes :
            note[n] # "none" /\ n[1] \notin Urgent /\ n[2] \in alive
              => mailed[n] >= 1 \/ n \in lost
       /\ \A r \in Reports : report[r] # "none" => taken[r] >= 1)

(* Not so: the digest that a mail server refuses is tried again.  Its rows *)
(* are marked as if it had gone out.                                       *)
RefusedAgain ==
  \A n \in Notes : note[n] = "sent" /\ n[1] \notin Urgent => mailed[n] >= 1

(* Not so: who wants no mail gets none.  A digest asks for the preference  *)
(* when a row is queued, not when it is sent ten minutes later.            *)
MutedHearsNothing ==
  [][\A n \in Notes : n[1] \notin Urgent /\ mailed'[n] > mailed[n]
                         => level[n[2]] # "none"]_vars

(* Not so: a report that was forwarded is never sent again.  Who dies      *)
(* after the mail server took it has not marked it yet.                    *)
ForwardedOnce == \A r \in Reports : taken[r] <= 1
=============================================================================

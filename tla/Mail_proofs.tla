----------------------------- MODULE Mail_proofs -----------------------------
(***************************************************************************)
(* For any people, events, reports and processes, and however many of them *)
(* die: what counts as sent was sent, and nothing is sent twice that was   *)
(* not worked through by two at one time or dropped by one that died.      *)
(***************************************************************************)
EXTENDS Mail, TLAPS

Places ==
  {"idle", "insert", "deliver", "listDigest", "digest", "mark", "sweep", "due",
   "count", "record", "send", "forwardPending", "reports", "find", "dispatch",
   "forwarded", "once", "throttled", "insertAlert", "alarm"}

Callers == {"nobody", "event", "reporter", "cron", "digest", "remind"} \cup People

Things == Notes \cup People \cup Dues \cup Reports \cup Keys \cup {None}

Job == [at : Places, by : Callers, todo : SUBSET Things, on : Things]

Listing(j, places, list) == j.at \in places => j.todo \subseteq list
Holding(j, places, list) == j.at \in places => j.on \in list

(* What a process at a statement has to handle, and has in hand.           *)
InPlace(j) ==
  /\ Listing(j, {"insert", "deliver", "digest", "mark"}, Notes)
  /\ Listing(j, {"due", "count", "record", "send"}, Dues)
  /\ Listing(j, {"reports", "find", "dispatch", "forwarded"}, Reports)
  /\ Listing(j, {"once", "alarm"}, Keys)
  /\ Holding(j, {"deliver"}, Notes)
  /\ Holding(j, {"mark"}, People)
  /\ Holding(j, {"count", "record", "send"}, Dues)
  /\ Holding(j, {"find", "dispatch", "forwarded"}, Reports)
  /\ Holding(j, {"throttled", "insertAlert", "alarm"}, Keys)

JobsOK == job \in [Jobs -> Job] /\ \A p \in Jobs : InPlace(job[p])

(* One process moves on.                                                   *)
Only(p) == job' \in [Jobs -> Job] /\ \A q \in Jobs \ {p} : job'[q] = job[q]

Follows(p, at, todo, on) ==
  job'[p] = [at |-> at, by |-> job[p].by, todo |-> todo, on |-> on]

(* After a thing on a list: the next one, the next part of the cron, or    *)
(* the end.                                                                *)
GoesOn(p, list, todo) ==
  \/ Follows(p, list, todo, None)
  \/ list = "reports" /\ Follows(p, "listDigest", {}, None)
  \/ list = "digest" /\ job[p].by = "cron" /\ Follows(p, "sweep", {}, None)
  \/ job'[p] = Idle

LEMMA GotoIs ==
  ASSUME job \in [Jobs -> Job], NEW p \in Jobs, NEW at \in Places,
         NEW todo \in SUBSET Things, NEW on \in Things, Goto(p, at, todo, on)
  PROVE  Only(p) /\ Follows(p, at, todo, on)
<1>1. job[p] \in Job
  OBVIOUS
<1>2. job' = [job EXCEPT ![p] = [at |-> at, by |-> job[p].by, todo |-> todo, on |-> on]]
  BY DEF Goto
<1>3. [at |-> at, by |-> job[p].by, todo |-> todo, on |-> on] \in Job
  BY <1>1 DEF Job
<1> QED BY <1>2, <1>3 DEF Only, Follows

LEMMA EndIs ==
  ASSUME job \in [Jobs -> Job], NEW p \in Jobs, End(p)
  PROVE  Only(p) /\ job'[p] = Idle
<1>1. Idle \in Job
  BY DEF Idle, Job, Places, Callers, Things
<1> QED BY <1>1 DEF End, Only

LEMMA StartIs ==
  ASSUME job \in [Jobs -> Job], NEW p \in Jobs, NEW by \in Callers, NEW at \in Places,
         NEW todo \in SUBSET Things, NEW on \in Things, Start(p, by, at, todo, on)
  PROVE  /\ Only(p) /\ job[p].at = "idle"
         /\ job'[p] = [at |-> at, by |-> by, todo |-> todo, on |-> on]
<1>1. [at |-> at, by |-> by, todo |-> todo, on |-> on] \in Job
  BY DEF Job
<1> QED BY <1>1 DEF Start, At, Only

LEMMA GoOnIs ==
  ASSUME job \in [Jobs -> Job], NEW p \in Jobs, NEW list \in Places,
         NEW todo \in SUBSET Things, GoOn(p, list, todo)
  PROVE  Only(p) /\ GoesOn(p, list, todo)
<1>1. None \in Things /\ {} \in SUBSET Things
  BY DEF Things
<1>2. {"listDigest", "sweep"} \subseteq Places
  BY DEF Places
<1>3. CASE todo # {}
  BY <1>1, <1>3, GotoIs DEF GoOn, GoesOn
<1>4. CASE todo = {} /\ list = "reports"
  BY <1>1, <1>2, <1>4, GotoIs DEF GoOn, GoesOn
<1>5. CASE todo = {} /\ list = "digest" /\ job[p].by = "cron"
  BY <1>1, <1>2, <1>5, GotoIs DEF GoOn, GoesOn
<1>6. CASE todo = {} /\ list # "reports" /\ ~(list = "digest" /\ job[p].by = "cron")
  BY <1>6, EndIs DEF GoOn, GoesOn
<1> QED BY <1>3, <1>4, <1>5, <1>6

USE DEF At

Typed == TypeOK /\ JobsOK

LEMMA OnlyOne ==
  ASSUME JobsOK, NEW p \in Jobs, Only(p), InPlace(job'[p]) PROVE JobsOK'
  BY DEF JobsOK, Only

LEMMA IdleInPlace == InPlace(Idle)
  BY DEF InPlace, Idle, Listing, Holding

(* A process between the parts of its work holds nothing.                  *)
LEMMA BareInPlace ==
  ASSUME NEW j, j.at \in {"listDigest", "sweep", "forwardPending"} PROVE InPlace(j)
  BY DEF InPlace, Listing, Holding

LEMMA KnownThings ==
  /\ Notes \subseteq Things /\ Dues \subseteq Things /\ Reports \subseteq Things
  /\ Keys \subseteq Things /\ People \subseteq Things
  /\ None \in Things /\ {} \in SUBSET Things
  BY DEF Things

LEMMA NoteIs ==
  ASSUME NEW n \in Notes
  PROVE  n[1] \in Events /\ n[2] \in Audience[n[1]] /\ n[2] \in People
<1>1. PICK e \in Events : n \in {e} \X Audience[e]
  BY DEF Notes
<1>2. n[1] = e /\ n[2] \in Audience[e]
  BY <1>1
<1> QED BY <1>2, MailAssumption

LEMMA WhatIs ==
  ASSUME JobsOK, NEW p \in Jobs, job[p].at \in {"count", "record", "send"}
  PROVE  /\ job[p].on \in Dues /\ job[p].todo \subseteq Dues
         /\ What(p) \in People \X Kinds
<1>1. job[p].on \in Dues /\ job[p].todo \subseteq Dues
  BY DEF JobsOK, InPlace, Listing, Holding
<1> QED BY <1>1, MailAssumption DEF What

-----------------------------------------------------------------------------
(* Where each statement takes its process                                  *)

LEMMA AlertMoves ==
  ASSUME JobsOK, NEW p \in Jobs
  PROVE  /\ \A n \in Notes : insertNote(p, n) =>
              /\ Only(p) /\ job[p].todo \subseteq Notes
              /\ IF n[1] \in Urgent THEN Follows(p, "deliver", job[p].todo \ {n}, n)
                 ELSE GoesOn(p, "insert", job[p].todo \ {n})
         /\ deliver(p) =>
              /\ Only(p) /\ job[p].todo \subseteq Notes /\ job[p].on \in Notes
              /\ GoesOn(p, "insert", job[p].todo)
<1>a. {"insert", "deliver"} \subseteq Places
  BY DEF Places
<1>1. ASSUME NEW n \in Notes, insertNote(p, n)
      PROVE  /\ Only(p) /\ job[p].todo \subseteq Notes
             /\ IF n[1] \in Urgent THEN Follows(p, "deliver", job[p].todo \ {n}, n)
                ELSE GoesOn(p, "insert", job[p].todo \ {n})
  <2>1. job[p].todo \subseteq Notes
    BY <1>1 DEF insertNote, JobsOK, InPlace, Listing
  <2> QED BY <1>1, <1>a, <2>1, KnownThings, GotoIs, GoOnIs DEF insertNote, JobsOK
<1>2. ASSUME deliver(p)
      PROVE  /\ Only(p) /\ job[p].todo \subseteq Notes /\ job[p].on \in Notes
             /\ GoesOn(p, "insert", job[p].todo)
  <2>1. job[p].todo \subseteq Notes /\ job[p].on \in Notes
    BY <1>2 DEF deliver, JobsOK, InPlace, Listing, Holding
  <2> QED BY <1>2, <1>a, <2>1, KnownThings, GoOnIs DEF deliver, JobsOK
<1> QED BY <1>1, <1>2

(* The rows a digest finds.                                                *)
Found(p) ==
  {n \in Notes : n[2] \in alive /\ (note[n] = "ripe"
                                    \/ (note[n] = "fresh" /\ job[p].by = "digest"))}

LEMMA DigestMoves ==
  ASSUME JobsOK, NEW p \in Jobs
  PROVE  /\ listDigest(p) => Only(p) /\ GoesOn(p, "digest", Found(p))
         /\ \A u \in People : sendDigest(p, u) =>
              Only(p) /\ job[p].todo \subseteq Notes /\ Follows(p, "mark", job[p].todo, u)
         /\ markSent(p) =>
              /\ Only(p) /\ job[p].todo \subseteq Notes
              /\ GoesOn(p, "digest", job[p].todo \ Rows(p, job[p].on))
<1>a. {"digest", "mark"} \subseteq Places
  BY DEF Places
<1>1. ASSUME listDigest(p) PROVE Only(p) /\ GoesOn(p, "digest", Found(p))
  <2>1. GoOn(p, "digest", Found(p)) /\ Found(p) \in SUBSET Things
    BY <1>1, KnownThings DEF listDigest, Found
  <2> QED BY <1>a, <2>1, GoOnIs DEF JobsOK
<1>2. ASSUME NEW u \in People, sendDigest(p, u)
      PROVE  Only(p) /\ job[p].todo \subseteq Notes /\ Follows(p, "mark", job[p].todo, u)
  <2>1. job[p].todo \subseteq Notes
    BY <1>2 DEF sendDigest, JobsOK, InPlace, Listing
  <2> QED BY <1>2, <1>a, <2>1, KnownThings, GotoIs DEF sendDigest, JobsOK
<1>3. ASSUME markSent(p)
      PROVE  /\ Only(p) /\ job[p].todo \subseteq Notes
             /\ GoesOn(p, "digest", job[p].todo \ Rows(p, job[p].on))
  <2>1. job[p].todo \subseteq Notes
    BY <1>3 DEF markSent, JobsOK, InPlace, Listing
  <2> QED BY <1>3, <1>a, <2>1, KnownThings, GoOnIs DEF markSent, JobsOK
<1> QED BY <1>1, <1>2, <1>3

LEMMA ReminderMoves ==
  ASSUME JobsOK, NEW p \in Jobs
  PROVE  /\ \A due \in SUBSET Swept : sweep(p, due) =>
              Only(p) /\ \E found \in SUBSET Swept : GoesOn(p, "due", found)
         /\ \A d \in Dues : person(p, d) =>
              /\ Only(p) /\ job[p].todo \subseteq Dues
              /\ \/ Follows(p, "count", job[p].todo \ {d}, d)
                 \/ GoesOn(p, "due", job[p].todo \ {d})
         /\ shouldSend(p) =>
              /\ Only(p)
              /\ IF What(p) \in recent THEN GoesOn(p, "due", job[p].todo)
                 ELSE Follows(p, "record", job[p].todo, job[p].on)
         /\ record(p) => Only(p) /\ Follows(p, "send", job[p].todo, job[p].on)
         /\ send(p) => Only(p) /\ GoesOn(p, "due", job[p].todo)
<1>a. {"due", "count", "record", "send"} \subseteq Places
  BY DEF Places
<1>1. ASSUME NEW due \in SUBSET Swept, sweep(p, due)
      PROVE  Only(p) /\ \E found \in SUBSET Swept : GoesOn(p, "due", found)
  <2>1. PICK found \in SUBSET Swept : GoOn(p, "due", found)
    BY <1>1 DEF sweep
  <2>2. Swept \subseteq Things
    BY KnownThings DEF Swept
  <2> QED BY <1>a, <2>1, <2>2, GoOnIs DEF JobsOK
<1>2. ASSUME NEW d \in Dues, person(p, d)
      PROVE  /\ Only(p) /\ job[p].todo \subseteq Dues
             /\ \/ Follows(p, "count", job[p].todo \ {d}, d)
                \/ GoesOn(p, "due", job[p].todo \ {d})
  <2>1. job[p].todo \subseteq Dues
    BY <1>2 DEF person, JobsOK, InPlace, Listing
  <2> QED BY <1>2, <1>a, <2>1, KnownThings, GotoIs, GoOnIs DEF person, JobsOK
<1>3. ASSUME shouldSend(p) \/ record(p) \/ send(p)
      PROVE  job[p].todo \in SUBSET Things /\ job[p].on \in Things
  BY <1>3 DEF shouldSend, record, send, JobsOK, Job
<1>4. shouldSend(p) =>
        /\ Only(p)
        /\ IF What(p) \in recent THEN GoesOn(p, "due", job[p].todo)
           ELSE Follows(p, "record", job[p].todo, job[p].on)
  BY <1>3, <1>a, GotoIs, GoOnIs DEF shouldSend, JobsOK
<1>5. record(p) => Only(p) /\ Follows(p, "send", job[p].todo, job[p].on)
  BY <1>3, <1>a, GotoIs DEF record, JobsOK
<1>6. send(p) => Only(p) /\ GoesOn(p, "due", job[p].todo)
  BY <1>3, <1>a, GoOnIs DEF send, JobsOK
<1> QED BY <1>1, <1>2, <1>4, <1>5, <1>6

OldOnes == {r \in Reports : report[r] = "old"}

(* Where forward() returns to.                                             *)
Returns(p) ==
  IF job[p].by = "cron" THEN GoesOn(p, "reports", job[p].todo) ELSE job'[p] = Idle

LEMMA ReportMoves ==
  ASSUME JobsOK, NEW p \in Jobs
  PROVE  /\ forwardPending(p) => Only(p) /\ GoesOn(p, "reports", OldOnes)
         /\ \A r \in Reports : nextReport(p, r) =>
              /\ Only(p) /\ job[p].todo \subseteq Reports
              /\ Follows(p, "find", job[p].todo \ {r}, r)
         /\ find(p) =>
              /\ Only(p)
              /\ IF report[job[p].on] \in {"new", "old"}
                 THEN Follows(p, "dispatch", job[p].todo, job[p].on) ELSE Returns(p)
         /\ accepted(p) => Only(p) /\ Follows(p, "forwarded", job[p].todo, job[p].on)
         /\ refused(p) \/ markForwarded(p) => Only(p) /\ Returns(p)
<1>a. {"reports", "find", "dispatch", "forwarded"} \subseteq Places
  BY DEF Places
<1>1. ASSUME forwardPending(p) PROVE Only(p) /\ GoesOn(p, "reports", OldOnes)
  <2>1. GoOn(p, "reports", OldOnes) /\ OldOnes \in SUBSET Things
    BY <1>1, KnownThings DEF forwardPending, OldOnes
  <2> QED BY <1>a, <2>1, GoOnIs DEF JobsOK
<1>2. ASSUME NEW r \in Reports, nextReport(p, r)
      PROVE  /\ Only(p) /\ job[p].todo \subseteq Reports
             /\ Follows(p, "find", job[p].todo \ {r}, r)
  <2>1. job[p].todo \subseteq Reports
    BY <1>2 DEF nextReport, JobsOK, InPlace, Listing
  <2> QED BY <1>2, <1>a, <2>1, KnownThings, GotoIs DEF nextReport, JobsOK
<1>3. job[p].todo \in SUBSET Things /\ job[p].on \in Things
  BY DEF JobsOK, Job
<1>4. ASSUME Forwarded(p) PROVE Only(p) /\ Returns(p)
  BY <1>3, <1>4, <1>a, GoOnIs, EndIs DEF Forwarded, Returns, JobsOK
<1>5. find(p) =>
        /\ Only(p)
        /\ IF report[job[p].on] \in {"new", "old"}
           THEN Follows(p, "dispatch", job[p].todo, job[p].on) ELSE Returns(p)
  BY <1>3, <1>4, <1>a, GotoIs DEF find, JobsOK
<1>6. accepted(p) => Only(p) /\ Follows(p, "forwarded", job[p].todo, job[p].on)
  BY <1>3, <1>a, GotoIs DEF accepted, JobsOK
<1>7. refused(p) \/ markForwarded(p) => Only(p) /\ Returns(p)
  BY <1>4 DEF refused, markForwarded
<1> QED BY <1>1, <1>2, <1>5, <1>6, <1>7

(* Where the conditional UPDATE leads.                                     *)
ThenAt(p) == IF alert[job[p].on] = "due" THEN "alarm" ELSE "insertAlert"

LEMMA OwnerMoves ==
  ASSUME JobsOK, NEW p \in Jobs
  PROVE  /\ \A k \in Keys : once(p, k) =>
              /\ Only(p) /\ job[p].todo \subseteq Keys
              /\ IF alert[k] = "never" THEN Follows(p, "alarm", job[p].todo \ {k}, k)
                 ELSE GoesOn(p, "once", job[p].todo \ {k})
         /\ throttled(p) =>
              /\ Only(p) /\ job[p].on \in Keys
              /\ Follows(p, ThenAt(p), {}, job[p].on)
         /\ insertAlert(p) =>
              /\ Only(p) /\ job[p].on \in Keys
              /\ IF alert[job[p].on] = "never" THEN Follows(p, "alarm", {}, job[p].on)
                 ELSE job'[p] = Idle
         /\ alarm(p) =>
              /\ Only(p) /\ job[p].on \in Keys /\ job[p].todo \subseteq Keys
              /\ GoesOn(p, "once", job[p].todo)
<1>a. {"once", "insertAlert", "alarm"} \subseteq Places
  BY DEF Places
<1>1. ASSUME NEW k \in Keys, once(p, k)
      PROVE  /\ Only(p) /\ job[p].todo \subseteq Keys
             /\ IF alert[k] = "never" THEN Follows(p, "alarm", job[p].todo \ {k}, k)
                ELSE GoesOn(p, "once", job[p].todo \ {k})
  <2>1. job[p].todo \subseteq Keys
    BY <1>1 DEF once, JobsOK, InPlace, Listing
  <2> QED BY <1>1, <1>a, <2>1, KnownThings, GotoIs, GoOnIs DEF once, JobsOK
<1>2. throttled(p) \/ insertAlert(p) \/ alarm(p) => job[p].on \in Keys
  BY DEF throttled, insertAlert, alarm, JobsOK, InPlace, Holding
<1>3. throttled(p) =>
        /\ Only(p) /\ job[p].on \in Keys
        /\ Follows(p, ThenAt(p), {}, job[p].on)
  BY <1>2, <1>a, KnownThings, GotoIs DEF throttled, ThenAt, JobsOK
<1>4. insertAlert(p) =>
        /\ Only(p) /\ job[p].on \in Keys
        /\ IF alert[job[p].on] = "never" THEN Follows(p, "alarm", {}, job[p].on)
           ELSE job'[p] = Idle
  BY <1>2, <1>a, KnownThings, GotoIs, EndIs DEF insertAlert, JobsOK
<1>5. ASSUME alarm(p)
      PROVE  /\ Only(p) /\ job[p].on \in Keys /\ job[p].todo \subseteq Keys
             /\ GoesOn(p, "once", job[p].todo)
  <2>1. job[p].todo \subseteq Keys
    BY <1>5 DEF alarm, JobsOK, InPlace, Listing
  <2> QED BY <1>2, <1>5, <1>a, <2>1, KnownThings, GoOnIs DEF alarm, JobsOK
<1> QED BY <1>1, <1>3, <1>4, <1>5

-----------------------------------------------------------------------------
(* Types                                                                   *)

LEMMA GoesInPlace ==
  ASSUME NEW p \in Jobs, NEW list, NEW todo, GoesOn(p, list, todo),
         \/ list \in {"insert", "digest"} /\ todo \subseteq Notes
         \/ list = "due" /\ todo \subseteq Dues
         \/ list = "reports" /\ todo \subseteq Reports
         \/ list = "once" /\ todo \subseteq Keys
  PROVE  InPlace(job'[p])
  BY IdleInPlace DEF GoesOn, Follows, InPlace, Listing, Holding

LEMMA FollowsInPlace ==
  ASSUME NEW p \in Jobs, NEW at, NEW todo, NEW on, Follows(p, at, todo, on),
         \/ at = "deliver" /\ todo \subseteq Notes /\ on \in Notes
         \/ at = "mark" /\ todo \subseteq Notes /\ on \in People
         \/ at \in {"count", "record", "send"} /\ todo \subseteq Dues /\ on \in Dues
         \/ at \in {"find", "dispatch", "forwarded"} /\ todo \subseteq Reports /\ on \in Reports
         \/ at \in {"insertAlert", "alarm"} /\ todo \subseteq Keys /\ on \in Keys
  PROVE  InPlace(job'[p])
  BY DEF Follows, InPlace, Listing, Holding

LEMMA AlertTyped ==
  ASSUME Typed, NEW p \in Jobs, (\E n \in Notes : insertNote(p, n)) \/ deliver(p)
  PROVE  Typed'
<1>1. ASSUME NEW n \in Notes, insertNote(p, n) PROVE Typed'
  <2>1. Only(p) /\ InPlace(job'[p])
    <3>1. CASE n[1] \in Urgent
      BY <1>1, <3>1, AlertMoves, FollowsInPlace DEF Typed
    <3>2. CASE n[1] \notin Urgent
      BY <1>1, <3>2, AlertMoves, GoesInPlace DEF Typed
    <3> QED BY <3>1, <3>2
  <2> QED BY <1>1, <2>1, OnlyOne DEF insertNote, Typed, TypeOK, sent, bounds
<1>2. CASE deliver(p)
  <2>1. Only(p) /\ InPlace(job'[p]) /\ job[p].on \in Notes
    BY <1>2, AlertMoves, GoesInPlace DEF Typed
  <2> QED BY <1>2, <2>1, OnlyOne DEF deliver, Typed, TypeOK, tables, bounds
<1> QED BY <1>1, <1>2

LEMMA DigestTyped ==
  ASSUME Typed, NEW p \in Jobs,
         listDigest(p) \/ (\E u \in People : sendDigest(p, u)) \/ markSent(p)
  PROVE  Typed'
<1>1. CASE listDigest(p)
  <2>1. Only(p) /\ InPlace(job'[p])
    BY <1>1, DigestMoves, GoesInPlace DEF Typed, Found
  <2> QED BY <1>1, <2>1, OnlyOne DEF listDigest, Typed, TypeOK, tables, sent, bounds
<1>2. ASSUME NEW u \in People, sendDigest(p, u) PROVE Typed'
  <2>1. Only(p) /\ InPlace(job'[p])
    BY <1>2, DigestMoves, FollowsInPlace DEF Typed
  <2>2. mailed' \in [Notes -> Nat] /\ lost' \subseteq Notes
    BY <1>2 DEF sendDigest, Rows, Typed, TypeOK, JobsOK, InPlace, Listing
  <2> QED BY <1>2, <2>1, <2>2, OnlyOne DEF sendDigest, Typed, TypeOK, tables, bounds
<1>3. CASE markSent(p)
  <2>1. Only(p) /\ InPlace(job'[p])
    BY <1>3, DigestMoves, GoesInPlace DEF Typed
  <2> QED BY <1>3, <2>1, OnlyOne DEF markSent, Typed, TypeOK, sent, bounds
<1> QED BY <1>1, <1>2, <1>3

LEMMA ReminderTyped ==
  ASSUME Typed, NEW p \in Jobs,
         \/ \E due \in SUBSET Swept : sweep(p, due)
         \/ \E d \in Dues : person(p, d)
         \/ shouldSend(p) \/ record(p) \/ send(p)
  PROVE  Typed'
<1>1. ASSUME NEW due \in SUBSET Swept, sweep(p, due) PROVE Typed'
  <2>1. Only(p) /\ InPlace(job'[p])
    BY <1>1, ReminderMoves, GoesInPlace DEF Typed, Swept
  <2> QED BY <1>1, <2>1, OnlyOne DEF sweep, Typed, TypeOK, tables, sent, bounds
<1>2. ASSUME NEW d \in Dues, person(p, d) PROVE Typed'
  <2>1. Only(p) /\ InPlace(job'[p])
    <3>1. CASE Follows(p, "count", job[p].todo \ {d}, d)
      BY <1>2, <3>1, ReminderMoves, FollowsInPlace DEF Typed
    <3>2. CASE GoesOn(p, "due", job[p].todo \ {d})
      BY <1>2, <3>2, ReminderMoves, GoesInPlace DEF Typed
    <3> QED BY <1>2, <3>1, <3>2, ReminderMoves DEF Typed
  <2> QED BY <1>2, <2>1, OnlyOne DEF person, Typed, TypeOK, tables, sent, bounds
<1>3. CASE shouldSend(p) \/ record(p) \/ send(p)
  <2>1. job[p].todo \subseteq Dues /\ job[p].on \in Dues /\ What(p) \in People \X Kinds
    BY <1>3, WhatIs DEF shouldSend, record, send, Typed
  <2>2. /\ Only(p)
        /\ \/ \E at \in {"record", "send"} : Follows(p, at, job[p].todo, job[p].on)
           \/ GoesOn(p, "due", job[p].todo)
    BY <1>3, ReminderMoves DEF Typed
  <2>3. InPlace(job'[p])
    <3>1. CASE \E at \in {"record", "send"} : Follows(p, at, job[p].todo, job[p].on)
      BY <2>1, <3>1, FollowsInPlace
    <3> QED BY <2>1, <2>2, <3>1, GoesInPlace
  <2>4. TypeOK'
    BY <1>3, <2>1 DEF shouldSend, record, send, Typed, TypeOK, tables, sent, bounds
  <2> QED BY <2>2, <2>3, <2>4, OnlyOne DEF Typed
<1> QED BY <1>1, <1>2, <1>3

LEMMA ReportTyped ==
  ASSUME Typed, NEW p \in Jobs,
         \/ forwardPending(p) \/ find(p) \/ accepted(p) \/ refused(p) \/ markForwarded(p)
         \/ \E r \in Reports : nextReport(p, r)
  PROVE  Typed'
<1>1. CASE forwardPending(p)
  <2>1. Only(p) /\ InPlace(job'[p])
    BY <1>1, ReportMoves, GoesInPlace DEF Typed, OldOnes
  <2> QED BY <1>1, <2>1, OnlyOne DEF forwardPending, Typed, TypeOK, tables, sent, bounds
<1>2. ASSUME NEW r \in Reports, nextReport(p, r) PROVE Typed'
  <2>1. Only(p) /\ InPlace(job'[p])
    BY <1>2, ReportMoves, FollowsInPlace DEF Typed
  <2> QED BY <1>2, <2>1, OnlyOne DEF nextReport, Typed, TypeOK, tables, sent, bounds
<1>3. CASE find(p) \/ accepted(p) \/ refused(p) \/ markForwarded(p)
  <2>1. job[p].todo \subseteq Reports /\ job[p].on \in Reports
    BY <1>3 DEF find, accepted, refused, markForwarded, Typed, JobsOK, InPlace,
       Listing, Holding
  <2>2. /\ Only(p)
        /\ \/ \E at \in {"dispatch", "forwarded"} : Follows(p, at, job[p].todo, job[p].on)
           \/ Returns(p)
    BY <1>3, ReportMoves DEF Typed
  <2>3. InPlace(job'[p])
    <3>1. CASE \E at \in {"dispatch", "forwarded"} : Follows(p, at, job[p].todo, job[p].on)
      BY <2>1, <3>1, FollowsInPlace
    <3>2. CASE Returns(p)
      BY <2>1, <3>2, GoesInPlace, IdleInPlace DEF Returns
    <3> QED BY <2>2, <3>1, <3>2
  <2>4. TypeOK'
    BY <1>3, <2>1 DEF find, accepted, refused, markForwarded, Typed, TypeOK,
       tables, sent, bounds
  <2> QED BY <2>2, <2>3, <2>4, OnlyOne DEF Typed
<1> QED BY <1>1, <1>2, <1>3

LEMMA OwnerTyped ==
  ASSUME Typed, NEW p \in Jobs,
         (\E k \in Keys : once(p, k)) \/ throttled(p) \/ insertAlert(p) \/ alarm(p)
  PROVE  Typed'
<1>1. ASSUME NEW k \in Keys, once(p, k) PROVE Typed'
  <2>1. Only(p) /\ InPlace(job'[p])
    <3>1. CASE alert[k] = "never"
      BY <1>1, <3>1, OwnerMoves, FollowsInPlace DEF Typed
    <3>2. CASE alert[k] # "never"
      BY <1>1, <3>2, OwnerMoves, GoesInPlace DEF Typed
    <3> QED BY <3>1, <3>2
  <2> QED BY <1>1, <2>1, OnlyOne DEF once, Typed, TypeOK, sent, bounds
<1>2. CASE throttled(p) \/ insertAlert(p)
  <2>1. Only(p) /\ job[p].on \in Keys /\ InPlace(job'[p])
    BY <1>2, OwnerMoves, FollowsInPlace, IdleInPlace DEF Typed, ThenAt
  <2>2. TypeOK'
    BY <1>2, <2>1 DEF throttled, insertAlert, Typed, TypeOK, sent, bounds
  <2> QED BY <2>1, <2>2, OnlyOne DEF Typed
<1>3. CASE alarm(p)
  <2>1. Only(p) /\ InPlace(job'[p]) /\ job[p].on \in Keys
    BY <1>3, OwnerMoves, GoesInPlace DEF Typed
  <2> QED BY <1>3, <2>1, OnlyOne DEF alarm, Typed, TypeOK, tables, bounds
<1> QED BY <1>1, <1>2, <1>3

LEMMA TypedStep == ASSUME Typed, NEW p \in Jobs, Step(p) PROVE Typed'
<1>1. CASE (\E n \in Notes : insertNote(p, n)) \/ deliver(p)
  BY <1>1, AlertTyped
<1>2. CASE listDigest(p) \/ (\E u \in People : sendDigest(p, u)) \/ markSent(p)
  BY <1>2, DigestTyped
<1>3. CASE \/ \E due \in SUBSET Swept : sweep(p, due)
           \/ \E d \in Dues : person(p, d)
           \/ shouldSend(p) \/ record(p) \/ send(p)
  BY <1>3, ReminderTyped
<1>4. CASE \/ forwardPending(p) \/ find(p) \/ accepted(p) \/ refused(p) \/ markForwarded(p)
           \/ \E r \in Reports : nextReport(p, r)
  BY <1>4, ReportTyped
<1>5. CASE (\E k \in Keys : once(p, k)) \/ throttled(p) \/ insertAlert(p) \/ alarm(p)
  BY <1>5, OwnerTyped
<1> QED BY <1>1, <1>2, <1>3, <1>4, <1>5 DEF Step

(* Every call starts a process at a place of its own, under a name that    *)
(* says who or what it works for.                                          *)
LEMMA CallIs ==
  ASSUME Typed, NEW p \in Jobs, Call(p)
  PROVE  \E by \in Callers \ {"nobody"}, at \in Places, todo \in SUBSET Things,
            on \in Things :
           /\ Start(p, by, at, todo, on)
           /\ \/ /\ at = "insert" /\ todo \subseteq Notes /\ by = "event"
                 /\ \E e \in Events : queue(p, e)
              \/ at = "due" /\ \E d \in Dues : todo = {d} /\ d.kind = "nudge" /\ by = d.to
              \/ /\ at = "find" /\ on \in Reports /\ todo = {} /\ by = "reporter"
                 /\ reportBug(p, on)
              \/ at = "once" /\ todo \subseteq Milestones /\ by = "event"
              \/ at = "throttled" /\ on \in Thresholds /\ todo = {} /\ by = "event"
              \/ at = "forwardPending" /\ by = "cron" /\ todo = {}
              \/ at = "listDigest" /\ by = "digest" /\ todo = {}
              \/ at = "sweep" /\ by = "remind" /\ todo = {}
<1> USE KnownThings DEF Keys
<1>a. /\ {"event", "reporter", "cron", "digest", "remind"} \subseteq Callers \ {"nobody"}
      /\ \A d \in Dues : d.to \in Callers \ {"nobody"}
  BY MailAssumption, NamesAssumption DEF Callers
<1>b. {"insert", "due", "find", "once", "throttled", "forwardPending", "listDigest",
       "sweep"} \subseteq Places
  BY DEF Places
<1>1. ASSUME NEW e \in Events, queue(p, e)
      PROVE  \E todo \in SUBSET Notes : Start(p, "event", "insert", todo, None)
  <2>1. PICK told \in SUBSET Audience[e] :
          Start(p, "event", "insert", {<<e, u>> : u \in told}, None)
    BY <1>1 DEF queue
  <2>2. {<<e, u>> : u \in told} \subseteq Notes
    BY DEF Notes
  <2> QED BY <2>1, <2>2
<1>2. ASSUME NEW e \in Events, queue(p, e)
      PROVE  \E todo \in SUBSET Things :
               todo \subseteq Notes /\ Start(p, "event", "insert", todo, None)
  BY <1>1, <1>2
<1>3. ASSUME NEW d \in Dues, nudge(p, d)
      PROVE  d.kind = "nudge" /\ {d} \in SUBSET Things /\ Start(p, d.to, "due", {d}, None)
  BY <1>3 DEF nudge
<1>4. ASSUME NEW r \in Reports, reportBug(p, r)
      PROVE  Start(p, "reporter", "find", {}, r)
  BY <1>4 DEF reportBug
<1>5. ASSUME NEW reached \in SUBSET Milestones, userMilestone(p, reached)
      PROVE  reached \in SUBSET Things /\ Start(p, "event", "once", reached, None)
  BY <1>5 DEF userMilestone
<1>6. ASSUME NEW k \in Thresholds, scanQueueDeep(p, k)
      PROVE  k \in Things /\ Start(p, "event", "throttled", {}, k)
  BY <1>6 DEF scanQueueDeep
<1>7. CASE cron(p) \/ forceDigest(p) \/ forceReminders(p)
  BY <1>7, <1>a, <1>b DEF cron, forceDigest, forceReminders
<1>8. CASE \E e \in Events : queue(p, e)
  BY <1>8, <1>2, <1>a, <1>b
<1>9. CASE \E d \in Dues : nudge(p, d)
  BY <1>9, <1>3, <1>a, <1>b
<1>10. CASE \E r \in Reports : reportBug(p, r)
  BY <1>10, <1>4, <1>a, <1>b
<1>11. CASE \E reached \in SUBSET Milestones : userMilestone(p, reached)
  BY <1>11, <1>5, <1>a, <1>b
<1>12. CASE \E k \in Thresholds : scanQueueDeep(p, k)
  BY <1>12, <1>6, <1>a, <1>b
<1> QED BY <1>7, <1>8, <1>9, <1>10, <1>11, <1>12 DEF Call

Crosses(p, by) ==
  crossed' = crossed \cup UNION {Works(by) \cap Works(job[q].by) : q \in Jobs \ {p}}

LEMMA CallMoves ==
  ASSUME Typed, NEW p \in Jobs, Call(p)
  PROVE  /\ Only(p) /\ job[p].at = "idle" /\ job'[p].by # "nobody"
         /\ Crosses(p, job'[p].by)
         /\ \/ /\ job'[p].at = "insert" /\ job'[p].todo \subseteq Notes /\ job'[p].by = "event"
               /\ \E e \in Events : queue(p, e)
            \/ /\ job'[p].at = "due"
               /\ \E d \in Dues : job'[p].todo = {d} /\ d.kind = "nudge" /\ job'[p].by = d.to
            \/ /\ job'[p].at = "find" /\ job'[p].on \in Reports /\ job'[p].todo = {}
               /\ job'[p].by = "reporter" /\ \E r \in Reports : reportBug(p, r)
            \/ job'[p].at = "once" /\ job'[p].todo \subseteq Milestones /\ job'[p].by = "event"
            \/ job'[p].at = "throttled" /\ job'[p].on \in Thresholds /\ job'[p].by = "event"
            \/ job'[p].at = "forwardPending" /\ job'[p].by = "cron" /\ job'[p].todo = {}
            \/ job'[p].at = "listDigest" /\ job'[p].by = "digest" /\ job'[p].todo = {}
            \/ job'[p].at = "sweep" /\ job'[p].by = "remind" /\ job'[p].todo = {}
<1>1. PICK by \in Callers \ {"nobody"}, at \in Places, todo \in SUBSET Things,
         on \in Things :
           /\ Start(p, by, at, todo, on)
           /\ \/ /\ at = "insert" /\ todo \subseteq Notes /\ by = "event"
                 /\ \E e \in Events : queue(p, e)
              \/ at = "due" /\ \E d \in Dues : todo = {d} /\ d.kind = "nudge" /\ by = d.to
              \/ /\ at = "find" /\ on \in Reports /\ todo = {} /\ by = "reporter"
                 /\ reportBug(p, on)
              \/ at = "once" /\ todo \subseteq Milestones /\ by = "event"
              \/ at = "throttled" /\ on \in Thresholds /\ todo = {} /\ by = "event"
              \/ at = "forwardPending" /\ by = "cron" /\ todo = {}
              \/ at = "listDigest" /\ by = "digest" /\ todo = {}
              \/ at = "sweep" /\ by = "remind" /\ todo = {}
  BY CallIs
<1>2. /\ Only(p) /\ job[p].at = "idle"
      /\ job'[p] = [at |-> at, by |-> by, todo |-> todo, on |-> on]
  <2>1. job \in [Jobs -> Job] /\ by \in Callers
    BY DEF Typed, JobsOK
  <2> QED BY <1>1, <2>1, StartIs
<1>3. job'[p].by = by /\ job'[p].at = at /\ job'[p].todo = todo /\ job'[p].on = on
  BY <1>2
<1>4. Crosses(p, by)
  BY <1>1 DEF Start, Crosses
<1> QED BY <1>1, <1>2, <1>3, <1>4

LEMMA TypedCall == ASSUME Typed, NEW p \in Jobs, Call(p) PROVE Typed'
<1>1. Only(p)
  BY CallMoves
<1>2. InPlace(job'[p])
  BY CallMoves DEF InPlace, Listing, Holding, Keys
<1>3. TypeOK'
  BY DEF Typed, TypeOK, Call, queue, nudge, reportBug, userMilestone,
     scanQueueDeep, cron,
         forceDigest, forceReminders, tables, sent, bounds
<1> QED BY <1>1, <1>2, <1>3, OnlyOne DEF Typed

LEMMA FaultIs ==
  ASSUME JobsOK, NEW p \in Jobs, Die(p) \/ Throw(p)
  PROVE  /\ Only(p)
         /\ \/ \E at \in {"listDigest", "sweep"} : Follows(p, at, {}, None)
            \/ job'[p] = Idle
<1>1. {"listDigest", "sweep"} \subseteq Places
  BY DEF Places
<1> QED BY <1>1, KnownThings, GotoIs, EndIs DEF JobsOK, Die, Throw

LEMMA TypedFault ==
  ASSUME Typed, NEW p \in Jobs, Die(p) \/ Throw(p) PROVE Typed'
<1>1. Only(p)
  BY FaultIs DEF Typed
<1>2. InPlace(job'[p])
  <2>1. CASE job'[p] = Idle
    BY <2>1, IdleInPlace
  <2>2. CASE \E at \in {"listDigest", "sweep"} : Follows(p, at, {}, None)
    BY <2>2 DEF Follows, InPlace, Listing, Holding
  <2> QED BY <2>1, <2>2, FaultIs DEF Typed
<1>3. TypeOK'
  <2>1. UNCHANGED <<tables, sent, topic>>
    BY DEF Die, Throw
  <2>2. faults' \in 0 .. MaxFaults
    BY MailAssumption DEF Typed, TypeOK, Die, Throw
  <2> QED BY <2>1, <2>2 DEF Typed, TypeOK, tables, sent
<1> QED BY <1>1, <1>2, <1>3, OnlyOne DEF Typed

LEMMA TypedRest == ASSUME Typed, Pass \/ Change PROVE Typed' /\ job' = job
<1>1. TypeOK' /\ job' = job
  BY MailAssumption DEF Typed, TypeOK, Pass, Change, Ripen, GrowOld, CoolOff,
     FallDue, updateProfile,
         unsubscribe, setLevel, deleteAccount, bounds, sent, Levels, Keys
<1> QED BY <1>1 DEF Typed, JobsOK

LEMMA TypedNext == Typed /\ [Next]_vars => Typed'
<1> SUFFICES ASSUME Typed, [Next]_vars PROVE Typed'
  OBVIOUS
<1>1. CASE UNCHANGED vars
  BY <1>1 DEF vars, tables, sent, bounds, Typed, TypeOK, JobsOK
<1> QED BY <1>1, TypedStep, TypedCall, TypedFault, TypedRest DEF Next

LEMMA TypedInit == Init => Typed
<1> SUFFICES ASSUME Init PROVE Typed
  OBVIOUS
<1>1. Idle \in Job
  BY DEF Idle, Job, Places, Callers, Things
<1>2. JobsOK
  BY <1>1, IdleInPlace DEF Init, JobsOK
<1>3. TypeOK
  BY MailAssumption DEF Init, TypeOK, Levels
<1> QED BY <1>2, <1>3 DEF Typed

(* The tables keep their types, and every process has in hand what its     *)
(* statement works on.                                                     *)
THEOREM TypeCorrect == Spec => []Typed
  BY TypedInit, TypedNext, PTL DEF Spec

-----------------------------------------------------------------------------
(* How a process gets to where it is                                       *)

Arrives(p) ==
  /\ job'[p].at = "insert" => (\E n \in Notes : insertNote(p, n)) \/ deliver(p)
  /\ job'[p].at = "deliver" => \E n \in Notes : insertNote(p, n)
  /\ job'[p].at = "digest" => listDigest(p) \/ markSent(p)
  /\ job'[p].at = "listDigest" => forwardPending(p) \/ job[p].by = "cron"
  /\ job'[p].at # "forwardPending"
  /\ job'[p].at = "sweep" => job[p].by = "cron"
  /\ job'[p].at = "mark" => \E u \in People : sendDigest(p, u)
  /\ job'[p].at = "due" => \/ \E due \in SUBSET Swept : sweep(p, due)
                           \/ \E d \in Dues : person(p, d)
                           \/ shouldSend(p) \/ send(p)
  /\ job'[p].at = "count" => \E d \in Dues : person(p, d)
  /\ job'[p].at = "record" => shouldSend(p)
  /\ job'[p].at = "send" => record(p)
  /\ job'[p].at = "reports" => \/ forwardPending(p)
                               \/ /\ job[p].by = "cron"
                                  /\ find(p) \/ refused(p) \/ markForwarded(p)
  /\ job'[p].at = "find" => \E r \in Reports : nextReport(p, r)
  /\ job'[p].at = "dispatch" => find(p)
  /\ job'[p].at = "forwarded" => accepted(p)
  /\ job'[p].at = "alarm" => (\E k \in Keys : once(p, k)) \/ throttled(p) \/ insertAlert(p)

Moves(p) ==
  /\ Only(p) /\ Arrives(p)
  /\ job'[p].by = job[p].by \/ job'[p] = Idle

LEMMA GoesAt ==
  ASSUME NEW p \in Jobs, NEW list, NEW todo, GoesOn(p, list, todo)
  PROVE  /\ \/ job'[p].at \in {list, "idle"}
            \/ list = "reports" /\ job'[p].at = "listDigest"
            \/ list = "digest" /\ job'[p].at = "sweep" /\ job[p].by = "cron"
         /\ job'[p].by = job[p].by \/ job'[p] = Idle
  BY DEF GoesOn, Follows, Idle

LEMMA FollowsAt ==
  ASSUME NEW p \in Jobs, NEW at, NEW todo, NEW on, Follows(p, at, todo, on)
  PROVE  job'[p].at = at /\ job'[p].by = job[p].by
  BY DEF Follows

LEMMA IdleAt == Idle.at = "idle"
  BY DEF Idle

LEMMA StepMoves == ASSUME JobsOK, NEW p \in Jobs, Step(p) PROVE Moves(p)
<1>1. ASSUME NEW n \in Notes, insertNote(p, n) PROVE Moves(p)
  <2>1. /\ Only(p) /\ job'[p].at \in {"deliver", "insert", "idle"}
        /\ job'[p].by = job[p].by \/ job'[p] = Idle
    <3>1. /\ Only(p)
          /\ \/ Follows(p, "deliver", job[p].todo \ {n}, n)
             \/ GoesOn(p, "insert", job[p].todo \ {n})
      BY <1>1, AlertMoves
    <3> QED BY <3>1, GoesAt, FollowsAt
  <2> QED BY <1>1, <2>1 DEF Moves, Arrives
<1>2. CASE deliver(p)
  <2>1. /\ Only(p) /\ job'[p].at \in {"insert", "idle"}
        /\ job'[p].by = job[p].by \/ job'[p] = Idle
    BY <1>2, AlertMoves, GoesAt
  <2> QED BY <1>2, <2>1 DEF Moves, Arrives
<1>3. CASE listDigest(p) \/ markSent(p)
  <2>1. /\ Only(p)
        /\ job'[p].at \in {"digest", "idle"} \/ (job'[p].at = "sweep" /\ job[p].by = "cron")
        /\ job'[p].by = job[p].by \/ job'[p] = Idle
    BY <1>3, DigestMoves, GoesAt
  <2> QED BY <1>3, <2>1 DEF Moves, Arrives
<1>4. ASSUME NEW u \in People, sendDigest(p, u) PROVE Moves(p)
  <2>1. Only(p) /\ job'[p].at = "mark" /\ job'[p].by = job[p].by
    BY <1>4, DigestMoves, FollowsAt
  <2> QED BY <1>4, <2>1 DEF Moves, Arrives
<1>5. CASE (\E due \in SUBSET Swept : sweep(p, due)) \/ send(p)
  <2>1. /\ Only(p) /\ job'[p].at \in {"due", "idle"}
        /\ job'[p].by = job[p].by \/ job'[p] = Idle
    BY <1>5, ReminderMoves, GoesAt
  <2> QED BY <1>5, <2>1 DEF Moves, Arrives
<1>6. ASSUME NEW d \in Dues, person(p, d) PROVE Moves(p)
  <2>1. /\ Only(p) /\ job'[p].at \in {"count", "due", "idle"}
        /\ job'[p].by = job[p].by \/ job'[p] = Idle
    <3>1. /\ Only(p)
          /\ \/ Follows(p, "count", job[p].todo \ {d}, d)
             \/ GoesOn(p, "due", job[p].todo \ {d})
      BY <1>6, ReminderMoves
    <3> QED BY <3>1, GoesAt, FollowsAt
  <2> QED BY <1>6, <2>1 DEF Moves, Arrives
<1>7. CASE shouldSend(p)
  <2>1. /\ Only(p) /\ job'[p].at \in {"record", "due", "idle"}
        /\ job'[p].by = job[p].by \/ job'[p] = Idle
    BY <1>7, ReminderMoves, GoesAt, FollowsAt
  <2> QED BY <1>7, <2>1 DEF Moves, Arrives
<1>8. CASE record(p)
  <2>1. Only(p) /\ job'[p].at = "send" /\ job'[p].by = job[p].by
    BY <1>8, ReminderMoves, FollowsAt
  <2> QED BY <1>8, <2>1 DEF Moves, Arrives
<1>9. CASE forwardPending(p)
  <2>1. /\ Only(p) /\ job'[p].at \in {"reports", "listDigest", "idle"}
        /\ job'[p].by = job[p].by \/ job'[p] = Idle
    BY <1>9, ReportMoves, GoesAt
  <2> QED BY <1>9, <2>1 DEF Moves, Arrives
<1>16. CASE refused(p) \/ markForwarded(p)
  <2>1. Only(p) /\ Returns(p)
    BY <1>16, ReportMoves
  <2>2. /\ \/ job'[p].at \in {"reports", "listDigest"} /\ job[p].by = "cron"
           \/ job'[p].at = "idle"
        /\ job'[p].by = job[p].by \/ job'[p] = Idle
    BY <2>1, GoesAt, IdleAt DEF Returns
  <2> QED BY <1>16, <2>1, <2>2 DEF Moves, Arrives
<1>10. ASSUME NEW r \in Reports, nextReport(p, r) PROVE Moves(p)
  <2>1. Only(p) /\ Follows(p, "find", job[p].todo \ {r}, r)
    BY <1>10, ReportMoves
  <2>2. job'[p].at = "find" /\ job'[p].by = job[p].by
    BY <2>1, FollowsAt
  <2> QED BY <1>10, <2>1, <2>2 DEF Moves, Arrives
<1>11. CASE find(p)
  <2>1. /\ Only(p)
        /\ Follows(p, "dispatch", job[p].todo, job[p].on) \/ Returns(p)
    BY <1>11, ReportMoves
  <2>2. /\ \/ job'[p].at \in {"reports", "listDigest"} /\ job[p].by = "cron"
           \/ job'[p].at \in {"dispatch", "idle"}
        /\ job'[p].by = job[p].by \/ job'[p] = Idle
    BY <2>1, GoesAt, FollowsAt, IdleAt DEF Returns
  <2> QED BY <1>11, <2>1, <2>2 DEF Moves, Arrives
<1>12. CASE accepted(p)
  <2>1. Only(p) /\ job'[p].at = "forwarded" /\ job'[p].by = job[p].by
    BY <1>12, ReportMoves, FollowsAt
  <2> QED BY <1>12, <2>1 DEF Moves, Arrives
<1>13. ASSUME NEW k \in Keys, once(p, k) PROVE Moves(p)
  <2>1. /\ Only(p) /\ job'[p].at \in {"alarm", "once", "idle"}
        /\ job'[p].by = job[p].by \/ job'[p] = Idle
    <3>1. /\ Only(p)
          /\ \/ Follows(p, "alarm", job[p].todo \ {k}, k)
             \/ GoesOn(p, "once", job[p].todo \ {k})
      BY <1>13, OwnerMoves
    <3> QED BY <3>1, GoesAt, FollowsAt
  <2> QED BY <1>13, <2>1 DEF Moves, Arrives
<1>14. CASE throttled(p) \/ insertAlert(p)
  <2>1. /\ Only(p) /\ job'[p].at \in {"alarm", "insertAlert", "idle"}
        /\ job'[p].by = job[p].by \/ job'[p] = Idle
    BY <1>14, OwnerMoves, FollowsAt, IdleAt DEF ThenAt
  <2> QED BY <1>14, <2>1 DEF Moves, Arrives
<1>15. CASE alarm(p)
  <2>1. /\ Only(p) /\ job'[p].at \in {"once", "idle"}
        /\ job'[p].by = job[p].by \/ job'[p] = Idle
    BY <1>15, OwnerMoves, GoesAt
  <2> QED BY <1>15, <2>1 DEF Moves, Arrives
<1> QED BY <1>1, <1>2, <1>3, <1>4, <1>5, <1>6, <1>7, <1>8, <1>9, <1>10, <1>11, <1>12,
           <1>13, <1>14, <1>15, <1>16 DEF Step

(* A fault takes its process where it has nothing in hand.                 *)
LEMMA FaultMoves ==
  ASSUME JobsOK, NEW p \in Jobs, Die(p) \/ Throw(p)
  PROVE  /\ Only(p) /\ job'[p].at \in {"idle", "listDigest", "sweep"}
         /\ job'[p].by = job[p].by \/ job'[p] = Idle
         /\ job'[p].at # "idle" => job[p].by = "cron"
<1>1. CASE Die(p)
  BY <1>1, EndIs, IdleAt DEF Die, JobsOK
<1>2. CASE Throw(p)
  BY <1>2, FaultIs, FollowsAt, IdleAt DEF Throw
<1> QED BY <1>1, <1>2

(* Each table and each count of what was sent has its writers.             *)
LEMMA StepWrites ==
  ASSUME NEW p \in Jobs, Step(p)
  PROVE  /\ UNCHANGED <<level, alive, bounds, crossed>>
         /\ note' = note \/ (\E n \in Notes : insertNote(p, n)) \/ markSent(p)
         /\ \/ mailed' = mailed /\ lost' = lost
            \/ deliver(p) \/ (\E u \in People : sendDigest(p, u))
         /\ report' = report \/ markForwarded(p)
         /\ taken' = taken \/ accepted(p)
         /\ recent' = recent \/ record(p)
         /\ nagged' = nagged \/ send(p)
         /\ \/ alert' = alert
            \/ (\E k \in Keys : once(p, k)) \/ throttled(p) \/ insertAlert(p)
         /\ alarmed' = alarmed \/ alarm(p)
<1>1. CASE \/ listDigest(p) \/ (\E due \in SUBSET Swept : sweep(p, due))
           \/ (\E d \in Dues : person(p, d)) \/ shouldSend(p) \/ forwardPending(p)
           \/ find(p) \/ refused(p) \/ (\E r \in Reports : nextReport(p, r))
  BY <1>1 DEF listDigest, sweep, person, shouldSend, forwardPending, find, refused,
              nextReport, tables, sent
<1>2. CASE (\E n \in Notes : insertNote(p, n)) \/ markSent(p) \/ markForwarded(p) \/ record(p)
  BY <1>2 DEF insertNote, markSent, markForwarded, record, sent
<1>3. CASE \/ deliver(p) \/ (\E u \in People : sendDigest(p, u)) \/ accepted(p)
           \/ send(p) \/ alarm(p)
  BY <1>3 DEF deliver, sendDigest, accepted, send, alarm, tables
<1>4. CASE (\E k \in Keys : once(p, k)) \/ throttled(p) \/ insertAlert(p)
  BY <1>4 DEF once, throttled, insertAlert, sent
<1> QED BY <1>1, <1>2, <1>3, <1>4 DEF Step

(* A call writes no more than the row of a new report.                     *)
LEMMA CallWrites ==
  ASSUME Typed, NEW p \in Jobs, Call(p)
  PROVE  /\ UNCHANGED <<level, alive, note, recent, alert, sent, bounds>>
         /\ report' = report \/ (\E r \in Reports : reportBug(p, r))
<1>1. CASE \E r \in Reports : reportBug(p, r)
  BY <1>1 DEF reportBug
<1>2. CASE \/ (\E e \in Events : queue(p, e)) \/ (\E d \in Dues : nudge(p, d))
           \/ (\E reached \in SUBSET Milestones : userMilestone(p, reached))
           \/ (\E k \in Thresholds : scanQueueDeep(p, k))
           \/ cron(p) \/ forceDigest(p) \/ forceReminders(p)
  BY <1>2 DEF queue, nudge, userMilestone, scanQueueDeep, cron, forceDigest,
              forceReminders, tables
<1> QED BY <1>1, <1>2 DEF Call

-----------------------------------------------------------------------------
(* What counts as sent was sent                                            *)

HandedOver(p) ==
  /\ job[p].at = "mark" => \A n \in Rows(p, job[p].on) : mailed[n] >= 1 \/ n \in lost
  /\ job[p].at = "forwarded" => taken[job[p].on] >= 1

Said == NothingMarkedUnsaid /\ \A p \in Jobs : HandedOver(p)

(* Nothing that was sent is unsent, and what is lost stays lost.           *)
LEMMA SentGrows ==
  ASSUME Typed, NEW p \in Jobs, Step(p)
  PROVE  /\ \A n \in Notes : mailed'[n] >= mailed[n]
         /\ lost \subseteq lost'
         /\ \A r \in Reports : taken'[r] >= taken[r]
<1>1. CASE deliver(p)
  BY <1>1, AlertMoves DEF deliver, Typed, TypeOK
<1>2. ASSUME NEW u \in People, sendDigest(p, u)
      PROVE  (\A n \in Notes : mailed'[n] >= mailed[n]) /\ lost \subseteq lost' /\ taken' = taken
  BY <1>2 DEF sendDigest, Typed, TypeOK
<1>3. CASE accepted(p)
  BY <1>3 DEF accepted, Typed, TypeOK
<1> QED BY <1>1, <1>2, <1>3, StepWrites DEF Typed, TypeOK

LEMMA OthersHandedOver ==
  ASSUME Typed, Said, NEW p \in Jobs, Only(p),
         \A n \in Notes : mailed'[n] >= mailed[n], lost \subseteq lost',
         \A r \in Reports : taken'[r] >= taken[r],
         Typed', NEW q \in Jobs \ {p}
  PROVE  HandedOver(q)'
<1>1. job'[q] = job[q]
  BY DEF Only
<1>2. ASSUME job[q].at = "mark", NEW n \in Rows(q, job[q].on)
      PROVE  mailed'[n] >= 1 \/ n \in lost'
  <2>1. n \in Notes
    BY <1>2 DEF Rows, Typed, JobsOK, InPlace, Listing
  <2>2. mailed[n] >= 1 \/ n \in lost
    BY <1>2 DEF Said, HandedOver
  <2> QED BY <2>1, <2>2 DEF Typed, TypeOK
<1>3. ASSUME job[q].at = "forwarded" PROVE taken'[job[q].on] >= 1
  <2>1. job[q].on \in Reports
    BY <1>3 DEF Typed, JobsOK, InPlace, Holding
  <2>2. taken[job[q].on] >= 1
    BY <1>3 DEF Said, HandedOver
  <2> QED BY <2>1, <2>2 DEF Typed, TypeOK
<1> QED BY <1>1, <1>2, <1>3 DEF HandedOver, Rows

LEMMA SaidStep == ASSUME Typed, Said, Typed', NEW p \in Jobs, Step(p) PROVE Said'
<1>1. Moves(p)
  BY StepMoves DEF Typed
<1>2. \A q \in Jobs \ {p} : HandedOver(q)'
  BY <1>1, SentGrows, OthersHandedOver DEF Moves
<1>3. HandedOver(p)'
  <2>1. ASSUME job'[p].at = "mark"
        PROVE  \A n \in Rows(p, job[p].on)' : mailed'[n] >= 1 \/ n \in lost'
    <3>1. PICK u \in People : sendDigest(p, u)
      BY <1>1, <2>1 DEF Moves, Arrives
    <3>2. Follows(p, "mark", job[p].todo, u) /\ job[p].todo \subseteq Notes
      BY <3>1, DigestMoves DEF Typed
    <3>3. Rows(p, job[p].on)' = Rows(p, u)
      BY <3>2 DEF Rows, Follows
    <3>4. \A n \in Rows(p, u) : n \in Notes /\ mailed[n] \in Nat
      BY <3>2 DEF Rows, Typed, TypeOK
    <3>5. \A n \in Rows(p, u) : mailed'[n] = mailed[n] + 1 \/ n \in lost'
      BY <3>1, <3>4 DEF sendDigest
    <3> QED BY <3>3, <3>4, <3>5
  <2>2. ASSUME job'[p].at = "forwarded" PROVE taken'[job'[p].on] >= 1
    <3>1. accepted(p)
      BY <1>1, <2>2 DEF Moves, Arrives
    <3>2. job'[p].on = job[p].on
      <4>1. Follows(p, "forwarded", job[p].todo, job[p].on)
        BY <3>1, ReportMoves DEF Typed
      <4> QED BY <4>1 DEF Follows
    <3>3. job[p].on \in Reports
      BY <3>1 DEF accepted, Typed, JobsOK, InPlace, Holding
    <3> QED BY <3>1, <3>2, <3>3 DEF accepted, Typed, TypeOK
  <2> QED BY <2>1, <2>2 DEF HandedOver
<1>4. ASSUME NEW n \in Notes, note'[n] = "sent", n[1] \notin Urgent
      PROVE  mailed'[n] >= 1 \/ n \in lost'
  <2>1. CASE note[n] = "sent"
    BY <1>4, <2>1, SentGrows DEF Said, NothingMarkedUnsaid, Typed, TypeOK
  <2>2. ASSUME NEW m \in Notes, insertNote(p, m) PROVE note[n] = "sent"
    BY <1>4, <2>2 DEF insertNote, Typed, TypeOK
  <2>3. CASE markSent(p) /\ note[n] # "sent"
    <3>1. n \in Rows(p, job[p].on)
      BY <1>4, <2>3 DEF markSent
    <3>2. mailed[n] >= 1 \/ n \in lost
      BY <2>3, <3>1 DEF markSent, Said, HandedOver
    <3> QED BY <2>3, <3>2 DEF markSent, sent
  <2> QED BY <1>4, <2>1, <2>2, <2>3, StepWrites
<1>5. ASSUME NEW r \in Reports, report'[r] = "forwarded" PROVE taken'[r] >= 1
  <2>1. CASE report[r] = "forwarded"
    BY <1>5, <2>1, SentGrows DEF Said, NothingMarkedUnsaid, Typed, TypeOK
  <2>2. CASE markForwarded(p) /\ report[r] # "forwarded"
    <3>1. r = job[p].on
      BY <1>5, <2>2 DEF markForwarded, Typed, TypeOK
    <3>2. taken[r] >= 1
      BY <2>2, <3>1 DEF markForwarded, Said, HandedOver
    <3> QED BY <2>2, <3>2 DEF markForwarded, sent
  <2> QED BY <1>5, <2>1, <2>2, StepWrites
<1> QED BY <1>2, <1>3, <1>4, <1>5 DEF Said, NothingMarkedUnsaid

LEMMA SaidNext == Typed /\ Said /\ [Next]_vars => Said'
<1> SUFFICES ASSUME Typed, Said, [Next]_vars PROVE Said'
  OBVIOUS
<1>0. Typed'
  BY TypedNext
<1>1. CASE UNCHANGED vars
  BY <1>1 DEF vars, tables, sent, bounds, Said, NothingMarkedUnsaid, HandedOver, Rows
<1>2. ASSUME NEW p \in Jobs, Step(p) PROVE Said'
  BY <1>0, <1>2, SaidStep
<1>3. ASSUME NEW p \in Jobs, Call(p) \/ Die(p) \/ Throw(p) PROVE Said'
  <2>1. /\ Only(p) /\ job'[p].at \notin {"mark", "forwarded"}
        /\ UNCHANGED <<note, sent>>
        /\ \A r \in Reports : report'[r] = "forwarded" => report[r] = "forwarded"
    <3>1. CASE Call(p)
      <4>1. Only(p) /\ job'[p].at \notin {"mark", "forwarded"}
        BY <3>1, CallMoves
      <4>2. UNCHANGED <<note, sent>>
        BY <3>1, CallWrites
      <4>3. \A r \in Reports : report'[r] = "forwarded" => report[r] = "forwarded"
        BY <3>1, CallWrites DEF reportBug, Typed, TypeOK
      <4> QED BY <4>1, <4>2, <4>3
    <3>2. CASE Die(p) \/ Throw(p)
      <4>1. Only(p) /\ job'[p].at \notin {"mark", "forwarded"}
        <5>1. JobsOK
          BY DEF Typed
        <5>2. Only(p) /\ job'[p].at \in {"idle", "listDigest", "sweep"}
          BY <3>2, <5>1, FaultMoves
        <5> QED BY <5>2
      <4>2. UNCHANGED <<tables, sent>>
        BY <3>2 DEF Die, Throw
      <4> QED BY <4>1, <4>2 DEF tables
    <3> QED BY <1>3, <3>1, <3>2
  <2>2. HandedOver(p)'
    BY <2>1 DEF HandedOver
  <2>3. /\ \A n \in Notes : mailed'[n] >= mailed[n]
        /\ lost \subseteq lost'
        /\ \A r \in Reports : taken'[r] >= taken[r]
    BY <2>1 DEF Typed, TypeOK, sent
  <2>4. \A q \in Jobs \ {p} : HandedOver(q)'
    BY <1>0, <2>1, <2>3, OthersHandedOver
  <2>5. NothingMarkedUnsaid'
    BY <2>1 DEF Said, NothingMarkedUnsaid, sent
  <2> QED BY <2>2, <2>4, <2>5 DEF Said
<1>4. CASE Pass \/ Change
  <2>1. UNCHANGED <<job, mailed, lost, taken>>
    BY <1>4 DEF Pass, Change, Ripen, GrowOld, CoolOff, FallDue, updateProfile,
                unsubscribe, setLevel, deleteAccount, sent
  <2>2. \A n \in Notes : note'[n] = "sent" => note[n] = "sent"
    BY <1>4 DEF Pass, Change, Ripen, GrowOld, CoolOff, FallDue, updateProfile,
                unsubscribe, setLevel, deleteAccount, Typed, TypeOK
  <2>3. \A r \in Reports : report'[r] = "forwarded" => report[r] = "forwarded"
    BY <1>4 DEF Pass, Change, Ripen, GrowOld, CoolOff, FallDue, updateProfile,
                unsubscribe, setLevel, deleteAccount, Typed, TypeOK
  <2> QED BY <2>1, <2>2, <2>3 DEF Said, NothingMarkedUnsaid, HandedOver, Rows
<1> QED BY <1>1, <1>2, <1>3, <1>4 DEF Next

(* A row of the digest counts as sent only after the mail server took it   *)
(* or refused it, and a bug report as forwarded only after it took it,     *)
(* however processes overlap and die.                                      *)
THEOREM MarksAreTrue == Spec => []NothingMarkedUnsaid
<1>1. Init => Said
  BY DEF Init, Said, NothingMarkedUnsaid, HandedOver, Idle
<1>2. Said => NothingMarkedUnsaid
  BY DEF Said
<1> QED BY <1>1, <1>2, TypedInit, TypedNext, SaidNext, PTL DEF Spec

-----------------------------------------------------------------------------
(* Alerts to the owner                                                     *)

Alarming(p, k) == job[p].at = "alarm" /\ job[p].on = k

(* Whoever claimed an alert is alone with it until it is out.              *)
Claimed(k) ==
  /\ alarmed[k] <= 1
  /\ alert[k] # "recent" => alarmed[k] = 0
  /\ \A p \in Jobs : Alarming(p, k) => alert[k] = "recent" /\ alarmed[k] = 0
  /\ \A p, q \in Jobs : Alarming(p, k) /\ Alarming(q, k) => p = q

Alarms == \A k \in Keys : Claimed(k)

(* Nobody comes to the sending of an alert but by claiming it.             *)
LEMMA NoNewAlarm ==
  ASSUME Alarms, NEW p \in Jobs, Only(p), UNCHANGED <<alert, alarmed>>,
         job'[p].at # "alarm"
  PROVE  Alarms'
<1> SUFFICES ASSUME NEW k \in Keys PROVE Claimed(k)'
  BY DEF Alarms
<1>1. \A q \in Jobs : Alarming(q, k)' => Alarming(q, k)
  BY DEF Alarming, Only
<1> QED BY <1>1 DEF Alarms, Claimed

LEMMA AlarmsStep == ASSUME Typed, Alarms, NEW p \in Jobs, Step(p) PROVE Alarms'
<1>0. Moves(p)
  BY StepMoves DEF Typed
<1>1. ASSUME NEW k \in Keys, once(p, k) PROVE Alarms'
  <2>1. Only(p)
    BY <1>0 DEF Moves
  <2>2. CASE alert[k] # "never"
    <3>1. job'[p].at # "alarm"
      <4>1. GoesOn(p, "once", job[p].todo \ {k})
        BY <1>1, <2>2, OwnerMoves DEF Typed
      <4> QED BY <4>1, GoesAt
    <3>2. UNCHANGED <<alert, alarmed>>
      BY <1>1, <2>2 DEF once, sent, Typed, TypeOK
    <3> QED BY <2>1, <3>1, <3>2, NoNewAlarm
  <2>3. CASE alert[k] = "never"
    <3>1. Follows(p, "alarm", job[p].todo \ {k}, k)
      BY <1>1, <2>3, OwnerMoves DEF Typed
    <3>2. job[p].at = "once"
      BY <1>1 DEF once
    <3>3. /\ alarmed' = alarmed /\ alert'[k] = "recent"
          /\ \A m \in Keys \ {k} : alert'[m] = alert[m]
      BY <1>1, <2>3 DEF once, sent, Typed, TypeOK
    <3>4. ASSUME NEW q \in Jobs, NEW m \in Keys
          PROVE  Alarming(q, m)' <=> Alarming(q, m) \/ (q = p /\ m = k)
      BY <2>1, <3>1, <3>2 DEF Alarming, Only, Follows
    <3>5. \A q \in Jobs : ~Alarming(q, k)
      BY <2>3 DEF Alarms, Claimed
    <3> QED BY <2>3, <3>3, <3>4, <3>5 DEF Alarms, Claimed, Typed, TypeOK
  <2> QED BY <2>2, <2>3
<1>2. CASE throttled(p) \/ insertAlert(p)
  <2> DEFINE k == job[p].on
  <2>1. Only(p) /\ k \in Keys
    BY <1>2, OwnerMoves DEF Typed
  <2>2. job[p].at # "alarm" /\ alarmed' = alarmed
    BY <1>2 DEF throttled, insertAlert, sent
  <2>3. CASE job'[p].at # "alarm"
    <3>1. alert' = alert
      <4>1. CASE throttled(p)
        <5>1. Follows(p, ThenAt(p), {}, k)
          BY <4>1, OwnerMoves DEF Typed
        <5>2. alert[k] # "due"
          BY <2>3, <5>1 DEF Follows, ThenAt
        <5> QED BY <2>1, <4>1, <5>2 DEF throttled, Typed, TypeOK
      <4>2. CASE insertAlert(p)
        <5>1. alert[k] = "never" => Follows(p, "alarm", {}, k)
          BY <4>2, OwnerMoves DEF Typed
        <5>2. alert[k] # "never"
          BY <2>3, <5>1 DEF Follows, ThenAt
        <5> QED BY <2>1, <4>2, <5>2 DEF insertAlert, Typed, TypeOK
      <4> QED BY <1>2, <4>1, <4>2
    <3> QED BY <2>1, <2>2, <2>3, <3>1, NoNewAlarm
  <2>4. CASE job'[p].at = "alarm"
    <3>1. Follows(p, "alarm", {}, k) /\ alert[k] # "recent"
      <4>1. CASE throttled(p)
        <5>1. Follows(p, ThenAt(p), {}, k)
          BY <4>1, OwnerMoves DEF Typed
        <5> QED BY <2>4, <5>1 DEF Follows, ThenAt
      <4>2. CASE insertAlert(p)
        <5>1. IF alert[k] = "never" THEN Follows(p, "alarm", {}, k) ELSE job'[p] = Idle
          BY <4>2, OwnerMoves DEF Typed
        <5> QED BY <2>4, <5>1, IdleAt
      <4> QED BY <1>2, <4>1, <4>2
    <3>2. alert'[k] = "recent" /\ \A m \in Keys \ {k} : alert'[m] = alert[m]
      <4>1. CASE throttled(p)
        <5>1. Follows(p, ThenAt(p), {}, k)
          BY <4>1, OwnerMoves DEF Typed
        <5>2. alert[k] = "due"
          BY <2>4, <5>1 DEF Follows, ThenAt
        <5> QED BY <2>1, <4>1, <5>2 DEF throttled, Typed, TypeOK
      <4>2. CASE insertAlert(p)
        <5>1. IF alert[k] = "never" THEN Follows(p, "alarm", {}, k) ELSE job'[p] = Idle
          BY <4>2, OwnerMoves DEF Typed
        <5>2. alert[k] = "never"
          BY <2>4, <5>1, IdleAt
        <5> QED BY <2>1, <4>2, <5>2 DEF insertAlert, Typed, TypeOK
      <4> QED BY <1>2, <4>1, <4>2
    <3>3. ASSUME NEW q \in Jobs, NEW m \in Keys
          PROVE  Alarming(q, m)' <=> Alarming(q, m) \/ (q = p /\ m = k)
      BY <2>1, <2>2, <3>1 DEF Alarming, Only, Follows
    <3>4. \A q \in Jobs : ~Alarming(q, k)
      BY <2>1, <3>1 DEF Alarms, Claimed
    <3> HIDE DEF k
    <3> QED BY <2>1, <2>2, <3>1, <3>2, <3>3, <3>4 DEF Alarms, Claimed, Typed, TypeOK
  <2> QED BY <2>3, <2>4
<1>3. CASE alarm(p)
  <2> DEFINE k == job[p].on
  <2>1. Only(p) /\ k \in Keys /\ job'[p].at # "alarm"
    <3>1. Only(p) /\ k \in Keys /\ GoesOn(p, "once", job[p].todo)
      BY <1>3, OwnerMoves DEF Typed
    <3> QED BY <3>1, GoesAt
  <2>2. Alarming(p, k)
    BY <1>3 DEF alarm, Alarming
  <2>3. ASSUME NEW q \in Jobs, NEW m \in Keys, Alarming(q, m)'
        PROVE  Alarming(q, m) /\ q # p
    BY <2>1, <2>3 DEF Alarming, Only
  <2>4. /\ alert' = alert /\ alarmed'[k] = alarmed[k] + 1
        /\ \A m \in Keys \ {k} : alarmed'[m] = alarmed[m]
    BY <1>3, <2>1 DEF alarm, tables, Typed, TypeOK
  <2> HIDE DEF k
  <2> QED BY <2>1, <2>2, <2>3, <2>4 DEF Alarms, Claimed, Typed, TypeOK
<1>4. CASE /\ ~(\E k \in Keys : once(p, k)) /\ ~throttled(p) /\ ~insertAlert(p) /\ ~alarm(p)
  <2>1. UNCHANGED <<alert, alarmed>>
    BY <1>4, StepWrites
  <2>2. Only(p) /\ job'[p].at # "alarm"
    BY <1>0, <1>4 DEF Moves, Arrives
  <2> QED BY <2>1, <2>2, NoNewAlarm
<1> QED BY <1>1, <1>2, <1>3, <1>4

LEMMA AlarmsNext == Typed /\ Alarms /\ [Next]_vars => Alarms'
<1> SUFFICES ASSUME Typed, Alarms, [Next]_vars PROVE Alarms'
  OBVIOUS
<1>1. CASE UNCHANGED vars
  BY <1>1 DEF vars, tables, sent, Alarms, Claimed, Alarming
<1>2. ASSUME NEW p \in Jobs, Step(p) PROVE Alarms'
  BY <1>2, AlarmsStep
<1>3. ASSUME NEW p \in Jobs, Call(p) \/ Die(p) \/ Throw(p) PROVE Alarms'
  <2>1. Only(p) /\ job'[p].at # "alarm" /\ UNCHANGED <<alert, alarmed>>
    <3>1. CASE Call(p)
      BY <3>1, CallMoves, CallWrites DEF sent
    <3>2. CASE Die(p) \/ Throw(p)
      <4>1. Only(p) /\ job'[p].at # "alarm"
        BY <3>2, FaultMoves DEF Typed
      <4> QED BY <3>2, <4>1 DEF Die, Throw, tables, sent
    <3> QED BY <1>3, <3>1, <3>2
  <2> QED BY <2>1, NoNewAlarm
<1>4. ASSUME NEW k \in Thresholds, FallDue(k) PROVE Alarms'
  <2>1. /\ alert'[k] = "due" /\ alarmed'[k] = 0 /\ job' = job
        /\ \A m \in Keys \ {k} : alert'[m] = alert[m] /\ alarmed'[m] = alarmed[m]
    BY <1>4 DEF FallDue, Typed, TypeOK, Keys
  <2>2. \A q \in Jobs : ~Alarming(q, k)
    BY <1>4 DEF FallDue, Alarming
  <2> QED BY <2>1, <2>2 DEF Alarms, Claimed, Alarming
<1>5. CASE /\ Pass \/ Change
           /\ ~\E k \in Thresholds : FallDue(k)
  BY <1>5 DEF Pass, Change, Ripen, GrowOld, CoolOff, updateProfile,
     unsubscribe, setLevel,
              deleteAccount, sent, Alarms, Claimed, Alarming
<1> QED BY <1>1, <1>2, <1>3, <1>4, <1>5 DEF Next, Pass

-----------------------------------------------------------------------------
(* Who works on what                                                       *)

LEMMA WorksIs ==
  /\ Works("cron") = {"report", "digest", "remind"}
  /\ Works("event") = {} /\ Works("reporter") = {}
  /\ Works("digest") = {"digest"} /\ Works("remind") = {"remind"}
  /\ Works("nobody") = {"nobody"}
  /\ \A u \in People : Works(u) = {u}
  BY NamesAssumption DEF Works

(* Whose reminder it is.                                                   *)
Owner(d) == IF d.kind = "nudge" THEN d.to ELSE "remind"

ForWhom(j) ==
  /\ j.at \in {"forwardPending", "reports"} => j.by = "cron"
  /\ j.at \in {"find", "dispatch", "forwarded"} => j.by \in {"cron", "reporter"}
  /\ j.at \in {"listDigest", "digest", "mark"} => j.by \in {"cron", "digest"}
  /\ j.at = "sweep" => j.by \in {"cron", "remind"}
  /\ j.at \in {"due", "count", "record", "send"} =>
       \A d \in j.todo : Owner(d) \in Works(j.by)
  /\ j.at \in {"count", "record", "send"} => Owner(j.on) \in Works(j.by)

(* Two at one time with the same work are on record.                       *)
Apart ==
  \A p, q \in Jobs :
    p # q => Works(job[p].by) \cap Works(job[q].by) \subseteq crossed \cup {"nobody"}

Staffed == Apart /\ \A p \in Jobs : ForWhom(job[p])

LEMMA ApartKept ==
  ASSUME Apart, NEW p \in Jobs, Only(p), crossed' = crossed,
         job'[p].by = job[p].by \/ job'[p] = Idle
  PROVE  Apart'
<1>1. job'[p].by = job[p].by \/ job'[p].by = "nobody"
  BY DEF Idle
<1>2. \A q \in Jobs : job'[q].by = job[q].by \/ job'[q].by = "nobody"
  BY <1>1 DEF Only
<1> SUFFICES ASSUME NEW q \in Jobs, NEW r \in Jobs, q # r,
                    NEW w \in Works(job'[q].by), w \in Works(job'[r].by), w # "nobody"
             PROVE  w \in crossed
  BY DEF Apart
<1>3. job'[q].by = job[q].by /\ job'[r].by = job[r].by
  BY <1>2, WorksIs
<1> QED BY <1>3 DEF Apart

LEMMA ApartCall == ASSUME Typed, Apart, NEW p \in Jobs, Call(p) PROVE Apart'
<1> DEFINE by == job'[p].by
<1>1. Only(p) /\ Crosses(p, by)
  BY CallMoves
<1>2. \A q \in Jobs \ {p} : Works(by) \cap Works(job[q].by) \subseteq crossed'
  BY <1>1 DEF Crosses
<1>3. crossed \subseteq crossed'
  BY <1>1 DEF Crosses
<1>4. \A q \in Jobs \ {p} : job'[q] = job[q]
  BY <1>1 DEF Only
<1> SUFFICES ASSUME NEW q \in Jobs, NEW r \in Jobs, q # r
             PROVE  Works(job'[q].by) \cap Works(job'[r].by) \subseteq crossed' \cup {"nobody"}
  BY DEF Apart
<1>5. CASE q = p
  BY <1>2, <1>4, <1>5
<1>6. CASE r = p
  BY <1>2, <1>4, <1>6
<1>7. CASE q # p /\ r # p
  BY <1>3, <1>4, <1>7 DEF Apart
<1> QED BY <1>5, <1>6, <1>7

(* What is left of a list, and what is picked from it, is for the same.    *)
LEMMA StaffedReminder ==
  ASSUME Typed, NEW p \in Jobs, ForWhom(job[p]),
         \/ \E due \in SUBSET Swept : sweep(p, due)
         \/ \E d \in Dues : person(p, d)
         \/ shouldSend(p) \/ record(p) \/ send(p)
  PROVE  ForWhom(job'[p])
<1> USE IdleAt
<1>1. ASSUME NEW due \in SUBSET Swept, sweep(p, due) PROVE ForWhom(job'[p])
  <2>1. PICK found \in SUBSET Swept : GoesOn(p, "due", found)
    BY <1>1, ReminderMoves DEF Typed
  <2>2. \A d \in found : Owner(d) = "remind"
    BY DEF Swept, Owner
  <2>3. "remind" \in Works(job[p].by)
    BY <1>1, WorksIs DEF sweep, ForWhom
  <2> QED BY <2>1, <2>2, <2>3 DEF GoesOn, Follows, ForWhom
<1>2. ASSUME NEW d \in Dues, person(p, d) PROVE ForWhom(job'[p])
  <2>1. \A c \in job[p].todo : Owner(c) \in Works(job[p].by)
    BY <1>2 DEF person, ForWhom
  <2>2. Owner(d) \in Works(job[p].by)
    BY <1>2, <2>1 DEF person
  <2>3. \/ Follows(p, "count", job[p].todo \ {d}, d)
        \/ GoesOn(p, "due", job[p].todo \ {d})
    BY <1>2, ReminderMoves DEF Typed
  <2> QED BY <2>1, <2>2, <2>3 DEF GoesOn, Follows, ForWhom
<1>3. CASE shouldSend(p) \/ record(p) \/ send(p)
  <2>1. /\ \A c \in job[p].todo : Owner(c) \in Works(job[p].by)
        /\ Owner(job[p].on) \in Works(job[p].by)
    BY <1>3 DEF shouldSend, record, send, ForWhom
  <2>2. \/ \E at \in {"record", "send"} : Follows(p, at, job[p].todo, job[p].on)
        \/ GoesOn(p, "due", job[p].todo)
    BY <1>3, ReminderMoves DEF Typed
  <2> QED BY <2>1, <2>2 DEF GoesOn, Follows, ForWhom
<1> QED BY <1>1, <1>2, <1>3

LEMMA StaffedStep ==
  ASSUME Typed, NEW p \in Jobs, ForWhom(job[p]), Step(p)
  PROVE  ForWhom(job'[p])
<1>1. Moves(p)
  BY StepMoves DEF Typed
<1>2. CASE \/ \E due \in SUBSET Swept : sweep(p, due)
           \/ \E d \in Dues : person(p, d)
           \/ shouldSend(p) \/ record(p) \/ send(p)
  BY <1>2, StaffedReminder
<1>3. CASE job'[p] = Idle
  BY <1>3 DEF Idle, ForWhom
<1>4. CASE /\ job'[p] # Idle
           /\ ~\/ \E due \in SUBSET Swept : sweep(p, due)
               \/ \E d \in Dues : person(p, d)
               \/ shouldSend(p) \/ record(p) \/ send(p)
  <2>1. job'[p].by = job[p].by /\ job'[p].at \notin {"due", "count", "record", "send"}
    BY <1>1, <1>4 DEF Moves, Arrives
  <2>2. job'[p].at \in {"reports", "listDigest"} => job[p].by = "cron"
    BY <1>1 DEF Moves, Arrives, forwardPending, ForWhom
  <2>3. job'[p].at \in {"find", "dispatch", "forwarded"} => job[p].by \in {"cron", "reporter"}
    BY <1>1 DEF Moves, Arrives, nextReport, find, accepted, ForWhom
  <2>4. job'[p].at \in {"digest", "mark"} => job[p].by \in {"cron", "digest"}
    BY <1>1 DEF Moves, Arrives, listDigest, markSent, sendDigest, ForWhom
  <2>5. job'[p].at = "sweep" => job[p].by = "cron"
    BY <1>1 DEF Moves, Arrives
  <2>6. job'[p].at # "forwardPending"
    BY <1>1 DEF Moves, Arrives
  <2> QED BY <2>1, <2>2, <2>3, <2>4, <2>5, <2>6 DEF ForWhom
<1> QED BY <1>2, <1>3, <1>4

LEMMA StaffedNext == Typed /\ Staffed /\ [Next]_vars => Staffed'
<1> SUFFICES ASSUME Typed, Staffed, [Next]_vars PROVE Staffed'
  OBVIOUS
<1>1. ASSUME NEW p \in Jobs, Only(p), Apart', ForWhom(job'[p]) PROVE Staffed'
  BY <1>1 DEF Staffed, Only
<1>2. ASSUME NEW p \in Jobs, Step(p) PROVE Staffed'
  <2>1. Moves(p) /\ crossed' = crossed
    BY <1>2, StepMoves, StepWrites DEF Typed
  <2>2. Apart'
    BY <2>1, ApartKept DEF Moves, Staffed
  <2> QED BY <1>1, <1>2, <2>1, <2>2, StaffedStep DEF Moves, Staffed
<1>3. ASSUME NEW p \in Jobs, Call(p) PROVE Staffed'
  <2>1. ForWhom(job'[p])
    BY <1>3, CallMoves, WorksIs, MailAssumption DEF ForWhom, Owner
  <2> QED BY <1>1, <1>3, <2>1, CallMoves, ApartCall DEF Staffed
<1>4. ASSUME NEW p \in Jobs, Die(p) \/ Throw(p) PROVE Staffed'
  <2>1. /\ Only(p) /\ job'[p].at \in {"idle", "listDigest", "sweep"}
        /\ job'[p].by = job[p].by \/ job'[p] = Idle
        /\ job'[p].at # "idle" => job[p].by = "cron"
    BY <1>4, FaultMoves DEF Typed
  <2>2. crossed' = crossed
    BY <1>4 DEF Die, Throw
  <2>3. ForWhom(job'[p])
    BY <2>1, IdleAt DEF ForWhom
  <2> QED BY <1>1, <2>1, <2>2, <2>3, ApartKept DEF Staffed
<1>5. CASE Pass \/ Change \/ UNCHANGED vars
  <2>1. UNCHANGED <<job, crossed>>
    BY <1>5 DEF Pass, Change, Ripen, GrowOld, CoolOff, FallDue, updateProfile,
                unsubscribe, setLevel, deleteAccount, vars
  <2> QED BY <2>1 DEF Staffed, Apart
<1> QED BY <1>2, <1>3, <1>4, <1>5 DEF Next

LEMMA StaffedInit == Init => Staffed
  BY WorksIs DEF Init, Staffed, Apart, ForWhom, Idle

-----------------------------------------------------------------------------
(* Reminders                                                               *)

Whose(w) == IF w[2] = "nudge" THEN w[1] ELSE "remind"

(* Unless two were at it at one time, who has counted no reminder writes   *)
(* the first one, and who has written it sends the first one.              *)
RemindedOnce(w) ==
  /\ nagged[w] <= 1
  /\ w \notin recent => nagged[w] = 0
  /\ \A p \in Jobs : job[p].at = "record" /\ What(p) = w => w \notin recent
  /\ \A p \in Jobs : job[p].at = "send" /\ What(p) = w => w \in recent /\ nagged[w] = 0

Reminded == \A w \in People \X Kinds : Whose(w) \notin crossed => RemindedOnce(w)

LEMMA AloneAtIt ==
  ASSUME Typed, Staffed, NEW w \in People \X Kinds, Whose(w) \notin crossed,
         NEW p \in Jobs, NEW q \in Jobs, What(p) = w, What(q) = w,
         job[p].at \in {"record", "send"}, job[q].at \in {"record", "send"}
  PROVE  p = q
<1>1. /\ job[p].on.to = w[1] /\ job[p].on.kind = w[2]
      /\ job[q].on.to = w[1] /\ job[q].on.kind = w[2]
  BY DEF What
<1>2. Owner(job[p].on) = Whose(w) /\ Owner(job[q].on) = Whose(w)
  BY <1>1 DEF Owner, Whose
<1>3. Whose(w) \in Works(job[p].by) /\ Whose(w) \in Works(job[q].by)
  BY <1>2 DEF Staffed, ForWhom
<1>4. Whose(w) # "nobody"
  BY NamesAssumption DEF Whose
<1> QED BY <1>3, <1>4 DEF Staffed, Apart

LEMMA RemindedKept ==
  ASSUME Reminded, crossed \subseteq crossed', UNCHANGED <<recent, nagged>>,
         \A q \in Jobs : job'[q].at \in {"record", "send"} => job'[q] = job[q]
  PROVE  Reminded'
<1> SUFFICES ASSUME NEW w \in People \X Kinds, Whose(w) \notin crossed'
             PROVE  RemindedOnce(w)'
  BY DEF Reminded, Whose
<1>1. RemindedOnce(w)
  BY DEF Reminded
<1>2. \A q \in Jobs : job'[q].at \in {"record", "send"} => What(q)' = What(q)
  BY DEF What
<1> QED BY <1>1, <1>2 DEF RemindedOnce

LEMMA RemindedStep ==
  ASSUME Typed, Staffed, Reminded, NEW p \in Jobs, Step(p)
  PROVE  Reminded'
<1>1. Moves(p) /\ crossed' = crossed
  BY StepMoves, StepWrites DEF Typed
<1>2. \A q \in Jobs \ {p} : job'[q] = job[q]
  BY <1>1 DEF Moves, Only
<1>3. CASE shouldSend(p) /\ job'[p].at = "record"
  <2>1. Follows(p, "record", job[p].todo, job[p].on) /\ What(p) \notin recent
    <3>1. IF What(p) \in recent THEN GoesOn(p, "due", job[p].todo)
          ELSE Follows(p, "record", job[p].todo, job[p].on)
      BY <1>3, ReminderMoves DEF Typed
    <3> QED BY <1>3, <3>1, GoesAt
  <2>2. UNCHANGED <<recent, nagged>>
    BY <1>3 DEF shouldSend, tables, sent
  <2>3. What(p)' = What(p)
    BY <2>1 DEF Follows, What
  <2> SUFFICES ASSUME NEW w \in People \X Kinds, Whose(w) \notin crossed
               PROVE  RemindedOnce(w)'
    BY <1>1 DEF Reminded, Whose
  <2>4. \A q \in Jobs \ {p} : What(q)' = What(q)
    BY <1>2 DEF What
  <2>5. RemindedOnce(w)
    BY DEF Reminded
  <2> QED BY <1>2, <1>3, <2>1, <2>2, <2>3, <2>4, <2>5 DEF RemindedOnce
<1>4. CASE record(p)
  <2>1. Follows(p, "send", job[p].todo, job[p].on)
    BY <1>4, ReminderMoves DEF Typed
  <2>2. job[p].at = "record" /\ recent' = recent \cup {What(p)} /\ nagged' = nagged
    BY <1>4 DEF record, sent
  <2>3. What(p)' = What(p) /\ job'[p].at = "send"
    BY <2>1 DEF Follows, What
  <2>4. \A q \in Jobs \ {p} : What(q)' = What(q)
    BY <1>2 DEF What
  <2> SUFFICES ASSUME NEW w \in People \X Kinds, Whose(w) \notin crossed
               PROVE  RemindedOnce(w)'
    BY <1>1 DEF Reminded, Whose
  <2>5. RemindedOnce(w)
    BY DEF Reminded
  <2>6. CASE What(p) = w
    <3>1. \A q \in Jobs \ {p} : job[q].at \in {"record", "send"} => What(q) # w
      BY <2>2, <2>6, AloneAtIt
    <3>2. nagged[w] = 0
      BY <2>2, <2>5, <2>6 DEF RemindedOnce
    <3> QED BY <1>2, <2>2, <2>3, <2>4, <2>6, <3>1, <3>2 DEF RemindedOnce
  <2>7. CASE What(p) # w
    BY <1>2, <2>2, <2>3, <2>4, <2>5, <2>7 DEF RemindedOnce
  <2> QED BY <2>6, <2>7
<1>5. CASE send(p)
  <2>1. job'[p].at \notin {"record", "send"}
    <3>1. GoesOn(p, "due", job[p].todo)
      BY <1>5, ReminderMoves DEF Typed
    <3> QED BY <3>1, GoesAt
  <2>2. What(p) \in People \X Kinds
    BY <1>5, WhatIs DEF send, Typed
  <2>3. /\ job[p].at = "send" /\ recent' = recent
        /\ nagged'[What(p)] = nagged[What(p)] + 1
        /\ \A w \in People \X Kinds : w # What(p) => nagged'[w] = nagged[w]
    BY <1>5, <2>2 DEF send, tables, Typed, TypeOK
  <2>4. \A q \in Jobs \ {p} : What(q)' = What(q)
    BY <1>2 DEF What
  <2> SUFFICES ASSUME NEW w \in People \X Kinds, Whose(w) \notin crossed
               PROVE  RemindedOnce(w)'
    BY <1>1 DEF Reminded, Whose
  <2>5. RemindedOnce(w)
    BY DEF Reminded
  <2>6. CASE What(p) = w
    <3>1. \A q \in Jobs \ {p} : job[q].at \in {"record", "send"} => What(q) # w
      BY <2>3, <2>6, AloneAtIt
    <3>2. w \in recent /\ nagged[w] = 0
      BY <2>3, <2>5, <2>6 DEF RemindedOnce
    <3> QED BY <1>2, <2>1, <2>3, <2>4, <2>6, <3>1, <3>2 DEF RemindedOnce
  <2>7. CASE What(p) # w
    BY <1>2, <2>1, <2>3, <2>4, <2>5, <2>7 DEF RemindedOnce
  <2> QED BY <2>6, <2>7
<1>6. CASE ~(shouldSend(p) /\ job'[p].at = "record") /\ ~record(p) /\ ~send(p)
  <2>1. UNCHANGED <<recent, nagged>>
    BY <1>6, StepWrites
  <2>2. job'[p].at \notin {"record", "send"}
    BY <1>1, <1>6 DEF Moves, Arrives
  <2> QED BY <1>1, <1>2, <2>1, <2>2, RemindedKept
<1> QED BY <1>3, <1>4, <1>5, <1>6

LEMMA RemindedNext == Typed /\ Staffed /\ Reminded /\ [Next]_vars => Reminded'
<1> SUFFICES ASSUME Typed, Staffed, Reminded, [Next]_vars PROVE Reminded'
  OBVIOUS
<1>1. CASE UNCHANGED vars
  BY <1>1, RemindedKept DEF vars, tables, sent
<1>2. ASSUME NEW p \in Jobs, Step(p) PROVE Reminded'
  BY <1>2, RemindedStep
<1>3. ASSUME NEW p \in Jobs, Call(p) \/ Die(p) \/ Throw(p) PROVE Reminded'
  <2>1. /\ Only(p) /\ job'[p].at \notin {"record", "send"}
        /\ UNCHANGED <<recent, nagged>> /\ crossed \subseteq crossed'
    <3>1. CASE Call(p)
      BY <3>1, CallMoves, CallWrites DEF sent, Crosses
    <3>2. CASE Die(p) \/ Throw(p)
      <4>1. Only(p) /\ job'[p].at \in {"idle", "listDigest", "sweep"}
        BY <3>2, FaultMoves DEF Typed
      <4> QED BY <3>2, <4>1 DEF Die, Throw, tables, sent
    <3> QED BY <1>3, <3>1, <3>2
  <2> QED BY <2>1, RemindedKept DEF Only
<1>4. ASSUME NEW c \in recent, CoolOff(c) PROVE Reminded'
  <2>1. /\ recent' = recent \ {c} /\ nagged'[c] = 0 /\ UNCHANGED <<job, crossed>>
        /\ \A w \in People \X Kinds : w # c => nagged'[w] = nagged[w]
        /\ \A p \in Jobs : job[p].at = "send" => What(p) # c
    BY <1>4 DEF CoolOff, Typed, TypeOK
  <2>2. \A p \in Jobs : What(p)' = What(p)
    BY <2>1 DEF What
  <2> QED BY <2>1, <2>2 DEF Reminded, RemindedOnce, Whose
<1>5. CASE /\ Pass \/ Change
           /\ ~\E c \in recent : CoolOff(c)
  <2>1. UNCHANGED <<job, recent, nagged, crossed>>
    BY <1>5 DEF Pass, Change, Ripen, GrowOld, FallDue, updateProfile,
       unsubscribe, setLevel,
                deleteAccount, sent
  <2> QED BY <2>1, RemindedKept
<1> QED BY <1>1, <1>2, <1>3, <1>4, <1>5 DEF Next, Pass

(* Nobody is reminded of a kind of debt twice inside its cooldown, unless  *)
(* two processes that do so were at work at one time, and the owner hears  *)
(* of a milestone once and of a threshold once per cooldown, whoever       *)
(* overlaps.                                                               *)
THEOREM CooldownsHold == Spec => []OncePerCooldown
<1>1. Init => Alarms /\ Reminded
  BY DEF Init, Alarms, Claimed, Alarming, Reminded, RemindedOnce, Idle
<1>2. Typed /\ Alarms /\ Reminded => OncePerCooldown
  BY DEF Alarms, Claimed, Reminded, RemindedOnce, Whose, OncePerCooldown, Typed, TypeOK
<1> QED BY <1>1, <1>2, TypedInit, StaffedInit, TypedNext, AlarmsNext, StaffedNext,
           RemindedNext, PTL DEF Spec

-----------------------------------------------------------------------------
(* Rows of the digest                                                      *)

Inserting(p, n) == job[p].at \in {"insert", "deliver"} /\ n \in job[p].todo
Delivering(p, n) == job[p].at = "deliver" /\ job[p].on = n
Listed(p, n) == job[p].at \in {"digest", "mark"} /\ n \in job[p].todo
Marking(p, n) == job[p].at = "mark" /\ n \in Rows(p, job[p].on)

(* A process inserts and delivers what happened once, and is alone at it.  *)
OneEvent(p) ==
  /\ \A n, m \in Notes : Inserting(p, n) /\ Inserting(p, m) => n[1] = m[1]
  /\ \A n, m \in Notes : Inserting(p, n) /\ Delivering(p, m) => n[1] = m[1]

Inserted(n) ==
  /\ note[n] = "none" => mailed[n] = 0
  /\ n[1] \in Urgent => note[n] \in {"none", "sent"} /\ mailed[n] <= 1
  /\ \A p \in Jobs : Inserting(p, n) => note[n] = "none"
  /\ \A p \in Jobs : Delivering(p, n) =>
       n[1] \in Urgent /\ note[n] = "sent" /\ mailed[n] = 0
  /\ \A p \in Jobs : Listed(p, n) => n[1] \notin Urgent /\ note[n] # "none"
  /\ \A p, q \in Jobs : Inserting(p, n) /\ Inserting(q, n) => p = q
  /\ \A p, q \in Jobs : Delivering(p, n) /\ Delivering(q, n) => p = q

Noted == (\A p \in Jobs : OneEvent(p)) /\ \A n \in Notes : Inserted(n)

(* Unless two digests were at work at one time: what is listed is yet to   *)
(* be sent, and each mail but one for a row is the fault of one that died. *)
Paid(n) ==
  /\ \A p \in Jobs : Listed(p, n) => note[n] \in {"fresh", "ripe"}
  /\ mailed[n] <= 1 + faults
  /\ /\ n[1] \notin Urgent /\ note[n] # "sent"
     /\ \A p \in Jobs : ~Marking(p, n)
     => mailed[n] <= faults

Digested == "digest" \notin crossed => \A n \in Notes : Paid(n)

(* Processes that leave the notes alone.                                   *)
LEMMA NotedKept ==
  ASSUME Noted, Digested, crossed \subseteq crossed', faults' = faults,
         UNCHANGED <<note, mailed>>,
         \A q \in Jobs : job'[q].at \in {"insert", "deliver", "digest", "mark"} =>
                           job'[q] = job[q],
         \A q \in Jobs : job[q].at = "mark" => job'[q] = job[q]
  PROVE  Noted' /\ Digested'
<1>1. ASSUME NEW q \in Jobs, NEW n \in Notes
      PROVE  /\ Inserting(q, n)' => Inserting(q, n)
             /\ Delivering(q, n)' => Delivering(q, n)
             /\ Listed(q, n)' => Listed(q, n)
             /\ Marking(q, n)' <=> Marking(q, n)
  BY DEF Inserting, Delivering, Listed, Marking, Rows
<1>2. \A q \in Jobs : OneEvent(q)'
  BY <1>1 DEF Noted, OneEvent
<1>3. \A n \in Notes : Inserted(n)'
  BY <1>1 DEF Noted, Inserted
<1>4. ASSUME "digest" \notin crossed', NEW n \in Notes PROVE Paid(n)'
  <2>1. Paid(n)
    BY <1>4 DEF Digested
  <2> QED BY <1>1, <2>1 DEF Paid
<1> QED BY <1>2, <1>3, <1>4 DEF Noted, Digested

LEMMA DigestsAlone ==
  ASSUME Typed, Staffed, "digest" \notin crossed, NEW p \in Jobs, NEW q \in Jobs,
         job[p].at \in {"listDigest", "digest", "mark"},
         job[q].at \in {"listDigest", "digest", "mark"}
  PROVE  p = q
<1>1. "digest" \in Works(job[p].by) /\ "digest" \in Works(job[q].by)
  BY WorksIs DEF Staffed, ForWhom
<1> QED BY <1>1 DEF Staffed, Apart

LEMMA NotedInsert ==
  ASSUME Typed, Noted, Digested, NEW p \in Jobs, NEW n \in Notes, insertNote(p, n)
  PROVE  Noted' /\ Digested'
<1>1. /\ Only(p) /\ job[p].at = "insert" /\ n \in job[p].todo /\ job[p].todo \subseteq Notes
      /\ UNCHANGED <<mailed, faults, crossed>>
      /\ note' = [note EXCEPT ![n] = IF n[1] \in Urgent THEN "sent" ELSE "fresh"]
  BY AlertMoves DEF insertNote, Typed, sent, bounds
<1>2. /\ note'[n] = IF n[1] \in Urgent THEN "sent" ELSE "fresh"
      /\ \A m \in Notes : m # n => note'[m] = note[m]
  BY <1>1 DEF Typed, TypeOK
<1>3. note[n] = "none" /\ mailed[n] = 0
  BY <1>1 DEF Noted, Inserted, Inserting
<1>4. \/ n[1] \in Urgent /\ Follows(p, "deliver", job[p].todo \ {n}, n)
      \/ n[1] \notin Urgent /\ Follows(p, "insert", job[p].todo \ {n}, None)
      \/ n[1] \notin Urgent /\ job'[p] = Idle
  BY AlertMoves DEF Typed, GoesOn
<1>5. ASSUME NEW m \in Notes, NEW q \in Jobs
      PROVE  /\ Inserting(q, m)' => Inserting(q, m) /\ ~(q = p /\ m = n)
             /\ Delivering(q, m)' => Delivering(q, m) \/ (q = p /\ m = n /\ n[1] \in Urgent)
             /\ Listed(q, m)' => Listed(q, m)
             /\ Marking(q, m)' <=> Marking(q, m)
  <2>1. CASE q = p
    BY <1>1, <1>4, <2>1 DEF Inserting, Delivering, Listed, Marking, Follows, Idle
  <2>2. CASE q # p
    BY <1>1, <2>2 DEF Inserting, Delivering, Listed, Marking, Only, Rows
  <2> QED BY <2>1, <2>2
<1>6. Inserting(p, n)
  BY <1>1 DEF Inserting
<1>7. \A q \in Jobs : OneEvent(q)'
  BY <1>5, <1>6 DEF Noted, OneEvent
<1>8. ASSUME NEW m \in Notes PROVE Inserted(m)'
  <2>1. CASE m = n
    BY <1>1, <1>2, <1>3, <1>5, <1>6, <2>1 DEF Noted, Inserted
  <2>2. CASE m # n
    <3>1. Inserted(m)
      BY DEF Noted
    <3>2. note'[m] = note[m] /\ mailed'[m] = mailed[m]
      BY <1>1, <1>2, <2>2
    <3> QED BY <1>5, <2>2, <3>1, <3>2 DEF Inserted
  <2> QED BY <2>1, <2>2
<1>9. ASSUME "digest" \notin crossed', NEW m \in Notes PROVE Paid(m)'
  <2>1. Paid(m)
    BY <1>1, <1>9 DEF Digested
  <2>2. CASE m = n
    <3>1. \A q \in Jobs : ~Listed(q, n)
      BY <1>3 DEF Noted, Inserted
    <3>2. faults \in Nat
      BY MailAssumption DEF Typed, TypeOK
    <3> QED BY <1>1, <1>3, <1>5, <2>2, <3>1, <3>2 DEF Paid
  <2>3. CASE m # n
    BY <1>1, <1>2, <1>5, <2>1, <2>3 DEF Paid
  <2> QED BY <2>2, <2>3
<1> QED BY <1>7, <1>8, <1>9 DEF Noted, Digested

LEMMA NotedDeliver ==
  ASSUME Typed, Noted, Digested, NEW p \in Jobs, deliver(p)
  PROVE  Noted' /\ Digested'
<1> DEFINE n == job[p].on
<1>1. /\ Only(p) /\ job[p].at = "deliver" /\ n \in Notes
      /\ UNCHANGED <<note, faults, crossed>>
      /\ mailed' \in {mailed, [mailed EXCEPT ![n] = @ + 1]}
  BY AlertMoves DEF deliver, Typed, tables, bounds
<1>2. mailed'[n] \in {mailed[n], mailed[n] + 1} /\ \A m \in Notes : m # n => mailed'[m] = mailed[m]
  BY <1>1 DEF Typed, TypeOK
<1>3. Delivering(p, n)
  BY <1>1 DEF Delivering
<1>4. n[1] \in Urgent /\ note[n] = "sent" /\ mailed[n] = 0
  BY <1>1, <1>3 DEF Noted, Inserted
<1>5. Follows(p, "insert", job[p].todo, None) \/ job'[p] = Idle
  BY <1>1, AlertMoves DEF Typed, GoesOn
<1>6. ASSUME NEW m \in Notes, NEW q \in Jobs
      PROVE  /\ Inserting(q, m)' => Inserting(q, m)
             /\ Delivering(q, m)' => Delivering(q, m) /\ q # p
             /\ Listed(q, m)' => Listed(q, m)
             /\ Marking(q, m)' <=> Marking(q, m)
  <2>1. CASE q = p
    BY <1>1, <1>5, <2>1 DEF Inserting, Delivering, Listed, Marking, Follows, Idle
  <2>2. CASE q # p
    BY <1>1, <2>2 DEF Inserting, Delivering, Listed, Marking, Only, Rows
  <2> QED BY <2>1, <2>2
<1> HIDE DEF n
<1>7. \A q \in Jobs : OneEvent(q)'
  BY <1>6 DEF Noted, OneEvent
<1>8. ASSUME NEW m \in Notes PROVE Inserted(m)'
  <2>1. CASE m = n
    BY <1>1, <1>2, <1>3, <1>4, <1>6, <2>1 DEF Noted, Inserted
  <2>2. CASE m # n
    BY <1>1, <1>2, <1>6, <2>2 DEF Noted, Inserted
  <2> QED BY <2>1, <2>2
<1>9. ASSUME "digest" \notin crossed', NEW m \in Notes PROVE Paid(m)'
  <2>1. Paid(m)
    BY <1>1, <1>9 DEF Digested
  <2>2. CASE m = n
    <3>1. faults \in Nat
      BY MailAssumption DEF Typed, TypeOK
    <3> QED BY <1>1, <1>2, <1>4, <1>6, <2>1, <2>2, <3>1 DEF Paid
  <2>3. CASE m # n
    BY <1>1, <1>2, <1>6, <2>1, <2>3 DEF Paid
  <2> QED BY <2>2, <2>3
<1> QED BY <1>7, <1>8, <1>9 DEF Noted, Digested

LEMMA NotedList ==
  ASSUME Typed, Staffed, Noted, Digested, NEW p \in Jobs, listDigest(p)
  PROVE  Noted' /\ Digested'
<1>1. /\ Only(p) /\ GoesOn(p, "digest", Found(p)) /\ job[p].at = "listDigest"
      /\ UNCHANGED <<note, mailed, faults, crossed>>
  BY DigestMoves DEF listDigest, Typed, tables, sent, bounds
<1>2. \/ Follows(p, "digest", Found(p), None)
      \/ Follows(p, "sweep", {}, None)
      \/ job'[p] = Idle
  BY <1>1 DEF GoesOn
<1>3. ASSUME NEW m \in Notes, NEW q \in Jobs
      PROVE  /\ Inserting(q, m)' => Inserting(q, m)
             /\ Delivering(q, m)' => Delivering(q, m)
             /\ Listed(q, m)' => Listed(q, m) \/ m \in Found(p)
             /\ Marking(q, m)' <=> Marking(q, m)
  <2>1. CASE q = p
    BY <1>1, <1>2, <2>1 DEF Inserting, Delivering, Listed, Marking, Follows, Idle
  <2>2. CASE q # p
    BY <1>1, <2>2 DEF Inserting, Delivering, Listed, Marking, Only, Rows
  <2> QED BY <2>1, <2>2
<1>4. \A m \in Found(p) : note[m] \in {"fresh", "ripe"}
  BY DEF Found
<1>5. \A q \in Jobs : OneEvent(q)'
  BY <1>3 DEF Noted, OneEvent
<1>6. ASSUME NEW m \in Notes PROVE Inserted(m)'
  BY <1>1, <1>3, <1>4 DEF Noted, Inserted
<1>7. ASSUME "digest" \notin crossed', NEW m \in Notes PROVE Paid(m)'
  <2>1. Paid(m)
    BY <1>1, <1>7 DEF Digested
  <2> QED BY <1>1, <1>3, <1>4, <2>1 DEF Paid
<1> QED BY <1>5, <1>6, <1>7 DEF Noted, Digested

LEMMA NotedSend ==
  ASSUME Typed, Staffed, Noted, Digested, NEW p \in Jobs, NEW u \in People, sendDigest(p, u)
  PROVE  Noted' /\ Digested'
<1>1. /\ Only(p) /\ job[p].at = "digest" /\ job[p].todo \subseteq Notes
      /\ Follows(p, "mark", job[p].todo, u)
      /\ UNCHANGED <<note, faults, crossed>>
      /\ \/ mailed' = [n \in Notes |-> mailed[n] + (IF n \in Rows(p, u) THEN 1 ELSE 0)]
         \/ mailed' = mailed
  BY DigestMoves DEF sendDigest, Typed, tables, bounds
<1>2. ASSUME NEW m \in Notes, NEW q \in Jobs
      PROVE  /\ Inserting(q, m)' => Inserting(q, m)
             /\ Delivering(q, m)' => Delivering(q, m)
             /\ Listed(q, m)' <=> Listed(q, m)
             /\ Marking(q, m)' <=> Marking(q, m) \/ (q = p /\ m \in Rows(p, u))
  <2>1. CASE q = p
    BY <1>1, <2>1 DEF Inserting, Delivering, Listed, Marking, Follows, Rows
  <2>2. CASE q # p
    BY <1>1, <2>2 DEF Inserting, Delivering, Listed, Marking, Only, Rows
  <2> QED BY <2>1, <2>2
<1>3. \A m \in Rows(p, u) : m \in Notes /\ Listed(p, m)
  BY <1>1 DEF Rows, Listed
<1>4. \A m \in Notes : mailed[m] \in Nat
  BY DEF Typed, TypeOK
<1>5. \A q \in Jobs : OneEvent(q)'
  BY <1>2 DEF Noted, OneEvent
<1>6. ASSUME NEW m \in Notes PROVE Inserted(m)'
  <2>1. Inserted(m)
    BY DEF Noted
  <2>2. CASE m \in Rows(p, u)
    BY <1>1, <1>2, <1>3, <2>1, <2>2 DEF Inserted
  <2>3. CASE m \notin Rows(p, u)
    <3>1. mailed'[m] = mailed[m]
      BY <1>1, <1>4, <2>3
    <3> QED BY <1>1, <1>2, <2>1, <3>1 DEF Inserted
  <2> QED BY <2>2, <2>3
<1>7. ASSUME "digest" \notin crossed', NEW m \in Notes PROVE Paid(m)'
  <2>1. Paid(m)
    BY <1>1, <1>7 DEF Digested
  <2>2. CASE m \in Rows(p, u)
    <3>1. Inserted(m) /\ Listed(p, m)
      BY <1>3, <2>2 DEF Noted
    <3>2. \A q \in Jobs : ~Marking(q, m)
      <4>1. \A q \in Jobs : Marking(q, m) => q = p
        BY <1>1, <1>7, DigestsAlone DEF Marking
      <4> QED BY <1>1, <4>1 DEF Marking
    <3>3. note[m] \in {"fresh", "ripe"} /\ m[1] \notin Urgent
      BY <2>1, <3>1 DEF Paid, Inserted
    <3>4. mailed[m] <= faults
      BY <2>1, <3>2, <3>3 DEF Paid
    <3>5. mailed'[m] \in {mailed[m], mailed[m] + 1} /\ faults \in Nat
      BY <1>1, <2>2, MailAssumption DEF Typed, TypeOK
    <3> QED BY <1>1, <1>2, <1>4, <2>1, <2>2, <3>4, <3>5 DEF Paid
  <2>3. CASE m \notin Rows(p, u)
    <3>1. mailed'[m] = mailed[m]
      BY <1>1, <1>4, <2>3
    <3> QED BY <1>1, <1>2, <2>1, <2>3, <3>1 DEF Paid
  <2> QED BY <2>2, <2>3
<1> QED BY <1>5, <1>6, <1>7 DEF Noted, Digested

LEMMA NotedMark ==
  ASSUME Typed, Staffed, Noted, Digested, NEW p \in Jobs, markSent(p)
  PROVE  Noted' /\ Digested'
<1> DEFINE rows == Rows(p, job[p].on)
<1>1. /\ Only(p) /\ job[p].at = "mark" /\ job[p].todo \subseteq Notes
      /\ GoesOn(p, "digest", job[p].todo \ rows)
      /\ UNCHANGED <<mailed, faults, crossed>>
      /\ note' = [n \in Notes |-> IF n \in rows THEN "sent" ELSE note[n]]
  BY DigestMoves DEF markSent, Typed, sent, bounds
<1>2. \/ Follows(p, "digest", job[p].todo \ rows, None)
      \/ Follows(p, "sweep", {}, None)
      \/ job'[p] = Idle
  BY <1>1 DEF GoesOn
<1>3. \A m \in rows : m \in Notes /\ Listed(p, m) /\ Marking(p, m)
  BY <1>1 DEF Rows, Listed, Marking
<1>4. ASSUME NEW m \in Notes, NEW q \in Jobs
      PROVE  /\ Inserting(q, m)' => Inserting(q, m)
             /\ Delivering(q, m)' => Delivering(q, m)
             /\ Listed(q, m)' => Listed(q, m) /\ ~(q = p /\ m \in rows)
             /\ q # p \/ m \notin rows => (Marking(q, m)' <=> Marking(q, m))
  <2>1. CASE q = p
    BY <1>1, <1>2, <2>1 DEF Inserting, Delivering, Listed, Marking, Follows, Idle
  <2>2. CASE q # p
    BY <1>1, <2>2 DEF Inserting, Delivering, Listed, Marking, Only, Rows
  <2> QED BY <2>1, <2>2
<1> HIDE DEF rows
<1>5. \A q \in Jobs : OneEvent(q)'
  BY <1>4 DEF Noted, OneEvent
<1>6. ASSUME NEW m \in Notes PROVE Inserted(m)'
  <2>1. Inserted(m)
    BY DEF Noted
  <2>2. CASE m \in rows
    <3>1. note[m] # "none" /\ m[1] \notin Urgent /\ note'[m] = "sent"
      BY <1>1, <1>3, <2>1, <2>2 DEF Inserted
    <3> QED BY <1>1, <1>4, <2>1, <3>1 DEF Inserted
  <2>3. CASE m \notin rows
    BY <1>1, <1>4, <2>1, <2>3 DEF Inserted
  <2> QED BY <2>2, <2>3
<1>7. ASSUME "digest" \notin crossed', NEW m \in Notes PROVE Paid(m)'
  <2>1. Paid(m)
    BY <1>1, <1>7 DEF Digested
  <2>2. CASE m \in rows
    <3>1. \A q \in Jobs : ~Listed(q, m)'
      <4>1. \A q \in Jobs : Listed(q, m) => q = p
        BY <1>1, <1>7, DigestsAlone DEF Listed
      <4> QED BY <1>4, <2>2, <4>1
    <3>2. note'[m] = "sent"
      BY <1>1, <2>2
    <3> QED BY <1>1, <2>1, <3>1, <3>2 DEF Paid
  <2>3. CASE m \notin rows
    BY <1>1, <1>4, <2>1, <2>3 DEF Paid
  <2> QED BY <2>2, <2>3
<1> QED BY <1>5, <1>6, <1>7 DEF Noted, Digested

LEMMA NotedQueue ==
  ASSUME Typed, Noted, Digested, NEW p \in Jobs, NEW e \in Events, queue(p, e)
  PROVE  Noted' /\ Digested'
<1>1. PICK told \in SUBSET Audience[e] :
        Start(p, "event", "insert", {<<e, u>> : u \in told}, None)
  BY DEF queue
<1>2. {<<e, u>> : u \in told} \in SUBSET Notes
  BY DEF Notes
<1>3. /\ Only(p) /\ job[p].at = "idle"
      /\ job'[p] = [at |-> "insert", by |-> "event", todo |-> {<<e, u>> : u \in told},
                    on |-> None]
  <2>1. /\ "event" \in Callers /\ "insert" \in Places /\ None \in Things
        /\ {<<e, u>> : u \in told} \in SUBSET Things /\ job \in [Jobs -> Job]
    BY <1>2, KnownThings DEF Callers, Places, Typed, JobsOK
  <2> QED BY <1>1, <2>1, StartIs
<1>4. UNCHANGED <<note, mailed, faults>> /\ crossed \subseteq crossed'
  BY <1>1 DEF queue, Start, tables, sent, bounds
<1>5. ASSUME NEW n \in Notes, n[1] = e
      PROVE  /\ note[n] = "none"
             /\ \A q \in Jobs : ~Inserting(q, n)
  <2>1. n = <<e, n[2]>> /\ n[2] \in Audience[e]
    BY <1>5, NoteIs DEF Notes
  <2>2. note[n] = "none"
    BY <2>1 DEF queue
  <2>3. ASSUME NEW q \in Jobs, Inserting(q, n) PROVE FALSE
    <3>1. CASE job[q].at = "insert"
      BY <1>5, <2>3, <3>1 DEF queue, Inserting
    <3>2. CASE job[q].at = "deliver"
      <4> DEFINE m == job[q].on
      <4>1. m \in Notes /\ Delivering(q, m)
        BY <3>2 DEF Typed, JobsOK, InPlace, Holding, Delivering
      <4>2. m[1] = e /\ note[m] = "sent"
        BY <1>5, <2>3, <4>1 DEF Noted, OneEvent, Inserted
      <4>3. m = <<e, m[2]>> /\ m[2] \in Audience[e]
        BY <4>1, <4>2, NoteIs DEF Notes
      <4>4. note[m] = "none"
        BY <4>3 DEF queue
      <4> QED BY <4>2, <4>4
    <3> QED BY <2>3, <3>1, <3>2 DEF Inserting
  <2> QED BY <2>2, <2>3
<1>6. ASSUME NEW m \in Notes, NEW q \in Jobs
      PROVE  /\ Inserting(q, m)' => Inserting(q, m) \/ (q = p /\ m[1] = e)
             /\ Delivering(q, m)' => Delivering(q, m) /\ q # p
             /\ Listed(q, m)' => Listed(q, m)
             /\ Marking(q, m)' <=> Marking(q, m)
  <2>1. CASE q = p
    BY <1>3, <2>1 DEF Inserting, Delivering, Listed, Marking
  <2>2. CASE q # p
    BY <1>3, <2>2 DEF Inserting, Delivering, Listed, Marking, Only, Rows
  <2> QED BY <2>1, <2>2
<1>7. ASSUME NEW q \in Jobs PROVE OneEvent(q)'
  <2>1. \A m \in Notes : ~Inserting(p, m)
    BY <1>3 DEF Inserting
  <2> QED BY <1>6, <2>1 DEF Noted, OneEvent
<1>8. ASSUME NEW m \in Notes PROVE Inserted(m)'
  <2>1. Inserted(m)
    BY DEF Noted
  <2>2. CASE m[1] = e
    <3>1. note[m] = "none" /\ \A q \in Jobs : ~Inserting(q, m)
      BY <1>5, <2>2
    <3> QED BY <1>4, <1>6, <2>1, <3>1 DEF Inserted
  <2>3. CASE m[1] # e
    BY <1>4, <1>6, <2>1, <2>3 DEF Inserted
  <2> QED BY <2>2, <2>3
<1>9. ASSUME "digest" \notin crossed', NEW m \in Notes PROVE Paid(m)'
  <2>1. Paid(m)
    BY <1>4, <1>9 DEF Digested
  <2> QED BY <1>4, <1>6, <2>1 DEF Paid
<1> QED BY <1>7, <1>8, <1>9 DEF Noted, Digested

(* The mails of one that dies before it has marked them are paid for.      *)
LEMMA NotedFault ==
  ASSUME Typed, Noted, Digested, NEW p \in Jobs, Die(p) \/ Throw(p)
  PROVE  Noted' /\ Digested'
<1>1. Only(p) /\ job'[p].at \in {"idle", "listDigest", "sweep"}
  BY FaultMoves DEF Typed
<1>2. UNCHANGED <<note, mailed, crossed>> /\ faults' = faults + 1
  BY DEF Die, Throw, tables, sent
<1>3. ASSUME NEW m \in Notes, NEW q \in Jobs
      PROVE  /\ Inserting(q, m)' => Inserting(q, m)
             /\ Delivering(q, m)' => Delivering(q, m)
             /\ Listed(q, m)' => Listed(q, m)
  <2>1. CASE q = p
    BY <1>1, <2>1 DEF Inserting, Delivering, Listed
  <2>2. CASE q # p
    BY <1>1, <2>2 DEF Inserting, Delivering, Listed, Only
  <2> QED BY <2>1, <2>2
<1>4. \A q \in Jobs : OneEvent(q)'
  BY <1>3 DEF Noted, OneEvent
<1>5. ASSUME NEW m \in Notes PROVE Inserted(m)'
  BY <1>2, <1>3 DEF Noted, Inserted
<1>6. ASSUME "digest" \notin crossed', NEW m \in Notes PROVE Paid(m)'
  <2>1. Paid(m)
    BY <1>2, <1>6 DEF Digested
  <2>2. faults \in Nat /\ mailed[m] \in Nat
    BY MailAssumption DEF Typed, TypeOK
  <2> QED BY <1>2, <1>3, <2>1, <2>2 DEF Paid
<1> QED BY <1>4, <1>5, <1>6 DEF Noted, Digested

LEMMA NotedRipen ==
  ASSUME Typed, Noted, Digested, NEW n \in Notes, Ripen(n)
  PROVE  Noted' /\ Digested'
<1>1. /\ UNCHANGED <<job, mailed, faults, crossed>>
      /\ note[n] = "fresh" /\ note'[n] = "ripe"
      /\ \A m \in Notes : m # n => note'[m] = note[m]
  BY DEF Ripen, Typed, TypeOK, sent, bounds
<1>2. ASSUME NEW m \in Notes, NEW q \in Jobs
      PROVE  /\ Inserting(q, m)' <=> Inserting(q, m)
             /\ Delivering(q, m)' <=> Delivering(q, m)
             /\ Listed(q, m)' <=> Listed(q, m)
             /\ Marking(q, m)' <=> Marking(q, m)
  BY <1>1 DEF Inserting, Delivering, Listed, Marking, Rows
<1>3. \A q \in Jobs : OneEvent(q)'
  BY <1>2 DEF Noted, OneEvent
<1>4. ASSUME NEW m \in Notes PROVE Inserted(m)'
  BY <1>1, <1>2 DEF Noted, Inserted
<1>5. ASSUME "digest" \notin crossed', NEW m \in Notes PROVE Paid(m)'
  <2>1. Paid(m)
    BY <1>1, <1>5 DEF Digested
  <2> QED BY <1>1, <1>2, <2>1 DEF Paid
<1> QED BY <1>3, <1>4, <1>5 DEF Noted, Digested

LEMMA NotedNext == Typed /\ Staffed /\ Noted /\ Digested /\ [Next]_vars => Noted' /\ Digested'
<1> SUFFICES ASSUME Typed, Staffed, Noted, Digested, [Next]_vars PROVE Noted' /\ Digested'
  OBVIOUS
<1>1. CASE UNCHANGED vars
  BY <1>1, NotedKept DEF vars, tables, sent, bounds
<1>2. ASSUME NEW p \in Jobs, Step(p) PROVE Noted' /\ Digested'
  <2>1. CASE \/ (\E n \in Notes : insertNote(p, n)) \/ deliver(p) \/ listDigest(p)
             \/ (\E u \in People : sendDigest(p, u)) \/ markSent(p)
    BY <2>1, NotedInsert, NotedDeliver, NotedList, NotedSend, NotedMark
  <2>2. CASE ~\/ (\E n \in Notes : insertNote(p, n)) \/ deliver(p) \/ listDigest(p)
              \/ (\E u \in People : sendDigest(p, u)) \/ markSent(p)
    <3>1. Moves(p) /\ UNCHANGED <<note, mailed, crossed, faults>>
      BY <1>2, <2>2, StepMoves, StepWrites DEF Typed, bounds
    <3>2. job'[p].at \notin {"insert", "deliver", "digest", "mark"}
      BY <2>2, <3>1 DEF Moves, Arrives
    <3>3. job[p].at # "mark"
      BY <1>2, <2>2 DEF Step, sweep, person, shouldSend, record, send,
         forwardPending, find,
                        accepted, refused, markForwarded, nextReport, once, throttled,
                        insertAlert, alarm
    <3>4. \A q \in Jobs : q # p => job'[q] = job[q]
      BY <3>1 DEF Moves, Only
    <3> QED BY <3>1, <3>2, <3>3, <3>4, NotedKept
  <2> QED BY <2>1, <2>2
<1>3. ASSUME NEW p \in Jobs, Call(p) PROVE Noted' /\ Digested'
  <2>1. CASE \E e \in Events : queue(p, e)
    BY <2>1, NotedQueue
  <2>2. CASE ~\E e \in Events : queue(p, e)
    <3>1. /\ Only(p) /\ job[p].at = "idle" /\ UNCHANGED <<note, mailed, faults>>
          /\ crossed \subseteq crossed'
      BY <1>3, CallMoves, CallWrites DEF sent, bounds, Crosses
    <3>2. job'[p].at \notin {"insert", "deliver", "digest", "mark"}
      BY <1>3, <2>2, CallMoves
    <3>3. \A q \in Jobs : q # p => job'[q] = job[q]
      BY <3>1 DEF Only
    <3> QED BY <3>1, <3>2, <3>3, NotedKept
  <2> QED BY <2>1, <2>2
<1>4. ASSUME NEW p \in Jobs, Die(p) \/ Throw(p) PROVE Noted' /\ Digested'
  BY <1>4, NotedFault
<1>5. CASE \E n \in Notes : Ripen(n)
  BY <1>5, NotedRipen
<1>6. CASE (Pass \/ Change) /\ ~\E n \in Notes : Ripen(n)
  <2>1. UNCHANGED <<job, note, mailed, faults, crossed>>
    BY <1>6 DEF Pass, Change, GrowOld, CoolOff, FallDue, updateProfile,
       unsubscribe, setLevel,
                deleteAccount, sent, bounds
  <2> QED BY <2>1, NotedKept
<1> QED BY <1>1, <1>2, <1>3, <1>4, <1>5, <1>6 DEF Next

-----------------------------------------------------------------------------
(* Bug reports                                                             *)

InHand(p, r) == job[p].at \in {"find", "dispatch", "forwarded"} /\ job[p].on = r

Handling(p, r) ==
  \/ job[p].at \in {"reports", "find", "dispatch", "forwarded"} /\ r \in job[p].todo
  \/ InHand(p, r)

(* A request has its own new report in hand, the cron what was old.        *)
Distinct(r) ==
  /\ \A p \in Jobs : Handling(p, r) =>
       IF job[p].by = "reporter" THEN report[r] = "new" ELSE report[r] \in {"old", "forwarded"}
  /\ \A p, q \in Jobs : /\ Handling(p, r) /\ Handling(q, r)
                        /\ job[p].by = "reporter" /\ job[q].by = "reporter"
                        => p = q
  /\ \A p \in Jobs : InHand(p, r) => r \notin job[p].todo
  /\ \A p \in Jobs : Handling(p, r) /\ job[p].by = "reporter" => InHand(p, r)

(* Unless two calls of the cron were at it at one time.                    *)
Settled(r) ==
  /\ \A p \in Jobs : Handling(p, r) => report[r] # "forwarded"
  /\ taken[r] <= 1 + faults
  /\ /\ report[r] # "forwarded"
     /\ \A p \in Jobs : ~(job[p].at = "forwarded" /\ job[p].on = r)
     => taken[r] <= faults

Handed ==
  \A r \in Reports : Distinct(r) /\ ("report" \notin crossed => Settled(r))

AtReports == {"reports", "find", "dispatch", "forwarded"}

LEMMA HandedKept ==
  ASSUME Handed, crossed \subseteq crossed', faults' = faults,
         UNCHANGED <<report, taken>>,
         \A q \in Jobs : job'[q].at \in AtReports => job'[q] = job[q],
         \A q \in Jobs : job[q].at = "forwarded" => job'[q] = job[q]
  PROVE  Handed'
<1> SUFFICES ASSUME NEW r \in Reports
             PROVE  Distinct(r)' /\ ("report" \notin crossed' => Settled(r)')
  BY DEF Handed
<1>1. ASSUME NEW q \in Jobs
      PROVE  /\ Handling(q, r)' => Handling(q, r) /\ job'[q] = job[q]
             /\ InHand(q, r)' => InHand(q, r) /\ job'[q] = job[q]
             /\ Handling(q, r)' /\ InHand(q, r) => InHand(q, r)'
             /\ (job[q].at = "forwarded" /\ job[q].on = r)
                  <=> (job'[q].at = "forwarded" /\ job'[q].on = r)
  BY DEF Handling, InHand, AtReports
<1>2. Distinct(r)'
  BY <1>1 DEF Handed, Distinct
<1>3. ASSUME "report" \notin crossed' PROVE Settled(r)'
  <2>1. Settled(r)
    BY <1>3 DEF Handed
  <2> QED BY <1>1, <2>1 DEF Settled
<1> QED BY <1>2, <1>3

(* Two that have one report in hand are two calls of the cron.             *)
LEMMA HandlingAlone ==
  ASSUME Typed, Staffed, Handed, NEW r \in Reports, "report" \notin crossed,
         NEW p \in Jobs, NEW q \in Jobs, Handling(p, r), Handling(q, r)
  PROVE  p = q
<1>1. job[p].by \in {"cron", "reporter"} /\ job[q].by \in {"cron", "reporter"}
  BY DEF Handling, InHand, Staffed, ForWhom
<1>2. Distinct(r)
  BY DEF Handed
<1>3. CASE job[p].by = "reporter"
  <2>1. job[q].by = "reporter"
    BY <1>2, <1>3 DEF Distinct
  <2> QED BY <1>2, <1>3, <2>1 DEF Distinct
<1>4. CASE job[p].by = "cron"
  <2>1. job[q].by = "cron"
    BY <1>1, <1>2, <1>4 DEF Distinct
  <2>2. "report" \in Works("cron")
    BY WorksIs
  <2> QED BY <1>4, <2>1, <2>2 DEF Staffed, Apart
<1> QED BY <1>1, <1>3, <1>4

LEMMA HandedPick ==
  ASSUME Typed, Staffed, Handed, NEW p \in Jobs,
         forwardPending(p) \/ (\E r \in Reports : nextReport(p, r)) \/ find(p) \/ refused(p)
  PROVE  Handed'
<1>1. Moves(p) /\ UNCHANGED <<report, taken, crossed, faults>>
  <2>1. Step(p)
    BY DEF Step
  <2>2. UNCHANGED <<report, taken>>
    BY DEF forwardPending, nextReport, find, refused, tables, sent
  <2> QED BY <2>1, <2>2, StepMoves, StepWrites DEF Typed, bounds
<1>2. ASSUME NEW r \in Reports
      PROVE  /\ Handling(p, r)' =>
                  /\ Handling(p, r) \/ (r \in OldOnes /\ forwardPending(p))
                  /\ job'[p].by = job[p].by
             /\ InHand(p, r)' => r \notin job'[p].todo
             /\ Handling(p, r)' /\ job'[p].by = "reporter" => InHand(p, r)'
  <2>1. CASE forwardPending(p)
    <3>1. GoesOn(p, "reports", OldOnes)
      BY <2>1, ReportMoves DEF Typed
    <3>2. job[p].by = "cron"
      BY <2>1 DEF forwardPending, Staffed, ForWhom
    <3> QED BY <2>1, <3>1, <3>2 DEF GoesOn, Follows, Idle, Handling, InHand
  <2>2. ASSUME NEW s \in Reports, nextReport(p, s)
        PROVE  /\ Handling(p, r)' => Handling(p, r) /\ job'[p].by = job[p].by
               /\ InHand(p, r)' => r \notin job'[p].todo
               /\ Handling(p, r)' /\ job'[p].by = "reporter" => InHand(p, r)'
    <3>1. Follows(p, "find", job[p].todo \ {s}, s)
      BY <2>2, ReportMoves DEF Typed
    <3>2. job[p].by = "cron"
      BY <2>2 DEF nextReport, Staffed, ForWhom
    <3> QED BY <2>2, <3>1, <3>2 DEF Follows, Handling, InHand, nextReport
  <2>3. CASE find(p) \/ refused(p)
    <3>1. \/ Follows(p, "dispatch", job[p].todo, job[p].on)
          \/ job[p].by = "cron" /\ GoesOn(p, "reports", job[p].todo)
          \/ job'[p] = Idle
      BY <2>3, ReportMoves DEF Typed, Returns
    <3>2. InHand(p, job[p].on) /\ job[p].on \in Reports
      BY <2>3 DEF find, refused, InHand, Typed, JobsOK, InPlace, Holding
    <3>3. job[p].on \notin job[p].todo
      BY <3>2 DEF Handed, Distinct
    <3>4. \A m \in Reports : Handling(p, m) /\ job[p].by = "reporter" => InHand(p, m)
      BY DEF Handed, Distinct
    <3> QED BY <3>1, <3>2, <3>3, <3>4 DEF GoesOn, Follows, Idle, Handling, InHand
  <2> QED BY <2>1, <2>2, <2>3
<1>3. \A q \in Jobs \ {p} : job'[q] = job[q]
  BY <1>1 DEF Moves, Only
<1>4. ASSUME NEW q \in Jobs
      PROVE  ~(job[q].at = "forwarded" /\ q = p) /\ ~(job'[q].at = "forwarded" /\ q = p)
  <2>1. job[p].at # "forwarded"
    BY DEF forwardPending, nextReport, find, refused
  <2>2. job'[p].at # "forwarded"
    <3>1. CASE forwardPending(p)
      BY <3>1, ReportMoves, GoesAt DEF Typed
    <3>2. ASSUME NEW r \in Reports, nextReport(p, r) PROVE job'[p].at # "forwarded"
      <4>1. Follows(p, "find", job[p].todo \ {r}, r)
        BY <3>2, ReportMoves DEF Typed
      <4> QED BY <4>1, FollowsAt
    <3>3. CASE find(p) \/ refused(p)
      <4>1. \/ Follows(p, "dispatch", job[p].todo, job[p].on)
            \/ GoesOn(p, "reports", job[p].todo)
            \/ job'[p] = Idle
        BY <3>3, ReportMoves DEF Typed, Returns
      <4> QED BY <4>1, GoesAt, FollowsAt, IdleAt
    <3> QED BY <3>1, <3>2, <3>3
  <2> QED BY <2>1, <2>2
<1>5. forwardPending(p) => job[p].by = "cron"
  BY DEF forwardPending, Staffed, ForWhom
<1> SUFFICES ASSUME NEW r \in Reports
             PROVE  Distinct(r)' /\ ("report" \notin crossed' => Settled(r)')
  BY DEF Handed
<1>6. Distinct(r)
  BY DEF Handed
<1>7. ASSUME NEW q \in Jobs, q # p
      PROVE  (Handling(q, r)' <=> Handling(q, r)) /\ (InHand(q, r)' <=> InHand(q, r))
  BY <1>3, <1>7 DEF Handling, InHand
<1>8. Distinct(r)'
  <2>1. ASSUME NEW q \in Jobs, Handling(q, r)'
        PROVE  IF job'[q].by = "reporter" THEN report[r] = "new"
               ELSE report[r] \in {"old", "forwarded"}
    BY <1>2, <1>3, <1>5, <1>6, <1>7, <2>1 DEF Distinct, OldOnes
  <2>2. ASSUME NEW q \in Jobs, NEW s \in Jobs, Handling(q, r)', Handling(s, r)',
               job'[q].by = "reporter", job'[s].by = "reporter"
        PROVE  q = s
    <3>1. /\ Handling(q, r) /\ job[q].by = "reporter"
          /\ Handling(s, r) /\ job[s].by = "reporter"
      BY <1>2, <1>3, <1>5, <1>7, <2>2
    <3> QED BY <1>6, <3>1 DEF Distinct
  <2>3. ASSUME NEW q \in Jobs, InHand(q, r)' PROVE r \notin job'[q].todo
    BY <1>2, <1>3, <1>6, <1>7, <2>3 DEF Distinct
  <2>4. ASSUME NEW q \in Jobs, Handling(q, r)', job'[q].by = "reporter" PROVE InHand(q, r)'
    BY <1>2, <1>3, <1>6, <1>7, <2>4 DEF Distinct
  <2> QED BY <1>1, <2>1, <2>2, <2>3, <2>4 DEF Distinct
<1>9. ASSUME "report" \notin crossed' PROVE Settled(r)'
  <2>1. Settled(r)
    BY <1>1, <1>9 DEF Handed
  <2>2. \A q \in Jobs : Handling(q, r)' => report[r] # "forwarded"
    BY <1>2, <1>7, <2>1 DEF Settled, OldOnes
  <2>3. \A q \in Jobs : job[q].at = "forwarded" /\ job[q].on = r
                          <=> job'[q].at = "forwarded" /\ job'[q].on = r
    BY <1>3, <1>4
  <2> QED BY <1>1, <2>1, <2>2, <2>3 DEF Settled
<1> QED BY <1>8, <1>9

LEMMA HandedAccept ==
  ASSUME Typed, Staffed, Handed, NEW p \in Jobs, accepted(p) PROVE Handed'
<1> DEFINE s == job[p].on
<1>1. /\ job[p].at = "dispatch" /\ s \in Reports /\ Follows(p, "forwarded", job[p].todo, s)
      /\ Only(p) /\ UNCHANGED <<report, crossed, faults>>
      /\ taken' = [taken EXCEPT ![s] = @ + 1]
  BY ReportMoves DEF accepted, Typed, JobsOK, InPlace, Holding, tables, bounds
<1>2. taken'[s] = taken[s] + 1 /\ \A r \in Reports : r # s => taken'[r] = taken[r]
  BY <1>1 DEF Typed, TypeOK
<1>3. ASSUME NEW q \in Jobs, NEW r \in Reports
      PROVE  /\ Handling(q, r)' <=> Handling(q, r)
             /\ InHand(q, r)' <=> InHand(q, r)
             /\ job'[q].by = job[q].by /\ job'[q].todo = job[q].todo
             /\ (job'[q].at = "forwarded" /\ job'[q].on = r)
                  <=> (job[q].at = "forwarded" /\ job[q].on = r) \/ (q = p /\ r = s)
  <2>1. CASE q = p
    BY <1>1, <2>1 DEF Follows, Handling, InHand
  <2>2. CASE q # p
    BY <1>1, <2>2 DEF Only, Handling, InHand
  <2> QED BY <2>1, <2>2
<1>4. Handling(p, s)
  BY <1>1 DEF Handling, InHand
<1> HIDE DEF s
<1> SUFFICES ASSUME NEW r \in Reports
             PROVE  Distinct(r)' /\ ("report" \notin crossed' => Settled(r)')
  BY DEF Handed
<1>5. Distinct(r)'
  BY <1>1, <1>3 DEF Handed, Distinct
<1>6. ASSUME "report" \notin crossed' PROVE Settled(r)'
  <2>1. Settled(r)
    BY <1>1, <1>6 DEF Handed
  <2>2. CASE r # s
    BY <1>1, <1>2, <1>3, <2>1, <2>2 DEF Settled
  <2>3. CASE r = s
    <3>1. report[s] # "forwarded"
      BY <1>4, <2>1, <2>3 DEF Settled
    <3>2. \A q \in Jobs : ~(job[q].at = "forwarded" /\ job[q].on = s)
      <4>1. ASSUME NEW q \in Jobs, job[q].at = "forwarded", job[q].on = s PROVE FALSE
        <5>1. Handling(q, s)
          BY <4>1 DEF Handling, InHand
        <5>2. q = p
          BY <1>1, <1>4, <1>6, <5>1, HandlingAlone
        <5> QED BY <1>1, <4>1, <5>2
      <4> QED BY <4>1
    <3>3. taken[s] <= faults /\ taken[s] \in Nat /\ faults \in Nat
      BY <1>1, <2>1, <2>3, <3>1, <3>2, MailAssumption DEF Settled, Typed, TypeOK
    <3> QED BY <1>1, <1>2, <1>3, <2>1, <2>3, <3>3 DEF Settled
  <2> QED BY <2>2, <2>3
<1> QED BY <1>5, <1>6

LEMMA HandedMark ==
  ASSUME Typed, Staffed, Handed, NEW p \in Jobs, markForwarded(p) PROVE Handed'
<1> DEFINE s == job[p].on
<1>1. /\ job[p].at = "forwarded" /\ s \in Reports /\ Only(p) /\ Returns(p)
      /\ UNCHANGED <<taken, crossed, faults>>
      /\ report' = [report EXCEPT ![s] = "forwarded"]
  BY ReportMoves DEF markForwarded, Typed, JobsOK, InPlace, Holding, sent, bounds
<1>a. job[p].on = s
  OBVIOUS
<1>2. report'[s] = "forwarded" /\ \A r \in Reports : r # s => report'[r] = report[r]
  BY <1>1 DEF Typed, TypeOK
<1>3. InHand(p, s) /\ Handling(p, s)
  BY <1>1 DEF Handling, InHand
<1>4. s \notin job[p].todo
  BY <1>1, <1>3 DEF Handed, Distinct
<1>5. job[p].by \in {"cron", "reporter"}
  BY <1>1 DEF Staffed, ForWhom
<1>6. ASSUME NEW r \in Reports
      PROVE  /\ Handling(p, r)' => /\ Handling(p, r) /\ r # s
                                   /\ job'[p].by = "cron" /\ job[p].by = "cron"
             /\ ~InHand(p, r)' /\ job'[p].at # "forwarded"
  <2>1. \/ job[p].by = "cron" /\ Follows(p, "reports", job[p].todo, None)
        \/ Follows(p, "listDigest", {}, None)
        \/ job'[p] = Idle
    BY <1>1 DEF Returns, GoesOn
  <2> QED BY <1>1, <1>4, <2>1 DEF Follows, Idle, Handling, InHand
<1>7. ASSUME NEW q \in Jobs, q # p, NEW r \in Reports
      PROVE  /\ Handling(q, r)' <=> Handling(q, r)
             /\ InHand(q, r)' <=> InHand(q, r)
             /\ job'[q] = job[q]
  BY <1>1, <1>7 DEF Only, Handling, InHand
<1> HIDE DEF s
<1> SUFFICES ASSUME NEW r \in Reports
             PROVE  Distinct(r)' /\ ("report" \notin crossed' => Settled(r)')
  BY DEF Handed
<1>8. Distinct(r)
  BY DEF Handed
<1>9. Distinct(r)'
  <2>1. ASSUME NEW q \in Jobs, Handling(q, r)'
        PROVE  IF job'[q].by = "reporter" THEN report'[r] = "new"
               ELSE report'[r] \in {"old", "forwarded"}
    <3>1. CASE r # s
      BY <1>2, <1>6, <1>7, <1>8, <2>1, <3>1 DEF Distinct
    <3>2. CASE r = s
      <4>1. q # p /\ Handling(q, s) /\ job'[q].by = job[q].by
        BY <1>6, <1>7, <2>1, <3>2
      <4>2. job[q].by # "reporter"
        BY <1>3, <1>5, <1>8, <3>2, <4>1 DEF Distinct
      <4> QED BY <1>2, <3>2, <4>1, <4>2
    <3> QED BY <3>1, <3>2
  <2>2. ASSUME NEW q \in Jobs, NEW t \in Jobs, Handling(q, r)', Handling(t, r)',
               job'[q].by = "reporter", job'[t].by = "reporter"
        PROVE  q = t
    BY <1>6, <1>7, <1>8, <2>2 DEF Distinct
  <2>3. ASSUME NEW q \in Jobs, InHand(q, r)' PROVE r \notin job'[q].todo
    BY <1>6, <1>7, <1>8, <2>3 DEF Distinct
  <2>4. ASSUME NEW q \in Jobs, Handling(q, r)', job'[q].by = "reporter" PROVE InHand(q, r)'
    BY <1>6, <1>7, <1>8, <2>4 DEF Distinct
  <2> QED BY <2>1, <2>2, <2>3, <2>4 DEF Distinct
<1>10. ASSUME "report" \notin crossed' PROVE Settled(r)'
  <2>1. Settled(r)
    BY <1>1, <1>10 DEF Handed
  <2>2. CASE r = s
    <3>1. \A q \in Jobs : ~Handling(q, r)'
      <4>1. \A q \in Jobs : Handling(q, s) => q = p
        BY <1>1, <1>3, <1>10, HandlingAlone
      <4> QED BY <1>1, <1>6, <1>7, <2>2, <4>1
    <3> QED BY <1>1, <1>2, <2>1, <2>2, <3>1 DEF Settled
  <2>3. CASE r # s
    <3>1. \A q \in Jobs : job'[q].at = "forwarded" /\ job'[q].on = r
                            <=> job[q].at = "forwarded" /\ job[q].on = r
      BY <1>1, <1>a, <1>6, <1>7, <2>3
    <3> QED BY <1>1, <1>2, <1>6, <1>7, <2>1, <2>3, <3>1 DEF Settled
  <2> QED BY <2>2, <2>3
<1> QED BY <1>9, <1>10

LEMMA HandedReport ==
  ASSUME Typed, Staffed, Handed, NEW p \in Jobs, NEW s \in Reports, reportBug(p, s)
  PROVE  Handed'
<1>1. /\ Only(p) /\ job[p].at = "idle"
      /\ job'[p] = [at |-> "find", by |-> "reporter", todo |-> {}, on |-> s]
  <2>1. /\ "reporter" \in Callers /\ "find" \in Places /\ s \in Things /\ {} \in SUBSET Things
        /\ job \in [Jobs -> Job]
    BY DEF Callers, Places, Things, Typed, JobsOK
  <2>2. Start(p, "reporter", "find", {}, s)
    BY DEF reportBug
  <2> QED BY <2>1, <2>2, StartIs
<1>2. /\ report[s] = "none" /\ report'[s] = "new"
      /\ \A r \in Reports : r # s => report'[r] = report[r]
      /\ taken' = taken /\ faults' = faults /\ crossed \subseteq crossed'
  BY DEF reportBug, Start, Typed, TypeOK, sent, bounds
<1>3. \A q \in Jobs : ~Handling(q, s)
  BY <1>2 DEF Handed, Distinct
<1>4. ASSUME NEW r \in Reports
      PROVE  /\ Handling(p, r)' <=> r = s
             /\ InHand(p, r)' <=> r = s
             /\ job'[p].by = "reporter" /\ job'[p].at # "forwarded" /\ job'[p].todo = {}
             /\ job[p].at # "forwarded"
  BY <1>1 DEF Handling, InHand
<1>5. ASSUME NEW q \in Jobs, q # p, NEW r \in Reports
      PROVE  /\ Handling(q, r)' <=> Handling(q, r)
             /\ InHand(q, r)' <=> InHand(q, r)
             /\ job'[q] = job[q]
  BY <1>1, <1>5 DEF Only, Handling, InHand
<1> SUFFICES ASSUME NEW r \in Reports
             PROVE  Distinct(r)' /\ ("report" \notin crossed' => Settled(r)')
  BY DEF Handed
<1>6. Distinct(r)
  BY DEF Handed
<1>7. Distinct(r)'
  <2>1. CASE r = s
    BY <1>2, <1>3, <1>4, <1>5, <1>6, <2>1 DEF Distinct
  <2>2. CASE r # s
    BY <1>2, <1>4, <1>5, <1>6, <2>2 DEF Distinct
  <2> QED BY <2>1, <2>2
<1>8. ASSUME "report" \notin crossed' PROVE Settled(r)'
  <2>1. Settled(r)
    BY <1>2, <1>8 DEF Handed
  <2>2. \A q \in Jobs : job'[q].at = "forwarded" /\ job'[q].on = r
                          <=> job[q].at = "forwarded" /\ job[q].on = r
    BY <1>4, <1>5
  <2>3. CASE r = s
    BY <1>2, <1>3, <1>4, <1>5, <2>1, <2>2, <2>3 DEF Settled
  <2>4. CASE r # s
    BY <1>2, <1>4, <1>5, <2>1, <2>2, <2>4 DEF Settled
  <2> QED BY <2>3, <2>4
<1> QED BY <1>7, <1>8

LEMMA HandedFault ==
  ASSUME Typed, Handed, NEW p \in Jobs, Die(p) \/ Throw(p) PROVE Handed'
<1>1. Only(p) /\ job'[p].at \in {"idle", "listDigest", "sweep"}
  BY FaultMoves DEF Typed
<1>2. UNCHANGED <<report, taken, crossed>> /\ faults' = faults + 1
  BY DEF Die, Throw, tables, sent
<1>3. ASSUME NEW q \in Jobs, NEW r \in Reports
      PROVE  /\ Handling(q, r)' => Handling(q, r) /\ job'[q] = job[q]
             /\ InHand(q, r)' => InHand(q, r) /\ job'[q] = job[q]
             /\ Handling(q, r)' /\ InHand(q, r) => InHand(q, r)'
  <2>1. CASE q = p
    BY <1>1, <2>1 DEF Handling, InHand
  <2>2. CASE q # p
    BY <1>1, <2>2 DEF Handling, InHand, Only
  <2> QED BY <2>1, <2>2
<1> SUFFICES ASSUME NEW r \in Reports
             PROVE  Distinct(r)' /\ ("report" \notin crossed' => Settled(r)')
  BY DEF Handed
<1>4. Distinct(r)'
  BY <1>2, <1>3 DEF Handed, Distinct
<1>5. ASSUME "report" \notin crossed' PROVE Settled(r)'
  <2>1. Settled(r) /\ taken[r] \in Nat /\ faults \in Nat
    BY <1>2, <1>5, MailAssumption DEF Handed, Typed, TypeOK
  <2> QED BY <1>2, <1>3, <2>1 DEF Settled
<1> QED BY <1>4, <1>5

LEMMA HandedGrowOld ==
  ASSUME Typed, Staffed, Handed, NEW s \in Reports, GrowOld(s) PROVE Handed'
<1>1. /\ UNCHANGED <<job, taken, faults, crossed>>
      /\ report[s] = "new" /\ report'[s] = "old"
      /\ \A r \in Reports : r # s => report'[r] = report[r]
      /\ \A p \in Jobs : job[p].by = "reporter" => job[p].on # s
  BY DEF GrowOld, Typed, TypeOK, sent, bounds
<1>2. \A p \in Jobs, r \in Reports : /\ Handling(p, r)' <=> Handling(p, r)
                                     /\ InHand(p, r)' <=> InHand(p, r)
  BY <1>1 DEF Handling, InHand
<1>3. \A p \in Jobs : ~Handling(p, s) \/ job[p].by = "reporter"
  BY <1>1 DEF Handed, Distinct
<1> SUFFICES ASSUME NEW r \in Reports
             PROVE  Distinct(r)' /\ ("report" \notin crossed' => Settled(r)')
  BY DEF Handed
<1>4. \A p \in Jobs : ~(Handling(p, s) /\ job[p].by = "reporter")
  BY <1>1 DEF Handed, Distinct, InHand
<1>5. Distinct(r)'
  BY <1>1, <1>2, <1>3, <1>4 DEF Handed, Distinct
<1>6. ASSUME "report" \notin crossed' PROVE Settled(r)'
  BY <1>1, <1>2, <1>6 DEF Handed, Settled
<1> QED BY <1>5, <1>6

LEMMA HandedNext == Typed /\ Staffed /\ Handed /\ [Next]_vars => Handed'
<1> SUFFICES ASSUME Typed, Staffed, Handed, [Next]_vars PROVE Handed'
  OBVIOUS
<1>1. CASE UNCHANGED vars
  BY <1>1, HandedKept DEF vars, tables, sent, bounds
<1>2. ASSUME NEW p \in Jobs, Step(p) PROVE Handed'
  <2>1. CASE \/ forwardPending(p) \/ (\E r \in Reports : nextReport(p, r)) \/ find(p)
             \/ refused(p) \/ accepted(p) \/ markForwarded(p)
    BY <2>1, HandedPick, HandedAccept, HandedMark
  <2>2. CASE ~\/ forwardPending(p) \/ (\E r \in Reports : nextReport(p, r)) \/ find(p)
              \/ refused(p) \/ accepted(p) \/ markForwarded(p)
    <3>1. Moves(p) /\ UNCHANGED <<report, taken, crossed, faults>>
      BY <1>2, <2>2, StepMoves, StepWrites DEF Typed, bounds
    <3>2. job'[p].at \notin AtReports
      BY <2>2, <3>1 DEF Moves, Arrives, AtReports
    <3>3. job[p].at # "forwarded"
      BY <1>2, <2>2 DEF Step, insertNote, deliver, listDigest, sendDigest,
         markSent, sweep,
                        person, shouldSend, record, send, once, throttled, insertAlert, alarm
    <3>4. \A q \in Jobs : q # p => job'[q] = job[q]
      BY <3>1 DEF Moves, Only
    <3> QED BY <3>1, <3>2, <3>3, <3>4, HandedKept
  <2> QED BY <2>1, <2>2
<1>3. ASSUME NEW p \in Jobs, Call(p) PROVE Handed'
  <2>1. CASE \E r \in Reports : reportBug(p, r)
    BY <2>1, HandedReport
  <2>2. CASE ~\E r \in Reports : reportBug(p, r)
    <3>1. /\ Only(p) /\ job[p].at = "idle" /\ UNCHANGED <<report, taken, faults>>
          /\ crossed \subseteq crossed'
      BY <1>3, <2>2, CallMoves, CallWrites DEF sent, bounds, Crosses
    <3>2. job'[p].at \notin AtReports
      BY <1>3, <2>2, CallMoves DEF AtReports
    <3>3. \A q \in Jobs : q # p => job'[q] = job[q]
      BY <3>1 DEF Only
    <3> QED BY <3>1, <3>2, <3>3, HandedKept
  <2> QED BY <2>1, <2>2
<1>4. ASSUME NEW p \in Jobs, Die(p) \/ Throw(p) PROVE Handed'
  BY <1>4, HandedFault
<1>5. CASE \E r \in Reports : GrowOld(r)
  BY <1>5, HandedGrowOld
<1>6. CASE (Pass \/ Change) /\ ~\E r \in Reports : GrowOld(r)
  <2>1. UNCHANGED <<job, report, taken, faults, crossed>>
    BY <1>6 DEF Pass, Change, Ripen, CoolOff, FallDue, updateProfile,
       unsubscribe, setLevel,
                deleteAccount, sent, bounds
  <2> QED BY <2>1, HandedKept
<1> QED BY <1>1, <1>2, <1>3, <1>4, <1>5, <1>6 DEF Next

(* Whatever dies, and however often the cron is run: but for two processes *)
(* at work on the same at one time, nothing is mailed twice, and once more *)
(* for each that died between the sending and its mark.                    *)
THEOREM MailedOnceEach == Spec => []MailedOnce
<1>1. Init => Noted /\ Digested /\ Handed
  <2> SUFFICES ASSUME Init PROVE Noted /\ Digested /\ Handed
    OBVIOUS
  <2>1. \A p \in Jobs : job[p] = Idle
    BY DEF Init
  <2>2. \A p \in Jobs, n \in Notes :
          ~Inserting(p, n) /\ ~Delivering(p, n) /\ ~Listed(p, n) /\ ~Marking(p, n)
    BY <2>1 DEF Inserting, Delivering, Listed, Marking, Idle
  <2>3. \A p \in Jobs, r \in Reports : ~Handling(p, r) /\ ~InHand(p, r)
    BY <2>1 DEF Handling, InHand, Idle
  <2>4. Noted
    BY <2>2 DEF Init, Noted, OneEvent, Inserted
  <2>5. \A n \in Notes : Paid(n)
    BY <2>2 DEF Init, Paid
  <2>6. \A r \in Reports : Distinct(r) /\ Settled(r)
    BY <2>3 DEF Init, Distinct, Settled
  <2> QED BY <2>4, <2>5, <2>6 DEF Digested, Handed
<1>2. Digested /\ Handed => MailedOnce
  BY DEF Digested, Paid, Handed, Settled, MailedOnce
<1> QED BY <1>1, <1>2, TypedInit, StaffedInit, TypedNext, StaffedNext,
           NotedNext, HandedNext,
           PTL DEF Spec
=============================================================================

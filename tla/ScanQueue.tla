----------------------------- MODULE ScanQueue -----------------------------
(***************************************************************************)
(* Who gets to scan next: the flock()ed slots in front of the vision model *)
(* and the table of tickets behind them, with the clients that ask again   *)
(* until it is their turn.  A request runs admit() one statement (or one   *)
(* lock attempt) at a time and may be interleaved with any other.          *)
(***************************************************************************)
EXTENDS Integers, FiniteSets

CONSTANTS
  Scans,       \* a receipt and the person scanning it
  Tabs,        \* clients at work; each is one open scan dialog
  ScanOf,      \* the scan a tab is working on; two tabs may share one
  Parallel,    \* LOCAL_LLM_PARALLEL, how many backends there are
  Tickets,     \* ids of rows of scan_queue; an id nobody refers to is reused
  MaxWaiting,  \* MAX_WAITING
  Punctual,    \* whether a waiting client asks again within the ticket's TTL
  None

ASSUME ScanOfAssumption == ScanOf \in [Tabs -> Scans]
ASSUME ParallelAssumption == Parallel \in Nat \ {0}
ASSUME MaxWaitingAssumption == MaxWaiting \in Nat \ {0}
ASSUME NoneAssumption == None \notin Tabs \cup Tickets \cup Scans
ASSUME PunctualAssumption == Punctual \in BOOLEAN

(* One lock file per backend, tried in this order.                         *)
Slots == 0 .. Parallel - 1

VARIABLES
  line,     \* the tickets in the table
  older,    \* ticket -> the tickets with a smaller created_at
  owner,    \* ticket -> receipt_id and user_id
  stale,    \* tickets not refreshed for TICKET_TTL_SECONDS
  thisMs,   \* tickets inserted within the millisecond the clock now shows
  slot,     \* lock file -> the request holding its flock
  lockDir,  \* whether the lock files can be opened at all
  pc,       \* where each tab, or the request it is waiting for, is
  mine,     \* what find() answered
  told,     \* the ticket a waiting tab was given
  untried,  \* the lock files acquireSlot() or busySlots() has yet to try
  elders    \* history: the tickets before a tab's own when it asked, until
            \* it has counted them

tickets == <<line, older, owner, stale, thisMs>>
vars == <<line, older, owner, stale, thisMs, slot, lockDir, pc, mine,
          told, untried, elders>>

(* Steps of the client, then of admit(), then of the parse.                *)
ClientSteps == {"home", "waiting"}
AdmitSteps == {"purge", "find", "count", "acquire", "dropTicket", "room",
               "insert", "refresh", "probe", "probing"}

TypeOK ==
  /\ line \subseteq Tickets
  /\ older \in [Tickets -> SUBSET Tickets]
  /\ owner \in [Tickets -> Scans \cup {None}]
  /\ stale \subseteq line
  /\ thisMs \subseteq line
  /\ slot \in [Slots -> Tabs \cup {None}]
  /\ lockDir \in {"writable", "unwritable"}
  /\ pc \in [Tabs -> ClientSteps \cup AdmitSteps \cup {"reading"}]
  /\ mine \in [Tabs -> Tickets \cup {None}]
  /\ told \in [Tabs -> Tickets \cup {None}]
  /\ untried \in [Tabs -> SUBSET Slots]
  /\ elders \in [Tabs -> SUBSET Tickets]

Init ==
  /\ line = {}
  /\ older = [t \in Tickets |-> {}]
  /\ owner = [t \in Tickets |-> None]
  /\ stale = {}
  /\ thisMs = {}
  /\ slot = [i \in Slots |-> None]
  /\ lockDir \in {"writable", "unwritable"}
  /\ pc = [p \in Tabs |-> "home"]
  /\ mine = [p \in Tabs |-> None]
  /\ told = [p \in Tabs |-> None]
  /\ untried = [p \in Tabs |-> {}]
  /\ elders = [p \in Tabs |-> {}]

-----------------------------------------------------------------------------
(* Rows of scan_queue.                                                     *)

TicketsOf(s) == {t \in line : owner[t] = s}

(* ORDER BY created_at LIMIT 1; either of two from the same millisecond.   *)
FirstOf(s) == {t \in TicketsOf(s) : older[t] \cap TicketsOf(s) = {}}

(* An id that no row, no request and no client refers to.                  *)
Fresh(t) ==
  /\ t \notin line
  /\ \A p \in Tabs : t # mine[p] /\ t # told[p] /\ t \notin elders[p]

Remove(gone) ==
  /\ line' = line \ gone
  /\ stale' = stale \ gone
  /\ older' = [t \in Tickets |-> IF t \in gone THEN {} ELSE older[t] \ gone]
  /\ owner' = [t \in Tickets |-> IF t \in gone THEN None ELSE owner[t]]
  /\ thisMs' = thisMs \ gone

(* created_at has milliseconds: two INSERTs within one are equally old.    *)
InsertTicket(t, s) ==
  /\ line' = line \cup {t}
  /\ owner' = [owner EXCEPT ![t] = s]
  /\ \/ /\ older' = [older EXCEPT ![t] = line \ thisMs]
        /\ thisMs' = thisMs \cup {t}
     \/ /\ thisMs # {}
        /\ older' = [older EXCEPT ![t] = line]
        /\ thisMs' = {t}
  /\ UNCHANGED stale

-----------------------------------------------------------------------------
Goto(p, step) == pc' = [pc EXCEPT ![p] = step]

(* Not the code: tickets of people who left are never purged.              *)
PurgeNothing(p) ==
  /\ pc[p] = "purge"
  /\ Goto(p, "find")
  /\ UNCHANGED <<tickets, slot, lockDir, mine, told, untried, elders>>

(* A request arrives: the upload of a photo, a rescan, or the next "is it  *)
(* my turn yet?" of a client that was told to ask again.                   *)
Ask(p) ==
  /\ pc[p] \in ClientSteps
  /\ Goto(p, "purge")
  /\ elders' = [elders EXCEPT
       ![p] = IF TicketsOf(ScanOf[p]) = {} THEN line
              ELSE UNION {older[t] : t \in FirstOf(ScanOf[p])}]
  /\ UNCHANGED <<tickets, slot, lockDir, mine, told, untried>>

(* Not the code: the place in line is looked up by the ticket the client   *)
(* shows, not by receipt and person.                                       *)
FindByTicket(p) ==
  /\ pc[p] = "find"
  /\ mine' = [mine EXCEPT
       ![p] = IF told[p] \in TicketsOf(ScanOf[p]) THEN told[p] ELSE None]
  /\ Goto(p, "count")
  /\ UNCHANGED <<tickets, slot, lockDir, told, untried, elders>>

(* Not the code: the query has lost its LIMIT 1.                           *)
FindEvery(p) ==
  /\ pc[p] = "find"
  /\ mine' = [mine EXCEPT ![p] = IF TicketsOf(ScanOf[p]) = {} THEN None
                                 ELSE TicketsOf(ScanOf[p])]
  /\ Goto(p, "count")
  /\ UNCHANGED <<tickets, slot, lockDir, told, untried, elders>>

Purge(p) ==
  /\ pc[p] = "purge"
  /\ Remove(stale)
  /\ Goto(p, "find")
  /\ UNCHANGED <<slot, lockDir, mine, told, untried, elders>>

Find(p) ==
  /\ pc[p] = "find"
  /\ \/ TicketsOf(ScanOf[p]) = {} /\ mine' = [mine EXCEPT ![p] = None]
     \/ \E t \in FirstOf(ScanOf[p]) : mine' = [mine EXCEPT ![p] = t]
  /\ Goto(p, "count")
  /\ UNCHANGED <<tickets, slot, lockDir, told, untried, elders>>

(* Not the code: who has no ticket yet goes straight to the slots.         *)
CountAheadOfTickets(p) ==
  LET n == IF mine[p] = None \/ mine[p] \notin line THEN 0
           ELSE Cardinality(older[mine[p]])
  IN  /\ pc[p] = "count"
      /\ elders' = [elders EXCEPT ![p] = {}]
      /\ Goto(p, IF n = 0 THEN "acquire" ELSE "refresh")
      /\ untried' = [untried EXCEPT ![p] = IF n = 0 THEN Slots ELSE {}]
      /\ UNCHANGED <<tickets, slot, lockDir, mine, told>>

(* A ticket purged or cancelled since find() has no created_at to compare  *)
(* with: the subquery is NULL and nothing counts as before it.             *)
CountAhead(p) ==
  LET n == IF mine[p] = None THEN Cardinality(line)
           ELSE IF mine[p] \in line THEN Cardinality(older[mine[p]])
           ELSE 0
  IN  /\ pc[p] = "count"
      /\ elders' = [elders EXCEPT ![p] = {}]
      /\ Goto(p, IF n = 0 THEN "acquire"
                 ELSE IF mine[p] = None THEN "room" ELSE "refresh")
      /\ untried' = [untried EXCEPT ![p] = IF n = 0 THEN Slots ELSE {}]
      /\ UNCHANGED <<tickets, slot, lockDir, mine, told>>

Admitted(p) == Goto(p, IF mine[p] = None THEN "reading" ELSE "dropTicket")

(* The loop over the lock files is at i.                                   *)
Tries(p, i) == i \in untried[p] /\ \A j \in untried[p] : i <= j

(* Not the code: whether the lock was had is not looked at.                *)
AcquireHeld(p) ==
  /\ pc[p] = "acquire"
  /\ lockDir = "writable"
  /\ \E i \in Slots :
       /\ Tries(p, i)
       /\ slot' = [slot EXCEPT ![i] = p]
  /\ untried' = [untried EXCEPT ![p] = {}]
  /\ Admitted(p)
  /\ UNCHANGED <<tickets, lockDir, mine, told, elders>>

(* acquireSlot() tries one lock file after the other (flock, LOCK_NB) and  *)
(* returns the first that nobody holds.                                    *)
AcquireSlot(p) ==
  /\ pc[p] = "acquire"
  /\ lockDir = "writable"
  /\ \E i \in Slots :
       /\ Tries(p, i) /\ slot[i] = None
       /\ slot' = [slot EXCEPT ![i] = p]
  /\ untried' = [untried EXCEPT ![p] = {}]
  /\ Admitted(p)
  /\ UNCHANGED <<tickets, lockDir, mine, told, elders>>

SlotTaken(p) ==
  /\ pc[p] = "acquire"
  /\ lockDir = "writable"
  /\ \E i \in Slots :
       /\ Tries(p, i) /\ slot[i] # None
       /\ untried' = [untried EXCEPT ![p] = @ \ {i}]
  /\ UNCHANGED <<tickets, slot, lockDir, pc, mine, told, elders>>

(* No lock file could even be opened: parse unguarded rather than not.     *)
FailOpen(p) ==
  /\ pc[p] = "acquire"
  /\ lockDir = "unwritable"
  /\ untried' = [untried EXCEPT ![p] = {}]
  /\ Admitted(p)
  /\ UNCHANGED <<tickets, slot, lockDir, mine, told, elders>>

FindNoSlot(p) ==
  /\ pc[p] = "acquire"
  /\ untried[p] = {}
  /\ Goto(p, IF mine[p] = None THEN "room" ELSE "refresh")
  /\ UNCHANGED <<tickets, slot, lockDir, mine, told, untried, elders>>

DropTicket(p) ==
  /\ pc[p] = "dropTicket"
  /\ Remove({mine[p]} \cap line)
  /\ Goto(p, "reading")
  /\ UNCHANGED <<slot, lockDir, mine, told, untried, elders>>

(* SCAN_BUSY beyond MAX_WAITING; the user is told to try again later.      *)
CheckRoom(p) ==
  /\ pc[p] = "room"
  /\ IF Cardinality(line) >= MaxWaiting
     THEN Goto(p, "home") /\ told' = [told EXCEPT ![p] = None]
     ELSE Goto(p, "insert") /\ UNCHANGED told
  /\ UNCHANGED <<tickets, slot, lockDir, mine, untried, elders>>

TakeTicket(p) ==
  /\ pc[p] = "insert"
  /\ \E t \in Tickets :
       /\ Fresh(t)
       /\ InsertTicket(t, ScanOf[p])
       /\ told' = [told EXCEPT ![p] = t]
  /\ Goto(p, "probe")
  /\ untried' = [untried EXCEPT ![p] = Slots]
  /\ UNCHANGED <<slot, lockDir, mine, elders>>

Refresh(p) ==
  /\ pc[p] = "refresh"
  /\ stale' = stale \ {mine[p]}
  /\ told' = [told EXCEPT ![p] = mine[p]]
  /\ Goto(p, "probe")
  /\ untried' = [untried EXCEPT ![p] = Slots]
  /\ UNCHANGED <<line, older, owner, thisMs, slot, lockDir, mine, elders>>

(* busySlots() measures by trying each lock: a free one is taken for an    *)
(* instant, and looks busy to whoever tries it just then.                  *)
ProbeFree(p) ==
  /\ pc[p] = "probe"
  /\ \E i \in Slots :
       /\ Tries(p, i) /\ slot[i] = None /\ lockDir = "writable"
       /\ slot' = [slot EXCEPT ![i] = p]
       /\ untried' = [untried EXCEPT ![p] = @ \ {i}]
  /\ Goto(p, "probing")
  /\ UNCHANGED <<tickets, lockDir, mine, told, elders>>

(* Not the code: a parse that ends (or dies) keeps its slot.               *)
FreeNothing(p) == slot' = [i \in Slots |-> slot[i]]

ProbeBusy(p) ==
  /\ pc[p] = "probe"
  /\ \E i \in Slots :
       /\ Tries(p, i)
       /\ slot[i] # None \/ lockDir = "unwritable"
       /\ untried' = [untried EXCEPT ![p] = @ \ {i}]
  /\ UNCHANGED <<tickets, slot, lockDir, pc, mine, told, elders>>

Free(p) == slot' = [i \in Slots |-> IF slot[i] = p THEN None ELSE slot[i]]

ProbeRelease(p) ==
  /\ pc[p] = "probing"
  /\ Free(p)
  /\ Goto(p, "probe")
  /\ UNCHANGED <<tickets, lockDir, mine, told, untried, elders>>

(* What a request knew is forgotten when it ends.                          *)
Forget(p) ==
  /\ mine' = [mine EXCEPT ![p] = None]
  /\ untried' = [untried EXCEPT ![p] = {}]
  /\ elders' = [elders EXCEPT ![p] = {}]

(* The reply: your ticket, your position, and when to ask again.           *)
ReplyQueued(p) ==
  /\ pc[p] = "probe"
  /\ untried[p] = {}
  /\ Goto(p, "waiting")
  /\ Forget(p)
  /\ UNCHANGED <<tickets, slot, lockDir, told>>

(* The parse ends, well or badly, and the slot is released either way.     *)
FinishParse(p) ==
  /\ pc[p] = "reading"
  /\ Free(p)
  /\ Goto(p, "home")
  /\ told' = [told EXCEPT ![p] = None]
  /\ Forget(p)
  /\ UNCHANGED <<tickets, lockDir>>

-----------------------------------------------------------------------------
(* The user cancels the wait; the client gives the place up.               *)
Cancel(p) ==
  /\ pc[p] = "waiting"
  /\ Remove({t \in line : t = told[p] /\ owner[t] = ScanOf[p]})
  /\ told' = [told EXCEPT ![p] = None]
  /\ Goto(p, "home")
  /\ UNCHANGED <<slot, lockDir, mine, untried, elders>>

(* The tab is closed, the signal is lost, or the wait is given up after    *)
(* four minutes: nothing tells the server.                                 *)
Vanish(p) ==
  /\ pc[p] = "waiting"
  /\ told' = [told EXCEPT ![p] = None]
  /\ Goto(p, "home")
  /\ UNCHANGED <<tickets, slot, lockDir, mine, untried, elders>>

(* The PHP process is killed: the kernel drops its lock, its ticket stays, *)
(* and the client shows an error.                                          *)
Crash(p) ==
  /\ pc[p] \in AdmitSteps \cup {"reading"}
  /\ Free(p)
  /\ Goto(p, "home")
  /\ told' = [told EXCEPT ![p] = None]
  /\ Forget(p)
  /\ UNCHANGED <<tickets, lockDir>>

(* A punctual client refreshes its ticket well within the 45 seconds: only *)
(* the ticket of a scan nobody has open any more outlives them.            *)
GrowStale(t) ==
  /\ t \in line \ (stale \cup thisMs)
  /\ Punctual => \A p \in Tabs : ScanOf[p] = owner[t] => pc[p] = "home"
  /\ stale' = stale \cup {t}
  /\ UNCHANGED <<line, older, owner, thisMs, slot, lockDir, pc, mine,
                 told, untried, elders>>

NextMillisecond ==
  /\ thisMs # {}
  /\ thisMs' = {}
  /\ UNCHANGED <<line, older, owner, stale, slot, lockDir, pc, mine,
                 told, untried, elders>>

-----------------------------------------------------------------------------
(* The steps a server takes once it has a request, up to its reply.        *)
Admit(p) ==
  \/ Purge(p) \/ Find(p) \/ CountAhead(p)
  \/ AcquireSlot(p) \/ SlotTaken(p) \/ FailOpen(p) \/ FindNoSlot(p)
  \/ DropTicket(p)
  \/ CheckRoom(p) \/ TakeTicket(p) \/ Refresh(p)
  \/ ProbeFree(p) \/ ProbeBusy(p) \/ ProbeRelease(p) \/ ReplyQueued(p)

Tab(p) ==
  Ask(p) \/ Admit(p) \/ FinishParse(p) \/ Cancel(p) \/ Vanish(p) \/ Crash(p)

Clock == NextMillisecond \/ \E t \in Tickets : GrowStale(t)

Next == (\E p \in Tabs : Tab(p)) \/ Clock

Spec == Init /\ [][Next]_vars

(* A try at a lock that fails because of a request at one of these steps.  *)
Meets(p, steps) ==
  /\ SlotTaken(p)
  /\ \E i \in untried[p] \ untried'[p] : pc[slot[i]] \in steps

(***************************************************************************)
(* PHP runs a request it has accepted, the model answers or times out, a   *)
(* waiting client asks again, and the clock moves.  A probe holds a lock   *)
(* for microseconds and clients ask seconds apart: of endlessly many       *)
(* tries at a lock, not all but finitely many meet a probe.  And the       *)
(* server does not go on being killed for ever.                            *)
(***************************************************************************)
Fairness ==
  /\ \A p \in Tabs :
       /\ WF_vars(Admit(p))
       /\ WF_vars(FinishParse(p))
       /\ WF_vars(pc[p] = "waiting" /\ Ask(p))
       /\ []<><<Meets(p, {"probing"})>>_vars =>
            []<><<AcquireSlot(p) \/ Meets(p, {"reading", "dropTicket"})>>_vars
       /\ <>[][~Crash(p)]_vars
  /\ WF_vars(NextMillisecond)
  /\ \A t \in Tickets : WF_vars(GrowStale(t))

FairSpec == Spec /\ Fairness

-----------------------------------------------------------------------------
(* The model is never asked to read more receipts at once than it has      *)
(* backends, and no lock outlives the request that took it, however        *)
(* requests race and whenever they die (acquireSlot, busySlots, release).  *)
SlotsGuardTheModel ==
  /\ \A i \in Slots : slot[i] # None =>
       pc[slot[i]] \in {"reading", "dropTicket", "probing"}
  /\ \A p \in Tabs : lockDir = "writable" /\ pc[p] \in {"reading", "dropTicket"}
       => \E i \in Slots : slot[i] = p
  /\ \A i, j \in Slots : slot[i] = slot[j] /\ slot[i] # None => i = j

(* Turns go oldest ticket first, and a free slot is not a free pass: who   *)
(* is let through to the slots leaves nobody in line who was before it     *)
(* when it asked (countAhead; ScanQueueTest, the newcomer).                *)
FirstComeFirstServed ==
  [][\A p \in Tabs :
       pc[p] = "count" /\ pc'[p] = "acquire"
         => elders[p] \cap line = {}]_vars

(* "a receipt has at most one place in line" (find).                       *)
OnePlaceInLine == \A t, u \in line : owner[t] = owner[u] => t = u

(* What makes these inductive when nobody scans one receipt in two tabs:   *)
(* a request that found no ticket still has none, one that found a ticket  *)
(* goes on with its own, and whoever was before it when it asked and is    *)
(* still in line is before that ticket.                                    *)
OneTabPerScan == \A p, q \in Tabs : ScanOf[p] = ScanOf[q] => p = q

Placed ==
  \A p \in Tabs :
    /\ pc[p] \in {"room", "insert"} => mine[p] = None
    /\ pc[p] \in {"count", "acquire", "room", "insert"} /\ mine[p] = None
         => TicketsOf(ScanOf[p]) = {}
    /\ mine[p] \in line => owner[mine[p]] = ScanOf[p]

StillAhead ==
  \A p \in Tabs :
    /\ pc[p] \in {"purge", "find", "count"} =>
         \A t \in TicketsOf(ScanOf[p]) : elders[p] \cap line \subseteq older[t]
    /\ pc[p] \in {"find", "count"} => TicketsOf(ScanOf[p]) \cap stale = {}
    /\ pc[p] = "count" => mine[p] \in line \cup {None}

(* A request that has a lock and is past the probes is being read, those   *)
(* before it are asking; a lock that is only tried serves nobody.          *)
Reading == {"dropTicket", "reading"}

Stage(p) ==
  IF pc[p] = "home" THEN "away"
  ELSE IF pc[p] = "waiting" THEN "waiting"
  ELSE IF pc[p] \in Reading THEN "reading" ELSE "asking"

Serving(i) == IF slot[i] # None /\ pc[slot[i]] \in Reading THEN slot[i] ELSE None

Clients == INSTANCE Turns WITH
  Backends <- Slots,
  stage <- [p \in Tabs |-> Stage(p)],
  serving <- [i \in Slots |-> Serving(i)],
  guarded <- lockDir = "writable"

(* Statement by statement and lock by lock, admit(), release() and cancel()*)
(* come to Turns: a parse begins on a backend that reads for nobody else,  *)
(* and one that ends or dies gives it back in the same step.               *)
ImplementsTurns == Clients!Spec

(* A client that keeps asking gets its turn: nobody in front of it, least  *)
(* of all someone who left, is in front of it for ever.                    *)
TurnComes ==
  \A p \in Tabs : pc[p] = "waiting" ~> pc[p] \in {"reading", "home"}

=============================================================================

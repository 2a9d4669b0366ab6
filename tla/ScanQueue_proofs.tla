-------------------------- MODULE ScanQueue_proofs --------------------------
(***************************************************************************)
(* For any number of tabs, scans, tickets and lock files: the rows and     *)
(* locks of ScanQueue stay well formed, the locks guard the model, every   *)
(* step is one of Turns, and turns go oldest ticket first.                 *)
(***************************************************************************)
EXTENDS ScanQueue, FiniteSetTheorems, TLAPS

USE DEF ClientSteps, AdmitSteps

LEMMA InitTypeOK == Init => TypeOK
  BY NoneAssumption DEF Init, TypeOK

(* Deleting rows, whichever they are, leaves the table well formed.        *)
LEMMA RemoveType ==
  ASSUME TypeOK, NEW gone, Remove(gone)
  PROVE  /\ line' \subseteq Tickets /\ stale' \subseteq line'
         /\ thisMs' \subseteq line'
         /\ older' \in [Tickets -> SUBSET Tickets]
         /\ owner' \in [Tickets -> Scans \cup {None}]
  BY DEF TypeOK, Remove

LEMMA InsertType ==
  ASSUME TypeOK, NEW t \in Tickets, NEW s \in Scans, InsertTicket(t, s)
  PROVE  /\ line' \subseteq Tickets /\ stale' \subseteq line'
         /\ thisMs' \subseteq line'
         /\ older' \in [Tickets -> SUBSET Tickets]
         /\ owner' \in [Tickets -> Scans \cup {None}]
  BY DEF TypeOK, InsertTicket

LEMMA NextTypeOK == TypeOK /\ [Next]_vars => TypeOK'
<1> SUFFICES ASSUME TypeOK, [Next]_vars PROVE TypeOK'
  OBVIOUS
<1>1. ASSUME NEW p \in Tabs, Tab(p) PROVE TypeOK'
  <2>1. CASE Ask(p)
    <3>1. \A t \in Tickets : older[t] \subseteq Tickets
      BY DEF TypeOK
    <3>2. FirstOf(ScanOf[p]) \subseteq Tickets
      BY DEF TypeOK, FirstOf, TicketsOf
    <3>3. UNION {older[t] : t \in FirstOf(ScanOf[p])} \subseteq Tickets
      BY <3>1, <3>2
    <3>4. elders' \in [Tabs -> SUBSET Tickets]
      BY <2>1, <3>3 DEF Ask, TypeOK
    <3>5. pc' \in [Tabs -> ClientSteps \cup AdmitSteps \cup {"reading"}]
      BY <2>1 DEF Ask, Goto, TypeOK
    <3> QED BY <2>1, <3>4, <3>5 DEF Ask, TypeOK, tickets
  <2>2. CASE Purge(p)
    BY <2>2, RemoveType DEF Purge, Goto, TypeOK
  <2>3. CASE Find(p)
    <3>1. FirstOf(ScanOf[p]) \subseteq Tickets
      BY DEF TypeOK, FirstOf, TicketsOf
    <3> QED BY <2>3, <3>1 DEF Find, Goto, TypeOK, tickets
  <2>4. CASE CountAhead(p)
    BY <2>4 DEF CountAhead, Goto, TypeOK, tickets
  <2>5. CASE AcquireSlot(p)
    BY <2>5 DEF AcquireSlot, Admitted, Goto, TypeOK, tickets
  <2>6. CASE SlotTaken(p)
    BY <2>6 DEF SlotTaken, TypeOK, tickets
  <2>7. CASE FailOpen(p)
    BY <2>7 DEF FailOpen, Admitted, Goto, TypeOK, tickets
  <2>8. CASE FindNoSlot(p)
    BY <2>8 DEF FindNoSlot, Goto, TypeOK, tickets
  <2>9. CASE DropTicket(p)
    BY <2>9, RemoveType DEF DropTicket, Goto, TypeOK
  <2>10. CASE CheckRoom(p)
    BY <2>10 DEF CheckRoom, Goto, TypeOK, tickets
  <2>11. CASE TakeTicket(p)
    <3>1. PICK t \in Tickets : /\ InsertTicket(t, ScanOf[p])
                               /\ told' = [told EXCEPT ![p] = t]
      BY <2>11 DEF TakeTicket
    <3>2. ScanOf[p] \in Scans
      BY ScanOfAssumption
    <3> QED BY <2>11, <3>1, <3>2, InsertType DEF TakeTicket, Goto, TypeOK
  <2>12. CASE Refresh(p)
    BY <2>12 DEF Refresh, Goto, TypeOK
  <2>13. CASE ProbeFree(p)
    BY <2>13 DEF ProbeFree, Goto, TypeOK, tickets
  <2>14. CASE ProbeBusy(p)
    BY <2>14 DEF ProbeBusy, TypeOK, tickets
  <2>15. CASE ProbeRelease(p)
    BY <2>15 DEF ProbeRelease, Free, Goto, TypeOK, tickets
  <2>16. CASE ReplyQueued(p)
    BY <2>16 DEF ReplyQueued, Forget, Goto, TypeOK, tickets
  <2>17. CASE FinishParse(p)
    BY <2>17 DEF FinishParse, Free, Forget, Goto, TypeOK, tickets
  <2>18. CASE Cancel(p)
    BY <2>18, RemoveType DEF Cancel, Goto, TypeOK
  <2>19. CASE Vanish(p)
    BY <2>19 DEF Vanish, Goto, TypeOK, tickets
  <2>20. CASE Crash(p)
    BY <2>20 DEF Crash, Free, Forget, Goto, TypeOK, tickets
  <2> QED
    BY <1>1, <2>1, <2>2, <2>3, <2>4, <2>5, <2>6, <2>7, <2>8, <2>9, <2>10,
       <2>11, <2>12, <2>13, <2>14, <2>15, <2>16, <2>17, <2>18, <2>19, <2>20
       DEF Tab, Admit
<1>2. CASE Clock
  BY <1>2 DEF Clock, NextMillisecond, GrowStale, TypeOK
<1>3. CASE UNCHANGED vars
  BY <1>3 DEF vars, TypeOK
<1> QED BY <1>1, <1>2, <1>3 DEF Next

(* The rows of scan_queue, the locks and what each request knows keep      *)
(* their shape: type correctness of admit(), release() and cancel().       *)
THEOREM TypeCorrect == Spec => []TypeOK
  BY InitTypeOK, NextTypeOK, PTL DEF Spec

-----------------------------------------------------------------------------
(* With the types of the four variables it speaks of, SlotsGuardTheModel   *)
(* is inductive as it stands: a request that is about to take a lock holds *)
(* none, and it stops holding it in the step in which it stops needing it. *)
Holders == {"reading", "dropTicket", "probing"}

LEMMA NextSlots ==
  TypeOK /\ SlotsGuardTheModel /\ [Next]_vars => SlotsGuardTheModel'
<1> SUFFICES ASSUME TypeOK, SlotsGuardTheModel, [Next]_vars
             PROVE  SlotsGuardTheModel'
  OBVIOUS
<1> USE NoneAssumption
<1>1. ASSUME NEW p \in Tabs, Tab(p) PROVE SlotsGuardTheModel'
  <2>1. CASE AcquireSlot(p) \/ ProbeFree(p)
    <3>1. PICK i \in Slots : slot[i] = None /\ slot' = [slot EXCEPT ![i] = p]
      BY <2>1 DEF AcquireSlot, ProbeFree, TypeOK
    <3>2. \A j \in Slots : slot[j] # p
      BY <2>1 DEF AcquireSlot, ProbeFree, SlotsGuardTheModel, TypeOK
    <3>3. pc'[p] \in Holders /\ \A q \in Tabs \ {p} : pc'[q] = pc[q]
      BY <2>1 DEF AcquireSlot, Admitted, ProbeFree, Goto, TypeOK, Holders
    <3>4. lockDir' = lockDir
      BY <2>1 DEF AcquireSlot, ProbeFree
    <3> QED
      BY <3>1, <3>2, <3>3, <3>4 DEF SlotsGuardTheModel, TypeOK, Holders
  <2>2. CASE ProbeRelease(p) \/ FinishParse(p) \/ Crash(p)
    <3>1. /\ slot' = [i \in Slots |-> IF slot[i] = p THEN None ELSE slot[i]]
          /\ pc'[p] \in {"probe", "home"}
          /\ \A q \in Tabs \ {p} : pc'[q] = pc[q]
          /\ lockDir' = lockDir
      BY <2>2 DEF ProbeRelease, FinishParse, Crash, Free, Goto, TypeOK
    <3> QED BY <3>1 DEF SlotsGuardTheModel, TypeOK
  <2>3. CASE FailOpen(p)
    BY <2>3 DEF FailOpen, Admitted, Goto, SlotsGuardTheModel, TypeOK
  <2>4. CASE DropTicket(p)
    BY <2>4 DEF DropTicket, Goto, SlotsGuardTheModel, TypeOK
  <2>5. ASSUME \/ Ask(p) \/ Purge(p) \/ Find(p) \/ CountAhead(p)
               \/ SlotTaken(p) \/ FindNoSlot(p) \/ CheckRoom(p)
               \/ TakeTicket(p) \/ Refresh(p) \/ ProbeBusy(p)
               \/ ReplyQueued(p) \/ Cancel(p) \/ Vanish(p)
        PROVE  SlotsGuardTheModel'
    <3>1. slot' = slot /\ lockDir' = lockDir
      BY <2>5 DEF Ask, Purge, Find, CountAhead, SlotTaken, FindNoSlot,
         CheckRoom, TakeTicket, Refresh, ProbeBusy, ReplyQueued, Cancel, Vanish
    <3>2. pc[p] \notin Holders /\ pc'[p] \notin Holders
      BY <2>5 DEF Ask, Purge, Find, CountAhead, SlotTaken, FindNoSlot,
         CheckRoom, TakeTicket, Refresh, ProbeBusy, ReplyQueued, Cancel,
         Vanish, Goto, TypeOK, Holders
    <3>3. \A q \in Tabs \ {p} : pc'[q] = pc[q]
      BY <2>5 DEF Ask, Purge, Find, CountAhead, SlotTaken, FindNoSlot,
         CheckRoom, TakeTicket, Refresh, ProbeBusy, ReplyQueued, Cancel,
         Vanish, Goto, TypeOK
    <3> QED
      BY <3>1, <3>2, <3>3 DEF SlotsGuardTheModel, TypeOK, Holders
  <2> QED
    BY <1>1, <2>1, <2>2, <2>3, <2>4, <2>5 DEF Tab, Admit
<1>2. CASE Clock
  BY <1>2 DEF Clock, NextMillisecond, GrowStale, SlotsGuardTheModel
<1>3. CASE UNCHANGED vars
  BY <1>3 DEF vars, SlotsGuardTheModel
<1> QED BY <1>1, <1>2, <1>3 DEF Next

(* However many requests race for however many backends, and whenever they *)
(* are killed, the model reads at most one receipt per lock file and no    *)
(* lock outlives its request (acquireSlot, busySlots, release).            *)
THEOREM SlotsHold == Spec => []SlotsGuardTheModel
<1>1. Init => SlotsGuardTheModel
  BY NoneAssumption DEF Init, SlotsGuardTheModel
<1> QED
  BY <1>1, TypeCorrect, NextSlots, PTL DEF Spec

-----------------------------------------------------------------------------
(* ScanQueue implements Turns.  A step changes at most what Turns sees of  *)
(* one client, and of the lock files only those that client has or gets.   *)

LEMMA InitImplements == Init => Clients!Init
  BY NoneAssumption DEF Init, Clients!Init, Stage, Serving, Reading

(* What Turns sees does not change when no lock changes hands and the one  *)
(* client that moves stays what it was.                                    *)
LEMMA Hidden ==
  ASSUME TypeOK, TypeOK', NEW p \in Tabs, lockDir' = lockDir,
         \A q \in Tabs \ {p} : pc'[q] = pc[q],
         Stage(p)' = Stage(p),
         \A i \in Slots : Serving(i)' = Serving(i)
  PROVE  UNCHANGED Clients!state
<1>1. \A q \in Tabs : Stage(q)' = Stage(q)
  BY DEF Stage
<1> QED BY <1>1 DEF Clients!state

LEMMA Moved ==
  ASSUME TypeOK, TypeOK', NEW p \in Tabs, NEW from, NEW to,
         \A q \in Tabs \ {p} : pc'[q] = pc[q],
         Stage(p) \in from, Stage(p)' = to
  PROVE  Clients!Moves(p, from, to)
<1>1. \A q \in Tabs \ {p} : Stage(q)' = Stage(q)
  BY DEF Stage
<1> QED BY <1>1 DEF Clients!Moves

LEMMA StepImplements ==
  /\ TypeOK /\ TypeOK' /\ SlotsGuardTheModel /\ [Next]_vars
  => [Clients!Next]_Clients!state
<1> SUFFICES ASSUME TypeOK, TypeOK', SlotsGuardTheModel, [Next]_vars
             PROVE  [Clients!Next]_Clients!state
  OBVIOUS
<1> USE NoneAssumption
<1>1. ASSUME NEW p \in Tabs, Tab(p) PROVE [Clients!Next]_Clients!state
  <2>0. ASSUME lockDir' = lockDir, slot' = slot,
               \A q \in Tabs \ {p} : pc'[q] = pc[q],
               pc[p] \in Reading <=> pc'[p] \in Reading
        PROVE  \A i \in Slots : Serving(i)' = Serving(i)
    BY <2>0 DEF Serving, TypeOK
  <2>1. CASE Ask(p)
    <3>1. /\ lockDir' = lockDir /\ slot' = slot
          /\ \A q \in Tabs \ {p} : pc'[q] = pc[q]
          /\ pc[p] \notin Reading /\ pc'[p] = "purge"
          /\ pc[p] \in {"home", "waiting"}
      BY <2>1 DEF Ask, Goto, TypeOK, tickets, Reading
    <3>2. Stage(p) \in {"away", "waiting"} /\ Stage(p)' = "asking"
      BY <3>1 DEF Stage, Reading
    <3>3. Clients!Ask(p)
      BY <2>0, <3>1, <3>2, Moved DEF Clients!Ask, Reading
    <3> QED BY <3>3 DEF Clients!Next
  <2>2. CASE ReplyQueued(p)
    <3>1. /\ lockDir' = lockDir /\ slot' = slot
          /\ \A q \in Tabs \ {p} : pc'[q] = pc[q]
          /\ pc[p] = "probe" /\ pc'[p] = "waiting"
      BY <2>2 DEF ReplyQueued, Goto, TypeOK, tickets
    <3>2. Stage(p) \in {"asking"} /\ Stage(p)' = "waiting"
      BY <3>1 DEF Stage, Reading
    <3>3. Clients!Wait(p)
      BY <2>0, <3>1, <3>2, Moved DEF Clients!Wait, Reading
    <3> QED BY <3>3 DEF Clients!Next
  <2>3. ASSUME lockDir' = lockDir, slot' = slot,
               \A q \in Tabs \ {p} : pc'[q] = pc[q],
               pc[p] \notin Reading, pc[p] # "home", pc'[p] = "home"
        PROVE  Clients!Next
    <3>1. Stage(p) \in {"asking", "waiting"} /\ Stage(p)' = "away"
      BY <2>3 DEF Stage, Reading
    <3>2. Clients!GiveUp(p)
      BY <2>0, <2>3, <3>1, Moved DEF Clients!GiveUp, Reading
    <3> QED BY <3>2 DEF Clients!Next
  <2>4. CASE Cancel(p) \/ Vanish(p)
    <3>1. /\ lockDir' = lockDir /\ slot' = slot
          /\ \A q \in Tabs \ {p} : pc'[q] = pc[q]
          /\ pc[p] = "waiting" /\ pc'[p] = "home"
      BY <2>4 DEF Cancel, Vanish, Goto, TypeOK, tickets
    <3> QED BY <2>3, <3>1 DEF Reading
  <2>5. CASE FinishParse(p) \/ Crash(p)
    <3>1. /\ lockDir' = lockDir
          /\ slot' = [i \in Slots |-> IF slot[i] = p THEN None ELSE slot[i]]
          /\ \A q \in Tabs \ {p} : pc'[q] = pc[q]
          /\ pc[p] \notin {"home", "waiting"} /\ pc'[p] = "home"
      BY <2>5 DEF FinishParse, Crash, Free, Goto, TypeOK, tickets
    <3>2. Stage(p) \in {"reading", "asking"} /\ Stage(p)' = "away"
      BY <3>1 DEF Stage, Reading
    <3>3. CASE pc[p] \in Reading
      <4>1. Clients!Moves(p, {"reading"}, "away")
        BY <3>1, <3>2, <3>3, Moved DEF Stage, Reading
      <4>2. \A i \in Slots :
              Serving(i)' = IF Serving(i) = p THEN None ELSE Serving(i)
        BY <3>1, <3>3 DEF Serving, TypeOK, Reading
      <4>3. Clients!End(p)
        BY <3>1, <4>1, <4>2 DEF Clients!End
      <4> QED BY <4>3 DEF Clients!Next
    <3>4. CASE pc[p] \notin Reading
      <4>1. Clients!Moves(p, {"asking", "waiting"}, "away")
        BY <3>1, <3>2, <3>4, Moved DEF Stage, Reading
      <4>2. \A i \in Slots : Serving(i)' = Serving(i)
        BY <3>1, <3>4 DEF Serving, TypeOK, Reading
      <4>3. Clients!GiveUp(p)
        BY <3>1, <4>1, <4>2 DEF Clients!GiveUp
      <4> QED BY <4>3 DEF Clients!Next
    <3> QED BY <3>3, <3>4
  <2>6. CASE AcquireSlot(p) \/ FailOpen(p)
    <3>1. /\ lockDir' = lockDir
          /\ \A q \in Tabs \ {p} : pc'[q] = pc[q]
          /\ pc[p] = "acquire" /\ pc'[p] \in Reading
      BY <2>6 DEF AcquireSlot, FailOpen, Admitted, Goto, TypeOK, Reading
    <3>2. Stage(p) \in {"asking"} /\ Stage(p)' = "reading"
      BY <3>1 DEF Stage, Reading
    <3>3. \A i \in Slots : slot[i] # p
      BY <3>1 DEF SlotsGuardTheModel, TypeOK
    <3>4. CASE AcquireSlot(p)
      <4>1. PICK i \in Slots : slot[i] = None /\ slot' = [slot EXCEPT ![i] = p]
        BY <3>4 DEF AcquireSlot
      <4>2. lockDir = "writable"
        BY <3>4 DEF AcquireSlot
      <4>3. Serving(i) = None /\ Serving(i)' = p
        BY <3>1, <4>1 DEF Serving, TypeOK
      <4>4. \A j \in Slots \ {i} : Serving(j)' = Serving(j)
        BY <3>1, <3>3, <4>1 DEF Serving, TypeOK
      <4>5. Clients!Moves(p, {"asking"}, "reading")
        BY <3>1, <3>2, Moved
      <4>6. [j \in Slots |-> Serving(j)]'
              = [[j \in Slots |-> Serving(j)] EXCEPT ![i] = p]
        BY <4>3, <4>4
      <4>7. [j \in Slots |-> Serving(j)][i] = None
        BY <4>3
      <4>8. Clients!Begin(p)
        BY <3>1, <4>2, <4>5, <4>6, <4>7 DEF Clients!Begin
      <4> QED BY <4>8 DEF Clients!Next
    <3>5. CASE FailOpen(p)
      <4>1. lockDir = "unwritable" /\ slot' = slot
        BY <3>5 DEF FailOpen
      <4>2. \A i \in Slots : Serving(i)' = Serving(i)
        BY <3>1, <3>3, <4>1 DEF Serving, TypeOK
      <4>3. Clients!Begin(p)
        BY <3>1, <3>2, <4>1, <4>2, Moved DEF Clients!Begin
      <4> QED BY <4>3 DEF Clients!Next
    <3> QED BY <2>6, <3>4, <3>5
  <2>7. CASE ProbeFree(p) \/ ProbeRelease(p)
    <3>1. /\ lockDir' = lockDir
          /\ \A q \in Tabs \ {p} : pc'[q] = pc[q]
          /\ pc[p] \in {"probe", "probing"} /\ pc'[p] \in {"probe", "probing"}
      BY <2>7 DEF ProbeFree, ProbeRelease, Goto, TypeOK
    <3>2. \A i \in Slots : slot'[i] = slot[i] \/ {slot[i], slot'[i]} = {p, None}
      BY <2>7 DEF ProbeFree, ProbeRelease, Free, TypeOK
    <3>3. ASSUME NEW i \in Slots PROVE Serving(i)' = Serving(i)
      <4>1. pc[p] \notin Reading /\ pc'[p] \notin Reading
        BY <3>1 DEF Reading
      <4>2. CASE slot'[i] = slot[i]
        BY <3>1, <4>1, <4>2 DEF Serving, TypeOK
      <4>3. CASE slot[i] \in {p, None} /\ slot'[i] \in {p, None}
        BY <4>1, <4>3 DEF Serving
      <4> QED BY <3>2, <4>2, <4>3
    <3>4. Stage(p)' = Stage(p)
      BY <3>1 DEF Stage, Reading
    <3> QED BY <3>1, <3>3, <3>4, Hidden
  <2>8. ASSUME \/ Purge(p) \/ Find(p) \/ CountAhead(p) \/ SlotTaken(p)
               \/ FindNoSlot(p) \/ DropTicket(p) \/ CheckRoom(p)
               \/ TakeTicket(p) \/ Refresh(p) \/ ProbeBusy(p)
        PROVE  [Clients!Next]_Clients!state
    <3>1. /\ lockDir' = lockDir /\ slot' = slot
          /\ \A q \in Tabs \ {p} : pc'[q] = pc[q]
      BY <2>8 DEF Purge, Find, CountAhead, SlotTaken, FindNoSlot, DropTicket,
         CheckRoom, TakeTicket, Refresh, ProbeBusy, Goto, TypeOK
    <3>2. CASE pc'[p] = "home"
      <4>1. pc[p] = "room"
        BY <2>8, <3>2 DEF Purge, Find, CountAhead, SlotTaken, FindNoSlot,
           DropTicket, CheckRoom, TakeTicket, Refresh, ProbeBusy, Goto, TypeOK
      <4> QED BY <2>3, <3>1, <3>2, <4>1 DEF Reading
    <3>3. CASE pc'[p] # "home"
      <4>1. \/ pc[p] \in Reading /\ pc'[p] \in Reading
            \/ /\ pc[p] \notin Reading \cup {"home", "waiting"}
               /\ pc'[p] \notin Reading \cup {"home", "waiting"}
        BY <2>8, <3>3 DEF Purge, Find, CountAhead, SlotTaken, FindNoSlot,
           DropTicket, CheckRoom, TakeTicket, Refresh, ProbeBusy, Goto, TypeOK,
           Reading
      <4>2. Stage(p)' = Stage(p)
        BY <4>1 DEF Stage, Reading
      <4> QED BY <2>0, <3>1, <4>1, <4>2, Hidden
    <3> QED BY <3>2, <3>3
  <2> QED
    BY <1>1, <2>1, <2>2, <2>4, <2>5, <2>6, <2>7, <2>8 DEF Tab, Admit
<1>2. CASE Clock \/ UNCHANGED vars
  <2>1. UNCHANGED <<slot, lockDir, pc>>
    BY <1>2 DEF Clock, NextMillisecond, GrowStale, vars
  <2> QED BY <2>1 DEF Clients!state, Stage, Serving
<1> QED BY <1>1, <1>2 DEF Next

(* admit(), release() and cancel(), statement by statement and lock by     *)
(* lock, are what Turns says of them, for any number of clients and        *)
(* backends: a backend reads for one client from the parse's start to its  *)
(* end, and gives it back in the step in which the parse ends or dies.     *)
THEOREM TurnsImplemented == Spec => ImplementsTurns
  BY InitImplements, StepImplements, TypeCorrect, SlotsHold, PTL
     DEF Spec, ImplementsTurns, Clients!Spec

-----------------------------------------------------------------------------
(* First come, first served, when no receipt is scanned in two tabs.       *)

LEMMA RemoveTickets ==
  ASSUME TypeOK, NEW gone, Remove(gone), NEW s
  PROVE  /\ TicketsOf(s)' = TicketsOf(s) \ gone
         /\ \A t \in line' : owner'[t] = owner[t] /\ t \notin gone
         /\ line' = line \ gone /\ stale' = stale \ gone
         /\ \A t \in line' : older'[t] = older[t] \ gone
  BY DEF TypeOK, Remove, TicketsOf

LEMMA InsertTickets ==
  ASSUME TypeOK, NEW t \in Tickets, t \notin line, NEW s \in Scans,
         InsertTicket(t, s), NEW r
  PROVE  /\ TicketsOf(r)' = TicketsOf(r) \cup (IF r = s THEN {t} ELSE {})
         /\ line' = line \cup {t} /\ stale' = stale
         /\ \A u \in line : owner'[u] = owner[u] /\ older'[u] = older[u]
         /\ owner'[t] = s
  BY DEF TypeOK, InsertTicket, TicketsOf

LEMMA InsertElsewhere ==
  ASSUME TypeOK, NEW t \in Tickets, t \notin line, NEW s \in Scans,
         InsertTicket(t, s), NEW r, r # s
  PROVE  TicketsOf(r)' = TicketsOf(r)
  BY DEF TypeOK, InsertTicket, TicketsOf

(* A step that leaves the rows alone cannot take what the others found.    *)
LEMMA PlacedElsewhere ==
  ASSUME TypeOK, Placed, NEW p \in Tabs,
         UNCHANGED <<line, owner>>,
         \A q \in Tabs \ {p} : pc'[q] = pc[q] /\ mine'[q] = mine[q],
         pc'[p] \in {"room", "insert"} => mine'[p] = None,
         pc'[p] \in {"count", "acquire", "room", "insert"} /\ mine'[p] = None
           => TicketsOf(ScanOf[p]) = {},
         mine'[p] \in line => owner[mine'[p]] = ScanOf[p]
  PROVE  Placed'
  BY DEF Placed, TicketsOf

LEMMA PlacedRemoved ==
  ASSUME TypeOK, Placed, NEW p \in Tabs, NEW gone, Remove(gone),
         mine' = mine, pc' = [pc EXCEPT ![p] = pc'[p]],
         pc'[p] \notin {"count", "acquire", "room", "insert"}
  PROVE  Placed'
<1> SUFFICES ASSUME NEW q \in Tabs
             PROVE  /\ pc'[q] \in {"room", "insert"} => mine'[q] = None
                    /\ pc'[q] \in {"count", "acquire", "room", "insert"}
                         /\ mine'[q] = None => TicketsOf(ScanOf[q])' = {}
                    /\ mine'[q] \in line' => owner'[mine'[q]] = ScanOf[q]
  BY DEF Placed, TicketsOf
<1>1. TicketsOf(ScanOf[q])' = TicketsOf(ScanOf[q]) \ gone
  BY RemoveTickets
<1>2. pc'[q] = pc[q] \/ pc'[q] \notin {"count", "acquire", "room", "insert"}
  BY DEF TypeOK
<1>3. \A t \in line' : t \in line /\ owner'[t] = owner[t]
  BY RemoveTickets
<1> QED BY <1>1, <1>2, <1>3 DEF Placed

LEMMA OnePlaceKept ==
  ASSUME TypeOK, OnePlaceInLine,
         line' \subseteq line, \A t \in line' : owner'[t] = owner[t]
  PROVE  OnePlaceInLine'
  BY DEF OnePlaceInLine

LEMMA NextPlaced ==
  /\ OneTabPerScan /\ TypeOK /\ OnePlaceInLine /\ Placed /\ [Next]_vars
  => OnePlaceInLine' /\ Placed'
<1> SUFFICES ASSUME OneTabPerScan, TypeOK, OnePlaceInLine, Placed, [Next]_vars
             PROVE  OnePlaceInLine' /\ Placed'
  OBVIOUS
<1> USE NoneAssumption
<1>1. ASSUME NEW p \in Tabs, Tab(p) PROVE OnePlaceInLine' /\ Placed'
  <2>1. CASE Ask(p)
    <3>1. /\ UNCHANGED <<line, owner>> /\ mine' = mine
          /\ \A q \in Tabs \ {p} : pc'[q] = pc[q]
          /\ pc'[p] = "purge"
      BY <2>1 DEF Ask, Goto, TypeOK, tickets
    <3> QED BY <3>1, PlacedElsewhere, OnePlaceKept DEF Placed
  <2>2. CASE Purge(p)
    <3>1. /\ Remove(stale) /\ mine' = mine
          /\ pc' = [pc EXCEPT ![p] = pc'[p]] /\ pc'[p] = "find"
      BY <2>2 DEF Purge, Goto, TypeOK
    <3> QED BY <3>1, PlacedRemoved, RemoveTickets, OnePlaceKept
  <2>3. CASE Find(p)
    <3>1. /\ UNCHANGED <<line, owner>>
          /\ \A q \in Tabs \ {p} : pc'[q] = pc[q] /\ mine'[q] = mine[q]
          /\ pc'[p] = "count"
      BY <2>3 DEF Find, Goto, TypeOK, tickets
    <3>2. \/ TicketsOf(ScanOf[p]) = {} /\ mine'[p] = None
          \/ mine'[p] \in TicketsOf(ScanOf[p])
      BY <2>3 DEF Find, FirstOf, TypeOK
    <3>3. \A t \in TicketsOf(ScanOf[p]) : t # None /\ owner[t] = ScanOf[p]
      BY DEF TicketsOf, TypeOK
    <3>4. None \notin line
      BY DEF TypeOK
    <3> QED BY <3>1, <3>2, <3>3, <3>4, PlacedElsewhere, OnePlaceKept
  <2>4. CASE CountAhead(p)
    <3>1. /\ UNCHANGED <<line, owner>> /\ mine' = mine
          /\ \A q \in Tabs \ {p} : pc'[q] = pc[q]
          /\ pc[p] = "count"
          /\ pc'[p] \in {"acquire", "room", "refresh"}
          /\ pc'[p] = "room" => mine[p] = None
      BY <2>4 DEF CountAhead, Goto, TypeOK, tickets
    <3> QED BY <3>1, PlacedElsewhere, OnePlaceKept DEF Placed
  <2>5. CASE AcquireSlot(p) \/ FailOpen(p)
    <3>1. /\ UNCHANGED <<line, owner>> /\ mine' = mine
          /\ \A q \in Tabs \ {p} : pc'[q] = pc[q]
          /\ pc'[p] \in {"reading", "dropTicket"}
      BY <2>5 DEF AcquireSlot, FailOpen, Admitted, Goto, TypeOK, tickets
    <3> QED BY <3>1, PlacedElsewhere, OnePlaceKept DEF Placed
  <2>6. CASE FindNoSlot(p)
    <3>1. /\ UNCHANGED <<line, owner>> /\ mine' = mine
          /\ \A q \in Tabs \ {p} : pc'[q] = pc[q]
          /\ pc[p] = "acquire" /\ pc'[p] \in {"room", "refresh"}
          /\ pc'[p] = "room" => mine[p] = None
      BY <2>6 DEF FindNoSlot, Goto, TypeOK, tickets
    <3> QED BY <3>1, PlacedElsewhere, OnePlaceKept DEF Placed
  <2>7. CASE DropTicket(p)
    <3>1. /\ Remove({mine[p]} \cap line) /\ mine' = mine
          /\ pc' = [pc EXCEPT ![p] = pc'[p]] /\ pc'[p] = "reading"
      BY <2>7 DEF DropTicket, Goto, TypeOK
    <3> QED BY <3>1, PlacedRemoved, RemoveTickets, OnePlaceKept
  <2>8. CASE CheckRoom(p)
    <3>1. /\ UNCHANGED <<line, owner>> /\ mine' = mine
          /\ \A q \in Tabs \ {p} : pc'[q] = pc[q]
          /\ pc[p] = "room" /\ pc'[p] \in {"home", "insert"}
      BY <2>8 DEF CheckRoom, Goto, TypeOK, tickets
    <3> QED BY <3>1, PlacedElsewhere, OnePlaceKept DEF Placed
  <2>9. CASE TakeTicket(p)
    <3>1. PICK t \in Tickets : Fresh(t) /\ InsertTicket(t, ScanOf[p])
      BY <2>9 DEF TakeTicket
    <3>2. /\ mine' = mine /\ \A q \in Tabs \ {p} : pc'[q] = pc[q]
          /\ pc[p] = "insert" /\ pc'[p] = "probe"
      BY <2>9 DEF TakeTicket, Goto, TypeOK
    <3>3. ScanOf[p] \in Scans /\ t \notin line
      BY <3>1, ScanOfAssumption DEF Fresh
    <3>4. mine[p] = None /\ TicketsOf(ScanOf[p]) = {}
      BY <3>2 DEF Placed
    <3>5. /\ line' = line \cup {t} /\ owner'[t] = ScanOf[p]
          /\ \A u \in line : owner'[u] = owner[u]
      BY <3>1, <3>3, InsertTickets
    <3>6. OnePlaceInLine'
      BY <3>4, <3>5 DEF OnePlaceInLine, TicketsOf
    <3>7. \A q \in Tabs : mine[q] # t
      BY <3>1 DEF Fresh
    <3>8. \A q \in Tabs \ {p} : TicketsOf(ScanOf[q])' = TicketsOf(ScanOf[q])
      <4> TAKE q \in Tabs \ {p}
      <4>1. ScanOf[q] # ScanOf[p]
        BY DEF OneTabPerScan
      <4> QED BY <3>1, <3>3, <4>1, InsertElsewhere
    <3>9. Placed'
      BY <3>2, <3>5, <3>7, <3>8, <3>4 DEF Placed, TicketsOf
    <3> QED BY <3>6, <3>9
  <2>10. CASE Refresh(p)
    <3>1. /\ UNCHANGED <<line, owner>> /\ mine' = mine
          /\ \A q \in Tabs \ {p} : pc'[q] = pc[q]
          /\ pc'[p] = "probe"
      BY <2>10 DEF Refresh, Goto, TypeOK
    <3> QED BY <3>1, PlacedElsewhere, OnePlaceKept DEF Placed
  <2>11. CASE SlotTaken(p) \/ ProbeBusy(p)
    <3>1. UNCHANGED <<line, owner, mine, pc>>
      BY <2>11 DEF SlotTaken, ProbeBusy, tickets
    <3> QED BY <3>1 DEF Placed, TicketsOf, OnePlaceInLine
  <2>12. CASE ProbeFree(p) \/ ProbeRelease(p) \/ Vanish(p)
    <3>1. /\ UNCHANGED <<line, owner>> /\ mine' = mine
          /\ \A q \in Tabs \ {p} : pc'[q] = pc[q]
          /\ pc'[p] \in {"probe", "probing", "home"}
      BY <2>12 DEF ProbeFree, ProbeRelease, Vanish, Goto, TypeOK, tickets
    <3> QED BY <3>1, PlacedElsewhere, OnePlaceKept DEF Placed
  <2>13. CASE ReplyQueued(p) \/ FinishParse(p) \/ Crash(p)
    <3>1. /\ UNCHANGED <<line, owner>>
          /\ \A q \in Tabs \ {p} : pc'[q] = pc[q] /\ mine'[q] = mine[q]
          /\ pc'[p] \in {"waiting", "home"} /\ mine'[p] = None
      BY <2>13 DEF ReplyQueued, FinishParse, Crash, Forget, Goto, TypeOK,
         tickets
    <3>2. None \notin line
      BY DEF TypeOK
    <3> QED BY <3>1, <3>2, PlacedElsewhere, OnePlaceKept
  <2>14. CASE Cancel(p)
    <3>1. PICK gone : Remove(gone)
      BY <2>14 DEF Cancel
    <3>2. /\ mine' = mine
          /\ pc' = [pc EXCEPT ![p] = pc'[p]] /\ pc'[p] = "home"
      BY <2>14 DEF Cancel, Goto, TypeOK
    <3> QED BY <3>1, <3>2, PlacedRemoved, RemoveTickets, OnePlaceKept
  <2> QED
    BY <1>1, <2>1, <2>2, <2>3, <2>4, <2>5, <2>6, <2>7, <2>8, <2>9, <2>10,
       <2>11, <2>12, <2>13, <2>14 DEF Tab, Admit
<1>2. CASE Clock \/ UNCHANGED vars
  <2>1. UNCHANGED <<line, owner, mine, pc>>
    BY <1>2 DEF Clock, NextMillisecond, GrowStale, vars
  <2> QED BY <2>1 DEF Placed, TicketsOf, OnePlaceInLine
<1> QED BY <1>1, <1>2 DEF Next

(* "a receipt has at most one place in line": find() comes before the      *)
(* INSERT of the same request, and only another tab with the same receipt  *)
(* could come between the two.                                             *)
THEOREM OnePlaceEach ==
  ASSUME OneTabPerScan
  PROVE  Spec => []OnePlaceInLine
<1>1. Init => OnePlaceInLine /\ Placed
  BY NoneAssumption DEF Init, OnePlaceInLine, Placed, TicketsOf
<1>2. TypeOK /\ (OnePlaceInLine /\ Placed) /\ [Next]_vars
        => (OnePlaceInLine /\ Placed)'
  BY NextPlaced
<1> QED BY <1>1, <1>2, TypeCorrect, PTL DEF Spec

-----------------------------------------------------------------------------
(* Turns.  What the rows and the elders of the others do not notice.       *)
LEMMA AheadElsewhere ==
  ASSUME TypeOK, StillAhead, NEW p \in Tabs,
         UNCHANGED <<line, owner, older>>, stale' \subseteq stale,
         \A q \in Tabs \ {p} :
           pc'[q] = pc[q] /\ mine'[q] = mine[q] /\ elders'[q] = elders[q],
         pc'[p] \notin {"purge", "find", "count"}
  PROVE  StillAhead'
  BY DEF StillAhead, TicketsOf

LEMMA AheadRemoved ==
  ASSUME TypeOK, StillAhead, NEW p \in Tabs, NEW gone, Remove(gone),
         mine' = mine, elders' = elders, pc' = [pc EXCEPT ![p] = pc'[p]],
         \A q \in Tabs \ {p} : pc[q] = "count" => mine[q] \notin gone,
         \/ pc'[p] \notin {"purge", "find", "count"}
         \/ pc[p] = "purge" /\ pc'[p] = "find" /\ stale \subseteq gone
  PROVE  StillAhead'
<1> SUFFICES ASSUME NEW q \in Tabs
    PROVE
      /\ pc'[q] \in {"purge", "find", "count"} =>
           \A t \in TicketsOf(ScanOf[q])' :
             elders'[q] \cap line' \subseteq older'[t]
      /\ pc'[q] \in {"find", "count"} => TicketsOf(ScanOf[q])' \cap stale' = {}
      /\ pc'[q] = "count" => mine'[q] \in line' \cup {None}
  BY DEF StillAhead, TicketsOf
<1>1. TicketsOf(ScanOf[q])' = TicketsOf(ScanOf[q]) \ gone
  BY RemoveTickets
<1>2. /\ line' = line \ gone /\ stale' = stale \ gone
      /\ \A t \in line' : older'[t] = older[t] \ gone
  BY RemoveTickets
<1>3. TicketsOf(ScanOf[q])' \subseteq line'
  BY DEF TicketsOf
<1>4. CASE q = p
  <2>1. CASE pc'[p] \notin {"purge", "find", "count"}
    BY <1>4, <2>1
  <2>2. CASE pc[p] = "purge" /\ pc'[p] = "find" /\ stale \subseteq gone
    BY <1>1, <1>2, <1>3, <1>4, <2>2 DEF StillAhead
  <2> QED BY <2>1, <2>2
<1>5. CASE q # p
  <2>1. pc'[q] = pc[q]
    BY <1>5 DEF TypeOK
  <2> QED BY <1>1, <1>2, <1>3, <1>5, <2>1 DEF StillAhead
<1> QED BY <1>4, <1>5

(* A ticket of p's scan is not one another request has found.              *)
LEMMA OthersKeepTheirs ==
  ASSUME OneTabPerScan, Placed, StillAhead, NEW p \in Tabs,
         NEW t \in line, owner[t] = ScanOf[p]
  PROVE  \A q \in Tabs \ {p} : pc[q] = "count" => mine[q] # t
  BY NoneAssumption DEF OneTabPerScan, Placed, StillAhead

LEMMA NextAhead ==
  /\ OneTabPerScan /\ Punctual
  /\ TypeOK /\ OnePlaceInLine /\ Placed /\ StillAhead /\ [Next]_vars
  => StillAhead'
<1> SUFFICES ASSUME OneTabPerScan, Punctual, TypeOK, OnePlaceInLine, Placed,
                    StillAhead, [Next]_vars
             PROVE  StillAhead'
  OBVIOUS
<1> USE NoneAssumption
<1>1. ASSUME NEW p \in Tabs, Tab(p) PROVE StillAhead'
  <2>1. CASE Ask(p)
    <3>1. /\ UNCHANGED <<line, owner, older, stale>> /\ mine' = mine
          /\ \A q \in Tabs \ {p} : pc'[q] = pc[q] /\ elders'[q] = elders[q]
          /\ pc'[p] = "purge"
      BY <2>1 DEF Ask, Goto, TypeOK, tickets
    <3>2. \A t \in TicketsOf(ScanOf[p]) : elders'[p] \subseteq older[t]
      <4> TAKE t \in TicketsOf(ScanOf[p])
      <4>1. FirstOf(ScanOf[p]) \subseteq {t}
        BY DEF FirstOf, TicketsOf, OnePlaceInLine
      <4>2. elders'[p] = UNION {older[u] : u \in FirstOf(ScanOf[p])}
        BY <2>1 DEF Ask, TypeOK
      <4> QED BY <4>1, <4>2
    <3> QED BY <3>1, <3>2 DEF StillAhead, TicketsOf
  <2>2. CASE Purge(p)
    <3>1. /\ Remove(stale) /\ mine' = mine /\ elders' = elders
          /\ pc' = [pc EXCEPT ![p] = pc'[p]]
          /\ pc[p] = "purge" /\ pc'[p] = "find"
      BY <2>2 DEF Purge, Goto, TypeOK
    <3>2. \A q \in Tabs : pc[q] = "count" => mine[q] \notin stale
      BY DEF StillAhead, Placed, TicketsOf, TypeOK
    <3> QED BY <3>1, <3>2, AheadRemoved
  <2>3. CASE Find(p)
    <3>1. /\ UNCHANGED <<line, owner, older, stale, elders>>
          /\ \A q \in Tabs \ {p} : pc'[q] = pc[q] /\ mine'[q] = mine[q]
          /\ pc[p] = "find" /\ pc'[p] = "count"
          /\ mine'[p] \in line \cup {None}
      BY <2>3 DEF Find, FirstOf, TicketsOf, Goto, TypeOK, tickets
    <3> QED BY <3>1 DEF StillAhead, TicketsOf
  <2>4. CASE \/ CountAhead(p) \/ AcquireSlot(p) \/ FailOpen(p)
             \/ FindNoSlot(p) \/ CheckRoom(p)
    <3>1. /\ UNCHANGED <<line, owner, older, stale>> /\ mine' = mine
          /\ \A q \in Tabs \ {p} : pc'[q] = pc[q] /\ elders'[q] = elders[q]
          /\ pc'[p] \in {"acquire", "room", "refresh", "reading", "dropTicket",
                          "home", "insert"}
      BY <2>4 DEF CountAhead, AcquireSlot, FailOpen, FindNoSlot, CheckRoom,
         Admitted, Goto, TypeOK, tickets
    <3> QED BY <3>1, AheadElsewhere
  <2>5. CASE DropTicket(p)
    <3>1. /\ Remove({mine[p]} \cap line) /\ mine' = mine /\ elders' = elders
          /\ pc' = [pc EXCEPT ![p] = pc'[p]] /\ pc'[p] = "reading"
      BY <2>5 DEF DropTicket, Goto, TypeOK
    <3>2. mine[p] \in line => owner[mine[p]] = ScanOf[p]
      BY DEF Placed
    <3> QED BY <3>1, <3>2, AheadRemoved, OthersKeepTheirs
  <2>6. CASE TakeTicket(p)
    <3>1. PICK t \in Tickets : Fresh(t) /\ InsertTicket(t, ScanOf[p])
      BY <2>6 DEF TakeTicket
    <3>2. /\ mine' = mine /\ elders' = elders
          /\ \A q \in Tabs \ {p} : pc'[q] = pc[q]
          /\ pc'[p] = "probe"
      BY <2>6 DEF TakeTicket, Goto, TypeOK
    <3>3. /\ ScanOf[p] \in Scans /\ t \notin line
          /\ \A q \in Tabs : t \notin elders[q]
      BY <3>1, ScanOfAssumption DEF Fresh
    <3>4. /\ line' = line \cup {t} /\ stale' = stale
          /\ \A u \in line : owner'[u] = owner[u] /\ older'[u] = older[u]
      BY <3>1, <3>3, InsertTickets
    <3>5. \A q \in Tabs \ {p} : TicketsOf(ScanOf[q])' = TicketsOf(ScanOf[q])
      <4> TAKE q \in Tabs \ {p}
      <4>1. ScanOf[q] # ScanOf[p]
        BY DEF OneTabPerScan
      <4> QED BY <3>1, <3>3, <4>1, InsertElsewhere
    <3>6. \A q \in Tabs : TicketsOf(ScanOf[q]) \subseteq line
      BY DEF TicketsOf
    <3>7. \A q \in Tabs \ {p} :
            /\ pc'[q] \in {"purge", "find", "count"} =>
                 \A u \in TicketsOf(ScanOf[q])' :
                   elders'[q] \cap line' \subseteq older'[u]
            /\ pc'[q] \in {"find", "count"}
                 => TicketsOf(ScanOf[q])' \cap stale' = {}
            /\ pc'[q] = "count" => mine'[q] \in line' \cup {None}
      BY <3>2, <3>3, <3>4, <3>5, <3>6 DEF StillAhead
    <3> QED BY <3>2, <3>7 DEF StillAhead, TicketsOf
  <2>7. CASE Refresh(p)
    <3>1. /\ UNCHANGED <<line, owner, older, mine, elders>>
          /\ stale' \subseteq stale
          /\ \A q \in Tabs \ {p} : pc'[q] = pc[q]
          /\ pc'[p] = "probe"
      BY <2>7 DEF Refresh, Goto, TypeOK
    <3> QED BY <3>1, AheadElsewhere
  <2>8. CASE SlotTaken(p) \/ ProbeBusy(p)
    <3>1. UNCHANGED <<line, owner, older, stale, mine, elders, pc>>
      BY <2>8 DEF SlotTaken, ProbeBusy, tickets
    <3> QED BY <3>1 DEF StillAhead, TicketsOf
  <2>9. CASE \/ ProbeFree(p) \/ ProbeRelease(p) \/ Vanish(p)
             \/ ReplyQueued(p) \/ FinishParse(p) \/ Crash(p)
    <3>1. /\ UNCHANGED <<line, owner, older, stale>>
          /\ \A q \in Tabs \ {p} : /\ pc'[q] = pc[q] /\ mine'[q] = mine[q]
                                   /\ elders'[q] = elders[q]
          /\ pc'[p] \in {"probe", "probing", "home", "waiting"}
      BY <2>9 DEF ProbeFree, ProbeRelease, Vanish, ReplyQueued, FinishParse,
         Crash, Forget, Goto, TypeOK, tickets
    <3> QED BY <3>1, AheadElsewhere
  <2>10. CASE Cancel(p)
    <3>1. PICK gone : /\ gone = {t \in line : t = told[p] /\ owner[t] = ScanOf[p]}
                      /\ Remove(gone)
      BY <2>10 DEF Cancel
    <3>2. /\ mine' = mine /\ elders' = elders
          /\ pc' = [pc EXCEPT ![p] = pc'[p]] /\ pc'[p] = "home"
      BY <2>10 DEF Cancel, Goto, TypeOK
    <3>3. \A q \in Tabs \ {p} : pc[q] = "count" => mine[q] \notin gone
      BY <3>1, OthersKeepTheirs
    <3> QED BY <3>1, <3>2, <3>3, AheadRemoved
  <2> QED
    BY <1>1, <2>1, <2>2, <2>3, <2>4, <2>5, <2>6, <2>7, <2>8, <2>9, <2>10
    DEF Tab, Admit
<1>2. CASE NextMillisecond \/ UNCHANGED vars
  <2>1. UNCHANGED <<line, owner, older, stale, mine, elders, pc>>
    BY <1>2 DEF NextMillisecond, vars
  <2> QED BY <2>1 DEF StillAhead, TicketsOf
<1>3. ASSUME NEW t \in Tickets, GrowStale(t) PROVE StillAhead'
  <2>1. /\ UNCHANGED <<line, owner, older, mine, elders, pc>>
        /\ stale' = stale \cup {t}
        /\ \A p \in Tabs : ScanOf[p] = owner[t] => pc[p] = "home"
    BY <1>3 DEF GrowStale
  <2> QED BY <2>1 DEF StillAhead, TicketsOf
<1> QED BY <1>1, <1>2, <1>3 DEF Next, Clock

(* Who is let through to the slots has an empty line before it, and those  *)
(* who were in line before it when it asked are still before it if they    *)
(* are in line at all.                                                     *)
LEMMA CountLooksAhead ==
  ASSUME IsFiniteSet(Tickets), TypeOK, Placed, StillAhead, [Next]_vars,
         NEW p \in Tabs, pc[p] = "count", pc'[p] = "acquire"
  PROVE  elders[p] \cap line = {}
<1> USE NoneAssumption
<1>1. CountAhead(p)
  <2>1. ASSUME NEW q \in Tabs, q # p, Tab(q) PROVE FALSE
    <3>1. pc' = [pc EXCEPT ![q] = pc'[q]]
      BY <2>1 DEF Tab, Admit, Ask, Purge, Find, CountAhead, AcquireSlot,
         SlotTaken, FailOpen, FindNoSlot, DropTicket, CheckRoom, TakeTicket,
         Refresh, ProbeFree, ProbeBusy, ProbeRelease, ReplyQueued, FinishParse,
         Cancel, Vanish, Crash, Admitted, Goto, TypeOK
    <3> QED BY <2>1, <3>1 DEF TypeOK
  <2>2. Tab(p) => CountAhead(p)
    <3>1. ~(Ask(p) \/ Cancel(p) \/ Vanish(p) \/ FinishParse(p))
      BY DEF Ask, Cancel, Vanish, FinishParse
    <3>2. ~Crash(p)
      BY DEF Crash, Goto, TypeOK
    <3>3. Admit(p) => CountAhead(p)
      BY DEF Admit, Purge, Find, AcquireSlot, SlotTaken, FailOpen, FindNoSlot,
         DropTicket, CheckRoom, TakeTicket, Refresh, ProbeFree, ProbeBusy,
         ProbeRelease, ReplyQueued
    <3> QED BY <3>1, <3>2, <3>3 DEF Tab
  <2>3. ~(Clock \/ UNCHANGED vars)
    BY DEF Clock, NextMillisecond, GrowStale, vars
  <2> QED BY <2>1, <2>2, <2>3 DEF Next
<1>2. CASE mine[p] = None
  <2>1. Cardinality(line) = 0
    BY <1>1, <1>2 DEF CountAhead, Goto, TypeOK
  <2>2. line = {}
    BY <2>1, FS_Subset, FS_EmptySet DEF TypeOK
  <2> QED BY <2>2
<1>3. CASE mine[p] # None
  <2>1. mine[p] \in line /\ owner[mine[p]] = ScanOf[p]
    BY <1>3 DEF StillAhead, Placed
  <2>2. Cardinality(older[mine[p]]) = 0
    BY <1>1, <1>3, <2>1 DEF CountAhead, Goto, TypeOK
  <2>3. older[mine[p]] \subseteq Tickets
    BY <2>1 DEF TypeOK
  <2>4. older[mine[p]] = {}
    BY <2>2, <2>3, FS_Subset, FS_EmptySet
  <2> QED BY <2>1, <2>4 DEF StillAhead, TicketsOf
<1> QED BY <1>2, <1>3

(* "Turns go oldest ticket first": for every number of people, receipts    *)
(* and backends, as long as nobody scans one receipt in two tabs and a     *)
(* client that waits asks again before its ticket is purged.               *)
THEOREM TurnsGoOldestFirst ==
  ASSUME IsFiniteSet(Tickets), OneTabPerScan, Punctual
  PROVE  Spec => FirstComeFirstServed
<1>1. Init => OnePlaceInLine /\ Placed /\ StillAhead
  BY NoneAssumption DEF Init, OnePlaceInLine, Placed, StillAhead, TicketsOf
<1>2. TypeOK /\ (OnePlaceInLine /\ Placed /\ StillAhead) /\ [Next]_vars
        => (OnePlaceInLine /\ Placed /\ StillAhead)'
  BY NextPlaced, NextAhead
<1>3. TypeOK /\ (OnePlaceInLine /\ Placed /\ StillAhead) /\ [Next]_vars
        => [\A p \in Tabs : pc[p] = "count" /\ pc'[p] = "acquire"
                              => elders[p] \cap line = {}]_vars
  BY CountLooksAhead
<1> QED BY <1>1, <1>2, <1>3, TypeCorrect, PTL DEF Spec, FirstComeFirstServed

=============================================================================

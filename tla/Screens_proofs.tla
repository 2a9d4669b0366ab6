---------------------------- MODULE Screens_proofs ----------------------------
(***************************************************************************)
(* For either client, whatever its person opens, presses and closes, and   *)
(* however the server answers: one opening of a guarded form makes one row *)
(* for each failure it has shown and one more, and the screen in front     *)
(* catches up with what its person did.                                    *)
(***************************************************************************)
EXTENDS Screens, FiniteSetTheorems, TLAPS

Counts(name) == Handlers[name].makes /\ name \notin Unguarded

CountedOn ==
  [addExpense |-> "adding", import |-> "import", received |-> "member",
   report |-> "profile"]

(* What the proofs use of a handler of either client.                      *)
Proper(name, h) ==
  /\ h.frees \subseteq Answers /\ "fail" \in h.frees
  /\ h.holder \in {"place", "screen"}
  /\ "ok" \notin h.frees =>
       /\ h.guard # "none" /\ h.holder = "place"
       /\ h.after = "to the list" \/ (h.after = "closes" /\ h.on \notin Names)
  /\ h.after \in {"closes", "deletes", "invites"} => h.changes # "due"
  /\ h.after = "undone" => name = "undo"
  /\ h.makes /\ name \notin Unguarded =>
       /\ name \in DOMAIN CountedOn /\ h.on = CountedOn[name]
       /\ h.guard # "none" /\ h.holder = "place"
       /\ h.after = "thanks" \/ (h.after = "closes" /\ h.on \notin Names)
  /\ h.changes \in {"here", "home", "due", "nothing"}
  /\ h.changes = "here" => h.then = "reload"
  /\ h.changes = "home" => name = "saveProfile"
  /\ h.on # "pick"

LEMMA WebProper == \A name \in DOMAIN Web : Proper(name, Web[name])
<1> USE DEF Proper, Handler, Names, Tabs, Answers, CountedOn, Unguarded
<1>1. /\ Proper("undo", WebUndo) /\ Proper("addExpense", WebAddExpense)
     /\ Proper("updateExpense", WebUpdateExpense) /\ Proper("deleteExpense", WebDeleteExpense)
     /\ Proper("comment", WebComment) /\ Proper("saveSettings", WebSaveSettings)
  BY DEF WebAddExpense, WebComment, WebDeleteExpense, WebLockArchiveLeave,
     WebSaveSettings, WebUndo, WebUpdateExpense
<1>2. /\ Proper("deleteGroup", WebDeleteGroup) /\ Proper("lock", WebLockArchiveLeave)
     /\ Proper("addKnown", WebAddKnown) /\ Proper("emailInvite", WebEmailInvite)
     /\ Proper("inspect", WebInspect) /\ Proper("import", WebImport)
  BY DEF WebAddKnown, WebDeleteGroup, WebEmailInvite, WebImport, WebInspect,
     WebLockArchiveLeave
<1>3. /\ Proper("received", WebReceived) /\ Proper("remind", WebRemind)
     /\ Proper("pay", WebPay) /\ Proper("saveCategories", WebSaveCategories)
     /\ Proper("confirm", WebConfirm) /\ Proper("resend", WebResend)
  BY DEF WebConfirm, WebPay, WebReceived, WebRemind, WebResend, WebSaveCategories
<1>4. /\ Proper("createGroup", WebCreateGroup) /\ Proper("addFriend", WebAddFriend)
     /\ Proper("saveProfile", WebSaveProfile) /\ Proper("avatar", WebAvatar)
     /\ Proper("report", WebReport)
  BY DEF WebAddFriend, WebAvatar, WebCreateGroup, WebReport, WebSaveProfile
<1> HIDE DEF Proper
<1> QED BY <1>1, <1>2, <1>3, <1>4 DEF Web

LEMMA PhoneProper == \A name \in DOMAIN Phone : Proper(name, Phone[name])
<1> USE DEF Proper, Handler, Names, Tabs, Answers, CountedOn, Unguarded
<1>1. /\ Proper("undo", PhoneUndo) /\ Proper("inviteLink", PhoneInviteLink)
     /\ Proper("addExpense", PhoneAddExpense) /\ Proper("updateExpense", PhoneUpdateExpense)
     /\ Proper("deleteExpense", PhoneDeleteExpense) /\ Proper("comment", PhoneComment)
  BY DEF PhoneAddExpense, PhoneComment, PhoneDeleteExpense, PhoneInviteLink, PhoneUndo,
     PhoneUpdateExpense, WebAddExpense, WebComment, WebUpdateExpense
<1>2. /\ Proper("saveSettings", PhoneSaveSettings) /\ Proper("deleteGroup", PhoneDeleteGroup)
     /\ Proper("lock", PhoneLockArchiveLeave) /\ Proper("addKnown", PhoneAddKnown)
     /\ Proper("emailInvite", PhoneEmailInvite) /\ Proper("inspect", PhoneConnect)
  BY DEF PhoneAddKnown, PhoneConnect, PhoneDeleteGroup, PhoneEmailInvite,
     PhoneLockArchiveLeave, PhoneSaveSettings, WebDeleteGroup, WebEmailInvite,
     WebInspect, WebLockArchiveLeave, WebSaveSettings
<1>3. /\ Proper("import", PhoneImport) /\ Proper("received", PhoneReceived)
     /\ Proper("remind", PhoneRemind) /\ Proper("pay", PhonePay)
     /\ Proper("saveCategories", PhoneSaveCategories) /\ Proper("confirm", PhoneConfirm)
  BY DEF PhoneConfirm, PhoneImport, PhonePay, PhoneReceived, PhoneRemind,
     PhoneSaveCategories, WebImport, WebPay, WebReceived, WebRemind, WebSaveCategories
<1>4. /\ Proper("resend", PhoneResend) /\ Proper("createGroup", PhoneCreateGroup)
     /\ Proper("addFriend", PhoneAddFriend) /\ Proper("saveProfile", PhoneSaveProfile)
     /\ Proper("avatar", PhoneAvatar) /\ Proper("report", PhoneReport)
  BY DEF PhoneAddFriend, PhoneAvatar, PhoneCreateGroup, PhoneReport, PhoneResend,
     PhoneSaveProfile, WebAddFriend, WebAvatar, WebCreateGroup, WebReport, WebResend,
     WebSaveProfile
<1> HIDE DEF Proper
<1> QED BY <1>1, <1>2, <1>3, <1>4 DEF Phone

(* A write under way carries one of the client's handlers.                 *)
HandlersProper == \A name \in DOMAIN Handlers : Proper(name, Handlers[name])

LEMMA AllProper == ASSUME client \in {"web", "phone"} PROVE HandlersProper
BY WebProper, PhoneProper DEF HandlersProper, Handlers

-----------------------------------------------------------------------------
(* The invariant                                                           *)

Openings == 1 .. MaxOpens

WriteOK(w) ==
  /\ w.of \in DOMAIN Handlers /\ w.stage \in {"sent", "done", "refused"}
  /\ w.n \in 1 .. opens /\ w.g \in 1 .. opens
  /\ w.screen \in Names /\ w.mount \in 1 .. opens
  /\ w.v \in 0 .. version

Writes ==
  [id : Nat, of : DOMAIN Web \cup DOMAIN Phone, n : Openings, g : Openings, screen : Names, mount : Openings,
   stage : {"sent", "done", "refused"}, v : 0 .. MaxVersion]

Gets ==
  [path : Names \cup {"balances"}, stage : {"asked", "read"}, value : 0 .. MaxVersion,
   for : SUBSET (Names \X Openings)]

SheetsOf(n, v) == [name : WebHomeSheets \cup WebGroupSheets, n : 1 .. n, due : 0 .. v]

Typed ==
  /\ client \in Clients /\ habit \in Habits
  /\ opens \in 1 .. MaxOpens /\ sent \in 0 .. MaxWrites
  /\ sheets \subseteq SheetsOf(opens, version)
  /\ undoable \in 0 .. MaxOpens /\ quick \subseteq Openings
  /\ writes \subseteq Writes /\ \A w \in writes : WriteOK(w)
  /\ gets \subseteq Gets
  /\ shown \in [Names -> 0 .. MaxVersion] /\ floor \in [Names -> 0 .. MaxVersion]
  /\ rows \in [0 .. MaxOpens -> Nat] /\ fails \in [0 .. MaxOpens -> Nat]

(* The server's changes leave room for the person's own.                   *)
Room ==
  /\ version \in 1 .. MaxVersion
  /\ IsFiniteSet(writes)
  /\ version + Cardinality({w \in writes : w.stage = "sent"}) + (MaxWrites - sent)
       <= MaxVersion

(* One page, or the phone's tabs, and sheets over it, each an opening of   *)
(* its own.                                                                *)
Places ==
  /\ screen \in Names /\ mounts \in [Names -> 0 .. MaxOpens]
  /\ mounts[screen] \in 1 .. opens
  /\ \A s \in Names : mounts[s] \in {0, mounts[screen]}
  /\ client = "phone" /\ screen \in Tabs => \A s \in Tabs : mounts[s] = mounts[screen]
  /\ \A sh \in sheets : sh.n # mounts[screen]
  /\ \A a, b \in sheets : a.n = b.n \/ a.name = b.name => a = b
  /\ \A a, b \in sheets : a.name = "member" => b.name # "settle"

Shows(n, on) ==
  \/ \E sh \in sheets : sh.n = n /\ sh.name = on
  \/ on \in Names /\ mounts[on] = n

Guard(w) == <<w.g, Handlers[w.of].guard>>

(* A guard that is up is that of a write that is out, and of an opening    *)
(* that is still there; and while it is there, the guard of a write is up. *)
GuardsUp ==
  /\ \A b \in busy : b[1] \in Open /\ \E w \in writes : b = Guard(w)
  /\ \A w \in writes :
       w.g \in Open /\ Handlers[w.of].guard # "none" => Guard(w) \in busy

OneEach ==
  \A w, k \in writes : Handlers[w.of].guard # "none" /\ Guard(w) = Guard(k) => w = k

(* Where a write comes from.                                               *)
Belongs ==
  \A w \in writes :
    /\ w.n \in Open => Shows(w.n, Handlers[w.of].on)
    /\ w.n \in Open \/ w.g \in Open => mounts[w.screen] = w.mount
    /\ Handlers[w.of].holder = "place" => w.g = w.n
    /\ Handlers[w.of].holder # "place" /\ w.g \in Open => w.g = mounts[screen]

Thanks ==
  \A f \in finished :
    /\ f = <<f[1], f[2]>>
    /\ f[1] \in Open /\ f[2] \in DOMAIN Handlers /\ Shows(f[1], Handlers[f[2]].on)

Guards == GuardsUp /\ OneEach /\ Belongs /\ Thanks

(* What can still become a row of an opening, and why nothing can be added.*)
Sending(n) ==
  IF \E w \in writes : Counts(w.of) /\ w.n = n /\ w.stage = "sent" THEN 1 ELSE 0

Spent(n) ==
  \/ n \notin Open
  \/ \E f \in finished : f[1] = n /\ Counts(f[2])
  \/ \E w \in writes : w.n = n /\ Counts(w.of)

Rows ==
  /\ \A w, k \in writes : Counts(w.of) /\ Counts(k.of) /\ w.n = k.n => w = k
  /\ \A n \in Openings :
       /\ n > opens => rows[n] = 0
       /\ rows[n] + Sending(n) <= 1 + fails[n]
       /\ Spent(n) \/ rows[n] + Sending(n) <= fails[n]

(* One load of a path at a time.  What it has read is no older than what a *)
(* screen of that path shows or was promised, and the screen in front has  *)
(* what it was promised or waits for it.                                   *)
Apart ==
  /\ \A g, k \in gets : g.path = k.path => g = k
  /\ \A g \in gets : g.value <= version /\ \A f \in g.for : g.path = Path(f[1])

Fresh ==
  /\ \A s \in Names : shown[s] <= version /\ floor[s] <= version
  /\ \A g \in gets, s \in Names :
       g.stage = "read" /\ g.path = Path(s) => shown[s] <= g.value /\ floor[s] <= g.value

Awaited == floor[screen] <= shown[screen] \/ \E g \in gets : screen \in Waiting(g)

Loads == Apart /\ Fresh /\ Awaited

IInv == Typed /\ Room /\ Places /\ Guards /\ Rows /\ Loads

LEMMA Bounded == IInv => OneRowPerOpening
<1> SUFFICES ASSUME IInv, NEW n \in Openings PROVE rows[n] <= 1 + fails[n]
  BY DEF OneRowPerOpening, Openings
<1>1. rows[n] \in Nat /\ fails[n] \in Nat
  BY ScreensAssumption DEF IInv, Typed, Openings
<1>2. Sending(n) \in {0, 1}
  BY DEF Sending
<1>3. rows[n] + Sending(n) <= 1 + fails[n]
  BY DEF IInv, Rows
<1> QED BY <1>1, <1>2, <1>3

LEMMA Caught == IInv => CatchesUp
BY DEF IInv, Typed, Places, Loads, Awaited, CatchesUp

LEMMA InvTyped == IInv => TypeOK
<1> SUFFICES ASSUME IInv PROVE TypeOK
  OBVIOUS
<1> USE ScreensAssumption DEF IInv
<1>1. client \in Clients /\ habit \in Habits /\ screen \in Names
      /\ mounts \in [Names -> 0 .. MaxOpens] /\ mounts[screen] # 0
  BY DEF Typed, Places
<1>2. \A sh \in sheets : sh.n \in 1 .. opens /\ sh.due \in 0 .. MaxVersion
  <2> SUFFICES ASSUME NEW sh \in sheets
               PROVE  sh.n \in 1 .. opens /\ sh.due \in 0 .. MaxVersion
    OBVIOUS
  <2>1. sh.n \in 1 .. opens /\ sh.due \in 0 .. version
    BY DEF Typed, SheetsOf
  <2> QED BY <2>1 DEF Room
<1>3. \A w \in writes : w.of \in DOMAIN Handlers /\ w.stage \in {"sent", "done", "refused"}
  BY DEF Typed, WriteOK
<1>4. \A b \in busy : \E w \in writes : b = <<w.g, Handlers[w.of].guard>>
  BY DEF Guards, GuardsUp, Guard
<1>5. \A g \in gets : g.stage \in {"asked", "read"} /\ g.value \in 0 .. MaxVersion
  BY DEF Typed, Gets
<1>6. /\ undoable \in 0 .. MaxOpens /\ quick \subseteq 1 .. MaxOpens
      /\ version \in 1 .. MaxVersion
      /\ shown \in [Names -> 0 .. MaxVersion] /\ floor \in [Names -> 0 .. MaxVersion]
      /\ rows \in [0 .. MaxOpens -> Nat] /\ fails \in [0 .. MaxOpens -> Nat]
      /\ opens \in 0 .. MaxOpens /\ sent \in 0 .. MaxWrites
  BY DEF Typed, Room, Openings
<1>7. \A a, b \in sheets : a.name = b.name => a = b
  BY DEF Places
<1> QED BY <1>1, <1>2, <1>3, <1>4, <1>5, <1>6, <1>7 DEF TypeOK

-----------------------------------------------------------------------------
(* Openings and what they show                                             *)

LEMMA OpenIs ==
  ASSUME Places
  PROVE  \A n : n \in Open <=> n = mounts[screen] \/ \E sh \in sheets : sh.n = n
BY DEF Places, Open

LEMMA OpenIsNext ==
  ASSUME Places'
  PROVE  \A n : n \in Open' <=> n = mounts'[screen'] \/ \E sh \in sheets' : sh.n = n
BY DEF Places, Open

(* Of the forms whose rows are counted an opening shows one.               *)
LEMMA OneCounted ==
  ASSUME Places, HandlersProper, NEW n, n # 0,
         NEW a \in DOMAIN Handlers, NEW b \in DOMAIN Handlers, Counts(a), Counts(b),
         Shows(n, Handlers[a].on), Shows(n, Handlers[b].on)
  PROVE  a = b
<1>1. /\ a \in DOMAIN CountedOn /\ Handlers[a].on = CountedOn[a]
      /\ b \in DOMAIN CountedOn /\ Handlers[b].on = CountedOn[b]
  BY DEF HandlersProper, Proper, Counts
<1>2. Handlers[a].on = Handlers[b].on
  BY <1>1 DEF Shows, Places, CountedOn, Names, Tabs
<1> QED BY <1>1, <1>2 DEF CountedOn

(* The button a person presses is on something open that shows its form.   *)
LEMMA OnOpen ==
  ASSUME Places, Typed, NEW h, On(h) # 0
  PROVE  On(h) \in Open /\ On(h) \in 1 .. opens /\ Shows(On(h), h.on)
<1> DEFINE over == {sh.n : sh \in {k \in sheets : k.name = h.on}}
<1>1. CASE over # {}
  <2>1. On(h) \in over
    BY <1>1 DEF On
  <2> QED BY <2>1, OpenIs DEF Shows, Typed, SheetsOf
<1>2. CASE over = {}
  <2>1. h.on = screen /\ On(h) = mounts[screen]
    BY <1>2 DEF On
  <2> QED BY <2>1, OpenIs DEF Shows, Places
<1> QED BY <1>1, <1>2

-----------------------------------------------------------------------------
(* What a load does                                                        *)

LEMMA PathOfName == \A s \in Names : Path(s) \in Names \cup {"balances"}
BY DEF Path

Asked(s, m) == [path |-> Path(s), stage |-> "asked", value |-> 0, for |-> {<<s, m>>}]

Joined(k, s, m) == [k EXCEPT !.for = @ \cup {<<s, m>>}]

LEMMA JoinedIs ==
  ASSUME NEW k \in Gets, NEW s, NEW m
  PROVE  /\ Joined(k, s, m).path = k.path /\ Joined(k, s, m).stage = k.stage
         /\ Joined(k, s, m).value = k.value
         /\ Joined(k, s, m).for = k.for \cup {<<s, m>>}
         /\ s \in Names /\ m \in Openings => Joined(k, s, m) \in Gets
BY DEF Gets, Joined

(* Each load after is one of before, joined if it is of the path, or new.  *)
LEMMA LoadIs ==
  ASSUME NEW asked, asked \subseteq Gets, NEW s, NEW m
  PROVE  /\ \A g \in Load(asked, s, m) :
              \/ g \in asked /\ g.path # Path(s)
              \/ \E k \in asked : k.path = Path(s) /\ g = Joined(k, s, m)
              \/ g = Asked(s, m) /\ \A k \in asked : k.path # Path(s)
         /\ \A k \in asked : k \in Load(asked, s, m) \/ Joined(k, s, m) \in Load(asked, s, m)
         /\ \E g \in Load(asked, s, m) : <<s, m>> \in g.for
<1> DEFINE running == {g \in asked : g.path = Path(s)}
<1>1. CASE running = {}
  <2>1. Load(asked, s, m) = asked \cup {Asked(s, m)}
    BY <1>1 DEF Load, Asked
  <2>2. <<s, m>> \in Asked(s, m).for
    BY DEF Asked
  <2> QED BY <1>1, <2>1, <2>2
<1>2. CASE running # {}
  <2>1. Load(asked, s, m) = (asked \ running) \cup {Joined(k, s, m) : k \in running}
    BY <1>2 DEF Load, Joined
  <2>2. PICK k \in running : TRUE
    BY <1>2
  <2>3. <<s, m>> \in Joined(k, s, m).for
    BY JoinedIs
  <2> QED BY <2>1, <2>2, <2>3
<1> QED BY <1>1, <1>2

LEMMA LoadTyped ==
  ASSUME NEW asked, asked \subseteq Gets, NEW s \in Names, NEW m \in Openings
  PROVE  Load(asked, s, m) \subseteq Gets
<1>1. Asked(s, m) \in Gets
  BY PathOfName, ScreensAssumption DEF Gets, Asked
<1>2. \A k \in asked : Joined(k, s, m) \in Gets
  BY JoinedIs
<1>3. \A g \in Load(asked, s, m) :
        \/ g \in asked /\ g.path # Path(s)
        \/ \E k \in asked : k.path = Path(s) /\ g = Joined(k, s, m)
        \/ g = Asked(s, m) /\ \A k \in asked : k.path # Path(s)
  BY LoadIs
<1> QED BY <1>1, <1>2, <1>3

(* Still one load of a path at a time, which answers the screens of it.    *)
LEMMA LoadApart ==
  ASSUME version \in Nat, version' = version, NEW asked, asked \subseteq Gets,
         \A k \in asked : k.value <= version /\ \A f \in k.for : k.path = Path(f[1]),
         \A g, k \in asked : g.path = k.path => g = k,
         NEW s \in Names, NEW m, gets' = Load(asked, s, m)
  PROVE  Apart'
<1>0. Asked(s, m).path = Path(s) /\ Asked(s, m).value = 0 /\ Asked(s, m).for = {<<s, m>>}
  BY DEF Asked
<1>1. \A k \in asked : /\ Joined(k, s, m).path = k.path
                       /\ Joined(k, s, m).value = k.value
                       /\ Joined(k, s, m).for = k.for \cup {<<s, m>>}
  BY JoinedIs
<1>2. \A g \in gets' :
        \/ g \in asked /\ g.path # Path(s)
        \/ \E k \in asked : k.path = Path(s) /\ g = Joined(k, s, m)
        \/ g = Asked(s, m) /\ \A k \in asked : k.path # Path(s)
  BY LoadIs
<1>3. \A g, k \in gets' : g.path = k.path => g = k
  BY <1>0, <1>1, <1>2
<1>4. \A g \in gets' : g.value <= version' /\ \A f \in g.for : g.path = Path(f[1])
  <2> SUFFICES ASSUME NEW g \in gets'
               PROVE  g.value <= version' /\ \A f \in g.for : g.path = Path(f[1])
    OBVIOUS
  <2>1. CASE g \in asked
    BY <2>1
  <2>2. CASE \E k \in asked : k.path = Path(s) /\ g = Joined(k, s, m)
    BY <2>2, <1>1
  <2>3. CASE g = Asked(s, m)
    BY <2>3, <1>0
  <2> QED BY <1>2, <2>1, <2>2, <2>3
<1> QED BY <1>3, <1>4 DEF Apart

(* What has been read stays as new.                                        *)
LEMMA LoadFresh ==
  ASSUME NEW asked, asked \subseteq Gets, NEW s \in Names, NEW m,
         gets' = Load(asked, s, m),
         \A t \in Names : shown'[t] <= version' /\ floor'[t] <= version',
         \A g \in asked, t \in Names :
           g.stage = "read" /\ g.path = Path(t) =>
             shown'[t] <= g.value /\ floor'[t] <= g.value
  PROVE  Fresh'
<1>0. Asked(s, m).stage = "asked"
  BY DEF Asked
<1>1. \A k \in asked : /\ Joined(k, s, m).path = k.path
                       /\ Joined(k, s, m).value = k.value
                       /\ Joined(k, s, m).stage = k.stage
  BY JoinedIs
<1>2. \A g \in gets' :
        \/ g \in asked /\ g.path # Path(s)
        \/ \E k \in asked : k.path = Path(s) /\ g = Joined(k, s, m)
        \/ g = Asked(s, m) /\ \A k \in asked : k.path # Path(s)
  BY LoadIs
<1>3. \A g \in gets' : g.stage = "read" =>
        \E k \in asked : k.stage = "read" /\ g.path = k.path /\ g.value = k.value
  <2> SUFFICES ASSUME NEW g \in gets', g.stage = "read"
               PROVE  \E k \in asked : k.stage = "read" /\ g.path = k.path /\ g.value = k.value
    OBVIOUS
  <2>1. CASE g \in asked
    BY <2>1
  <2>2. CASE \E k \in asked : g = Joined(k, s, m)
    BY <2>2, <1>1
  <2> QED BY <1>0, <1>2, <2>1, <2>2
<1> QED BY <1>3 DEF Fresh

(* Who asks, and who had asked, is answered.                               *)
LEMMA LoadAnswers ==
  ASSUME NEW asked, asked \subseteq Gets, NEW s, NEW m, NEW f,
         f = <<s, m>> \/ \E k \in asked : f \in k.for
  PROVE  \E g \in Load(asked, s, m) : f \in g.for
<1>1. CASE f = <<s, m>>
  BY <1>1, LoadIs
<1>2. CASE \E k \in asked : f \in k.for
  <2>1. PICK k \in asked : f \in k.for
    BY <1>2
  <2>2. f \in Joined(k, s, m).for
    BY <2>1, JoinedIs
  <2>3. k \in Load(asked, s, m) \/ Joined(k, s, m) \in Load(asked, s, m)
    BY LoadIs
  <2> QED BY <2>1, <2>2, <2>3
<1> QED BY <1>1, <1>2

-----------------------------------------------------------------------------
(* What a step leaves alone                                                *)

(* An opening that is still there shows what it showed.                    *)
Kept(n) ==
  n \in Open' =>
    /\ n \in Open /\ mounts' = mounts /\ mounts'[screen'] = mounts[screen]
    /\ \A on : Shows(n, on) => Shows(n, on)'

LEMMA WritesKept ==
  ASSUME Typed, version \in Nat, client' = client,
         opens' \in Nat, opens' >= opens, version' \in Nat, version' >= version,
         writes' \subseteq writes
  PROVE  writes' \subseteq Writes /\ \A w \in writes' : WriteOK(w)'
<1>1. writes' \subseteq Writes
  BY DEF Typed
<1>2. ASSUME NEW w \in writes' PROVE WriteOK(w)'
  <2>1. WriteOK(w) /\ opens \in Nat
    BY DEF Typed
  <2>2. Handlers' = Handlers
    BY DEF Handlers
  <2> QED BY <2>1, <2>2 DEF WriteOK
<1> QED BY <1>1, <1>2

LEMMA RoomKept ==
  ASSUME Room, Typed, writes' \subseteq writes, version' = version, sent' = sent
  PROVE  Room'
<1> DEFINE out == {w \in writes : w.stage = "sent"}
<1>1. IsFiniteSet(writes') /\ IsFiniteSet(out)
  BY FS_Subset DEF Room
<1>2. out' \subseteq out
  OBVIOUS
<1>3. Cardinality(out') <= Cardinality(out) /\ Cardinality(out) \in Nat /\ Cardinality(out') \in Nat
  BY <1>1, <1>2, FS_Subset, FS_CardinalityType
<1> QED BY <1>1, <1>3, ScreensAssumption DEF Room, Typed

LEMMA BelongsKept ==
  ASSUME Typed, Belongs, client' = client, writes' \subseteq writes,
         \A n \in 1 .. opens : Kept(n)
  PROVE  Belongs'
<1>1. Handlers' = Handlers
  BY DEF Handlers
<1> SUFFICES ASSUME NEW w \in writes'
             PROVE  /\ w.n \in Open' => Shows(w.n, Handlers[w.of].on)'
                    /\ w.n \in Open' \/ w.g \in Open' => mounts'[w.screen] = w.mount
                    /\ Handlers[w.of].holder = "place" => w.g = w.n
                    /\ Handlers[w.of].holder # "place" /\ w.g \in Open'
                         => w.g = mounts'[screen']
  BY <1>1 DEF Belongs
<1>2. w.n \in 1 .. opens /\ w.g \in 1 .. opens
  BY DEF Typed, WriteOK
<1>3. Kept(w.n) /\ Kept(w.g)
  BY <1>2
<1> QED BY <1>1, <1>3 DEF Belongs, Kept

LEMMA OneEachKept ==
  ASSUME OneEach, client' = client, writes' \subseteq writes PROVE OneEach'
<1>1. Handlers' = Handlers
  BY DEF Handlers
<1> QED BY <1>1 DEF OneEach, Guard

(* No write is added, and none that made a row leaves while its form is    *)
(* there to be pressed again.                                              *)
LEMMA RowsKept ==
  ASSUME Typed, Rows, client' = client, opens' \in Nat, opens' >= opens,
         UNCHANGED counts, writes' \subseteq writes,
         \A n \in 1 .. opens : n \in Open' => n \in Open,
         \A f \in finished : f[1] \in Open' => f \in finished',
         \A w \in writes \ writes' :
           Counts(w.of) /\ w.n \in Open' => <<w.n, w.of>> \in finished'
  PROVE  Rows'
<1>1. \A name : Counts(name)' <=> Counts(name)
  BY DEF Counts, Handlers
<1>2. \A w, k \in writes' : Counts(w.of)' /\ Counts(k.of)' /\ w.n = k.n => w = k
  BY <1>1 DEF Rows
<1> SUFFICES ASSUME NEW n \in Openings
             PROVE  /\ n > opens' => rows'[n] = 0
                    /\ rows'[n] + Sending(n)' <= 1 + fails'[n]
                    /\ Spent(n)' \/ rows'[n] + Sending(n)' <= fails'[n]
  BY <1>2 DEF Rows
<1>3. rows'[n] = rows[n] /\ fails'[n] = fails[n] /\ rows[n] \in Nat /\ fails[n] \in Nat
  BY DEF counts, Typed, Openings
<1>4. Sending(n) \in {0, 1} /\ Sending(n)' \in {0, 1} /\ Sending(n)' <= Sending(n)
  BY <1>1 DEF Sending
<1>5. n > opens => rows[n] = 0
  BY DEF Rows
<1>6. n \in Nat /\ opens \in Nat
  BY ScreensAssumption DEF Openings, Typed
<1>7. rows[n] + Sending(n) <= 1 + fails[n]
  BY DEF Rows
<1>8. CASE n > opens
  <2>1. Sending(n)' = 0
    BY <1>8, <1>6 DEF Sending, Typed, WriteOK
  <2> QED BY <2>1, <1>3, <1>4, <1>5, <1>6, <1>8
<1>9. CASE n <= opens /\ Spent(n)
  <2>1. n \in 1 .. opens
    BY <1>9, <1>6 DEF Openings
  <2>2. ASSUME n \in Open' PROVE Spent(n)'
    <3>1. CASE \E f \in finished : f[1] = n /\ Counts(f[2])
      BY <3>1, <2>2, <1>1 DEF Spent
    <3>2. CASE \E w \in writes : w.n = n /\ Counts(w.of)
      <4>1. PICK w \in writes : w.n = n /\ Counts(w.of)
        BY <3>2
      <4>2. CASE w \in writes'
        BY <4>1, <4>2, <1>1 DEF Spent
      <4>3. CASE w \notin writes'
        <5>1. <<n, w.of>> \in finished'
          BY <4>1, <4>3, <2>2
        <5> QED BY <5>1, <4>1, <1>1 DEF Spent
      <4> QED BY <4>2, <4>3
    <3> QED BY <3>1, <3>2, <1>9, <2>1, <2>2 DEF Spent
  <2>3. Spent(n)'
    BY <2>2 DEF Spent
  <2> QED BY <2>3, <1>3, <1>4, <1>5, <1>6, <1>7, <1>9
<1>10. CASE n <= opens /\ ~Spent(n)
  <2>1. rows[n] + Sending(n) <= fails[n]
    BY <1>10 DEF Rows
  <2> QED BY <2>1, <1>3, <1>4, <1>5, <1>6, <1>10
<1> QED BY <1>6, <1>8, <1>9, <1>10

-----------------------------------------------------------------------------
(* The steps.  Somewhere else, nothing of before is open.                  *)

Cleared(k) == [k EXCEPT !.for = {}]

LEMMA ClearedIs ==
  ASSUME NEW k \in Gets
  PROVE  /\ Cleared(k) \in Gets /\ Cleared(k).path = k.path /\ Cleared(k).stage = k.stage
         /\ Cleared(k).value = k.value /\ Cleared(k).for = {}
BY DEF Gets, Cleared

LEMMA GotoKeeps ==
  ASSUME IInv, NEW s \in Names, Goto(s), UNCHANGED <<self, counts, version, sent>>,
         writes' \subseteq writes
  PROVE  IInv'
<1> USE ScreensAssumption DEF IInv, self
<1>1. /\ opens' = opens + 1 /\ opens \in Nat /\ opens' \in 1 .. MaxOpens /\ opens' \in Openings
      /\ version \in Nat
  BY DEF Goto, Typed, Openings, Room
<1>2. mounts' = [k \in Names |-> IF k = s \/ (client = "phone" /\ s \in Tabs /\ k \in Tabs)
                                 THEN opens' ELSE 0]
  BY <1>1 DEF Goto, Mounted
<1>3. Places'
  <2>1. /\ screen' = s /\ sheets' = {} /\ client' = client
        /\ mounts' \in [Names -> {0, opens'}] /\ mounts'[s] = opens'
    BY <1>2 DEF Goto
  <2>2. client = "phone" /\ s \in Tabs => \A k \in Tabs : mounts'[k] = opens'
    BY <1>2 DEF Names
  <2> QED BY <1>1, <2>1, <2>2 DEF Places
<1>4. \A n : n \in Open' <=> n = opens'
  BY <1>2, <1>3, OpenIsNext DEF Goto
<1>5. \A n \in 1 .. opens : n \notin Open' /\ Kept(n)
  BY <1>1, <1>4 DEF Kept
<1>6. \A w \in writes : w.n \in 1 .. opens /\ w.g \in 1 .. opens
  BY DEF Typed, WriteOK
<1>7. Guards'
  <2>1. GuardsUp' /\ Thanks'
    BY <1>5, <1>6 DEF Goto, GuardsUp, Thanks
  <2>2. OneEach' /\ Belongs'
    BY <1>5, OneEachKept, BelongsKept DEF Guards
  <2> QED BY <2>1, <2>2 DEF Guards
<1>8. Rows'
  <2>1. \A f \in finished : f[1] \notin Open'
    BY <1>5, OpenIs DEF Guards, Thanks, Places, Typed, SheetsOf
  <2> QED BY <2>1, <1>1, <1>5, <1>6, RowsKept
<1> DEFINE left == {Cleared(g) : g \in gets}
<1>9. \A k \in gets :
        /\ k \in Gets /\ Cleared(k) \in Gets /\ Cleared(k).path = k.path
        /\ Cleared(k).stage = k.stage /\ Cleared(k).value = k.value /\ Cleared(k).for = {}
  BY ClearedIs DEF Typed
<1>10. gets' = Load(left, s, opens')
  BY <1>1 DEF Goto, Cleared
<1>11. Loads'
  <2>1. Apart'
    <3>1. \A g, k \in left : g.path = k.path => g = k
      BY <1>9 DEF Loads, Apart
    <3>2. \A k \in left : k.value <= version /\ \A f \in k.for : k.path = Path(f[1])
      BY <1>9 DEF Loads, Apart
    <3>3. left \subseteq Gets
      BY <1>9
    <3> HIDE DEF left
    <3> QED BY <3>1, <3>2, <3>3, <1>1, <1>10, LoadApart
  <2>2. Fresh'
    <3>1. \A t \in Names : shown'[t] = 0 /\ floor'[t] = 0
      BY DEF Goto, Zeros
    <3>2. left \subseteq Gets /\ \A g \in left : g.value \in Nat
      BY <1>9 DEF Gets
    <3> HIDE DEF left
    <3> QED BY <3>1, <3>2, <1>1, <1>10, LoadFresh
  <2>3. Awaited'
    BY DEF Goto, Zeros, Awaited
  <2> QED BY <2>1, <2>2, <2>3 DEF Loads
<1>12. Typed'
  <2>1. gets' \subseteq Gets
    <3>1. left \subseteq Gets
      BY <1>9
    <3> HIDE DEF left
    <3> QED BY <3>1, <1>1, <1>10, LoadTyped
  <2>2. writes' \subseteq Writes /\ \A w \in writes' : WriteOK(w)'
    BY <1>1, WritesKept
  <2>3. shown' \in [Names -> 0 .. MaxVersion] /\ floor' \in [Names -> 0 .. MaxVersion]
    BY DEF Goto, Zeros
  <2>4. sheets' = {} /\ undoable' = 0 /\ quick' = {}
    BY DEF Goto
  <2>5. rows' = rows /\ fails' = fails /\ client' = client /\ habit' = habit /\ sent' = sent
    BY DEF counts
  <2> QED BY <2>1, <2>2, <2>3, <2>4, <2>5, <1>1 DEF Typed
<1> QED BY <1>3, <1>7, <1>8, <1>11, <1>12, RoomKept

-----------------------------------------------------------------------------
(* Sheets come and go over a page that stays.                              *)

LEMMA LoadsSame ==
  ASSUME Typed, Loads, UNCHANGED <<gets, shown, floor, screen, mounts>>,
         version \in Nat, version' \in Nat, version' >= version
  PROVE  Loads'
<1>1. Apart'
  BY DEF Typed, Loads, Apart, Gets
<1>2. Fresh'
  BY DEF Typed, Loads, Fresh
<1>3. Awaited'
  BY DEF Loads, Awaited, Waiting
<1> QED BY <1>1, <1>2, <1>3 DEF Loads

LEMMA KeptBySheets ==
  ASSUME Places, Places', UNCHANGED <<screen, mounts>>, NEW n \in 1 .. opens, opens \in Nat,
         \A sh \in sheets' :
           sh.n = opens + 1 \/ \E k \in sheets : k.n = sh.n /\ k.name = sh.name
  PROVE  Kept(n)
<1> SUFFICES ASSUME n \in Open'
             PROVE  n \in Open /\ \A on : Shows(n, on) => Shows(n, on)'
  BY DEF Kept
<1>1. CASE n = mounts[screen]
  BY <1>1, OpenIs DEF Shows, Places
<1>2. CASE n # mounts[screen]
  <2>1. PICK sh \in sheets' : sh.n = n
    BY <1>2, OpenIsNext
  <2>2. PICK k \in sheets : k.n = n /\ k.name = sh.name
    BY <2>1
  <2>3. \A on : Shows(n, on) => on = k.name
    BY <2>2, <1>2, ScreensAssumption DEF Shows, Places
  <2>4. Shows(n, k.name)'
    BY <2>1, <2>2 DEF Shows
  <2> QED BY <2>2, <2>3, <2>4, OpenIs
<1> QED BY <1>1, <1>2

(* A form that goes takes its guards and its thanks with it.               *)
LEMMA GuardsKept ==
  ASSUME Typed, Guards, Rows, UNCHANGED <<client, writes, counts>>,
         opens' \in Nat, opens' >= opens, \A n \in 1 .. opens : Kept(n),
         \A b : b \in busy' <=> b \in busy /\ b[1] \in Open',
         \A f : f \in finished' <=> f \in finished /\ f[1] \in Open',
         \A f \in finished : f[1] \in 1 .. opens
  PROVE  Guards' /\ Rows'
<1>0. Handlers' = Handlers
  BY DEF Handlers
<1>1. \A w \in writes : w.n \in 1 .. opens /\ w.g \in 1 .. opens
  BY DEF Typed, WriteOK
<1>2. OneEach' /\ Belongs'
  BY OneEachKept, BelongsKept DEF Guards
<1>3. GuardsUp'
  <2>1. \A b \in busy' : b[1] \in Open' /\ \E w \in writes' : b = Guard(w)'
    BY <1>0 DEF Guards, GuardsUp, Guard
  <2>2. ASSUME NEW w \in writes, w.g \in Open', Handlers[w.of].guard # "none"
        PROVE  Guard(w) \in busy'
    <3>1. w.g \in Open
      BY <1>1, <2>2 DEF Kept
    <3> QED BY <2>2, <3>1 DEF Guards, GuardsUp, Guard
  <2> QED BY <2>1, <2>2, <1>0 DEF GuardsUp, Guard
<1>4. Thanks'
  BY <1>0 DEF Guards, Thanks, Kept
<1>5. Rows'
  BY <1>1, RowsKept DEF Kept
<1> QED BY <1>2, <1>3, <1>4, <1>5 DEF Guards

LEMMA GuardsOpen ==
  ASSUME IInv
  PROVE  /\ \A b \in busy : b[1] \in Open /\ b[1] \in 1 .. opens
         /\ \A f \in finished : f[1] \in Open /\ f[1] \in 1 .. opens
<1>1. \A n \in Open : n \in 1 .. opens
  BY OpenIs DEF IInv, Typed, Places, SheetsOf
<1> QED BY <1>1 DEF IInv, Guards, GuardsUp, Thanks

LEMMA NamesOfSheets ==
  /\ PageSheets \subseteq WebHomeSheets \cup WebGroupSheets
  /\ {"adding", "settle", "invite"} \subseteq WebHomeSheets \cup WebGroupSheets
BY DEF PageSheets, WebHomeSheets, WebGroupSheets, PhoneTabSheets, PhoneGroupSheets

LEMMA SheetIs ==
  ASSUME NEW name, NEW n PROVE Sheet(name, n).name = name /\ Sheet(name, n).n = n
BY DEF Sheet

LEMMA OpenSheetKeeps == ASSUME IInv, OpenSheet PROVE IInv'
<1> USE ScreensAssumption DEF IInv
<1>1. /\ opens' = opens + 1 /\ opens \in Nat /\ opens' \in 1 .. MaxOpens
      /\ UNCHANGED <<self, screen, mounts, guards, writes, counts, loads, version, sent>>
  BY DEF OpenSheet, Typed
<1>2. PICK name \in WebHomeSheets \cup WebGroupSheets : sheets' = {Sheet(name, opens')}
  BY <1>1, NamesOfSheets DEF OpenSheet
<1>3. Places'
  BY <1>1, <1>2, SheetIs DEF Places, self
<1>4. \A n \in 1 .. opens : Kept(n)
  BY <1>1, <1>2, <1>3, SheetIs, KeptBySheets
<1>5. Guards' /\ Rows'
  <2>1. \A n \in Open : n \in Open'
    BY <1>1, <1>3, OpenIs, OpenIsNext DEF OpenSheet
  <2> QED BY <1>1, <1>4, <2>1, GuardsOpen, GuardsKept DEF self, guards
<1>6. Typed'
  <2>1. sheets' \subseteq SheetsOf(opens, version)'
    BY <1>1, <1>2 DEF Sheet, SheetsOf, Room
  <2>2. writes' \subseteq Writes /\ \A w \in writes' : WriteOK(w)'
    BY <1>1, WritesKept DEF self, Room
  <2> QED BY <1>1, <2>1, <2>2 DEF Typed, self, guards, counts, loads
<1>7. Loads' /\ Room'
  BY <1>1, LoadsSame, RoomKept DEF loads, Room
<1> QED BY <1>3, <1>5, <1>6, <1>7

(* A sheet that is left, with what may open next and may be loaded.        *)
LEMMA LeaveKeeps ==
  ASSUME IInv, NEW sh \in sheets, NEW next, Leave(sh, next),
         \/ next = {} /\ opens' = opens
         \/ /\ sh.name = "member" /\ opens < MaxOpens
            /\ opens' = opens + 1 /\ next = {Sheet("settle", opens')}
  PROVE  /\ Places' /\ Guards' /\ Rows' /\ Room'
         /\ sheets' \subseteq SheetsOf(opens, version)' /\ opens' \in 1 .. MaxOpens
         /\ writes' \subseteq Writes /\ \A w \in writes' : WriteOK(w)'
<1> USE ScreensAssumption DEF IInv
<1>1. /\ opens \in Nat /\ opens' \in 1 .. MaxOpens /\ opens' >= opens
      /\ UNCHANGED <<self, screen, mounts, undoable, quick, writes, counts, shown, version, sent>>
  BY DEF Leave, Typed
<1>2. \A k \in sheets' : (k \in sheets /\ k # sh) \/ (k \in next)
  BY DEF Leave
<1>3. \A k \in next : /\ opens' = opens + 1 /\ sh.name = "member"
                      /\ k.n = opens' /\ k.name = "settle"
                      /\ k = Sheet("settle", opens')
  BY SheetIs
<1>4. \A k \in sheets : k.n \in 1 .. opens
  BY DEF Typed, SheetsOf
<1>5. Places'
  <2>1. /\ screen' = screen /\ mounts' = mounts /\ client' = client
    BY <1>1 DEF self
  <2>2. \A k \in sheets' : k.n # mounts[screen]
    BY <1>1, <1>2, <1>3 DEF Places
  <2>3. \A a, b \in sheets' : a.n = b.n \/ a.name = b.name => a = b
    <3> SUFFICES ASSUME NEW a \in sheets', NEW b \in sheets', a.n = b.n \/ a.name = b.name
                 PROVE  a = b
      OBVIOUS
    <3>1. CASE a \in sheets /\ b \in sheets
      BY <3>1 DEF Places
    <3>2. CASE a \in next /\ b \in next
      BY <3>2, <1>3
    <3>3. ASSUME NEW c \in sheets, NEW d \in next PROVE c.n # d.n /\ c.name # d.name
      BY <3>3, <1>1, <1>3, <1>4 DEF Places
    <3> QED BY <1>2, <3>1, <3>2, <3>3
  <2>4. \A a, b \in sheets' : a.name = "member" => b.name # "settle"
    BY <1>2, <1>3 DEF Places
  <2> QED BY <1>1, <2>1, <2>2, <2>3, <2>4 DEF Places
<1>6. \A n \in 1 .. opens : Kept(n)
  BY <1>1, <1>2, <1>3, <1>5, KeptBySheets
<1>7. \A n \in 1 .. opens : n \in Open' <=> n \in Open /\ n # sh.n
  <2> SUFFICES ASSUME NEW n \in 1 .. opens PROVE n \in Open' <=> n \in Open /\ n # sh.n
    OBVIOUS
  <2>1. n \in Open' <=> n = mounts[screen] \/ \E k \in sheets' : k.n = n
    BY <1>1, <1>5, OpenIsNext
  <2>2. (\E k \in sheets' : k.n = n) <=> \E k \in sheets : k # sh /\ k.n = n
    BY <1>1, <1>2, <1>3 DEF Leave
  <2>3. \A k \in sheets : k # sh <=> k.n # sh.n
    BY DEF Places
  <2> QED BY <2>1, <2>2, <2>3, OpenIs DEF Places
<1>8. Guards' /\ Rows'
  BY <1>1, <1>6, <1>7, GuardsOpen, GuardsKept DEF Leave, self
<1>9. sheets' \subseteq SheetsOf(opens, version)'
  <2>1. \A k \in next : k \in SheetsOf(opens, version)'
    BY <1>1, <1>3, NamesOfSheets DEF Sheet, SheetsOf, Room
  <2>2. \A k \in sheets : k \in SheetsOf(opens, version)'
    BY <1>1 DEF Typed, SheetsOf
  <2> QED BY <1>2, <2>1, <2>2
<1>10. writes' \subseteq Writes /\ \A w \in writes' : WriteOK(w)'
  BY <1>1, WritesKept DEF self, Room
<1> QED BY <1>1, <1>5, <1>8, <1>9, <1>10, RoomKept

(* A promise is kept within what the server has and what has been read.    *)
LEMMA PromiseIs ==
  ASSUME Typed, Room, Loads, NEW s \in Names, NEW owed \in 0 .. version
  PROVE  /\ Promise(s, owed) \in 0 .. MaxVersion /\ Promise(s, owed) <= version
         /\ \A g \in gets :
              g.stage = "read" /\ g.path = Path(s) => Promise(s, owed) <= g.value
<1> USE ScreensAssumption
<1>1. floor[s] \in 0 .. MaxVersion /\ floor[s] <= version /\ version \in 1 .. MaxVersion
  BY DEF Typed, Room, Loads, Fresh
<1>2. Promise(s, owed) \in {floor[s], owed}
  BY DEF Promise, Larger
<1>3. \A g \in gets : g.stage = "read" /\ g.path = Path(s) /\ g.value < owed =>
        Promise(s, owed) = floor[s]
  BY DEF Promise, Beforehand
<1>4. \A g \in gets : g.value \in Nat /\
        (g.stage = "read" /\ g.path = Path(s) => floor[s] <= g.value)
  BY DEF Typed, Gets, Loads, Fresh
<1> QED BY <1>1, <1>2, <1>3, <1>4

LEMMA PromisesKeep ==
  ASSUME Typed, Room, Loads, NEW owed \in 0 .. version, NEW due,
         UNCHANGED <<shown, version>>, gets' \subseteq Gets, Apart',
         \A g \in gets' : g.stage = "read" =>
           \E k \in gets : k.stage = "read" /\ k.path = g.path /\ k.value = g.value,
         floor' = [s \in Names |-> IF s \in due THEN Promise(s, owed) ELSE floor[s]]
  PROVE  Fresh' /\ floor' \in [Names -> 0 .. MaxVersion]
<1>1. \A s \in Names : floor[s] \in 0 .. MaxVersion
  BY DEF Typed
<1>2. \A s \in Names : floor'[s] \in 0 .. MaxVersion /\ floor'[s] <= version
  BY <1>1, PromiseIs DEF Loads, Fresh
<1>3. \A g \in gets, s \in Names :
        g.stage = "read" /\ g.path = Path(s) => shown[s] <= g.value /\ floor'[s] <= g.value
  BY PromiseIs DEF Loads, Fresh
<1>4. Fresh'
  BY <1>2, <1>3 DEF Loads, Fresh
<1> QED BY <1>2, <1>4

LEMMA LoadReads ==
  ASSUME NEW asked, asked \subseteq Gets, NEW s, NEW m
  PROVE  \A g \in Load(asked, s, m) : g.stage = "read" =>
           \E k \in asked : k.stage = "read" /\ k.path = g.path /\ k.value = g.value
<1> SUFFICES ASSUME NEW g \in Load(asked, s, m), g.stage = "read"
             PROVE  \E k \in asked : k.stage = "read" /\ k.path = g.path /\ k.value = g.value
  OBVIOUS
<1>1. \/ g \in asked /\ g.path # Path(s)
      \/ \E k \in asked : k.path = Path(s) /\ g = Joined(k, s, m)
      \/ g = Asked(s, m) /\ \A k \in asked : k.path # Path(s)
  BY LoadIs
<1>2. CASE \E k \in asked : g = Joined(k, s, m)
  <2>1. PICK k \in asked : g = Joined(k, s, m)
    BY <1>2
  <2>2. k \in Gets
    OBVIOUS
  <2> QED BY <2>1, <2>2, JoinedIs
<1> QED BY <1>1, <1>2 DEF Asked

(* The screen in front asks again, and is promised what is owed to it.     *)
LEMMA ReloadKeeps ==
  ASSUME Typed, Room, Places, Loads, UNCHANGED <<screen, mounts, shown, version>>,
         NEW owed \in 0 .. version,
         gets' = Load(gets, screen, mounts[screen]),
         floor' = [floor EXCEPT ![screen] = Promise(screen, owed)]
  PROVE  Loads' /\ gets' \subseteq Gets /\ floor' \in [Names -> 0 .. MaxVersion]
<1>1. mounts[screen] \in Openings /\ screen \in Names /\ gets \subseteq Gets /\ version \in Nat
  BY ScreensAssumption DEF Typed, Room, Places, Openings
<1>2. gets' \subseteq Gets
  BY <1>1, LoadTyped
<1>3. floor' = [s \in Names |-> IF s \in {screen} THEN Promise(s, owed) ELSE floor[s]]
  BY DEF Typed
<1>4. Apart'
  BY <1>1, LoadApart DEF Loads, Apart
<1>5. Fresh' /\ floor' \in [Names -> 0 .. MaxVersion]
  <2>1. \A g \in gets' : g.stage = "read" =>
          \E k \in gets : k.stage = "read" /\ k.path = g.path /\ k.value = g.value
    BY <1>1, LoadReads
  <2> DEFINE due == {screen}
  <2>2. floor' = [s \in Names |-> IF s \in due THEN Promise(s, owed) ELSE floor[s]]
    BY <1>3
  <2> HIDE DEF due
  <2> QED BY <1>1, <1>2, <1>4, <2>1, <2>2, PromisesKeep
<1>6. Awaited'
  <2>1. \E g \in gets' : <<screen, mounts[screen]>> \in g.for
    BY <1>1, LoadAnswers
  <2> QED BY <1>1, <2>1 DEF Awaited, Waiting, Openings
<1> QED BY <1>2, <1>4, <1>5, <1>6 DEF Loads

LEMMA CloseKeeps == ASSUME IInv, Close PROVE IInv'
<1> USE ScreensAssumption DEF IInv
<1>1. PICK sh \in sheets : Leave(sh, {}) /\ UNCHANGED <<gets, floor, opens>>
  BY DEF Close
<1>2. /\ Places' /\ Guards' /\ Rows' /\ Room'
      /\ sheets' \subseteq SheetsOf(opens, version)' /\ opens' \in 1 .. MaxOpens
      /\ writes' \subseteq Writes /\ \A w \in writes' : WriteOK(w)'
  BY <1>1, LeaveKeeps
<1>3. Typed'
  BY <1>1, <1>2 DEF Leave, Typed, self, counts
<1>4. Loads'
  BY <1>1, LoadsSame DEF Leave, Room
<1> QED BY <1>2, <1>3, <1>4

LEMMA PayMemberKeeps == ASSUME IInv, PayMember PROVE IInv'
<1> USE ScreensAssumption DEF IInv
<1>1. PICK sh \in sheets :
        /\ sh.name = "member" /\ opens < MaxOpens /\ opens' = opens + 1
        /\ Leave(sh, {Sheet("settle", opens + 1)}) /\ UNCHANGED <<gets, floor>>
  BY DEF PayMember
<1>2. /\ Places' /\ Guards' /\ Rows' /\ Room'
      /\ sheets' \subseteq SheetsOf(opens, version)' /\ opens' \in 1 .. MaxOpens
      /\ writes' \subseteq Writes /\ \A w \in writes' : WriteOK(w)'
  BY <1>1, LeaveKeeps
<1>3. Typed'
  BY <1>1, <1>2 DEF Leave, Typed, self, counts
<1>4. Loads'
  BY <1>1, LoadsSame DEF Leave, Room
<1> QED BY <1>2, <1>3, <1>4

LEMMA CloseAndLoadKeeps == ASSUME IInv, CloseAndLoad PROVE IInv'
<1> USE ScreensAssumption DEF IInv
<1>1. PICK sh \in sheets :
        /\ Leave(sh, {}) /\ UNCHANGED opens
        /\ gets' = Load(gets, screen, mounts[screen])
        /\ floor' = [floor EXCEPT ![screen] = Promise(screen, sh.due)]
  BY DEF CloseAndLoad
<1>2. /\ Places' /\ Guards' /\ Rows' /\ Room'
      /\ sheets' \subseteq SheetsOf(opens, version)' /\ opens' \in 1 .. MaxOpens
      /\ writes' \subseteq Writes /\ \A w \in writes' : WriteOK(w)'
  BY <1>1, LeaveKeeps
<1>3. Loads' /\ gets' \subseteq Gets /\ floor' \in [Names -> 0 .. MaxVersion]
  <2>1. sh.due \in 0 .. version
    BY DEF Typed, SheetsOf
  <2> QED BY <1>1, <2>1, ReloadKeeps DEF Leave
<1>4. Typed'
  BY <1>1, <1>2, <1>3 DEF Leave, Typed, self, counts
<1> QED BY <1>2, <1>3, <1>4

LEMMA StartQuickAddKeeps == ASSUME IInv, startQuickAdd PROVE IInv'
<1> USE ScreensAssumption DEF IInv
<1>1. /\ UNCHANGED <<self, place, busy, finished, undoable, writes, counts, loads, version,
                     opens, sent>>
      /\ opens \in Nat /\ opens \in 1 .. MaxOpens
      /\ quick' = quick \cup {mounts["home"]} /\ screen = "home"
  BY DEF startQuickAdd, Typed
<1>2. Places'
  BY <1>1 DEF place, Places, self
<1>3. Open' = Open /\ \A n \in 1 .. opens : Kept(n)
  BY <1>1 DEF place, Open, Kept, Shows
<1>4. Guards' /\ Rows'
  BY <1>1, <1>3, GuardsOpen, GuardsKept DEF self
<1>5. writes' \subseteq Writes /\ \A w \in writes' : WriteOK(w)'
  BY <1>1, WritesKept DEF self, Room
<1>6. quick' \subseteq Openings
  <2>1. mounts["home"] \in Openings
    BY <1>1 DEF Places, Typed, Openings
  <2> QED BY <2>1, <1>1 DEF Typed
<1>7. Typed'
  BY <1>1, <1>5, <1>6 DEF Typed, self, place, counts, loads
<1> QED BY <1>1, <1>2, <1>4, <1>7, LoadsSame, RoomKept DEF place, loads, Room

LEMMA QuickAnsweredKeeps == ASSUME IInv, QuickAnswered PROVE IInv'
<1> USE ScreensAssumption DEF IInv
<1> DEFINE left == {sh \in sheets : sh.name # "pick"}
<1>1. /\ UNCHANGED <<self, screen, mounts, busy, finished, undoable, writes, counts, loads,
                     version, sent>>
      /\ opens' = opens + 1 /\ opens \in Nat /\ opens' \in 1 .. MaxOpens
      /\ quick' \subseteq quick
  BY DEF QuickAnswered, Typed
<1>2. sheets' = left \/ (/\ sheets' = left \cup {Sheet("adding", opens')}
                         /\ \A sh \in left : sh.name # "adding")
  BY <1>1 DEF QuickAnswered
<1>3. \A k \in sheets : k.n \in 1 .. opens
  BY DEF Typed, SheetsOf
<1>4. Places'
  <2>1. \A k \in sheets' : k.n # mounts[screen]
    BY <1>1, <1>2, <1>3, SheetIs DEF Places
  <2>2. \A a, b \in sheets' : a.n = b.n \/ a.name = b.name => a = b
    BY <1>1, <1>2, <1>3, SheetIs DEF Places
  <2>3. \A a, b \in sheets' : a.name = "member" => b.name # "settle"
    BY <1>2, SheetIs DEF Places
  <2> QED BY <1>1, <2>1, <2>2, <2>3 DEF Places, self
<1>5. \A n \in 1 .. opens : Kept(n)
  BY <1>1, <1>2, <1>4, SheetIs, KeptBySheets
<1>6. \A n \in Open : \A on : on # "pick" /\ Shows(n, on) => n \in Open'
  <2> SUFFICES ASSUME NEW n \in Open, NEW on, on # "pick", Shows(n, on) PROVE n \in Open'
    OBVIOUS
  <2>1. CASE n = mounts[screen]
    BY <1>1, <1>4, <2>1, OpenIsNext
  <2>2. CASE n # mounts[screen]
    <3>1. PICK sh \in sheets : sh.n = n /\ sh.name = on
      <4>1. n # 0
        BY <2>2, <1>3, OpenIs
      <4>2. on \in Names => mounts[on] # n
        BY <4>1, <2>2 DEF Places
      <4> QED BY <4>2 DEF Shows
    <3>2. sh \in sheets'
      BY <1>2, <3>1
    <3> QED BY <3>1, <3>2, <1>4, OpenIsNext
  <2> QED BY <2>1, <2>2
<1>7. HandlersProper
  BY AllProper DEF Typed
<1>8. \A b \in busy : b[1] \in Open'
  <2> SUFFICES ASSUME NEW b \in busy PROVE b[1] \in Open'
    OBVIOUS
  <2>1. PICK w \in writes : b = Guard(w) /\ w.g \in Open
    BY DEF Guards, GuardsUp, Guard
  <2>2. w.of \in DOMAIN Handlers
    BY DEF Typed, WriteOK
  <2>3. CASE Handlers[w.of].holder = "place"
    <3>1. w.g = w.n /\ Shows(w.g, Handlers[w.of].on) /\ Handlers[w.of].on # "pick"
      BY <2>1, <2>2, <2>3, <1>7 DEF Guards, Belongs, HandlersProper, Proper
    <3> QED BY <2>1, <3>1, <1>6 DEF Guard
  <2>4. CASE Handlers[w.of].holder # "place"
    <3>1. w.g = mounts[screen]
      BY <2>1, <2>4 DEF Guards, Belongs
    <3> QED BY <1>1, <1>4, <2>1, <3>1, OpenIsNext DEF Guard
  <2> QED BY <2>3, <2>4
<1>9. \A f \in finished : f[1] \in Open'
  BY <1>6, <1>7 DEF Guards, Thanks, HandlersProper, Proper
<1>10. Guards' /\ Rows'
  BY <1>1, <1>5, <1>8, <1>9, GuardsOpen, GuardsKept DEF self
<1>11. Typed'
  <2>1. sheets' \subseteq SheetsOf(opens, version)'
    BY <1>1, <1>2, <1>3, NamesOfSheets DEF Typed, Sheet, SheetsOf, Room
  <2>2. writes' \subseteq Writes /\ \A w \in writes' : WriteOK(w)'
    BY <1>1, WritesKept DEF self, Room
  <2> QED BY <1>1, <2>1, <2>2 DEF Typed, self, counts, loads
<1> QED BY <1>1, <1>4, <1>10, <1>11, LoadsSame, RoomKept DEF loads, Room

LEMMA PhoneTabKeeps == ASSUME IInv, PhoneTab PROVE IInv'
<1> USE ScreensAssumption DEF IInv
<1>1. /\ UNCHANGED <<self, mounts, sheets, guards, writes, counts, shown, version, opens, sent>>
      /\ client = "phone" /\ screen \in Tabs /\ opens \in Nat /\ version \in Nat
  BY DEF PhoneTab, Typed, Room
<1>2. PICK s \in Tabs :
        /\ screen' = s /\ gets' = Load(gets, s, mounts[s])
        /\ floor' = [floor EXCEPT ![s] = IF \E v \in Beforehand(s) : v < @ THEN shown[s] ELSE @]
  BY DEF PhoneTab
<1>3. s \in Names /\ mounts[s] = mounts[screen] /\ mounts[s] \in Openings
  BY <1>1, <1>2 DEF Names, Places, Typed, Openings
<1>4. Places'
  BY <1>1, <1>2, <1>3 DEF Places, self
<1>5. Open' = Open /\ \A n \in 1 .. opens : Kept(n)
  BY <1>1, <1>2, <1>3 DEF Open, Kept, Shows
<1>6. Guards' /\ Rows'
  BY <1>1, <1>5, GuardsOpen, GuardsKept DEF self, guards
<1>7. gets \subseteq Gets /\ gets' \subseteq Gets
  BY <1>2, <1>3, LoadTyped DEF Typed
<1>8. Apart'
  BY <1>1, <1>2, <1>3, <1>7, LoadApart DEF Loads, Apart
<1>9. floor' \in [Names -> 0 .. MaxVersion] /\ \A t \in Names : floor'[t] \in {floor[t], shown[t]}
  BY <1>2 DEF Typed
<1>10. Fresh'
  <2>1. \A t \in Names : shown'[t] <= version' /\ floor'[t] <= version'
    BY <1>1, <1>9 DEF Loads, Fresh
  <2>2. \A g \in gets, t \in Names :
          g.stage = "read" /\ g.path = Path(t) => shown'[t] <= g.value /\ floor'[t] <= g.value
    BY <1>1, <1>9 DEF Loads, Fresh
  <2> QED BY <1>2, <1>3, <1>7, <2>1, <2>2, LoadFresh
<1>11. Awaited'
  <2>1. \E g \in gets' : <<s, mounts[s]>> \in g.for
    BY <1>2, <1>3, <1>7, LoadAnswers
  <2> QED BY <1>1, <1>2, <1>3, <2>1 DEF Awaited, Waiting, Openings
<1>12. Typed'
  <2>1. writes' \subseteq Writes /\ \A w \in writes' : WriteOK(w)'
    BY <1>1, WritesKept DEF self
  <2> QED BY <1>1, <1>7, <1>9, <2>1 DEF Typed, self, guards, counts
<1> QED BY <1>1, <1>4, <1>6, <1>8, <1>10, <1>11, <1>12, RoomKept DEF Loads

-----------------------------------------------------------------------------
(* Loads come and go, and the server's state moves on.                     *)

LEMMA LoadsOnly ==
  ASSUME IInv, UNCHANGED <<self, place, guards, writes, counts, opens, sent>>,
         Room', version' >= version, Loads', gets' \subseteq Gets,
         shown' \in [Names -> 0 .. MaxVersion], floor' \in [Names -> 0 .. MaxVersion]
  PROVE  IInv'
<1> USE ScreensAssumption DEF IInv
<1>1. opens \in Nat /\ version \in Nat /\ version' \in Nat
  BY DEF Typed, Room
<1>2. Places'
  BY DEF place, Places, self
<1>3. Open' = Open /\ \A n \in 1 .. opens : Kept(n)
  BY DEF place, Open, Kept, Shows
<1>4. Guards' /\ Rows'
  BY <1>1, <1>3, GuardsOpen, GuardsKept DEF self, guards
<1>5. writes' \subseteq Writes /\ \A w \in writes' : WriteOK(w)'
  BY <1>1, WritesKept DEF self
<1>6. sheets' \subseteq SheetsOf(opens, version)'
  BY <1>1 DEF Typed, SheetsOf, place
<1>7. Typed'
  BY <1>5, <1>6 DEF Typed, self, guards, counts
<1> QED BY <1>2, <1>4, <1>7

ReadOf(g) == [g EXCEPT !.stage = "read", !.value = version]

LEMMA ReadIs ==
  ASSUME NEW g \in Gets, version \in 0 .. MaxVersion
  PROVE  /\ ReadOf(g) \in Gets /\ ReadOf(g).path = g.path /\ ReadOf(g).stage = "read"
         /\ ReadOf(g).value = version /\ ReadOf(g).for = g.for
BY DEF Gets, ReadOf

LEMMA ServeGetKeeps == ASSUME IInv, ServeGet PROVE IInv'
<1> USE ScreensAssumption DEF IInv
<1>1. UNCHANGED <<self, place, guards, writes, counts, shown, floor, version, opens, sent>>
  BY DEF ServeGet
<1>2. PICK g \in gets : gets' = (gets \ {g}) \cup {ReadOf(g)}
  BY DEF ServeGet, ReadOf
<1>3. version \in 1 .. MaxVersion /\ g \in Gets
  BY DEF Typed, Room
<1>4. /\ ReadOf(g) \in Gets /\ ReadOf(g).path = g.path /\ ReadOf(g).stage = "read"
      /\ ReadOf(g).value = version /\ ReadOf(g).for = g.for
  BY <1>3, ReadIs
<1>5. \A k \in gets' : (k \in gets /\ k # g) \/ k = ReadOf(g)
  BY <1>2
<1>6. Apart'
  <2>1. \A k, m \in gets' : k.path = m.path => k = m
    BY <1>4, <1>5 DEF Loads, Apart
  <2>2. \A k \in gets' : k.value <= version /\ \A f \in k.for : k.path = Path(f[1])
    BY <1>3, <1>4, <1>5 DEF Loads, Apart
  <2> QED BY <1>1, <2>1, <2>2 DEF Apart
<1>7. Fresh'
  BY <1>1, <1>3, <1>4, <1>5 DEF Loads, Fresh
<1>8. Awaited'
  <2>1. \A k \in gets : \E m \in gets' : m.for = k.for
    BY <1>2, <1>4
  <2> QED BY <1>1, <2>1 DEF Loads, Awaited, Waiting, place
<1>9. Room'
  BY <1>1, RoomKept
<1>10. gets' \subseteq Gets
  BY <1>2, <1>4 DEF Typed
<1>11. shown' \in [Names -> 0 .. MaxVersion] /\ floor' \in [Names -> 0 .. MaxVersion]
  BY <1>1 DEF Typed
<1> QED BY <1>1, <1>3, <1>6, <1>7, <1>8, <1>9, <1>10, <1>11, LoadsOnly DEF Loads

(* A load whose answer is as new as what its screens show or were promised *)
(* is shown there; another screen shares nothing of it.                    *)
LEMMA GetAnsweredKeeps == ASSUME IInv, GetAnswered PROVE IInv'
<1> USE ScreensAssumption DEF IInv
<1>1. UNCHANGED <<self, place, guards, writes, counts, version, opens, sent>>
  BY DEF GetAnswered
<1>2. PICK g \in gets :
        /\ g.stage = "read" /\ gets' = gets \ {g}
        /\ shown' = [s \in Names |-> IF s \in Waiting(g) THEN g.value ELSE shown[s]]
        /\ floor' = [s \in Names |-> IF s \in Waiting(g) THEN Larger(floor[s], g.value)
                                     ELSE floor[s]]
  BY DEF GetAnswered
<1>3. version \in Nat /\ g.value \in 0 .. MaxVersion /\ g.value <= version
  BY DEF Room, Typed, Gets, Loads, Apart
<1>4. \A s \in Names : shown[s] \in 0 .. MaxVersion /\ floor[s] \in 0 .. MaxVersion
  BY DEF Typed
<1>5. \A s \in Waiting(g) : s \in Names /\ g.path = Path(s) /\ floor[s] <= g.value
  BY <1>2 DEF Waiting, Loads, Apart, Fresh
<1>6. \A s \in Names :
        /\ shown'[s] = IF s \in Waiting(g) THEN g.value ELSE shown[s]
        /\ floor'[s] = IF s \in Waiting(g) THEN g.value ELSE floor[s]
  BY <1>2, <1>3, <1>4, <1>5 DEF Larger
<1>7. /\ shown' \in [Names -> 0 .. MaxVersion] /\ floor' \in [Names -> 0 .. MaxVersion]
  <2>1. \A s \in Names : shown'[s] \in 0 .. MaxVersion /\ floor'[s] \in 0 .. MaxVersion
    BY <1>3, <1>4, <1>6
  <2> QED BY <1>2, <2>1
<1>8. Apart'
  BY <1>1, <1>2 DEF Loads, Apart
<1>9. Fresh'
  <2>1. \A s \in Names : shown'[s] <= version' /\ floor'[s] <= version'
    BY <1>1, <1>3, <1>6 DEF Loads, Fresh
  <2>2. ASSUME NEW k \in gets', NEW s \in Names, k.stage = "read", k.path = Path(s)
        PROVE  shown'[s] <= k.value /\ floor'[s] <= k.value
    <3>1. k \in gets /\ k # g
      BY <1>2
    <3>2. s \notin Waiting(g)
      BY <1>5, <2>2, <3>1 DEF Loads, Apart
    <3> QED BY <1>6, <2>2, <3>1, <3>2 DEF Loads, Fresh
  <2> QED BY <2>1, <2>2 DEF Fresh
<1>10. Awaited'
  <2>1. screen \in Names /\ screen' = screen /\ mounts' = mounts
    BY <1>1 DEF Places, place
  <2>2. CASE screen \in Waiting(g)
    BY <1>3, <1>6, <2>1, <2>2 DEF Awaited
  <2>3. CASE screen \notin Waiting(g)
    BY <1>2, <1>6, <2>1, <2>3 DEF Loads, Awaited, Waiting
  <2> QED BY <2>2, <2>3
<1>11. Room' /\ gets' \subseteq Gets
  BY <1>1, <1>2, RoomKept DEF Typed
<1> QED BY <1>1, <1>3, <1>7, <1>8, <1>9, <1>10, <1>11, LoadsOnly DEF Loads

LEMMA GetFailedKeeps == ASSUME IInv, GetFailed PROVE IInv'
<1> USE ScreensAssumption DEF IInv
<1>1. UNCHANGED <<self, place, guards, writes, counts, shown, version, opens, sent>>
  BY DEF GetFailed
<1>2. PICK g \in gets :
        /\ gets' = gets \ {g}
        /\ floor' = [s \in Names |-> IF s \in Waiting(g) THEN shown[s] ELSE floor[s]]
  BY DEF GetFailed
<1>3. version \in Nat
  BY DEF Room
<1>4. floor' \in [Names -> 0 .. MaxVersion] /\ \A s \in Names : floor'[s] \in {floor[s], shown[s]}
  BY <1>2 DEF Typed
<1>5. Apart'
  BY <1>1, <1>2 DEF Loads, Apart
<1>6. Fresh'
  BY <1>1, <1>2, <1>4 DEF Loads, Fresh
<1>7. Awaited'
  <2>1. /\ screen \in Names /\ screen' = screen /\ mounts' = mounts
        /\ shown[screen] \in 0 .. MaxVersion
    BY <1>1 DEF Places, place, Typed
  <2>2. CASE screen \in Waiting(g)
    BY <1>1, <1>2, <2>1, <2>2 DEF Awaited
  <2>3. CASE screen \notin Waiting(g)
    BY <1>1, <1>2, <2>1, <2>3 DEF Loads, Awaited, Waiting
  <2> QED BY <2>2, <2>3
<1>8. Room' /\ gets' \subseteq Gets
  BY <1>1, <1>2, RoomKept DEF Typed
<1>9. shown' \in [Names -> 0 .. MaxVersion]
  BY <1>1 DEF Typed
<1> QED BY <1>1, <1>3, <1>4, <1>5, <1>6, <1>7, <1>8, <1>9, LoadsOnly DEF Loads

LEMMA OthersKeeps == ASSUME IInv, Others PROVE IInv'
<1> USE ScreensAssumption DEF IInv
<1> DEFINE out == {w \in writes : w.stage = "sent"}
<1>1. /\ UNCHANGED <<self, place, guards, writes, counts, loads, opens, sent>>
      /\ version' = version + 1
      /\ version + Cardinality(out) + (MaxWrites - sent) < MaxVersion
  BY DEF Others
<1>2. /\ version \in Nat /\ sent \in 0 .. MaxWrites /\ IsFiniteSet(writes)
      /\ Cardinality(out) \in Nat
  BY FS_Subset, FS_CardinalityType DEF Room, Typed
<1>3. Room'
  <2>1. out' = out
    BY <1>1
  <2>2. /\ version' + Cardinality(out) + (MaxWrites - sent) <= MaxVersion
        /\ version' \in 1 .. MaxVersion
    BY <1>1, <1>2
  <2> QED BY <1>1, <1>2, <2>1, <2>2 DEF Room
<1>4. Loads'
  BY <1>1, <1>2, LoadsSame DEF loads, place
<1>5. /\ gets' \subseteq Gets
      /\ shown' \in [Names -> 0 .. MaxVersion] /\ floor' \in [Names -> 0 .. MaxVersion]
  BY <1>1 DEF loads, Typed
<1> QED BY <1>1, <1>2, <1>3, <1>4, <1>5, LoadsOnly

-----------------------------------------------------------------------------
(* Writes                                                                  *)

SentWrite(name, n, g) ==
  [id |-> sent + 1, of |-> name, n |-> n, g |-> g, screen |-> screen,
   mount |-> mounts[screen], stage |-> "sent", v |-> 0]

LEMMA SentWriteIs ==
  ASSUME Typed, Places, version \in Nat,
         NEW name \in DOMAIN Handlers, NEW n \in 1 .. opens, NEW g \in 1 .. opens
  PROVE  LET w == SentWrite(name, n, g)
         IN /\ w.of = name /\ w.n = n /\ w.g = g /\ w.screen = screen
            /\ w.mount = mounts[screen] /\ w.stage = "sent"
            /\ w \in Writes /\ WriteOK(w)
<1> USE ScreensAssumption
<1>1. name \in DOMAIN Web \cup DOMAIN Phone
  BY DEF Handlers
<1>2. /\ n \in Openings /\ g \in Openings /\ mounts[screen] \in Openings
      /\ sent + 1 \in Nat /\ 0 \in 0 .. MaxVersion /\ screen \in Names
  BY DEF Typed, Places, Openings
<1>3. mounts[screen] \in 1 .. opens /\ 0 \in 0 .. version
  BY DEF Places
<1> QED BY <1>1, <1>2, <1>3 DEF SentWrite, Writes, WriteOK

LEMMA PressKeeps == ASSUME IInv, Press PROVE IInv'
<1> USE ScreensAssumption DEF IInv
<1>1. PICK name \in DOMAIN Handlers : press(name)
  BY DEF Press
<1> DEFINE h == Handlers[name]
           n == On(h)
           g == Holder(h)
           new == SentWrite(name, n, g)
           out == {w \in writes : w.stage = "sent"}
<1>2. /\ UNCHANGED <<self, place, finished, undoable, quick, counts, loads, version, opens>>
      /\ <<g, h.guard>> \notin busy /\ <<n, name>> \notin finished
      /\ sent < MaxWrites /\ sent' = sent + 1 /\ n # 0
      /\ busy' = IF h.guard = "none" THEN busy ELSE busy \cup {<<g, h.guard>>}
      /\ writes' = writes \cup {new}
  BY <1>1 DEF press, Send, SentWrite
<1>3. Proper(name, h)
  BY AllProper DEF Typed, HandlersProper
<1>4. n \in Open /\ n \in 1 .. opens /\ Shows(n, h.on)
  BY <1>2, OnOpen
<1>5. /\ h.holder = "place" => g = n
      /\ h.holder # "place" => g = mounts[screen]
      /\ g \in Open /\ g \in 1 .. opens
  BY <1>3, <1>4, OpenIs DEF Holder, Proper, Places
<1>6. /\ new.of = name /\ new.n = n /\ new.g = g /\ new.screen = screen
      /\ new.mount = mounts[screen] /\ new.stage = "sent"
      /\ new \in Writes /\ WriteOK(new)
  BY <1>4, <1>5, SentWriteIs DEF Room
<1>7. /\ Handlers' = Handlers /\ Open' = Open /\ \A m, on : Shows(m, on)' <=> Shows(m, on)
  BY <1>2 DEF Handlers, self, place, Open, Shows
<1>8. Guard(new) = <<g, h.guard>>
  BY <1>6 DEF Guard
<1> HIDE DEF new, n, g
<1>9. ASSUME NEW w \in writes, Guard(w) = Guard(new), h.guard # "none" PROVE FALSE
  <2>1. w.g = g /\ Handlers[w.of].guard = h.guard
    BY <1>8, <1>9 DEF Guard
  <2> QED BY <2>1, <1>2, <1>5, <1>8, <1>9 DEF Guards, GuardsUp
<1>10. Places'
  BY <1>2 DEF place, Places, self
<1>11. Guards'
  <2>1. GuardsUp'
    <3>1. \A w : Guard(w)' = Guard(w)
      BY <1>7 DEF Guard
    <3>2. \A b \in busy' : b \in busy \/ b = Guard(new)
      BY <1>2, <1>8
    <3>3. \A b \in busy' : b[1] \in Open' /\ \E w \in writes' : b = Guard(w)'
      BY <1>2, <1>5, <1>7, <1>8, <3>1, <3>2 DEF Guards, GuardsUp
    <3>4. \A w \in writes' : w.g \in Open' /\ Handlers[w.of].guard # "none" => Guard(w)' \in busy'
      BY <1>2, <1>6, <1>7, <1>8, <3>1 DEF Guards, GuardsUp
    <3> QED BY <3>3, <3>4, <1>7 DEF GuardsUp
  <2>2. OneEach'
    BY <1>2, <1>6, <1>7, <1>9 DEF Guards, OneEach, Guard
  <2>3. Belongs'
    BY <1>2, <1>4, <1>5, <1>6, <1>7 DEF Guards, Belongs, place
  <2>4. Thanks'
    BY <1>2, <1>7 DEF Guards, Thanks
  <2> QED BY <2>1, <2>2, <2>3, <2>4 DEF Guards
<1>12. ASSUME Counts(name)
       PROVE  /\ \A w \in writes : ~(Counts(w.of) /\ w.n = n)
              /\ \A f \in finished : ~(Counts(f[2]) /\ f[1] = n)
  <2>1. h.guard # "none" /\ h.holder = "place" /\ g = n
    BY <1>3, <1>5, <1>12 DEF Counts, Proper
  <2>2. HandlersProper /\ n # 0
    BY <1>2, AllProper DEF Typed
  <2>3. ASSUME NEW w \in writes, Counts(w.of), w.n = n PROVE FALSE
    <3>1. w.of \in DOMAIN Handlers /\ Shows(n, Handlers[w.of].on)
      BY <1>4, <2>3 DEF Guards, Belongs, Typed, WriteOK
    <3>2. w.of = name
      BY <1>4, <1>12, <2>2, <2>3, <3>1, OneCounted
    <3>3. w.g = n
      BY <2>1, <2>3, <3>2 DEF Guards, Belongs
    <3> QED BY <1>8, <1>9, <2>1, <3>2, <3>3 DEF Guard
  <2>4. ASSUME NEW f \in finished, Counts(f[2]), f[1] = n PROVE FALSE
    <3>1. f = <<n, f[2]>> /\ f[2] \in DOMAIN Handlers /\ Shows(n, Handlers[f[2]].on)
      BY <2>4 DEF Guards, Thanks
    <3>2. f[2] = name
      BY <1>4, <1>12, <2>2, <2>4, <3>1, OneCounted
    <3> QED BY <1>2, <3>1, <3>2
  <2> QED BY <2>3, <2>4
<1>13. Rows'
  <2>1. \A k : Counts(k)' <=> Counts(k)
    BY <1>7 DEF Counts
  <2>2. \A w, k \in writes' : Counts(w.of) /\ Counts(k.of) /\ w.n = k.n => w = k
    BY <1>2, <1>6, <1>12 DEF Rows
  <2>3. ASSUME NEW m \in Openings
        PROVE  /\ m > opens => rows[m] = 0
               /\ rows[m] + Sending(m)' <= 1 + fails[m]
               /\ Spent(m)' \/ rows[m] + Sending(m)' <= fails[m]
    <3>1. /\ m > opens => rows[m] = 0
          /\ rows[m] + Sending(m) <= 1 + fails[m]
          /\ Spent(m) \/ rows[m] + Sending(m) <= fails[m]
          /\ rows[m] \in Nat /\ fails[m] \in Nat
      BY DEF Rows, Typed, Openings
    <3>2. CASE Counts(name) /\ m = n
      <4>1. ~Spent(m)
        BY <1>4, <1>12, <3>2 DEF Spent
      <4>2. Sending(m) = 0 /\ Sending(m)' = 1
        BY <1>2, <1>6, <1>12, <2>1, <3>2 DEF Sending
      <4>3. Spent(m)'
        BY <1>2, <1>6, <2>1, <3>2 DEF Spent
      <4> QED BY <3>1, <4>1, <4>2, <4>3
    <3>3. CASE ~(Counts(name) /\ m = n)
      <4>1. Sending(m)' = Sending(m)
        BY <1>2, <1>6, <2>1, <3>3 DEF Sending
      <4>2. Spent(m)' <=> Spent(m)
        BY <1>2, <1>6, <1>7, <2>1, <3>3 DEF Spent
      <4> QED BY <3>1, <4>1, <4>2
    <3> QED BY <3>2, <3>3
  <2> QED BY <1>2, <2>1, <2>2, <2>3 DEF Rows, counts
<1>14. Room'
  <2>1. IsFiniteSet(out) /\ IsFiniteSet(out \cup {new}) /\ IsFiniteSet(writes')
    BY <1>2, FS_Subset, FS_AddElement DEF Room
  <2>2. /\ Cardinality(out \cup {new}) \in {Cardinality(out), Cardinality(out) + 1}
        /\ Cardinality(out) \in Nat
    BY <2>1, FS_AddElement, FS_CardinalityType
  <2>3. out' = out \cup {new}
    BY <1>2, <1>6
  <2> HIDE DEF out
  <2>4. version' + Cardinality(out') + (MaxWrites - sent') <= MaxVersion
    <3>1. version + Cardinality(out) + (MaxWrites - sent) <= MaxVersion
      BY DEF Room, out
    <3> QED BY <1>2, <2>2, <2>3, <3>1 DEF Typed, Room
  <2> QED BY <1>2, <2>1, <2>4 DEF Room, out
<1>15. Typed' /\ Loads'
  <2>1. writes' \subseteq Writes /\ \A w \in writes' : WriteOK(w)'
    BY <1>2, <1>6, <1>7 DEF Typed, WriteOK
  <2>2. sent' \in 0 .. MaxWrites
    BY <1>2 DEF Typed
  <2>3. Loads'
    BY <1>2, LoadsSame DEF Room, loads, place
  <2>4. Typed'
    BY <1>2, <2>1, <2>2 DEF Typed, self, place, counts, loads
  <2> QED BY <2>3, <2>4
<1> QED BY <1>10, <1>11, <1>13, <1>14, <1>15

Done(w, next) == [w EXCEPT !.stage = "done", !.v = next]

Refused(w) == [w EXCEPT !.stage = "refused"]

LEMMA ServedIs ==
  ASSUME NEW w \in Writes, NEW next \in 0 .. MaxVersion
  PROVE  /\ \A k \in {Done(w, next), Refused(w)} :
              /\ k \in Writes /\ k.of = w.of /\ k.n = w.n /\ k.g = w.g
              /\ k.screen = w.screen /\ k.mount = w.mount /\ k.stage \in {"done", "refused"}
         /\ Done(w, next).v = next /\ Refused(w).v = w.v
BY DEF Writes, Done, Refused

LEMMA ServeKeeps == ASSUME IInv, Serve PROVE IInv'
<1> USE ScreensAssumption DEF IInv
<1>1. UNCHANGED <<self, place, guards, fails, loads, opens, sent>>
  BY DEF Serve
<1>2. PICK w \in writes :
        LET h == Handlers[w.of]
            counted == h.makes /\ w.of \notin Unguarded
            next == IF h.changes = "nothing" THEN version ELSE version + 1
        IN /\ w.stage = "sent"
           /\ \/ /\ writes' = (writes \ {w}) \cup {Done(w, next)}
                 /\ version' = next
                 /\ rows' = [rows EXCEPT ![w.n] = @ + (IF counted THEN 1 ELSE 0)]
              \/ /\ writes' = (writes \ {w}) \cup {Refused(w)}
                 /\ UNCHANGED <<version, rows>>
  BY DEF Serve, Done, Refused
<1> DEFINE out == {x \in writes : x.stage = "sent"}
<1>3. /\ w \in Writes /\ WriteOK(w) /\ version \in Nat /\ opens \in Nat
      /\ IsFiniteSet(out) /\ w \in out /\ Cardinality(out) \in Nat
      /\ Cardinality(out \ {w}) = Cardinality(out) - 1
  <2>1. w \in Writes /\ WriteOK(w) /\ version \in Nat /\ opens \in Nat
    BY DEF Typed, Room
  <2>2. IsFiniteSet(out) /\ w \in out
    BY <1>2, FS_Subset DEF Room
  <2> HIDE DEF out
  <2> QED BY <2>1, <2>2, FS_CardinalityType, FS_RemoveElement
<1>4. version' \in {version, version + 1}
  BY <1>2
<1>5. version' \in 1 .. MaxVersion
  <2>1. version + Cardinality(out) + (MaxWrites - sent) <= MaxVersion
    BY DEF Room
  <2> HIDE DEF out
  <2>2. Cardinality(out) >= 1
    BY <1>3, FS_EmptySet
  <2>3. sent \in Nat /\ sent <= MaxWrites /\ version \in 1 .. MaxVersion
    BY DEF Typed, Room
  <2> QED BY <1>3, <1>4, <2>1, <2>2, <2>3
<1>6. PICK k : /\ writes' = (writes \ {w}) \cup {k}
               /\ k \in Writes /\ k.of = w.of /\ k.n = w.n /\ k.g = w.g
               /\ k.screen = w.screen /\ k.mount = w.mount /\ k.stage \in {"done", "refused"}
               /\ k.v \in 0 .. version'
  <2>1. CASE version' \in 0 .. MaxVersion /\ writes' = (writes \ {w}) \cup {Done(w, version')}
    BY <1>3, <1>4, <2>1, ServedIs
  <2>2. CASE writes' = (writes \ {w}) \cup {Refused(w)}
    <3>1. /\ Refused(w) \in Writes /\ Refused(w).v = w.v
          /\ Refused(w).of = w.of /\ Refused(w).n = w.n /\ Refused(w).g = w.g
          /\ Refused(w).screen = w.screen /\ Refused(w).mount = w.mount
          /\ Refused(w).stage \in {"done", "refused"}
      BY <1>3, <1>5, ServedIs
    <3>2. w.v \in 0 .. version'
      BY <1>3, <1>4 DEF WriteOK
    <3> QED BY <2>2, <3>1, <3>2
  <2> QED BY <1>2, <1>5, <2>1, <2>2
<1>7. /\ Handlers' = Handlers /\ Open' = Open /\ \A m, on : Shows(m, on)' <=> Shows(m, on)
      /\ \A name : Counts(name)' <=> Counts(name)
  BY <1>1 DEF Handlers, Counts, self, place, Open, Shows
<1>8. Places'
  BY <1>1 DEF place, Places, self
<1>9. Guards'
  <2>1. Guard(k) = Guard(w) /\ \A x : Guard(x)' = Guard(x)
    BY <1>6, <1>7 DEF Guard
  <2>2. GuardsUp'
    <3>1. \A b \in busy : b[1] \in Open /\ \E x \in writes' : b = Guard(x)
      BY <1>6, <2>1 DEF Guards, GuardsUp
    <3>2. \A x \in writes' : x.g \in Open /\ Handlers[x.of].guard # "none" => Guard(x) \in busy
      BY <1>6, <2>1 DEF Guards, GuardsUp
    <3> QED BY <1>1, <1>7, <2>1, <3>1, <3>2 DEF GuardsUp, guards
  <2>3. OneEach'
    BY <1>6, <1>7, <2>1 DEF Guards, OneEach
  <2>4. Belongs'
    BY <1>1, <1>6, <1>7 DEF Guards, Belongs, place
  <2>5. Thanks'
    BY <1>1, <1>7 DEF Guards, Thanks, guards
  <2> QED BY <2>2, <2>3, <2>4, <2>5 DEF Guards
<1>10. Rows'
  <2>1. \A x, y \in writes' : Counts(x.of) /\ Counts(y.of) /\ x.n = y.n => x = y
    BY <1>6 DEF Rows
  <2>2. ASSUME NEW m \in Openings
        PROVE  /\ m > opens => rows'[m] = 0
               /\ rows'[m] + Sending(m)' <= 1 + fails[m]
               /\ Spent(m)' \/ rows'[m] + Sending(m)' <= fails[m]
    <3>1. /\ m > opens => rows[m] = 0
          /\ rows[m] + Sending(m) <= 1 + fails[m]
          /\ Spent(m) \/ rows[m] + Sending(m) <= fails[m]
          /\ rows[m] \in Nat /\ fails[m] \in Nat /\ m \in 0 .. MaxOpens
      BY DEF Rows, Typed, Openings
    <3>2. Spent(m) => Spent(m)'
      BY <1>1, <1>6, <1>7 DEF Spent, guards
    <3>3. Sending(m) \in {0, 1} /\ Sending(m)' \in {0, 1}
      BY DEF Sending
    <3>4. CASE Counts(w.of) /\ m = w.n
      <4>1. Sending(m) = 1
        BY <1>2, <3>4 DEF Sending
      <4>2. Sending(m)' = 0
        BY <1>6, <1>7, <2>1, <3>4 DEF Sending
      <4>3. rows'[m] \in {rows[m], rows[m] + 1}
        BY <1>2, <3>1, <3>4 DEF Typed
      <4>4. m <= opens
        BY <1>3, <3>4 DEF WriteOK
      <4> QED BY <1>3, <3>1, <3>2, <4>1, <4>2, <4>3, <4>4
    <3>5. CASE ~(Counts(w.of) /\ m = w.n)
      <4>1. rows'[m] = rows[m]
        <5>1. CASE w.n = m
          BY <1>2, <3>1, <3>5, <5>1 DEF Typed, Counts
        <5>2. CASE w.n # m
          BY <1>2, <3>1, <5>2 DEF Typed
        <5> QED BY <5>1, <5>2
      <4>2. Sending(m)' = Sending(m)
        BY <1>6, <1>7, <3>5 DEF Sending
      <4> QED BY <3>1, <3>2, <4>1, <4>2
    <3> QED BY <3>4, <3>5
  <2> QED BY <1>1, <1>7, <2>1, <2>2 DEF Rows
<1>11. Room'
  <2>1. out' \subseteq out \ {w} /\ IsFiniteSet(out \ {w})
    BY <1>3, <1>6, FS_RemoveElement
  <2>2. /\ Cardinality(out') \in Nat /\ Cardinality(out') <= Cardinality(out) - 1
        /\ IsFiniteSet(writes')
    <3>1. IsFiniteSet(writes \ {w}) /\ IsFiniteSet((writes \ {w}) \cup {k})
      BY FS_Subset, FS_AddElement DEF Room
    <3> QED BY <1>3, <1>6, <2>1, <3>1, FS_Subset, FS_CardinalityType
  <2> HIDE DEF out
  <2>3. version + Cardinality(out) + (MaxWrites - sent) <= MaxVersion
    BY DEF Room, out
  <2>4. version' + Cardinality(out') + (MaxWrites - sent') <= MaxVersion
    BY <1>1, <1>3, <1>4, <2>2, <2>3 DEF Typed
  <2> QED BY <1>5, <2>2, <2>4 DEF Room, out
<1>12. Loads'
  BY <1>1, <1>3, <1>4, LoadsSame DEF loads, place
<1>13. Typed'
  <2>1. writes' \subseteq Writes
    BY <1>6 DEF Typed
  <2>2. \A x \in writes' : WriteOK(x)'
    <3>1. \A x \in writes : x # w => WriteOK(x)'
      BY <1>1, <1>3, <1>4, <1>7 DEF Typed, WriteOK
    <3>2. WriteOK(k)'
      BY <1>1, <1>3, <1>6, <1>7 DEF WriteOK
    <3> QED BY <1>6, <3>1, <3>2
  <2>3. rows' \in [0 .. MaxOpens -> Nat] /\ fails' \in [0 .. MaxOpens -> Nat]
    BY <1>1, <1>2 DEF Typed
  <2>4. sheets' \subseteq SheetsOf(opens, version)'
    BY <1>1, <1>3, <1>4 DEF Typed, SheetsOf, place
  <2> QED BY <1>1, <2>1, <2>2, <2>3, <2>4 DEF Typed, self, guards, loads
<1> QED BY <1>8, <1>9, <1>10, <1>11, <1>12, <1>13

LEMMA FailedKeeps == ASSUME IInv, Failed PROVE IInv'
<1> USE ScreensAssumption DEF IInv
<1>1. UNCHANGED <<self, place, finished, undoable, quick, rows, loads, version, opens, sent>>
  BY DEF Failed
<1>2. PICK w \in writes :
        LET counted == Handlers[w.of].makes /\ w.of \notin Unguarded
        IN /\ writes' = writes \ {w}
           /\ busy' = Freed(w, "fail")
           /\ fails' = [fails EXCEPT ![w.n] = @ + (IF counted THEN 1 ELSE 0)]
  BY DEF Failed
<1>3. /\ Handlers' = Handlers /\ Open' = Open /\ \A m, on : Shows(m, on)' <=> Shows(m, on)
      /\ \A name : Counts(name)' <=> Counts(name)
  BY <1>1 DEF Handlers, Counts, self, place, Open, Shows
<1>4. opens \in Nat /\ version \in Nat
  BY DEF Typed, Room
<1>5. busy' = busy \ {Guard(w)}
  <2>1. Proper(w.of, Handlers[w.of])
    BY AllProper DEF Typed, WriteOK, HandlersProper
  <2> QED BY <1>2, <2>1 DEF Freed, Guard, Proper
<1>6. Places'
  BY <1>1 DEF place, Places, self
<1>7. Guards'
  <2>1. \A x : Guard(x)' = Guard(x)
    BY <1>3 DEF Guard
  <2>2. GuardsUp'
    <3>1. \A b \in busy' : b[1] \in Open /\ \E x \in writes' : b = Guard(x)
      BY <1>2, <1>5 DEF Guards, GuardsUp
    <3>2. \A x \in writes' : x.g \in Open /\ Handlers[x.of].guard # "none" => Guard(x) \in busy'
      BY <1>2, <1>5 DEF Guards, GuardsUp, OneEach
    <3> QED BY <1>3, <2>1, <3>1, <3>2 DEF GuardsUp
  <2>3. OneEach'
    BY <1>2, <1>3, <2>1 DEF Guards, OneEach
  <2>4. Belongs'
    BY <1>1, <1>2, <1>3 DEF Guards, Belongs, place
  <2>5. Thanks'
    BY <1>1, <1>3 DEF Guards, Thanks
  <2> QED BY <2>2, <2>3, <2>4, <2>5 DEF Guards
<1>8. Rows'
  <2>1. \A x, y \in writes' : Counts(x.of) /\ Counts(y.of) /\ x.n = y.n => x = y
    BY <1>2 DEF Rows
  <2>2. ASSUME NEW m \in Openings
        PROVE  /\ m > opens => rows[m] = 0
               /\ rows[m] + Sending(m)' <= 1 + fails'[m]
               /\ Spent(m)' \/ rows[m] + Sending(m)' <= fails'[m]
    <3>1. /\ m > opens => rows[m] = 0
          /\ rows[m] + Sending(m) <= 1 + fails[m]
          /\ Spent(m) \/ rows[m] + Sending(m) <= fails[m]
          /\ rows[m] \in Nat /\ fails[m] \in Nat /\ m \in 0 .. MaxOpens
      BY DEF Rows, Typed, Openings
    <3>2. Sending(m) \in {0, 1} /\ Sending(m)' \in {0, 1} /\ Sending(m)' <= Sending(m)
      BY <1>2, <1>3 DEF Sending
    <3>3. CASE Counts(w.of) /\ m = w.n
      <4>1. fails'[m] = fails[m] + 1
        BY <1>2, <3>1, <3>3 DEF Typed, Counts
      <4> QED BY <3>1, <3>2, <4>1
    <3>4. CASE ~(Counts(w.of) /\ m = w.n)
      <4>1. fails'[m] = fails[m]
        <5>1. CASE w.n = m
          BY <1>2, <3>1, <3>4, <5>1 DEF Typed, Counts
        <5>2. CASE w.n # m
          BY <1>2, <3>1, <5>2 DEF Typed
        <5> QED BY <5>1, <5>2
      <4>2. Spent(m)' <=> Spent(m)
        BY <1>1, <1>2, <1>3, <3>4 DEF Spent
      <4> QED BY <3>1, <3>2, <4>1, <4>2
    <3> QED BY <3>3, <3>4
  <2> QED BY <1>1, <1>3, <2>1, <2>2 DEF Rows
<1>9. Room' /\ Loads'
  BY <1>1, <1>2, <1>4, RoomKept, LoadsSame DEF loads, place
<1>10. Typed'
  <2>1. writes' \subseteq Writes /\ \A x \in writes' : WriteOK(x)'
    BY <1>1, <1>2, <1>4, WritesKept DEF self
  <2>2. fails' \in [0 .. MaxOpens -> Nat]
    <3>1. w.n \in 0 .. MaxOpens
      BY DEF Typed, WriteOK
    <3>2. fails[w.n] \in Nat /\ fails[w.n] + 1 \in Nat
      BY <3>1 DEF Typed
    <3> QED BY <1>2, <3>1, <3>2 DEF Typed
  <2> QED BY <1>1, <2>1, <2>2 DEF Typed, self, place, loads
<1> QED BY <1>6, <1>7, <1>8, <1>9, <1>10

LEMMA LedKeeps == ASSUME IInv, Led PROVE IInv'
<1>1. \E s \in Names : Goto(s) /\ writes' \subseteq writes
  BY DEF Led, Names, Tabs
<1>2. UNCHANGED <<self, counts, version, sent>>
  BY DEF Led
<1> QED BY <1>1, <1>2, GotoKeeps

(* The load that follows an answer, if any, asks for a screen by an opening*)
(* that has been.                                                          *)
LEMMA LoadedIs ==
  ASSUME Typed, Places, NEW w \in writes, gets' = Loaded(w, Handlers[w.of])
  PROVE  gets' = gets \/ \E s \in Names, m \in Openings : gets' = Load(gets, s, m)
<1>1. w.screen \in Names /\ w.mount \in Openings
  BY DEF Typed, Writes
<1>2. screen = "home" => "home" \in Names /\ mounts["home"] \in Openings
  BY ScreensAssumption DEF Typed, Places, Openings
<1> QED BY <1>1, <1>2 DEF Loaded

LEMMA LoadedKeeps ==
  ASSUME Typed, Room, Loads, version' = version,
         gets' = gets \/ \E s \in Names, m \in Openings : gets' = Load(gets, s, m)
  PROVE  /\ gets' \subseteq Gets /\ Apart'
         /\ \A g \in gets' : g.stage = "read" =>
              \E k \in gets : k.stage = "read" /\ k.path = g.path /\ k.value = g.value
         /\ \A f : (\E k \in gets : f \in k.for) => \E g \in gets' : f \in g.for
<1>1. CASE gets' = gets
  BY <1>1 DEF Typed, Loads, Apart
<1>2. CASE \E s \in Names, m \in Openings : gets' = Load(gets, s, m)
  <2>1. PICK s \in Names, m \in Openings : gets' = Load(gets, s, m)
    BY <1>2
  <2>2. gets \subseteq Gets /\ version \in Nat
    BY DEF Typed, Room
  <2>3. gets' \subseteq Gets
    BY <2>1, <2>2, LoadTyped
  <2>4. Apart'
    BY <2>1, <2>2, LoadApart DEF Loads, Apart
  <2>5. \A g \in gets' : g.stage = "read" =>
          \E k \in gets : k.stage = "read" /\ k.path = g.path /\ k.value = g.value
    BY <2>1, <2>2, LoadReads
  <2>6. \A f : (\E k \in gets : f \in k.for) => \E g \in gets' : f \in g.for
    BY <2>1, <2>2, LoadAnswers
  <2> QED BY <2>3, <2>4, <2>5, <2>6
<1> QED BY <1>1, <1>2

(* The page of the write is gone, and its opening with it.                 *)
LEMMA AcceptedLateKeeps == ASSUME IInv, AcceptedLate PROVE IInv'
<1> USE ScreensAssumption DEF IInv
<1>1. UNCHANGED <<self, place, guards, counts, shown, floor, version, opens, sent>>
  BY DEF AcceptedLate
<1>2. PICK w \in writes :
        /\ mounts[w.screen] # w.mount /\ writes' = writes \ {w}
        /\ gets' = Loaded(w, Handlers[w.of])
  BY DEF AcceptedLate
<1>3. w.n \notin Open /\ w.g \notin Open
  BY <1>2 DEF Guards, Belongs
<1>4. opens \in Nat /\ version \in Nat
  BY DEF Typed, Room
<1>5. /\ Handlers' = Handlers /\ Open' = Open /\ \A m, on : Shows(m, on)' <=> Shows(m, on)
      /\ \A m : Kept(m)
  BY <1>1 DEF Handlers, self, place, Open, Shows, Kept
<1>6. Places'
  BY <1>1 DEF place, Places, self
<1>7. Guards'
  <2>1. \A x : Guard(x)' = Guard(x)
    BY <1>5 DEF Guard
  <2>2. GuardsUp'
    <3>1. \A b \in busy : b[1] \in Open /\ \E x \in writes' : b = Guard(x)
      BY <1>2, <1>3 DEF Guards, GuardsUp, Guard
    <3>2. \A x \in writes' : x.g \in Open /\ Handlers[x.of].guard # "none" => Guard(x) \in busy
      BY <1>2 DEF Guards, GuardsUp
    <3> QED BY <1>1, <1>5, <2>1, <3>1, <3>2 DEF GuardsUp, guards
  <2>3. OneEach' /\ Belongs'
    BY <1>1, <1>2, <1>5, OneEachKept, BelongsKept DEF Guards, self
  <2>4. Thanks'
    BY <1>1, <1>5 DEF Guards, Thanks, guards
  <2> QED BY <2>2, <2>3, <2>4 DEF Guards
<1>8. Rows'
  BY <1>1, <1>2, <1>3, <1>4, <1>5, RowsKept DEF guards, self
<1>9. Room'
  BY <1>1, <1>2, RoomKept
<1>10. /\ gets' \subseteq Gets /\ Apart'
       /\ \A g \in gets' : g.stage = "read" =>
            \E k \in gets : k.stage = "read" /\ k.path = g.path /\ k.value = g.value
       /\ \A f : (\E k \in gets : f \in k.for) => \E g \in gets' : f \in g.for
  BY <1>1, <1>2, LoadedIs, LoadedKeeps
<1>11. Loads'
  <2>1. Fresh'
    BY <1>1, <1>10 DEF Loads, Fresh
  <2>2. Awaited'
    BY <1>1, <1>10 DEF Loads, Awaited, Waiting, place
  <2> QED BY <1>10, <2>1, <2>2 DEF Loads
<1>12. Typed'
  <2>1. writes' \subseteq Writes /\ \A x \in writes' : WriteOK(x)'
    BY <1>1, <1>2, <1>4, WritesKept DEF self
  <2> QED BY <1>1, <1>10, <2>1 DEF Typed, self, place, guards, counts
<1> QED BY <1>6, <1>7, <1>8, <1>9, <1>11, <1>12

(* Who sees an old picture after a write asks for a new one.               *)
LEMMA Followed ==
  ASSUME client \in {"web", "phone"}, NEW name \in DOMAIN Handlers,
         Handlers[name].changes = "home", name \notin Unfollowed
  PROVE  Handlers[name].then = "home"
<1>1. name = "saveProfile"
  BY AllProper DEF HandlersProper, Proper
<1>2. Handlers = Phone
  BY <1>1 DEF Unfollowed, Handlers
<1>3. Phone["saveProfile"] = PhoneSaveProfile
  BY DEF Phone
<1>4. PhoneSaveProfile.then = "home"
  BY DEF PhoneSaveProfile, WebSaveProfile, Handler
<1> QED BY <1>1, <1>2, <1>3, <1>4

Owed(sh, w) ==
  IF sh.n = w.n /\ Handlers[w.of].changes = "due"
  THEN [sh EXCEPT !.due = Larger(@, w.v)] ELSE sh

LEMMA OwedIs ==
  ASSUME NEW n, NEW v \in Nat, NEW sh \in SheetsOf(n, v), NEW w, w.v \in 0 .. v
  PROVE  /\ Owed(sh, w).n = sh.n /\ Owed(sh, w).name = sh.name
         /\ Owed(sh, w) \in SheetsOf(n, v)
         /\ Handlers[w.of].changes # "due" => Owed(sh, w) = sh
<1>1. Larger(sh.due, w.v) \in 0 .. v
  BY DEF Larger, SheetsOf
<1> QED BY <1>1 DEF Owed, SheetsOf

(* The sheets after an answer, and which openings go with it.              *)
LEMMA SheetsIs ==
  ASSUME IInv, NEW w \in writes
  PROVE  LET h == Handlers[w.of]
             invite == Sheet("invite", opens + 1)
         IN /\ \A k \in Sheets(w) :
                 \/ \E sh \in sheets : k.n = sh.n /\ k.name = sh.name /\ k = Owed(sh, w)
                 \/ /\ k = invite /\ h.after = "invites"
                    /\ \A sh \in sheets : sh.name # "invite"
            /\ \A sh \in sheets :
                 IF h.after \in {"closes", "deletes"}
                 THEN sh \in Sheets(w) <=> sh.name # h.on
                 ELSE Owed(sh, w) \in Sheets(w) \/ sh \in Sheets(w)
            /\ h.after \in {"closes", "deletes"} => Sheets(w) \subseteq sheets
<1> USE ScreensAssumption DEF IInv
<1>1. /\ w.of \in DOMAIN Handlers /\ w.v \in 0 .. version /\ version \in Nat
      /\ Proper(w.of, Handlers[w.of])
  BY AllProper DEF Typed, WriteOK, Room, HandlersProper
<1>2. \A sh \in sheets :
        /\ Owed(sh, w).n = sh.n /\ Owed(sh, w).name = sh.name
        /\ Handlers[w.of].changes # "due" => Owed(sh, w) = sh
  BY <1>1, OwedIs DEF Typed
<1> DEFINE h == Handlers[w.of]
           named == {sh \in sheets : sh.name = h.on}
<1>3. CASE h.after \in {"closes", "deletes"}
  <2>1. Sheets(w) = sheets \ named
    BY <1>3 DEF Sheets
  <2>2. h.changes # "due"
    BY <1>1, <1>3 DEF Proper
  <2> QED BY <1>2, <1>3, <2>1, <2>2
<1>4. CASE h.after = "invites" /\ ~\E sh \in sheets : sh.name = "invite"
  <2>1. Sheets(w) = sheets \cup {Sheet("invite", opens + 1)}
    BY <1>4 DEF Sheets
  <2>2. h.changes # "due"
    BY <1>1, <1>4 DEF Proper
  <2> QED BY <1>2, <1>4, <2>1, <2>2
<1>5. CASE /\ h.after \notin {"closes", "deletes"}
           /\ ~(h.after = "invites" /\ ~\E sh \in sheets : sh.name = "invite")
  <2>1. Sheets(w) = {Owed(sh, w) : sh \in sheets}
    BY <1>5 DEF Sheets, Owed
  <2> QED BY <1>2, <1>5, <2>1
<1> QED BY <1>3, <1>4, <1>5

LEMMA AnswerPlaces ==
  ASSUME IInv, NEW w \in writes, sheets' = Sheets(w), UNCHANGED <<self, screen, mounts, version>>,
         opens' = IF Handlers[w.of].after = "invites" THEN opens + 1 ELSE opens
  PROVE  /\ Places' /\ \A n \in 1 .. opens : Kept(n)
         /\ sheets' \subseteq SheetsOf(opens, version)'
<1> USE ScreensAssumption DEF IInv
<1> DEFINE h == Handlers[w.of]
           invite == Sheet("invite", opens + 1)
<1>1. opens \in Nat /\ opens' \in Nat /\ opens' >= opens /\ version \in Nat /\ w.v \in 0 .. version
  BY DEF Typed, Room, WriteOK
<1>2. \A k \in sheets' :
        \/ \E sh \in sheets : k.n = sh.n /\ k.name = sh.name /\ k = Owed(sh, w)
        \/ /\ k = invite /\ h.after = "invites"
           /\ \A sh \in sheets : sh.name # "invite"
  BY SheetsIs
<1>3. invite.n = opens + 1 /\ invite.name = "invite"
  BY SheetIs
<1>4. \A sh \in sheets : sh.n \in 1 .. opens
  BY DEF Typed, SheetsOf
<1>5. Places'
  <2>1. \A k \in sheets' : k.n # mounts[screen]
    BY <1>1, <1>2, <1>3 DEF Places
  <2>2. \A a, b \in sheets' : a.n = b.n \/ a.name = b.name => a = b
    <3> SUFFICES ASSUME NEW a \in sheets', NEW b \in sheets', a.n = b.n \/ a.name = b.name
                 PROVE  a = b
      OBVIOUS
    <3> HIDE DEF invite, h
    <3>1. CASE a = invite \/ b = invite
      BY <3>1, <1>1, <1>2, <1>3, <1>4
    <3>2. CASE a # invite /\ b # invite
      <4>1. PICK x \in sheets : a.n = x.n /\ a.name = x.name /\ a = Owed(x, w)
        BY <3>2, <1>2
      <4>2. PICK y \in sheets : b.n = y.n /\ b.name = y.name /\ b = Owed(y, w)
        BY <3>2, <1>2
      <4> QED BY <4>1, <4>2 DEF Places
    <3> QED BY <3>1, <3>2
  <2>3. \A a, b \in sheets' : a.name = "member" => b.name # "settle"
    BY <1>2, <1>3 DEF Places
  <2>4. mounts[screen] \in 1 .. opens'
    BY <1>1 DEF Places
  <2> QED BY <2>1, <2>2, <2>3, <2>4 DEF Places, self
<1>6. \A n \in 1 .. opens : Kept(n)
  BY <1>1, <1>2, <1>3, <1>5, KeptBySheets
<1>7. sheets' \subseteq SheetsOf(opens, version)'
  <2>1. \A sh \in sheets : Owed(sh, w) \in SheetsOf(opens, version)
    BY <1>1, OwedIs DEF Typed
  <2>2. SheetsOf(opens, version) \subseteq SheetsOf(opens, version)'
    BY <1>1 DEF SheetsOf
  <2>3. h.after = "invites" => invite \in SheetsOf(opens, version)'
    BY <1>1, NamesOfSheets DEF Sheet, SheetsOf
  <2> QED BY <1>2, <2>1, <2>2, <2>3
<1> QED BY <1>5, <1>6, <1>7

(* What lasts is what was open and still is; a form that an answer closes  *)
(* is not there any more.                                                  *)
LEMMA AnswerOpen ==
  ASSUME IInv, NEW w \in writes, sheets' = Sheets(w), UNCHANGED <<screen, mounts>>, Places',
         \A n \in 1 .. opens : Kept(n)
  PROVE  LET h == Handlers[w.of]
             gone == sheets \ Sheets(w)
         IN /\ \A n \in Open :
                 n \in Open' <=> \A sh \in gone : sh.n = n => h.changes = "due"
            /\ h.after = "closes" /\ h.on \notin Names => w.n \notin Open'
            /\ h.after \notin {"closes", "deletes"} => \A n \in Open : n \in Open'
<1> USE ScreensAssumption DEF IInv
<1> DEFINE h == Handlers[w.of]
           gone == sheets \ Sheets(w)
<1>1. Proper(w.of, h) /\ w.v \in 0 .. version /\ version \in Nat
  BY AllProper DEF Typed, WriteOK, HandlersProper, Room
<1>2. \A n : n \in Open <=> n = mounts[screen] \/ \E sh \in sheets : sh.n = n
  BY OpenIs
<1>3. \A n : n \in Open' <=> n = mounts[screen] \/ \E sh \in sheets' : sh.n = n
  BY OpenIsNext
<1>4. \A sh \in sheets :
        /\ Owed(sh, w).n = sh.n /\ (h.changes # "due" => Owed(sh, w) = sh)
        /\ sh.n # mounts[screen] /\ \A k \in sheets : k.n = sh.n => k = sh
  BY <1>1, OwedIs DEF Typed, Places
<1>5. /\ \A sh \in sheets :
            IF h.after \in {"closes", "deletes"}
            THEN sh \in Sheets(w) <=> sh.name # h.on
            ELSE Owed(sh, w) \in Sheets(w) \/ sh \in Sheets(w)
      /\ h.after \in {"closes", "deletes"} => Sheets(w) \subseteq sheets
  BY SheetsIs
<1>6. h.after \in {"closes", "deletes"} => h.changes # "due"
  BY <1>1 DEF Proper
<1>7. h.after \notin {"closes", "deletes"} => \A n \in Open : n \in Open'
  BY <1>2, <1>3, <1>4, <1>5
<1>8. ASSUME NEW n \in Open
      PROVE  n \in Open' <=> \A sh \in gone : sh.n = n => h.changes = "due"
  <2>1. CASE h.after \notin {"closes", "deletes"}
    BY <2>1, <1>4, <1>5, <1>7, <1>8
  <2>2. CASE h.after \in {"closes", "deletes"}
    <3>1. Sheets(w) \subseteq sheets /\ h.changes # "due"
      BY <2>2, <1>5, <1>6
    <3> QED BY <3>1, <1>2, <1>3, <1>4, <1>8
  <2> QED BY <2>1, <2>2
<1>9. ASSUME h.after = "closes", h.on \notin Names, w.n \in Open' PROVE FALSE
  <2>1. w.n \in 1 .. opens
    BY DEF Typed, WriteOK
  <2>2. Shows(w.n, h.on)
    BY <1>9, <2>1 DEF Kept, Guards, Belongs
  <2>3. PICK sh \in sheets : sh.n = w.n /\ sh.name = h.on
    BY <1>9, <2>2 DEF Shows
  <2>4. PICK k \in sheets' : k.n = w.n
    BY <1>3, <1>4, <1>9, <2>3
  <2>5. k \in sheets /\ sh \notin Sheets(w)
    BY <1>5, <1>9, <2>3, <2>4
  <2> QED BY <1>4, <2>3, <2>4, <2>5
<1> QED BY <1>7, <1>8, <1>9

LEMMA AcceptedKeeps == ASSUME IInv, Accepted PROVE IInv'
<1> USE ScreensAssumption DEF IInv
<1>1. UNCHANGED <<self, screen, mounts, quick, counts, shown, version, sent>>
  BY DEF Accepted
<1>2. PICK w \in writes :
        LET h == Handlers[w.of]
            gone == sheets \ Sheets(w)
            lasting == {n \in Open : \A sh \in gone : sh.n = n => h.changes = "due"}
        IN /\ mounts[w.screen] = w.mount
           /\ h.after \notin {"to the group", "to the list"}
           /\ h.after = "invites" => opens < MaxOpens
           /\ opens' = IF h.after = "invites" THEN opens + 1 ELSE opens
           /\ writes' = writes \ {w}
           /\ sheets' = Sheets(w)
           /\ busy' = {b \in Freed(w, "ok") : b[1] \in lasting}
           /\ finished' = IF h.after = "thanks" /\ w.n \in Open
                          THEN finished \cup {<<w.n, w.of>>}
                          ELSE {f \in finished : f[1] \in lasting}
           /\ undoable' = CASE h.after = "deletes" -> w.mount
                            [] h.after = "undone" -> 0
                            [] OTHER -> undoable
           /\ gets' = Loaded(w, h)
           /\ floor' = [s \in Names |->
                          IF s \in Changed(w) /\ mounts[s] # 0 THEN Promise(s, w.v)
                          ELSE floor[s]]
  BY DEF Accepted
<1> DEFINE h == Handlers[w.of]
           gone == sheets \ Sheets(w)
           lasting == {n \in Open : \A sh \in gone : sh.n = n => h.changes = "due"}
<1>3. /\ opens \in Nat /\ opens' \in 1 .. MaxOpens /\ opens' \in Nat /\ opens' >= opens
      /\ version \in Nat /\ version' = version /\ Handlers' = Handlers
  <2>1. opens \in 1 .. MaxOpens /\ version \in Nat
    BY DEF Typed, Room
  <2>2. opens' = opens \/ (opens < MaxOpens /\ opens' = opens + 1)
    BY <1>2
  <2>3. Handlers' = Handlers
    BY <1>1 DEF Handlers, self
  <2> QED BY <1>1, <2>1, <2>2, <2>3
<1>4. /\ w.of \in DOMAIN Handlers /\ w.n \in 1 .. opens /\ w.mount \in 1 .. opens
      /\ w.v \in 0 .. version /\ w.screen \in Names /\ Proper(w.of, h)
  BY AllProper DEF Typed, WriteOK, HandlersProper
<1>5. /\ Places' /\ \A n \in 1 .. opens : Kept(n)
      /\ sheets' \subseteq SheetsOf(opens, version)'
  BY <1>1, <1>2, AnswerPlaces
<1>6. /\ \A n : n \in lasting <=> n \in Open /\ n \in Open'
      /\ h.after = "closes" /\ h.on \notin Names => w.n \notin Open'
      /\ h.after \notin {"closes", "deletes"} => \A n \in Open : n \in Open'
  BY <1>1, <1>2, <1>5, AnswerOpen
<1>7. \A b \in busy : b[1] \in 1 .. opens
  BY GuardsOpen
<1>8. \A f \in finished : f[1] \in 1 .. opens /\ f[1] \in Open
  BY GuardsOpen
<1>9. busy' = {b \in Freed(w, "ok") : b[1] \in lasting}
  BY <1>2
<1>10. finished' = IF h.after = "thanks" /\ w.n \in Open
                   THEN finished \cup {<<w.n, w.of>>}
                   ELSE {f \in finished : f[1] \in lasting}
  BY <1>2
<1> HIDE DEF lasting
<1>11. Guards'
  <2>1. \A x : Guard(x)' = Guard(x)
    BY <1>3 DEF Guard
  <2>2. Freed(w, "ok") = IF "ok" \in h.frees THEN busy \ {Guard(w)} ELSE busy
    BY DEF Freed, Guard
  <2>3. ASSUME NEW b \in busy' PROVE b[1] \in Open' /\ \E x \in writes' : b = Guard(x)
    <3>1. b \in busy /\ b[1] \in Open /\ b[1] \in Open'
      BY <1>6, <1>9, <2>2, <2>3
    <3>2. PICK x \in writes : b = Guard(x)
      BY <3>1 DEF Guards, GuardsUp
    <3>3. CASE x # w
      BY <1>2, <3>1, <3>2, <3>3
    <3>4. CASE x = w
      <4>1. "ok" \notin h.frees
        BY <1>9, <2>2, <2>3, <3>2, <3>4
      <4>2. h.holder = "place" /\ h.after = "closes" /\ h.on \notin Names
        BY <1>2, <1>4, <4>1 DEF Proper
      <4>3. w.g = w.n
        BY <4>2 DEF Guards, Belongs
      <4> QED BY <1>6, <3>1, <3>2, <3>4, <4>2, <4>3 DEF Guard
    <3> QED BY <3>3, <3>4
  <2>4. ASSUME NEW x \in writes', x.g \in Open', Handlers[x.of].guard # "none"
        PROVE  Guard(x) \in busy'
    <3>1. x \in writes /\ x # w /\ x.g \in 1 .. opens
      BY <1>2 DEF Typed, WriteOK
    <3>2. x.g \in Open
      BY <1>5, <2>4, <3>1 DEF Kept
    <3>3. Guard(x) \in busy /\ Guard(x) # Guard(w)
      BY <2>4, <3>1, <3>2 DEF Guards, GuardsUp, OneEach
    <3> QED BY <1>6, <1>9, <2>2, <2>4, <3>2, <3>3 DEF Guard
  <2>5. GuardsUp'
    BY <1>3, <2>1, <2>3, <2>4 DEF GuardsUp
  <2>6. OneEach' /\ Belongs'
    BY <1>1, <1>2, <1>5, OneEachKept, BelongsKept DEF Guards, self
  <2>7. Thanks'
    <3>1. ASSUME NEW f \in finished, f[1] \in Open'
          PROVE  /\ f = <<f[1], f[2]>>
                 /\ f[2] \in DOMAIN Handlers /\ Shows(f[1], Handlers[f[2]].on)'
      BY <1>3, <1>5, <1>8, <3>1 DEF Guards, Thanks, Kept
    <3>2. CASE h.after = "thanks" /\ w.n \in Open
      <4>1. \A n \in Open : n \in Open'
        BY <1>6, <3>2
      <4>2. Shows(w.n, h.on)'
        BY <1>3, <1>4, <1>5, <3>2, <4>1 DEF Guards, Belongs, Kept
      <4> QED BY <1>3, <1>4, <1>8, <1>10, <3>1, <3>2, <4>1, <4>2 DEF Thanks
    <3>3. CASE ~(h.after = "thanks" /\ w.n \in Open)
      BY <1>3, <1>6, <1>10, <3>1, <3>3 DEF Thanks
    <3> QED BY <3>2, <3>3
  <2> QED BY <2>5, <2>6, <2>7 DEF Guards
<1>12. Rows'
  <2>1. \A f \in finished : f[1] \in Open' => f \in finished'
    BY <1>6, <1>8, <1>10
  <2>2. Counts(w.of) /\ w.n \in Open' => <<w.n, w.of>> \in finished'
    BY <1>4, <1>5, <1>6, <1>10 DEF Counts, Proper, Kept
  <2>3. \A x \in writes \ writes' : x = w
    BY <1>2
  <2>4. \A n \in 1 .. opens : n \in Open' => n \in Open
    BY <1>5 DEF Kept
  <2> QED BY <1>1, <1>2, <1>3, <2>1, <2>2, <2>3, <2>4, RowsKept DEF self
<1>13. Room'
  BY <1>1, <1>2, RoomKept
<1>14. /\ gets' \subseteq Gets /\ Apart'
       /\ \A g \in gets' : g.stage = "read" =>
            \E k \in gets : k.stage = "read" /\ k.path = g.path /\ k.value = g.value
       /\ \A f : (\E k \in gets : f \in k.for) => \E g \in gets' : f \in g.for
  BY <1>1, <1>2, LoadedIs, LoadedKeeps
<1> DEFINE due == {s \in Names : s \in Changed(w) /\ mounts[s] # 0}
<1>15. floor' = [s \in Names |-> IF s \in due THEN Promise(s, w.v) ELSE floor[s]]
  BY <1>2
<1>16. Fresh' /\ floor' \in [Names -> 0 .. MaxVersion]
  <2> HIDE DEF due
  <2> QED BY <1>1, <1>4, <1>14, <1>15, PromisesKeep
<1>17. Awaited'
  <2>1. /\ screen \in Names /\ screen' = screen /\ mounts' = mounts /\ shown' = shown
        /\ mounts[screen] # 0
    BY <1>1 DEF Places
  <2>2. (\E g \in gets' : <<screen, mounts[screen]>> \in g.for) => Awaited'
    BY <2>1 DEF Awaited, Waiting
  <2>3. CASE screen \notin Changed(w)
    <3>1. floor'[screen] = floor[screen]
      BY <1>15, <2>1, <2>3
    <3>2. CASE \E g \in gets : screen \in Waiting(g)
      <4>1. \E g \in gets : <<screen, mounts[screen]>> \in g.for
        BY <3>2 DEF Waiting
      <4> QED BY <1>14, <2>2, <4>1
    <3>3. CASE floor[screen] <= shown[screen]
      BY <2>1, <3>1, <3>3 DEF Awaited
    <3> QED BY <3>2, <3>3 DEF Loads, Awaited
  <2>4. CASE screen \in Changed(w)
    <3>1. \/ h.changes = "here" /\ screen = w.screen
          \/ h.changes = "home" /\ screen = "home" /\ w.of \notin Unfollowed
      BY <2>4 DEF Changed
    <3>2. gets' = Load(gets, screen, mounts[screen])
      <4>1. CASE h.changes = "here" /\ screen = w.screen
        BY <1>2, <1>4, <4>1 DEF Loaded, Proper
      <4>2. CASE h.changes = "home" /\ screen = "home" /\ w.of \notin Unfollowed
        <5>1. h.then = "home"
          BY <1>4, <4>2, Followed DEF Typed
        <5> QED BY <1>2, <4>2, <5>1 DEF Loaded
      <4> QED BY <3>1, <4>1, <4>2
    <3>3. \E g \in gets' : <<screen, mounts[screen]>> \in g.for
      BY <3>2, LoadAnswers DEF Typed
    <3> QED BY <2>2, <3>3
  <2> QED BY <2>3, <2>4
<1>18. Typed'
  <2>1. writes' \subseteq Writes /\ \A x \in writes' : WriteOK(x)'
    <3>1. writes' \subseteq writes
      BY <1>2
    <3> QED BY <1>1, <1>3, <3>1, WritesKept DEF self
  <2>2. undoable' \in 0 .. MaxOpens
    <3>1. w.mount \in 0 .. MaxOpens /\ undoable \in 0 .. MaxOpens /\ 0 \in 0 .. MaxOpens
      BY <1>4 DEF Typed
    <3>2. undoable' \in {w.mount, 0, undoable}
      BY <1>2
    <3> QED BY <3>1, <3>2
  <2> QED BY <1>1, <1>3, <1>5, <1>14, <1>16, <2>1, <2>2 DEF Typed, self, counts
<1> QED BY <1>5, <1>11, <1>12, <1>13, <1>14, <1>16, <1>17, <1>18 DEF Loads

-----------------------------------------------------------------------------
(* The theorems                                                            *)

LEMMA InitInv == Init => IInv
<1> SUFFICES ASSUME Init PROVE IInv
  OBVIOUS
<1> USE ScreensAssumption DEF Init
<1>1. /\ screen \in Names /\ sheets = {} /\ writes = {} /\ busy = {} /\ finished = {}
      /\ opens = 1 /\ version = 1 /\ 1 \in Openings /\ 1 \in 1 .. MaxVersion
  BY DEF Names, Tabs, Openings
<1>2. mounts = [k \in Names |-> IF k = screen \/ (client = "phone" /\ screen \in Tabs /\ k \in Tabs)
                                THEN 1 ELSE 0]
  BY DEF Mounted
<1>3. Places
  <2>1. client = "phone" /\ screen \in Tabs => \A k \in Tabs : mounts[k] = 1
    BY <1>2 DEF Names
  <2>2. mounts \in [Names -> {0, 1}] /\ mounts[screen] = 1
    BY <1>1, <1>2
  <2> QED BY <1>1, <2>1, <2>2 DEF Places
<1>4. Guards
  BY <1>1 DEF Guards, GuardsUp, OneEach, Belongs, Thanks
<1>5. Rows
  <2>1. \A n \in Openings : rows[n] = 0 /\ fails[n] = 0 /\ Sending(n) = 0
    BY <1>1 DEF Openings, Sending
  <2> QED BY <1>1, <2>1 DEF Rows
<1>6. {} \subseteq Gets /\ gets = Load({}, screen, 1)
  OBVIOUS
<1>7. Loads
  <2>1. \A g \in gets : g = Asked(screen, 1)
    BY <1>6 DEF Load, Asked
  <2>2. /\ Asked(screen, 1).path = Path(screen) /\ Asked(screen, 1).stage = "asked"
        /\ Asked(screen, 1).value = 0 /\ Asked(screen, 1).for = {<<screen, 1>>}
    BY DEF Asked
  <2>3. \A s \in Names : shown[s] = 0 /\ floor[s] = 0
    BY DEF Zeros
  <2>4. Apart /\ Fresh
    BY <1>1, <2>1, <2>2, <2>3 DEF Apart, Fresh
  <2>5. Awaited
    BY <1>1, <2>3 DEF Awaited
  <2> QED BY <2>4, <2>5 DEF Loads
<1>8. Room
  <2>1. {w \in writes : w.stage = "sent"} = {}
    BY <1>1
  <2> QED BY <1>1, <2>1, FS_EmptySet DEF Room
<1>9. Typed
  <2>1. gets \subseteq Gets
    BY <1>1, <1>6, LoadTyped
  <2> QED BY <1>1, <2>1 DEF Typed, Zeros
<1> QED BY <1>3, <1>4, <1>5, <1>7, <1>8, <1>9 DEF IInv

LEMMA NextInv == IInv /\ [Next]_vars => IInv'
<1> SUFFICES ASSUME IInv, [Next]_vars PROVE IInv'
  OBVIOUS
<1>1. ASSUME UNCHANGED vars PROVE IInv'
  <2>1. /\ UNCHANGED <<self, place, guards, writes, counts, loads, version, opens, sent>>
        /\ version \in Nat
    BY <1>1 DEF vars, IInv, Room
  <2>2. Room' /\ Loads'
    BY <2>1, RoomKept, LoadsSame DEF IInv, loads, place
  <2>3. /\ gets' \subseteq Gets
        /\ shown' \in [Names -> 0 .. MaxVersion] /\ floor' \in [Names -> 0 .. MaxVersion]
    BY <2>1 DEF IInv, Typed, loads
  <2> QED BY <2>1, <2>2, <2>3, LoadsOnly
<1>2. ASSUME OpenGroup \/ Back \/ WebTab PROVE IInv'
  <2>1. \E s \in Names : Goto(s)
    BY <1>2 DEF OpenGroup, Back, WebTab, Names, Tabs
  <2>2. UNCHANGED <<self, writes, counts, version, sent>>
    BY <1>2 DEF OpenGroup, Back, WebTab
  <2> QED BY <2>1, <2>2, GotoKeeps
<1> QED
  BY <1>1, <1>2, PhoneTabKeeps, OpenSheetKeeps, CloseKeeps, CloseAndLoadKeeps, PayMemberKeeps,
     StartQuickAddKeeps, QuickAnsweredKeeps, ServeGetKeeps, GetAnsweredKeeps, GetFailedKeeps,
     PressKeeps, ServeKeeps, FailedKeeps, LedKeeps, AcceptedKeeps, AcceptedLateKeeps,
     OthersKeeps DEF Next

LEMMA Invariant == Spec => []IInv
BY InitInv, NextInv, PTL DEF Spec

(* Every guard that is up is that of a write that is out, and every load,  *)
(* sheet and count stays within what has been opened and changed: the state*)
(* of either client's screens (App.tsx, Group.tsx) has its type.           *)
THEOREM TypeCorrect == Spec => []TypeOK
<1>1. Spec => []IInv
  BY Invariant
<1> QED BY <1>1, InvTyped, PTL

(* However a guarded form of either client is pressed, closed, opened again*)
(* and answered, one opening of it makes at most one row on the server, and*)
(* one more for each failure it has shown.                                 *)
THEOREM OneRowEach == Spec => []OneRowPerOpening
<1>1. Spec => []IInv
  BY Invariant
<1> QED BY <1>1, Bounded, PTL

(* When no load of the screen in front is under way, the screen shows at   *)
(* least what the person's own accepted writes made of it, and nothing     *)
(* older than it has shown, in both clients' load and reload.              *)
THEOREM ShowsTheLatest == Spec => []CatchesUp
<1>1. Spec => []IInv
  BY Invariant
<1> QED BY <1>1, Caught, PTL
=============================================================================

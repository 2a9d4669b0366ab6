------------------------------- MODULE Screens -------------------------------
(***************************************************************************)
(* What lies around the expense form in both clients: the screens and the  *)
(* sheets over them, the writes their buttons send, the loads that follow, *)
(* and answers that arrive when the person has moved on.  A handler is a   *)
(* record that says what its code does before the request and with either  *)
(* answer; one machine runs them all.  What is typed, the requests' bodies *)
(* and everything drawn are left out.                                      *)
(***************************************************************************)
EXTENDS Naturals, FiniteSets

CONSTANTS
  Clients,     \* of {"web", "phone"}
  Habits,      \* bounds of an instance: the pages and sheets used together,
  MaxOpens,    \* screens and sheets opened,
  MaxWrites,   \* buttons pressed that send a write,
  MaxVersion   \* and changes the server makes, others' included

ASSUME ScreensAssumption ==
  /\ Clients \subseteq {"web", "phone"}
  /\ MaxOpens \in Nat \ {0} /\ MaxWrites \in Nat /\ MaxVersion \in Nat
  /\ MaxWrites < MaxVersion

VARIABLES
  client,    \* which of the two this is
  habit,     \* the pages and sheets its person uses
  screen,    \* the screen in front
  mounts,    \* the opening each screen is mounted by, or 0
  sheets,    \* the sheets open over it: name, opening, version due on leaving
  busy,      \* the guards that are up: opening and flag
  finished,  \* forms that show their thanks instead: opening and handler
  undoable,  \* the opening of the group whose last deletion can be undone
  quick,     \* homes that ask for a group's last currency, to add an expense
  writes,    \* requests out, with the server or on their way back
  rows,      \* per opening, what the server made of a form's presses ...
  fails,     \* ... and the failures it showed
  gets,      \* loads on their way, by path
  version,   \* what the server holds
  shown,     \* per screen, the version it shows, 0 before the first
  floor,     \* per screen, the version it must have come to when all is quiet
  opens, sent

place == <<screen, mounts, sheets>>
guards == <<busy, finished, undoable, quick>>
counts == <<rows, fails>>
loads == <<gets, shown, floor>>
self == <<client, habit>>
vars == <<self, place, guards, writes, counts, loads, version, opens, sent>>

Tabs == {"home", "groups", "activity", "profile"}
Names == Tabs \cup {"group"}
Answers == {"ok", "fail"}

-----------------------------------------------------------------------------
(* The handlers.  A press is refused while guard is up (unless "none"), and*)
(* raises it; guard belongs to the sheet or screen the button is on, or to *)
(* the screen under it.  frees says which answers take it down.  makes:    *)
(* every acceptance is a row of its own.  changes: whose picture is old    *)
(* after it.  then: the load that follows.  after: what closes or opens.   *)

Handler ==
  [on |-> "group", guard |-> "none", holder |-> "place", frees |-> Answers,
   makes |-> FALSE, changes |-> "here", then |-> "reload", after |-> "stays"]

(* The group page: Undo takes the last deletion back.                      *)
WebUndo == [Handler EXCEPT !.after = "undone"]
PhoneUndo == [Handler EXCEPT !.after = "undone"]

(* The phone asks for a link before it opens the sheet that shows it.      *)
PhoneInviteLink ==
  [Handler EXCEPT !.makes = TRUE, !.changes = "nothing", !.then = "nothing",
                  !.after = "invites"]

(* The expense form adds one, or shows one to change, delete or comment on.*)
WebAddExpense ==
  [Handler EXCEPT !.on = "adding", !.guard = "saving", !.makes = TRUE,
                  !.after = "closes"]
PhoneAddExpense == WebAddExpense
WebUpdateExpense == [WebAddExpense EXCEPT !.on = "editing", !.makes = FALSE]
PhoneUpdateExpense == WebUpdateExpense

WebDeleteExpense == [Handler EXCEPT !.on = "editing", !.after = "deletes"]
PhoneDeleteExpense == [Handler EXCEPT !.on = "editing", !.after = "deletes"]

(* A comment joins the list the form has read.                             *)
WebComment ==
  [Handler EXCEPT !.on = "editing", !.makes = TRUE, !.changes = "nothing",
                  !.then = "nothing"]
PhoneComment == WebComment

(* Group settings share one guard.  Lock, Unlock, Archive and Leave take   *)
(* it down on a failure only: a success closes the sheet.                  *)
WebLockArchiveLeave ==
  [Handler EXCEPT !.on = "settings", !.guard = "busy", !.frees = {"fail"},
                  !.after = "closes"]
PhoneLockArchiveLeave == WebLockArchiveLeave
WebSaveSettings == [WebLockArchiveLeave EXCEPT !.frees = Answers]
PhoneSaveSettings == WebSaveSettings
WebDeleteGroup ==
  [WebLockArchiveLeave EXCEPT !.changes = "nothing", !.then = "nothing",
                              !.after = "to the list"]
PhoneDeleteGroup == WebDeleteGroup

(* The invite sheet stays: one person after the other, or an email.        *)
WebAddKnown == [Handler EXCEPT !.on = "invite", !.guard = "addBusy"]
PhoneAddKnown == [Handler EXCEPT !.on = "invite", !.guard = "addBusy"]
WebEmailInvite ==
  [Handler EXCEPT !.on = "invite", !.makes = TRUE, !.changes = "nothing",
                  !.then = "nothing"]
PhoneEmailInvite == WebEmailInvite

(* The import: reading a file or the other service's groups, then the      *)
(* rows.  Its result replaces the form, and Done is what loads.            *)
WebInspect ==
  [Handler EXCEPT !.on = "import", !.guard = "busy", !.changes = "nothing",
                  !.then = "nothing"]
PhoneConnect == WebInspect
WebImport ==
  [Handler EXCEPT !.on = "import", !.guard = "busy", !.makes = TRUE,
                  !.changes = "due", !.then = "nothing", !.after = "thanks"]
PhoneImport == WebImport

(* Not the code: a failure leaves the sheet locked.                        *)
WebReceivedLocked ==
  [Handler EXCEPT !.on = "member", !.guard = "busy", !.frees = {"ok"},
                  !.makes = TRUE, !.after = "closes"]

(* The sheet of a member: money received, and a reminder.                  *)
WebReceived ==
  [Handler EXCEPT !.on = "member", !.guard = "busy", !.frees = {"fail"},
                  !.makes = TRUE, !.after = "closes"]
PhoneReceived == WebReceived
WebRemind ==
  [Handler EXCEPT !.on = "member", !.guard = "busy", !.changes = "nothing",
                  !.then = "nothing"]
PhoneRemind == WebRemind

(* Paying somebody is one press for each way to pay, and nothing holds a   *)
(* second press back.                                                      *)
WebPay == [Handler EXCEPT !.on = "settle", !.makes = TRUE, !.after = "closes"]
PhonePay == WebPay

(* The names and the order of categories: the answer replaces the edits,   *)
(* and the group is loaded on the way back.  The phone's Save says that it *)
(* is busy and can be pressed all the same.                                *)
WebSaveCategories ==
  [Handler EXCEPT !.on = "categories", !.guard = "busy", !.changes = "due",
                  !.then = "nothing"]
PhoneSaveCategories == [WebSaveCategories EXCEPT !.guard = "none"]

(* Home: a payment to confirm or (on the web) to decline; the email that   *)
(* confirms an address; a new group; a friend, whose guard on the web is   *)
(* the screen's.                                                           *)
WebConfirm == [Handler EXCEPT !.on = "home"]
PhoneConfirm == [Handler EXCEPT !.on = "home"]
WebResend ==
  [Handler EXCEPT !.on = "home", !.makes = TRUE, !.changes = "nothing",
                  !.then = "nothing", !.after = "thanks"]
PhoneResend == WebResend
WebCreateGroup ==
  [Handler EXCEPT !.on = "newGroup", !.makes = TRUE, !.changes = "nothing",
                  !.then = "nothing", !.after = "to the group"]
PhoneCreateGroup == WebCreateGroup
WebAddFriend ==
  [Handler EXCEPT !.on = "friend", !.guard = "friendBusy", !.holder = "screen",
                  !.changes = "nothing", !.then = "nothing",
                  !.after = "to the group"]
PhoneAddFriend == [WebAddFriend EXCEPT !.holder = "place"]

(* Profile: a tab of both clients, and on the web a sheet over Home too.   *)
(* What Home shows is in the currency saved here: the phone's Home, if it  *)
(* is in front, loads again when the user changes.  Ending the sessions of *)
(* other devices guards nothing and changes nothing here, and is left out. *)
WebSaveProfile ==
  [Handler EXCEPT !.on = "profile", !.changes = "home", !.then = "nothing",
                  !.after = "closes"]
PhoneSaveProfile ==
  [WebSaveProfile EXCEPT !.guard = "busy", !.then = "home", !.after = "stays"]
WebAvatar ==
  [Handler EXCEPT !.on = "profile", !.guard = "avatarBusy", !.changes = "nothing",
                  !.then = "nothing", !.after = "closes"]
PhoneAvatar == [WebAvatar EXCEPT !.after = "stays"]
WebReport ==
  [Handler EXCEPT !.on = "profile", !.guard = "reportBusy", !.makes = TRUE,
                  !.changes = "nothing", !.then = "nothing", !.after = "thanks"]
PhoneReport == WebReport

Web ==
  [undo |-> WebUndo, addExpense |-> WebAddExpense,
   updateExpense |-> WebUpdateExpense, deleteExpense |-> WebDeleteExpense,
   comment |-> WebComment,
   saveSettings |-> WebSaveSettings, deleteGroup |-> WebDeleteGroup,
   lock |-> WebLockArchiveLeave, addKnown |-> WebAddKnown,
   emailInvite |-> WebEmailInvite, inspect |-> WebInspect,
   import |-> WebImport, received |-> WebReceived, remind |-> WebRemind,
   pay |-> WebPay, saveCategories |-> WebSaveCategories,
   confirm |-> WebConfirm, resend |-> WebResend, createGroup |-> WebCreateGroup,
   addFriend |-> WebAddFriend, saveProfile |-> WebSaveProfile,
   avatar |-> WebAvatar, report |-> WebReport]

Phone ==
  [undo |-> PhoneUndo, inviteLink |-> PhoneInviteLink,
   addExpense |-> PhoneAddExpense,
   updateExpense |-> PhoneUpdateExpense, deleteExpense |-> PhoneDeleteExpense,
   comment |-> PhoneComment, saveSettings |-> PhoneSaveSettings,
   deleteGroup |-> PhoneDeleteGroup, lock |-> PhoneLockArchiveLeave,
   addKnown |-> PhoneAddKnown, emailInvite |-> PhoneEmailInvite,
   inspect |-> PhoneConnect, import |-> PhoneImport,
   received |-> PhoneReceived, remind |-> PhoneRemind, pay |-> PhonePay,
   saveCategories |-> PhoneSaveCategories, confirm |-> PhoneConfirm,
   resend |-> PhoneResend, createGroup |-> PhoneCreateGroup,
   addFriend |-> PhoneAddFriend, saveProfile |-> PhoneSaveProfile,
   avatar |-> PhoneAvatar, report |-> PhoneReport]

Handlers == IF client = "web" THEN Web ELSE Phone

(* Presses that nothing holds back although each makes something of its    *)
(* own: the two clients file a payment, a group, a comment, an invitation  *)
(* or an email twice when they are pressed twice.                          *)
Unguarded ==
  {"pay", "createGroup", "comment", "emailInvite", "inviteLink", "resend"}

(* The one change no load follows: Home on the web stays in the currency   *)
(* it was loaded in.                                                       *)
Unfollowed == IF client = "web" THEN {"saveProfile"} ELSE {}

-----------------------------------------------------------------------------
(* Screens, sheets and loads                                               *)

(* The sheets a page opens by itself.  Another opens from a sheet, or when *)
(* an answer arrives.                                                      *)
WebHomeSheets == {"pick", "newGroup", "friend", "profile"}
WebGroupSheets ==
  {"adding", "editing", "settings", "invite", "import", "member", "settle",
   "categories"}
PhoneTabSheets == {"newGroup", "friend"}
PhoneGroupSheets == WebGroupSheets \ {"invite"}

PageSheets ==
  CASE screen = "home" /\ client = "web" -> WebHomeSheets
    [] screen = "group" /\ client = "web" -> WebGroupSheets
    [] screen = "home" /\ client = "phone" -> PhoneTabSheets \cup {"pick"}
    [] screen = "groups" /\ client = "phone" -> PhoneTabSheets
    [] screen = "group" /\ client = "phone" -> PhoneGroupSheets
    [] OTHER -> {}

Sheet(name, n) == [name |-> name, n |-> n, due |-> 0]

Open == {mounts[s] : s \in {k \in Names : mounts[k] # 0}} \cup {sh.n : sh \in sheets}

Larger(a, b) == IF a < b THEN b ELSE a

(* Home, groups and activity begin with the same question.                 *)
Path(s) == IF s \in {"home", "groups", "activity"} THEN "balances" ELSE s

(* Not the code: each asks for itself.                                     *)
LoadEach(asked, s, mount) ==
  asked \cup {[path |-> Path(s), stage |-> "asked", value |-> 0, for |-> {<<s, mount>>}]}

(* A screen that asks what is being asked already shares the answer.       *)
Load(asked, s, mount) ==
  LET running == {g \in asked : g.path = Path(s)}
  IN IF running = {}
     THEN asked \cup {[path |-> Path(s), stage |-> "asked", value |-> 0,
                       for |-> {<<s, mount>>}]}
     ELSE (asked \ running) \cup {[g EXCEPT !.for = @ \cup {<<s, mount>>}] : g \in running}

(* What an answer under way has read of the server before a load joins it. *)
Beforehand(s) ==
  {g.value : g \in {k \in gets : k.path = Path(s) /\ k.stage = "read"}}

(* A load promises its screen at least `owed`, unless it joins an answer   *)
(* that is older.                                                          *)
Promise(s, owed) ==
  IF \E v \in Beforehand(s) : v < owed THEN floor[s] ELSE Larger(floor[s], owed)

-----------------------------------------------------------------------------
Zeros == [s \in Names |-> 0]

TypeOK ==
  /\ client \in Clients /\ habit \in Habits
  /\ screen \in Names /\ mounts \in [Names -> 0 .. MaxOpens]
  /\ mounts[screen] # 0
  /\ \A sh \in sheets : sh.n \in 1 .. opens /\ sh.due \in 0 .. MaxVersion
  /\ \A a, b \in sheets : a.name = b.name => a = b
  /\ undoable \in 0 .. MaxOpens /\ quick \subseteq 1 .. MaxOpens
  /\ \A w \in writes : w.of \in DOMAIN Handlers /\ w.stage \in {"sent", "done", "refused"}
  /\ \A b \in busy :
       \E w \in writes : b = <<w.g, Handlers[w.of].guard>>
  /\ \A g \in gets : g.stage \in {"asked", "read"} /\ g.value \in 0 .. MaxVersion
  /\ version \in 1 .. MaxVersion
  /\ shown \in [Names -> 0 .. MaxVersion] /\ floor \in [Names -> 0 .. MaxVersion]
  /\ rows \in [0 .. MaxOpens -> Nat] /\ fails \in [0 .. MaxOpens -> Nat]
  /\ opens \in 0 .. MaxOpens /\ sent \in 0 .. MaxWrites

(* The web mounts one screen at a time, the phone its four tabs together.  *)
Mounted(s, n) ==
  [k \in Names |-> IF k = s \/ (client = "phone" /\ s \in Tabs /\ k \in Tabs)
                   THEN n ELSE 0]

Init ==
  /\ client \in Clients /\ habit \in Habits
  /\ screen \in {"home", "group"} \cap habit
  /\ mounts = Mounted(screen, 1) /\ sheets = {}
  /\ busy = {} /\ finished = {} /\ undoable = 0 /\ quick = {}
  /\ writes = {}
  /\ rows = [n \in 0 .. MaxOpens |-> 0] /\ fails = [n \in 0 .. MaxOpens |-> 0]
  /\ gets = Load({}, screen, 1)
  /\ version = 1 /\ shown = Zeros /\ floor = Zeros
  /\ opens = 1 /\ sent = 0

(* Everything that was mounted before goes with it.                        *)
Goto(s) ==
  /\ opens < MaxOpens
  /\ opens' = opens + 1
  /\ screen' = s /\ mounts' = Mounted(s, opens + 1) /\ sheets' = {}
  /\ busy' = {} /\ finished' = {} /\ undoable' = 0 /\ quick' = {}
  /\ gets' = Load({[g EXCEPT !.for = {}] : g \in gets}, s, opens + 1)
  /\ shown' = Zeros /\ floor' = Zeros

OpenGroup ==
  /\ screen \in Tabs /\ sheets = {}
  /\ "group" \in habit
  /\ Goto("group")
  /\ UNCHANGED <<self, writes, counts, version, sent>>

Back ==
  /\ screen = "group" /\ sheets = {}
  /\ Goto(IF client = "web" THEN "groups" ELSE "home")
  /\ UNCHANGED <<self, writes, counts, version, sent>>

WebTab ==
  /\ client = "web" /\ screen \in Tabs /\ sheets = {}
  /\ \E s \in (Tabs \cap habit) \ {screen} : Goto(s)
  /\ UNCHANGED <<self, writes, counts, version, sent>>

(* The phone's tab was there all along, and loads again.                   *)
PhoneTab ==
  /\ client = "phone" /\ screen \in Tabs /\ sheets = {}
  /\ \E s \in (Tabs \cap habit) \ {screen} :
       /\ screen' = s
       /\ gets' = Load(gets, s, mounts[s])
       /\ floor' = [floor EXCEPT ![s] = IF \E v \in Beforehand(s) : v < @
                                        THEN shown[s] ELSE @]
  /\ UNCHANGED <<self, mounts, sheets, guards, writes, counts, shown, version,
                 opens, sent>>

OpenSheet ==
  /\ sheets = {}
  /\ opens < MaxOpens
  /\ opens' = opens + 1
  /\ \E name \in PageSheets \cap habit : sheets' = {Sheet(name, opens + 1)}
  /\ UNCHANGED <<self, screen, mounts, guards, writes, counts, loads, version, sent>>

(* A sheet takes its guards with it.  The way back from categories and the *)
(* import's Done load the group.                                           *)
Leave(sh, next) ==
  /\ sheets' = (sheets \ {sh}) \cup next
  /\ busy' = {b \in busy : b[1] # sh.n}
  /\ finished' = {f \in finished : f[1] # sh.n}
  /\ UNCHANGED <<self, screen, mounts, undoable, quick, writes, counts, shown,
                 version, sent>>

Close ==
  \E sh \in sheets :
    /\ sh.name # "categories"
    /\ Leave(sh, {})
    /\ UNCHANGED <<gets, floor, opens>>

CloseAndLoad ==
  \E sh \in sheets :
    /\ sh.name = "categories" \/ <<sh.n, "import">> \in finished
    /\ Leave(sh, {})
    /\ gets' = Load(gets, screen, mounts[screen])
    /\ floor' = [floor EXCEPT ![screen] = Promise(screen, sh.due)]
    /\ UNCHANGED opens

(* From a member's sheet to paying them.                                   *)
PayMember ==
  \E sh \in sheets :
    /\ sh.name = "member"
    /\ opens < MaxOpens
    /\ opens' = opens + 1
    /\ Leave(sh, {Sheet("settle", opens + 1)})
    /\ UNCHANGED <<gets, floor>>

(* Add expense from Home asks for the group's last currency first.  The    *)
(* rows of the picker wait for the answer, the button on the page does not.*)
startQuickAdd ==
  /\ screen = "home" /\ shown["home"] # 0
  /\ LET picking == \E sh \in sheets : sh.name = "pick"
     IN IF picking THEN quick = {} ELSE sheets = {}
  /\ quick' = quick \cup {mounts["home"]}
  /\ UNCHANGED <<self, place, busy, finished, undoable, writes, counts, loads,
                 version, opens, sent>>

(* With or without one the form opens, over whatever is there by then.     *)
QuickAnswered ==
  /\ opens < MaxOpens
  /\ \E m \in quick :
       /\ quick' = quick \ {m}
       /\ LET left == {sh \in sheets : sh.name # "pick"}
              there == \E sh \in left : sh.name = "adding"
          IN sheets' = IF there THEN left ELSE left \cup {Sheet("adding", opens + 1)}
  /\ opens' = opens + 1
  /\ UNCHANGED <<self, screen, mounts, busy, finished, undoable, writes, counts,
                 loads, version, sent>>

(* A load reads the server's state, and shows it where it was asked for.   *)
ServeGet ==
  /\ \E g \in gets :
       /\ g.stage = "asked"
       /\ gets' = (gets \ {g}) \cup {[g EXCEPT !.stage = "read", !.value = version]}
  /\ UNCHANGED <<self, place, guards, writes, counts, shown, floor, version,
                 opens, sent>>

Waiting(g) == {s \in Names : mounts[s] # 0 /\ <<s, mounts[s]>> \in g.for}

GetAnswered ==
  /\ \E g \in gets :
       /\ g.stage = "read"
       /\ gets' = gets \ {g}
       /\ shown' = [s \in Names |-> IF s \in Waiting(g) THEN g.value ELSE shown[s]]
       /\ floor' = [s \in Names |-> IF s \in Waiting(g) THEN Larger(floor[s], g.value)
                                    ELSE floor[s]]
  /\ UNCHANGED <<self, place, guards, writes, counts, version, opens, sent>>

(* A load that fails leaves what is shown, and nothing asks again.  An     *)
(* answer that is lost counts as one never given.                          *)
GetFailed ==
  /\ \E g \in gets :
       /\ g.stage = "asked"
       /\ gets' = gets \ {g}
       /\ floor' = [s \in Names |-> IF s \in Waiting(g) THEN shown[s] ELSE floor[s]]
  /\ UNCHANGED <<self, place, guards, writes, counts, shown, version, opens, sent>>

-----------------------------------------------------------------------------
(* Writes                                                                  *)

(* The opening a button is on: a sheet's, or the page's when none covers   *)
(* it; 0 when it is not there.                                             *)
On(h) ==
  LET over == {sh.n : sh \in {k \in sheets : k.name = h.on}}
  IN IF over # {} THEN CHOOSE n \in over : TRUE
     ELSE IF h.on = screen /\ sheets = {} THEN mounts[screen] ELSE 0

Send(name, n, g) ==
  LET h == Handlers[name] IN
  /\ sent < MaxWrites
  /\ n # 0
  /\ <<n, name>> \notin finished
  /\ name = "undo" => undoable = mounts["group"]
  /\ sent' = sent + 1
  /\ busy' = IF h.guard = "none" THEN busy ELSE busy \cup {<<g, h.guard>>}
  /\ writes' = writes \cup
       {[id |-> sent + 1, of |-> name, n |-> n, g |-> g, screen |-> screen,
         mount |-> mounts[screen], stage |-> "sent", v |-> 0]}
  /\ UNCHANGED <<self, place, finished, undoable, quick, counts, loads, version,
                 opens>>

Holder(h) == IF h.holder = "screen" THEN mounts[screen] ELSE On(h)

(* Not the code: a guard is only shown.                                    *)
pressAgain(name) ==
  LET h == Handlers[name] IN Send(name, On(h), Holder(h))

press(name) ==
  LET h == Handlers[name] IN
  /\ <<Holder(h), h.guard>> \notin busy
  /\ Send(name, On(h), Holder(h))

Press == \E name \in DOMAIN Handlers : Handlers[name].on \in habit /\ press(name)

(* The server takes it or turns it down.                                   *)
Serve ==
  /\ \E w \in writes :
       LET h == Handlers[w.of]
           counted == h.makes /\ w.of \notin Unguarded
           next == IF h.changes = "nothing" THEN version ELSE version + 1
       IN /\ w.stage = "sent"
          /\ \/ /\ writes' = (writes \ {w}) \cup {[w EXCEPT !.stage = "done", !.v = next]}
                /\ version' = next
                /\ rows' = [rows EXCEPT ![w.n] = @ + (IF counted THEN 1 ELSE 0)]
             \/ /\ writes' = (writes \ {w}) \cup {[w EXCEPT !.stage = "refused"]}
                /\ UNCHANGED <<version, rows>>
  /\ UNCHANGED <<self, place, guards, fails, loads, opens, sent>>

Freed(w, answer) ==
  IF answer \in Handlers[w.of].frees
  THEN busy \ {<<w.g, Handlers[w.of].guard>>} ELSE busy

(* Turned down, never arrived, or taken and the answer lost.               *)
Failed ==
  /\ \E w \in writes :
       LET counted == Handlers[w.of].makes /\ w.of \notin Unguarded
       IN /\ writes' = writes \ {w}
          /\ busy' = Freed(w, "fail")
          /\ fails' = [fails EXCEPT ![w.n] = @ + (IF counted THEN 1 ELSE 0)]
  /\ UNCHANGED <<self, place, finished, undoable, quick, rows, loads, version,
                 opens, sent>>

(* The answer leads elsewhere, wherever the person is by then.             *)
Led ==
  /\ \E w \in writes :
       LET after == Handlers[w.of].after
       IN /\ w.stage = "done"
          /\ after \in {"to the group", "to the list"}
          /\ Goto(IF after = "to the group" THEN "group"
                  ELSE IF client = "web" THEN "groups" ELSE "home")
          /\ writes' = writes \ {w}
  /\ UNCHANGED <<self, counts, version, sent>>

(* What an answer does to the sheets of its page: to the ones of its name, *)
(* whichever opening of it sent the write.                                 *)
Sheets(w) ==
  LET h == Handlers[w.of]
      named == {sh \in sheets : sh.name = h.on}
  IN CASE h.after \in {"closes", "deletes"} -> sheets \ named
       [] h.after = "invites" /\ ~\E sh \in sheets : sh.name = "invite" ->
            sheets \cup {Sheet("invite", opens + 1)}
       [] OTHER -> {IF sh.n = w.n /\ h.changes = "due"
                    THEN [sh EXCEPT !.due = Larger(@, w.v)] ELSE sh : sh \in sheets}

Loaded(w, h) ==
  CASE h.then = "reload" -> Load(gets, w.screen, w.mount)
    [] h.then = "home" /\ screen = "home" -> Load(gets, "home", mounts["home"])
    [] OTHER -> gets

Changed(w) ==
  LET changes == Handlers[w.of].changes
  IN {s \in Names : \/ changes = "here" /\ s = w.screen
                    \/ changes = "home" /\ s = "home" /\ w.of \notin Unfollowed}

(* Accepted, and the page that sent it is still there.                     *)
Accepted ==
  /\ \E w \in writes :
       LET h == Handlers[w.of]
           gone == sheets \ Sheets(w)
           lasting == {n \in Open : \A sh \in gone : sh.n = n => h.changes = "due"}
       IN /\ w.stage = "done"
          /\ h.after \notin {"to the group", "to the list"}
          /\ mounts[w.screen] = w.mount
          /\ h.after = "invites" => opens < MaxOpens
          /\ opens' = IF h.after = "invites" THEN opens + 1 ELSE opens
          /\ writes' = writes \ {w}
          /\ sheets' = Sheets(w)
          /\ busy' = {b \in Freed(w, "ok") : b[1] \in lasting}
          /\ finished' = IF h.after = "thanks" /\ w.n \in Open
                         THEN finished \cup {<<w.n, w.of>>}
                         ELSE {f \in finished : f[1] \in lasting}
          /\ undoable' = CASE h.after = "deletes" -> w.mount
                           [] h.after = "undone" -> 0
                           [] OTHER -> undoable
          /\ gets' = Loaded(w, h)
          /\ floor' = [s \in Names |->
                         IF s \in Changed(w) /\ mounts[s] # 0 THEN Promise(s, w.v)
                         ELSE floor[s]]
  /\ UNCHANGED <<self, screen, mounts, quick, counts, shown, version, sent>>

(* The page is gone: what the answer sets is nowhere.                      *)
AcceptedLate ==
  /\ \E w \in writes :
       /\ w.stage = "done"
       /\ Handlers[w.of].after \notin {"to the group", "to the list"}
       /\ mounts[w.screen] # w.mount
       /\ writes' = writes \ {w}
       /\ gets' = Loaded(w, Handlers[w.of])
  /\ UNCHANGED <<self, place, guards, counts, shown, floor, version, opens, sent>>

(* Somebody else changes the group, as long as room is left for all of the *)
(* person's own changes.                                                   *)
Others ==
  /\ version + Cardinality({w \in writes : w.stage = "sent"}) + (MaxWrites - sent)
       < MaxVersion
  /\ version' = version + 1
  /\ UNCHANGED <<self, place, guards, writes, counts, loads, opens, sent>>

Next ==
  \/ OpenGroup \/ Back \/ WebTab \/ PhoneTab
  \/ OpenSheet \/ Close \/ CloseAndLoad \/ PayMember
  \/ startQuickAdd \/ QuickAnswered
  \/ ServeGet \/ GetAnswered \/ GetFailed
  \/ Press \/ Serve \/ Failed \/ Led \/ Accepted \/ AcceptedLate
  \/ Others

Spec == Init /\ [][Next]_vars

-----------------------------------------------------------------------------
(* Properties                                                              *)

(* However it is pressed, closed, opened again and answered, one opening of*)
(* a guarded form makes at most one row, and one more for each failure it  *)
(* has shown: an answer can be lost after the server took the write.       *)
OneRowPerOpening == \A n \in 1 .. MaxOpens : rows[n] <= 1 + fails[n]

(* When no load of the screen in front is under way, it shows what the     *)
(* person's own accepted writes have made of it, and nothing older than it *)
(* has shown before.  Excepted are a load that failed and one that joined  *)
(* an answer read before the write.                                        *)
CatchesUp ==
  (\A g \in gets : screen \notin Waiting(g)) => shown[screen] >= floor[screen]

(* Not so: an answer closes only the sheet that sent it.  The handlers     *)
(* close by the sheet's name, so the answer to a sheet that was closed and *)
(* opened again closes the new one, with what is typed there.              *)
ClosesItsOwn ==
  [][\A w \in writes \ writes' :
       w.mount = mounts'[w.screen] =>
         \A sh \in sheets : (~\E k \in sheets' : k.n = sh.n) => sh.n = w.n]_vars
=============================================================================

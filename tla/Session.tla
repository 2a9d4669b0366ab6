------------------------------ MODULE Session ------------------------------
(***************************************************************************)
(* Who is signed in, on which server, and whose data is on the screen: the *)
(* shells of both clients (App of the web, AppShell of the phone), their   *)
(* sign-in screens, the phone's list of servers, the requests they send    *)
(* and the cache they paint from.  A session token is its account here.    *)
(* The web has one server; its token lives in localStorage, which `stored' *)
(* and the token of `conn' both stand for.  One path stands for every GET. *)
(***************************************************************************)
EXTENDS Naturals, FiniteSets

CONSTANTS
  Clients,    \* of {"web", "ios", "android"}
  Servers,    \* the servers a link may name or a person may type
  Default,    \* the one the build shipped with
  Accounts,   \* records [server, name]
  None,       \* no token, no user, nothing shown, nothing cached
  MaxMoves,   \* bounds of an instance: presses, links and restarts,
  MaxLoads    \* loads of the screen's data

ASSUME SessionAssumption ==
  /\ Clients \subseteq {"web", "ios", "android"}
  /\ Default \in Servers
  /\ \A a \in Accounts : a.server \in Servers
  /\ None \notin Accounts
  /\ MaxMoves \in Nat /\ MaxLoads \in Nat

VARIABLES
  client,     \* which of the two this is
  conn,       \* the server requests go to and the token they carry
  stored,     \* the token kept for each server
  known,      \* the servers in the list
  active,     \* the server the next start will use
  user,       \* whose screens are shown
  restoring,  \* the spinner is shown instead
  flows,      \* restores and switches under way
  edits,      \* changes of the list of servers under way
  cut,        \* servers off the list whose session was left behind
  calls,      \* sign-ins, profile saves and deletions awaiting an answer
  mount,      \* counts the screens mounted so far
  gets,       \* GETs on the network
  reading,    \* cached values on their way from the phone's disk
  cache,      \* whose data is cached under each account's key
  view,       \* what the screen shows
  disturbed,  \* a press overtook an answer, or the keystore failed
  moves, loads

places == <<stored, known, active>>
shown == <<user, restoring, mount, reading, view>>
listing == <<edits, cut>>
pending == <<flows, listing, calls, disturbed>>
network == <<gets, cache, loads>>
vars == <<client, conn, places, shown, pending, network, moves>>

Tokens == Accounts \cup {None}
Ways == {"form", "apple", "google"}

OnPhone == client # "web"

-----------------------------------------------------------------------------
(* What is on the screen                                                   *)

AuthShown == user = None /\ ~restoring
TabsShown == user # None /\ ~restoring

(* setUser and setRestoring.  The tabs, the sign-in screen and the spinner *)
(* replace one another: what the old one showed, or was reading, is gone.  *)
Show(u, r) ==
  LET same == ((u = None) <=> (user = None)) /\ (r <=> restoring)
  IN  /\ user' = u
      /\ restoring' = r
      /\ mount' = IF same THEN mount ELSE mount + 1
      /\ view' = IF same THEN view ELSE None
      /\ reading' = IF same THEN reading ELSE {}

(* Every press counts as a move; one made while an answer that will change *)
(* the session is still out, or a change of the list is still being        *)
(* written, disturbs it.                                                   *)
Move ==
  /\ moves < MaxMoves
  /\ moves' = moves + 1
  /\ disturbed' = (disturbed \/ flows # {} \/ calls # {} \/ edits # {})

Stay == UNCHANGED <<disturbed, moves>>

(* setToken; on the web the token is the stored one.                       *)
setToken(t) ==
  /\ conn' = [conn EXCEPT !.token = t]
  /\ stored' = IF client = "web" THEN [stored EXCEPT ![Default] = t] ELSE stored

(* setToken and rememberToken together.                                    *)
Remember(s, t) ==
  /\ conn' = [conn EXCEPT !.token = t]
  /\ stored' = [stored EXCEPT ![s] = t]

-----------------------------------------------------------------------------
(* Starting up, and moving to another server                               *)

Init ==
  /\ client \in Clients
  /\ conn = [base |-> Default, token |-> None]
  /\ stored = [s \in Servers |-> None]
  /\ known = {Default}
  /\ active = Default
  /\ user = None /\ restoring = TRUE /\ mount = 0
  /\ flows = {[n |-> 0, at |-> "read", to |-> Default, as |-> None]}
  /\ edits = {} /\ cut = {}
  /\ calls = {} /\ gets = {} /\ reading = {} /\ view = None
  /\ cache = [a \in Accounts |-> None]
  /\ disturbed = FALSE /\ moves = 0 /\ loads = 0

(* The app is killed, or the page reloaded: what was stored remains.  So   *)
(* does the session of a server that was off the list already.             *)
Restart ==
  /\ moves < MaxMoves
  /\ moves' = moves + 1
  /\ conn' = [base |-> Default, token |-> IF client = "web" THEN stored[Default] ELSE None]
  /\ user' = None /\ restoring' = TRUE /\ mount' = mount + 1
  /\ flows' = {[n |-> moves', at |-> "read", to |-> Default, as |-> None]}
  /\ edits' = {}
  /\ cut' = cut \cup {e.server : e \in {x \in edits : x.at = "token"}}
  /\ calls' = {} /\ gets' = {} /\ reading' = {} /\ view' = None
  /\ UNCHANGED <<client, places, cache, loads, disturbed>>

(* loadActive: a server no longer in the list does not stay active.        *)
loadActive(f) ==
  LET base == IF active \in known THEN active ELSE Default
  IN  /\ f.at = "read"
      /\ flows' = (flows \ {f}) \cup
                  {[f EXCEPT !.at = "set", !.to = base, !.as = stored[base]]}
      /\ Stay
      /\ UNCHANGED <<client, conn, places, shown, listing, calls, network>>

(* setActive: the switch is written down and the token there is read.      *)
setActive(f) ==
  /\ f.at = "activate"
  /\ active' = f.to
  /\ flows' = (flows \ {f}) \cup {[f EXCEPT !.at = "set", !.as = stored[f.to]]}
  /\ Stay
  /\ UNCHANGED <<client, conn, stored, known, shown, listing, calls, network>>

(* The keystore refuses the write: the switch ends where it began, with    *)
(* nobody signed in.                                                       *)
setActiveFailed(f) ==
  /\ f.at = "activate"
  /\ flows' = flows \ {f}
  /\ Show(user, FALSE)
  /\ disturbed' = TRUE
  /\ UNCHANGED <<client, conn, places, listing, calls, network, moves>>

(* Mutant: the token goes its own way, and a server with no session keeps  *)
(* the last one's.                                                         *)
setBackendInPieces(f) ==
  /\ f.at = "set"
  /\ conn' = [base |-> f.to, token |-> IF f.as = None THEN conn.token ELSE f.as]
  /\ gets' = {[g EXCEPT !.listed = FALSE] : g \in gets}
  /\ IF f.as = None
     THEN flows' = flows \ {f} /\ Show(user, FALSE)
     ELSE flows' = (flows \ {f}) \cup {[f EXCEPT !.at = "me"]} /\ UNCHANGED shown
  /\ Stay
  /\ UNCHANGED <<client, places, listing, calls, cache, loads>>

(* Mutant: the map of GETs in flight outlives the switch.                  *)
setBackendSharing(f) ==
  /\ f.at = "set"
  /\ conn' = [base |-> f.to, token |-> f.as]
  /\ IF f.as = None
     THEN flows' = flows \ {f} /\ Show(user, FALSE)
     ELSE flows' = (flows \ {f}) \cup {[f EXCEPT !.at = "me"]} /\ UNCHANGED shown
  /\ Stay
  /\ UNCHANGED <<client, places, listing, calls, network>>

(* Mutant: without a session it returns before the spinner is cleared.     *)
setBackendReturning(f) ==
  /\ f.at = "set"
  /\ conn' = [base |-> f.to, token |-> f.as]
  /\ gets' = {[g EXCEPT !.listed = FALSE] : g \in gets}
  /\ IF f.as = None
     THEN flows' = flows \ {f}
     ELSE flows' = (flows \ {f}) \cup {[f EXCEPT !.at = "me"]}
  /\ Stay
  /\ UNCHANGED <<client, places, shown, listing, calls, cache, loads>>

(* Mutant: me() is asked without a session too.                            *)
setBackendAsking(f) ==
  /\ f.at = "set"
  /\ conn' = [base |-> f.to, token |-> f.as]
  /\ gets' = {[g EXCEPT !.listed = FALSE] : g \in gets}
  /\ flows' = (flows \ {f}) \cup {[f EXCEPT !.at = "me"]}
  /\ Stay
  /\ UNCHANGED <<client, places, shown, listing, calls, cache, loads>>

(* Base and token are replaced as a whole, and the GETs in flight are no   *)
(* longer shared; then me() asks who that is, if there is a session.       *)
setBackend(f) ==
  /\ f.at = "set"
  /\ conn' = [base |-> f.to, token |-> f.as]
  /\ gets' = {[g EXCEPT !.listed = FALSE] : g \in gets}
  /\ IF f.as = None
     THEN flows' = flows \ {f} /\ Show(user, FALSE)
     ELSE flows' = (flows \ {f}) \cup {[f EXCEPT !.at = "me"]} /\ UNCHANGED shown
  /\ Stay
  /\ UNCHANGED <<client, places, listing, calls, cache, loads>>

(* The server knows the token.                                             *)
meAnswered(f) ==
  /\ f.at = "me"
  /\ f.as.server = f.to
  /\ flows' = flows \ {f}
  /\ Show(f.as, FALSE)
  /\ Stay
  /\ UNCHANGED <<client, conn, places, listing, calls, network>>

(* Any failure signs out: the token in use goes, and the one stored.       *)
meFailed(f) ==
  /\ f.at = "me"
  /\ flows' = flows \ {f}
  /\ Remember(f.to, None)
  /\ Show(user, FALSE)
  /\ Stay
  /\ UNCHANGED <<client, known, active, listing, calls, network>>

(* switchTo: signed out first, so that nothing of the old account is shown *)
(* meanwhile.                                                              *)
switchTo(n, s) ==
  /\ flows' = flows \cup {[n |-> n, at |-> "activate", to |-> s, as |-> None]}
  /\ Show(None, TRUE)

-----------------------------------------------------------------------------
(* The list of servers: each change is a few writes, awaited one by one    *)

(* Off the list, and more to do: its row is in the Profile until the end.  *)
BeingForgotten(s) == \E e \in edits : e.server = s /\ e.at \in {"token", "choose", "default"}

Row(s) == s \in known \/ BeingForgotten(s)

(* The list is read at the press, and so is which server is in use.        *)
Edit(what, s) ==
  edits' = edits \cup {[n |-> moves', what |-> what, at |-> "save", server |-> s,
                       list |-> known, here |-> s = conn.base, mount |-> mount]}

(* A tap on another server in the Profile.                                 *)
PickServer(s) ==
  /\ OnPhone /\ TabsShown
  /\ Row(s) /\ s # conn.base
  /\ Move
  /\ switchTo(moves', s)
  /\ UNCHANGED <<client, conn, places, listing, calls, network>>

(* A link to another server: one in the list is switched to at once, one   *)
(* that is not is asked about, and yes adds it.                            *)
FollowLink(s) ==
  /\ OnPhone
  /\ Move
  /\ IF s \in known
     THEN s # conn.base /\ switchTo(moves', s) /\ UNCHANGED edits
     ELSE Edit("link", s) /\ UNCHANGED <<flows, shown>>
  /\ UNCHANGED <<client, conn, places, cut, calls, network>>

(* "Add server", while it is not checking another.                         *)
onAddServer(s) ==
  /\ OnPhone /\ TabsShown
  /\ s \notin known
  /\ \A e \in edits : ~(e.what = "add" /\ e.mount = mount)
  /\ Move
  /\ Edit("add", s)
  /\ UNCHANGED <<client, conn, places, shown, flows, cut, calls, network>>

(* "Forget".                                                               *)
onRemoveServer(s) ==
  /\ OnPhone /\ TabsShown
  /\ Row(s) /\ s # Default
  /\ Move
  /\ Edit("forget", s)
  /\ UNCHANGED <<client, conn, places, shown, flows, cut, calls, network>>

Become(e, at) == edits' = (edits \ {e}) \cup {[e EXCEPT !.at = at]}

(* The probe finds no such server, or the keystore refuses the list: an    *)
(* alert at most.                                                          *)
abandoned(e) ==
  /\ e.at = "save"
  /\ edits' = edits \ {e}
  /\ Stay
  /\ UNCHANGED <<client, conn, places, shown, flows, cut, calls, network>>

(* Probed; then saveAdded: the list as it was read, and the new server.  A *)
(* link goes there.                                                        *)
addBackend(e) ==
  /\ e.at = "save" /\ e.what # "forget"
  /\ known' = e.list \cup {e.server}
  /\ edits' = edits \ {e}
  /\ IF e.what = "link" THEN switchTo(e.n, e.server) ELSE UNCHANGED <<flows, shown>>
  /\ Stay
  /\ UNCHANGED <<client, conn, stored, active, cut, calls, network>>

(* saveAdded: the list as it was read, without the server.                 *)
removeBackend(e) ==
  /\ e.at = "save" /\ e.what = "forget"
  /\ known' = e.list \ {e.server}
  /\ Become(e, "token")
  /\ Stay
  /\ UNCHANGED <<client, conn, stored, active, shown, flows, cut, calls, network>>

(* Then its session; that the keystore refuses is swallowed.               *)
dropToken(e) ==
  /\ e.at = "token"
  /\ \/ /\ stored' = [stored EXCEPT ![e.server] = None]
        /\ cut' = cut \ {e.server}
     \/ /\ cut' = cut \cup {e.server}
        /\ UNCHANGED stored
  /\ Become(e, "choose")
  /\ Stay
  /\ UNCHANGED <<client, conn, known, active, shown, flows, calls, network>>

(* The server that was in use is left for the shipped one.                 *)
Removed(e) ==
  /\ edits' = edits \ {e}
  /\ IF e.here THEN switchTo(e.n, Default) ELSE UNCHANGED <<flows, shown>>
  /\ Stay

(* Then the choice, if it is this server.                                  *)
chooseAnother(e) ==
  /\ e.at = "choose"
  /\ IF active = e.server
     THEN Become(e, "default") /\ Stay /\ UNCHANGED <<flows, shown>>
     ELSE Removed(e)
  /\ UNCHANGED <<client, conn, places, cut, calls, network>>

chooseDefault(e) ==
  /\ e.at = "default"
  /\ active' = Default
  /\ Removed(e)
  /\ UNCHANGED <<client, conn, stored, known, cut, calls, network>>

(* The keystore refuses: nothing is said, and nothing is left.             *)
chooseDefaultFailed(e) ==
  /\ e.at = "default"
  /\ edits' = edits \ {e}
  /\ disturbed' = TRUE
  /\ UNCHANGED <<client, conn, places, shown, flows, cut, calls, network, moves>>

-----------------------------------------------------------------------------
(* Signing in and out                                                      *)

(* Disables Sign in: the web's form, or anything but Google on the phone.  *)
Busy == \E c \in calls : /\ c.mount = mount
                         /\ c.what \in IF client = "web" THEN {"form"} ELSE {"form", "apple"}

Waiting == \E c \in calls : c.mount = mount /\ c.what = "google"

Call(what, a) ==
  calls' = calls \cup {[n |-> moves', what |-> what, as |-> a, mount |-> mount]}

(* Email and password, or a new account.                                   *)
PressSignIn(a) ==
  /\ AuthShown /\ ~Busy
  /\ Move
  /\ Call("form", a)
  /\ UNCHANGED <<client, conn, places, shown, flows, listing, network>>

(* Apple's sheet; neither client disables its button for a busy form.      *)
(* Android has none.                                                       *)
PressApple(a) ==
  /\ client # "android"
  /\ AuthShown
  /\ Move
  /\ Call("apple", a)
  /\ UNCHANGED <<client, conn, places, shown, flows, listing, network>>

(* Google: on the web a button of Google's own, on Android a session that  *)
(* the browser parks at the server and the app polls for.                  *)
PressGoogle(a) ==
  /\ client # "ios"
  /\ AuthShown
  /\ OnPhone => ~Busy /\ ~Waiting
  /\ Move
  /\ Call("google", a)
  /\ UNCHANGED <<client, conn, places, shown, flows, listing, network>>

(* Cancel, on Android, stops the polling.                                  *)
CancelGoogle(c) ==
  /\ OnPhone /\ AuthShown
  /\ c.what = "google" /\ c.mount = mount
  /\ calls' = calls \ {c}
  /\ Stay
  /\ UNCHANGED <<client, conn, places, shown, flows, listing, network>>

(* Only the phone's polling stops with the screen it began on.             *)
Heard(c) == OnPhone /\ c.what = "google" => c.mount = mount

(* onSignedIn: the token goes to the server in use now.                    *)
SignedIn(c) ==
  /\ c.what \in Ways
  /\ Heard(c)
  /\ calls' = calls \ {c}
  /\ Remember(conn.base, c.as)
  /\ Show(c.as, restoring)
  /\ Stay
  /\ UNCHANGED <<client, known, active, flows, listing, network>>

(* An error, or an answer nobody hears any more.                           *)
Refused(c) ==
  /\ calls' = calls \ {c}
  /\ Stay
  /\ UNCHANGED <<client, conn, places, shown, flows, listing, network>>

(* The session of the server in use ends, and every cached answer goes.    *)
LeaveSession ==
  /\ Remember(conn.base, None)
  /\ Show(None, restoring)
  /\ cache' = [a \in Accounts |-> None]
  /\ UNCHANGED <<client, known, active, flows, listing, gets, loads>>

SignOut == TabsShown /\ Move /\ LeaveSession /\ UNCHANGED calls

(* Save in the Profile or in the welcome: the answer becomes the user.     *)
PressSave ==
  /\ TabsShown
  /\ OnPhone => \A c \in calls : ~(c.what = "save" /\ c.mount = mount)
  /\ Move
  /\ Call("save", conn.token)
  /\ UNCHANGED <<client, conn, places, shown, flows, listing, network>>

Saved(c) ==
  /\ c.what = "save" /\ c.as # None
  /\ calls' = calls \ {c}
  /\ Show(c.as, restoring)
  /\ Stay
  /\ UNCHANGED <<client, conn, places, flows, listing, network>>

(* "Delete forever": the answer signs out.                                 *)
PressDelete ==
  /\ TabsShown
  /\ Move
  /\ Call("erase", conn.token)
  /\ UNCHANGED <<client, conn, places, shown, flows, listing, network>>

Erased(c) ==
  /\ c.what = "erase" /\ c.as # None
  /\ calls' = calls \ {c}
  /\ Stay
  /\ LeaveSession

-----------------------------------------------------------------------------
(* Loading a screen: the cached answer first, then the network's           *)

(* swr and req: a GET of this path still listed is joined, not repeated.   *)
Load ==
  LET c == [n |-> loads', key |-> user, mount |-> mount]
      running == {g \in gets : g.listed}
      cached == cache[user]
  IN  /\ TabsShown /\ loads < MaxLoads
      /\ loads' = loads + 1
      /\ gets' = IF running = {}
                 THEN gets \cup {[n |-> loads', base |-> conn.base, as |-> conn.token,
                                  callers |-> {c}, listed |-> TRUE]}
                 ELSE (gets \ running) \cup
                      {[g EXCEPT !.callers = @ \cup {c}] : g \in running}
      /\ view' = IF client = "web" /\ cached # None
                 THEN [of |-> cached, from |-> "cache", by |-> {loads'}] ELSE view
      /\ reading' = IF OnPhone /\ cached # None
                    THEN reading \cup {[n |-> loads', of |-> cached]} ELSE reading
      /\ UNCHANGED <<client, conn, places, user, restoring, mount, pending, cache, moves>>

(* The phone's disk answers.                                               *)
cacheRead(r) ==
  /\ reading' = reading \ {r}
  /\ view' = [of |-> r.of, from |-> "cache", by |-> {r.n}]
  /\ UNCHANGED <<client, conn, places, user, restoring, mount, pending, network, moves>>

(* However a GET ends, its path is free again.                             *)
Unlisted(g) == {[h EXCEPT !.listed = FALSE] : h \in gets \ {g}}

(* Mutant: nothing tells the cached value that the answer has landed.      *)
getAnsweredUnmarked(g) ==
  LET here == {c.n : c \in {d \in g.callers : d.mount = mount}}
  IN  /\ g.as # None /\ g.as.server = g.base
      /\ gets' = Unlisted(g)
      /\ cache' = [a \in Accounts |->
                     IF \E c \in g.callers : c.key = a THEN g.as ELSE cache[a]]
      /\ view' = IF here = {} THEN view
                 ELSE [of |-> g.as, from |-> "net", by |-> here]
      /\ UNCHANGED <<client, conn, places, user, restoring, mount, reading, pending, loads, moves>>

(* The answer is painted where its caller is still on the screen, and      *)
(* cached for whoever was the user when it was asked for.                  *)
getAnswered(g) ==
  LET here == {c.n : c \in {d \in g.callers : d.mount = mount}}
  IN  /\ g.as # None /\ g.as.server = g.base
      /\ gets' = Unlisted(g)
      /\ cache' = [a \in Accounts |->
                     IF \E c \in g.callers : c.key = a THEN g.as ELSE cache[a]]
      /\ reading' = {r \in reading : \A c \in g.callers : c.n # r.n}
      /\ view' = IF here = {} THEN view
                 ELSE [of |-> g.as, from |-> "net", by |-> here]
      /\ UNCHANGED <<client, conn, places, user, restoring, mount, pending, loads, moves>>

(* No answer, or a refusal: what is painted stays.                         *)
getFailed(g) ==
  /\ gets' = Unlisted(g)
  /\ UNCHANGED <<client, conn, places, shown, pending, cache, loads, moves>>

-----------------------------------------------------------------------------
Flow(f) == \/ loadActive(f) \/ setActive(f) \/ setActiveFailed(f)
           \/ setBackend(f) \/ meAnswered(f) \/ meFailed(f)

Write(e) == \/ abandoned(e) \/ addBackend(e) \/ removeBackend(e) \/ dropToken(e)
            \/ chooseAnother(e) \/ chooseDefault(e) \/ chooseDefaultFailed(e)

Next ==
  \/ Restart
  \/ \E f \in flows : Flow(f)
  \/ \E s \in Servers : PickServer(s) \/ FollowLink(s) \/ onAddServer(s) \/ onRemoveServer(s)
  \/ \E e \in edits : Write(e)
  \/ \E a \in Accounts : /\ a.server = conn.base
                         /\ \/ PressSignIn(a)
                            \/ PressApple(a)
                            \/ PressGoogle(a)
  \/ \E c \in calls : CancelGoogle(c) \/ SignedIn(c) \/ Refused(c) \/ Saved(c) \/ Erased(c)
  \/ SignOut \/ PressSave \/ PressDelete
  \/ Load
  \/ \E r \in reading : cacheRead(r)
  \/ \E g \in gets : getAnswered(g) \/ getFailed(g)

Spec == Init /\ [][Next]_vars

(* Every request is answered or fails at last, and the keystore answers.   *)
FairSpec == Spec /\ WF_vars(\E f \in flows : Flow(f))

-----------------------------------------------------------------------------
(* Properties                                                              *)

(* Every variable has its type.                                            *)
TypeOK ==
  /\ client \in Clients
  /\ conn \in [base : Servers, token : Tokens]
  /\ stored \in [Servers -> Tokens]
  /\ known \subseteq Servers /\ Default \in known
  /\ active \in Servers
  /\ user \in Tokens /\ restoring \in BOOLEAN /\ mount \in Nat
  /\ flows \subseteq [n : 0..MaxMoves, at : {"read", "activate", "set", "me"},
                     to : Servers, as : Tokens]
  /\ \A f \in flows : f.at = "me" => f.as # None
  /\ edits \subseteq [n : 0..MaxMoves, what : {"add", "link", "forget"},
                     at : {"save", "token", "choose", "default"},
                     server : Servers, list : SUBSET Servers, here : BOOLEAN, mount : Nat]
  /\ cut \subseteq Servers
  /\ calls \subseteq [n : 0..MaxMoves, what : Ways \cup {"save", "erase"},
                     as : Tokens, mount : Nat]
  /\ \A c \in calls : c.what \in Ways => c.as # None
  /\ gets \subseteq [n : 0..MaxLoads, base : Servers, as : Tokens, listed : BOOLEAN,
                    callers : SUBSET [n : 0..MaxLoads, key : Accounts, mount : Nat]]
  /\ reading \subseteq [n : 0..MaxLoads, of : Accounts]
  /\ cache \in [Accounts -> Tokens]
  /\ view \in [of : Accounts, from : {"cache", "net"}, by : SUBSET (0..MaxLoads)] \cup {None}
  /\ disturbed \in BOOLEAN /\ moves \in 0..MaxMoves /\ loads \in 0..MaxLoads

(* A token goes to the server it came from, and is kept under that server  *)
(* and under no server off the list, save while that is being forgotten or *)
(* when forgetting it was cut short after the list was written; the user   *)
(* shown is the one the token is of.                                       *)
SessionsMoveTogether ==
  /\ conn.token # None => conn.token.server = conn.base
  /\ \A s \in Servers : stored[s] # None =>
       stored[s].server = s /\ (s \in known \/ s \in cut \/ BeingForgotten(s))
  /\ TabsShown => user = conn.token /\ (user = stored[conn.base] \/ BeingForgotten(conn.base))

(* It does not hold as it stands: an answer that comes after the session   *)
(* it belongs to is left overwrites the next one's.  It holds for as long  *)
(* as no press overtook an answer or a change of the list, and the         *)
(* keystore took every token and every choice of a server, whatever        *)
(* answers failed, whether or not it deleted the session of a server that  *)
(* was forgotten, and between whichever two writes the app was killed.     *)
SessionsMoveTogetherUndisturbed == ~disturbed => SessionsMoveTogether

(* "Dropping the token is the point: leaving it behind would mean removing *)
(* a server from the list without removing the credential it holds": it    *)
(* does not hold.  The list is written first, and a kill before the token  *)
(* is deleted, or a keystore that refuses to, leaves it for good.          *)
ForgottenForGood ==
  ~disturbed /\ edits = {} => \A s \in Servers : stored[s] # None => s \in known

(* However GETs overlap with switches, sign-ins and restarts, nothing of   *)
(* another server is ever painted or cached (undisturbed, as above).       *)
SameServerShown ==
  ~disturbed => /\ view # None => view.of.server = user.server
            /\ \A a \in Accounts : cache[a] # None => cache[a].server = a.server

(* "A shared browser must never paint one account's data into another's":  *)
(* it does not hold, with nothing disturbed.  A GET still out when A signs *)
(* out is joined by B's first load of the same path.                       *)
OwnDataShown ==
  ~disturbed => /\ view # None => view.of = user
            /\ \A a \in Accounts : cache[a] \in {a, None}

(* A load that has been answered, by its own GET or one it joined, is not  *)
(* painted over by its own cached value.                                   *)
FreshStays ==
  [][LET back == /\ view # None /\ view.from = "net"
                 /\ view' # None /\ view'.from = "cache"
     IN  back => view.by \cap view'.by = {}]_vars

(* Not so: nor by that of an earlier load.  Each load marks its own cached *)
(* value only, and an earlier one may have failed with its disk still to   *)
(* answer.                                                                 *)
NewestStays ==
  [][LET back == /\ view # None /\ view.from = "net"
                 /\ view' # None /\ view'.from = "cache"
     IN  back => \A n \in view.by, m \in view'.by : n < m]_vars

(* Whatever fails on the way, and however switches overlap, the spinner    *)
(* gives way to a screen.                                                  *)
LeavesSplash == restoring ~> ~restoring
=============================================================================

--------------------------- MODULE Session_proofs ---------------------------
(***************************************************************************)
(* For any clients, servers and accounts, and however many presses, links, *)
(* restarts and loads: token, server and user move together, and what is   *)
(* on the screen is of their server, while no press overtakes an answer or *)
(* a change of the list of servers; and what was loaded is never painted   *)
(* over by what was cached before it.                                      *)
(***************************************************************************)
EXTENDS Session, TLAPS

Flows == [n : 0..MaxMoves, at : {"read", "activate", "set", "me"}, to : Servers, as : Tokens]

Edits ==
  [n : 0..MaxMoves, what : {"add", "link", "forget"}, at : {"save", "token", "choose", "default"},
   server : Servers, list : SUBSET Servers, here : BOOLEAN, mount : Nat]

Requests == [n : 0..MaxMoves, what : Ways \cup {"save", "erase"}, as : Tokens, mount : Nat]

Callers == [n : 0..MaxLoads, key : Accounts, mount : Nat]

Gets ==
  [n : 0..MaxLoads, base : Servers, as : Tokens, listed : BOOLEAN, callers : SUBSET Callers]

Views == [of : Accounts, from : {"cache", "net"}, by : SUBSET (0..MaxLoads)]

(* TypeOK, part by part.                                                   *)
PlacesOK ==
  /\ client \in Clients
  /\ conn \in [base : Servers, token : Tokens]
  /\ stored \in [Servers -> Tokens]
  /\ known \subseteq Servers /\ Default \in known
  /\ active \in Servers

ShownOK ==
  /\ user \in Tokens /\ restoring \in BOOLEAN /\ mount \in Nat
  /\ reading \subseteq [n : 0..MaxLoads, of : Accounts]
  /\ view \in Views \cup {None}

(* A list once read still holds the shipped server.                        *)
ListingOK ==
  /\ edits \subseteq Edits /\ \A e \in edits : Default \in e.list
  /\ \A e \in edits : e.what = "forget" => e.server # Default
  /\ cut \subseteq Servers

PendingOK ==
  /\ flows \subseteq Flows /\ \A f \in flows : f.at = "me" => f.as # None
  /\ calls \subseteq Requests /\ \A c \in calls : c.what \in Ways => c.as # None
  /\ ListingOK
  /\ disturbed \in BOOLEAN

NetworkOK ==
  /\ gets \subseteq Gets
  /\ cache \in [Accounts -> Tokens]
  /\ loads \in 0..MaxLoads

Typed == PlacesOK /\ ShownOK /\ PendingOK /\ NetworkOK /\ moves \in 0..MaxMoves

LEMMA Parts == Typed => TypeOK
BY DEF Typed, TypeOK, PlacesOK, ShownOK, PendingOK, ListingOK, NetworkOK, Flows, Edits,
      Requests, Callers, Gets, Views

-----------------------------------------------------------------------------
(* What the helpers do                                                     *)

LEMMA ShowTyped ==
  ASSUME ShownOK, NEW u \in Tokens, NEW r \in BOOLEAN, Show(u, r)
  PROVE  ShownOK'
BY DEF Show, ShownOK

(* A change of the list leaves the screen alone, or shows a switch.        *)
LEMMA WriteShows ==
  ASSUME NEW e \in edits, Write(e)
  PROVE  /\ UNCHANGED <<client, conn, calls, network>>
         /\ (UNCHANGED <<flows, shown>> \/ \E n, s : switchTo(n, s))
BY DEF Write, abandoned, addBackend, removeBackend, dropToken, chooseAnother, chooseDefault,
       chooseDefaultFailed, Removed

(* A switch shows nobody, and is a flow of its own.                        *)
LEMMA SwitchTyped ==
  ASSUME Typed, NEW n \in 0..MaxMoves, NEW s \in Servers, switchTo(n, s)
  PROVE  ShownOK' /\ flows' \subseteq Flows /\ \A f \in flows' : f.at = "me" => f.as # None
<1> USE SessionAssumption DEF Typed
<1>1. ShownOK'
  BY ShowTyped DEF switchTo, Tokens
<1>2. [n |-> n, at |-> "activate", to |-> s, as |-> None] \in Flows
  BY DEF Flows, Tokens
<1> QED BY <1>1, <1>2 DEF switchTo, PendingOK

LEMMA MoveTyped ==
  ASSUME Typed, Move
  PROVE  moves' \in 0..MaxMoves /\ disturbed' \in BOOLEAN
BY SessionAssumption DEF Typed, Move

LEMMA EditTyped ==
  ASSUME Typed, Move, NEW s \in Servers, NEW what \in {"add", "link", "forget"}, Edit(what, s),
         what = "forget" => s # Default, UNCHANGED cut
  PROVE  ListingOK'
<1> DEFINE e == [n |-> moves', what |-> what, at |-> "save", server |-> s,
                 list |-> known, here |-> s = conn.base, mount |-> mount]
<1>1. e \in Edits /\ Default \in e.list /\ (e.what = "forget" => e.server # Default)
  BY MoveTyped DEF Edits, Typed, PlacesOK, ShownOK
<1>2. edits' = edits \cup {e}
  BY DEF Edit
<1> HIDE DEF e
<1> QED BY <1>1, <1>2 DEF Typed, PendingOK, ListingOK

LEMMA BecomeTyped ==
  ASSUME ListingOK, NEW e \in edits, NEW at \in {"save", "token", "choose", "default"},
         Become(e, at)
  PROVE  /\ edits' \subseteq Edits /\ \A d \in edits' : Default \in d.list
         /\ \A d \in edits' : d.what = "forget" => d.server # Default
BY DEF ListingOK, Become, Edits

LEMMA RememberTyped ==
  ASSUME PlacesOK, NEW s \in Servers, NEW t \in Tokens, Remember(s, t),
         UNCHANGED <<client, known, active>>
  PROVE  PlacesOK'
BY DEF PlacesOK, Remember

LEMMA CallTyped ==
  ASSUME Typed, Move, NEW what \in Ways \cup {"save", "erase"}, NEW a \in Tokens,
         what \in Ways => a # None, Call(what, a), UNCHANGED <<flows, listing>>
  PROVE  PendingOK' /\ moves' \in 0..MaxMoves
<1> USE SessionAssumption DEF Typed
<1>1. moves' \in 0..MaxMoves
  BY DEF Move
<1>2. [n |-> moves', what |-> what, as |-> a, mount |-> mount] \in Requests
  BY <1>1 DEF Requests, ShownOK
<1> QED BY <1>1, <1>2 DEF Call, Move, PendingOK, ListingOK, listing

LEMMA UnlistedTyped ==
  ASSUME NetworkOK, NEW g \in gets
  PROVE  /\ Unlisted(g) \subseteq Gets
         /\ \A h \in Unlisted(g) : \E k \in gets :
              h.base = k.base /\ h.callers = k.callers /\ ~h.listed
BY DEF NetworkOK, Unlisted, Gets

-----------------------------------------------------------------------------
LEMMA TypedFlow == ASSUME Typed, NEW f \in flows, Flow(f) PROVE Typed'
<1> USE SessionAssumption DEF Typed
<1>0. f \in Flows
  BY DEF PendingOK
<1>1. CASE loadActive(f)
  <2> DEFINE b == IF active \in known THEN active ELSE Default
  <2>0. b \in Servers
    BY DEF PlacesOK
  <2>1. PICK base \in Servers : flows' = (flows \ {f}) \cup
                       {[f EXCEPT !.at = "set", !.to = base, !.as = stored[base]]}
    <3>1. flows' = (flows \ {f}) \cup {[f EXCEPT !.at = "set", !.to = b, !.as = stored[b]]}
      BY <1>1 DEF loadActive
    <3> HIDE DEF b
    <3> QED BY <2>0, <3>1, Zenon
  <2>2. [f EXCEPT !.at = "set", !.to = base, !.as = stored[base]] \in Flows
    BY <1>0 DEF Flows, PlacesOK
  <2> QED BY <1>1, <2>1, <2>2, <1>0
            DEF loadActive, Stay, PlacesOK, ShownOK, PendingOK, ListingOK, listing,
                NetworkOK, places, shown, network, Flows
<1>2. CASE setActive(f)
  <2>1. [f EXCEPT !.at = "set", !.as = stored[f.to]] \in Flows
    BY <1>0 DEF Flows, PlacesOK
  <2> QED BY <1>2, <2>1, <1>0
            DEF setActive, Stay, PlacesOK, ShownOK, PendingOK, ListingOK, listing,
                NetworkOK, shown, network, Flows
<1>3. CASE setActiveFailed(f)
  <2>1. ShownOK'
    BY <1>3, ShowTyped DEF setActiveFailed, ShownOK
  <2> QED BY <1>3, <2>1
            DEF setActiveFailed, PlacesOK, PendingOK, ListingOK, listing, NetworkOK, places,
                network
<1>4. CASE setBackend(f)
  <2>1. gets' \subseteq Gets
    BY <1>4 DEF setBackend, NetworkOK, Gets
  <2>2. ShownOK'
    BY <1>4, ShowTyped DEF setBackend, ShownOK, shown
  <2>3. f.as # None => [f EXCEPT !.at = "me"] \in Flows /\ [f EXCEPT !.at = "me"].as = f.as
    BY <1>0 DEF Flows
  <2>4. flows' \subseteq Flows /\ \A g \in flows' : g.at = "me" => g.as # None
    BY <1>4, <2>3 DEF setBackend, PendingOK, ListingOK, listing
  <2>5. conn' \in [base : Servers, token : Tokens]
    BY <1>4, <1>0 DEF setBackend, Flows
  <2> QED BY <1>4, <2>1, <2>2, <2>4, <2>5
          DEF setBackend, Stay, PlacesOK, PendingOK, ListingOK, listing, NetworkOK, places
<1>5. CASE meAnswered(f)
  <2>1. ShownOK'
    BY <1>5, <1>0, ShowTyped DEF meAnswered, Flows
  <2> QED BY <1>5, <2>1
            DEF meAnswered, Stay, PlacesOK, PendingOK, ListingOK, listing, NetworkOK, places,
                network
<1>6. CASE meFailed(f)
  <2>1. ShownOK'
    BY <1>6, ShowTyped DEF meFailed, ShownOK
  <2>2. PlacesOK'
    BY <1>6, <1>0, RememberTyped DEF meFailed, Flows, Tokens
  <2> QED BY <1>6, <2>1, <2>2
            DEF meFailed, Stay, PendingOK, ListingOK, listing, NetworkOK, network
<1> QED BY <1>1, <1>2, <1>3, <1>4, <1>5, <1>6 DEF Flow

LEMMA TypedServer ==
  ASSUME Typed, NEW s \in Servers,
         PickServer(s) \/ FollowLink(s) \/ onAddServer(s) \/ onRemoveServer(s)
  PROVE  Typed'
<1> USE DEF Typed
<1>1. Move /\ moves' \in 0..MaxMoves /\ disturbed' \in BOOLEAN
  BY MoveTyped DEF PickServer, FollowLink, onAddServer, onRemoveServer
<1>2. UNCHANGED <<client, conn, places, cut, calls, network>>
  BY DEF PickServer, FollowLink, onAddServer, onRemoveServer, listing
<1>3. \/ switchTo(moves', s) /\ UNCHANGED edits
      \/ /\ \E what \in {"add", "link", "forget"} : Edit(what, s) /\ (what = "forget" => s # Default)
         /\ UNCHANGED <<flows, shown>>
  BY DEF PickServer, FollowLink, onAddServer, onRemoveServer, listing
<1>4. CASE switchTo(moves', s) /\ UNCHANGED edits
  BY <1>1, <1>2, <1>4, SwitchTyped DEF PlacesOK, PendingOK, ListingOK, NetworkOK, places, network
<1>5. ASSUME NEW what \in {"add", "link", "forget"}, Edit(what, s), what = "forget" => s # Default,
             UNCHANGED <<flows, shown>>
      PROVE  Typed'
  <2>1. ListingOK'
    BY <1>1, <1>2, <1>5, EditTyped
  <2> QED BY <1>1, <1>2, <1>5, <2>1 DEF PlacesOK, ShownOK, PendingOK, NetworkOK, places, shown,
             network
<1> QED BY <1>3, <1>4, <1>5

LEMMA TypedRemoved ==
  ASSUME Typed, NEW e \in edits, Removed(e), PlacesOK', UNCHANGED <<cut, calls, network>>
  PROVE  Typed'
<1> USE SessionAssumption DEF Typed
<1>1. e.n \in 0..MaxMoves
  BY DEF PendingOK, ListingOK, Edits
<1>2. ListingOK'
  BY DEF Removed, PendingOK, ListingOK
<1>3. CASE e.here
  BY <1>1, <1>2, <1>3, SwitchTyped DEF Removed, Stay, PendingOK, NetworkOK, network
<1>4. CASE ~e.here
  BY <1>2, <1>4 DEF Removed, Stay, ShownOK, PendingOK, NetworkOK, shown, network
<1> QED BY <1>3, <1>4

LEMMA TypedWrite == ASSUME Typed, NEW e \in edits, Write(e) PROVE Typed'
<1> USE SessionAssumption DEF Typed
<1>0. e \in Edits /\ Default \in e.list /\ (e.what = "forget" => e.server # Default) /\ ListingOK
  BY DEF PendingOK, ListingOK
<1>1. CASE abandoned(e) \/ chooseDefaultFailed(e)
  <2>1. ListingOK'
    BY <1>0, <1>1 DEF abandoned, chooseDefaultFailed, ListingOK
  <2> QED BY <1>1, <2>1 DEF abandoned, chooseDefaultFailed, Stay, PlacesOK, ShownOK, PendingOK,
             NetworkOK, places, shown, network
<1>2. CASE addBackend(e)
  <2>1. ListingOK'
    BY <1>0, <1>2 DEF addBackend, ListingOK
  <2>2. PlacesOK'
    BY <1>0, <1>2 DEF addBackend, PlacesOK, Edits
  <2>3. CASE e.what = "link"
    <3>1. e.n \in 0..MaxMoves /\ e.server \in Servers
      BY <1>0 DEF Edits
    <3> QED BY <1>2, <2>1, <2>2, <2>3, <3>1, SwitchTyped
            DEF addBackend, Stay, PendingOK, NetworkOK, network
  <2>4. CASE e.what # "link"
    BY <1>2, <2>1, <2>2, <2>4 DEF addBackend, Stay, ShownOK, PendingOK, NetworkOK, shown, network
  <2> QED BY <2>3, <2>4
<1>3. CASE removeBackend(e)
  <2>1. ListingOK'
    BY <1>0, <1>3, BecomeTyped DEF removeBackend, ListingOK
  <2>2. PlacesOK'
    BY <1>0, <1>3 DEF removeBackend, PlacesOK, Edits
  <2> QED BY <1>3, <2>1, <2>2
            DEF removeBackend, Stay, ShownOK, PendingOK, NetworkOK, shown, network
<1>4. CASE dropToken(e)
  <2>1. ListingOK'
    <3>1. cut' \subseteq Servers
      BY <1>0, <1>4 DEF dropToken, ListingOK, Edits
    <3> QED BY <1>0, <1>4, <3>1, BecomeTyped DEF dropToken, ListingOK
  <2>2. PlacesOK'
    BY <1>4 DEF dropToken, PlacesOK, Tokens
  <2> QED BY <1>4, <2>1, <2>2 DEF dropToken, Stay, ShownOK, PendingOK, NetworkOK, shown, network
<1>5. CASE chooseAnother(e)
  <2>1. CASE active = e.server
    <3>1. ListingOK'
      BY <1>0, <1>5, <2>1, BecomeTyped DEF chooseAnother, ListingOK
    <3> QED BY <1>5, <2>1, <3>1 DEF chooseAnother, Stay, PlacesOK, ShownOK, PendingOK, NetworkOK,
               places, shown, network
  <2>2. CASE active # e.server
    BY <1>5, <2>2, TypedRemoved DEF chooseAnother, PlacesOK, places
  <2> QED BY <2>1, <2>2
<1>6. CASE chooseDefault(e)
  BY <1>6, TypedRemoved DEF chooseDefault, PlacesOK
<1> QED BY <1>1, <1>2, <1>3, <1>4, <1>5, <1>6 DEF Write

LEMMA TypedPress ==
  ASSUME Typed,
         \/ \E a \in Accounts : PressSignIn(a) \/ PressApple(a) \/ PressGoogle(a)
         \/ PressSave \/ PressDelete
  PROVE  Typed'
<1> USE SessionAssumption DEF Typed
<1>1. /\ UNCHANGED <<client, conn, places, shown, flows, listing, network>> /\ Move
      /\ \E what \in Ways \cup {"save", "erase"}, a \in Tokens :
            (what \in Ways => a # None) /\ Call(what, a)
  BY DEF PressSignIn, PressApple, PressGoogle, PressSave, PressDelete, Tokens, Ways, PlacesOK
<1>2. PendingOK' /\ moves' \in 0..MaxMoves
  BY <1>1, CallTyped
<1> QED BY <1>1, <1>2 DEF PlacesOK, ShownOK, NetworkOK, places, shown, network

LEMMA TypedCall ==
  ASSUME Typed,
         \/ \E c \in calls : CancelGoogle(c) \/ SignedIn(c) \/ Refused(c) \/ Saved(c) \/ Erased(c)
         \/ SignOut
  PROVE  Typed'
<1> USE SessionAssumption DEF Typed
<1>0. \A c \in calls : c \in Requests
  BY DEF PendingOK
<1>1. ASSUME NEW c \in calls, CancelGoogle(c) \/ Refused(c) PROVE Typed'
  BY <1>1
            DEF CancelGoogle, Refused, Stay, PlacesOK, ShownOK, PendingOK, ListingOK, listing,
                NetworkOK,
              places, shown, network
<1>2. ASSUME NEW c \in calls, SignedIn(c) PROVE Typed'
  <2>1. c.as \in Tokens
    BY <1>0 DEF Requests
  <2>2. ShownOK'
    BY <1>2, <2>1, ShowTyped DEF SignedIn, ShownOK
  <2>3. PlacesOK'
    BY <1>2, <2>1, RememberTyped DEF SignedIn, PlacesOK
  <2> QED BY <1>2, <2>2, <2>3
            DEF SignedIn, Stay, PendingOK, ListingOK, listing, NetworkOK, network
<1>3. ASSUME NEW c \in calls, Saved(c) PROVE Typed'
  <2>1. ShownOK'
    BY <1>3, <1>0, ShowTyped DEF Saved, Requests, ShownOK
  <2> QED BY <1>3, <2>1
            DEF Saved, Stay, PlacesOK, PendingOK, ListingOK, listing, NetworkOK, places, network
<1>4. ASSUME LeaveSession PROVE PlacesOK' /\ ShownOK' /\ NetworkOK'
  <2>1. ShownOK'
    BY <1>4, ShowTyped DEF LeaveSession, ShownOK, Tokens
  <2>2. PlacesOK'
    BY <1>4, RememberTyped DEF LeaveSession, PlacesOK, Tokens
  <2> QED BY <1>4, <2>1, <2>2 DEF LeaveSession, NetworkOK, Tokens
<1>5. ASSUME NEW c \in calls, Erased(c) PROVE Typed'
  BY <1>4, <1>5 DEF Erased, Stay, LeaveSession, PendingOK, ListingOK, listing
<1>6. CASE SignOut
  BY <1>4, <1>6 DEF SignOut, Move, LeaveSession, PendingOK, ListingOK, listing
<1> QED BY <1>1, <1>2, <1>3, <1>5, <1>6

LEMMA TypedNetwork ==
  ASSUME Typed,
         \/ Load
         \/ \E r \in reading : cacheRead(r)
         \/ \E g \in gets : getAnswered(g) \/ getFailed(g)
  PROVE  Typed'
<1> USE SessionAssumption DEF Typed
<1>1. CASE Load
  <2> DEFINE c == [n |-> loads', key |-> user, mount |-> mount]
  <2>1. loads' \in 0..MaxLoads /\ user \in Accounts
    BY <1>1 DEF Load, TabsShown, NetworkOK, ShownOK, Tokens
  <2>2. c \in Callers
    BY <2>1 DEF Callers, ShownOK
  <2>3. [n |-> loads', base |-> conn.base, as |-> conn.token, callers |-> {c}, listed |-> TRUE]
          \in Gets
    BY <2>1, <2>2 DEF Gets, PlacesOK
  <2>4. \A g \in gets : [g EXCEPT !.callers = @ \cup {c}] \in Gets
    BY <2>2 DEF Gets, NetworkOK
  <2>5. gets' \subseteq Gets
    BY <1>1, <2>3, <2>4 DEF Load, NetworkOK
  <2>6. cache[user] # None => /\ [n |-> loads', of |-> cache[user]] \in [n : 0..MaxLoads, of : Accounts]
                              /\ [of |-> cache[user], from |-> "cache", by |-> {loads'}] \in Views
    BY <2>1 DEF Views, NetworkOK, Tokens
  <2>7. ShownOK'
    BY <1>1, <2>6 DEF Load, ShownOK
  <2> QED BY <1>1, <2>1, <2>5, <2>7
            DEF Load, PlacesOK, PendingOK, ListingOK, listing, NetworkOK, places, pending
<1>2. ASSUME NEW r \in reading, cacheRead(r) PROVE Typed'
  <2>1. [of |-> r.of, from |-> "cache", by |-> {r.n}] \in Views
    BY DEF ShownOK, Views
  <2> QED BY <1>2, <2>1
            DEF cacheRead, PlacesOK, ShownOK, PendingOK, ListingOK, listing, NetworkOK, places,
                pending,
             network
<1>3. ASSUME NEW g \in gets, getAnswered(g) PROVE Typed'
  <2> DEFINE here == {c.n : c \in {d \in g.callers : d.mount = mount}}
  <2>1. g \in Gets /\ g.as \in Accounts
    BY <1>3 DEF getAnswered, NetworkOK, Gets, Tokens
  <2>2. here \subseteq 0..MaxLoads
    BY <2>1 DEF Gets, Callers
  <2>3. [of |-> g.as, from |-> "net", by |-> here] \in Views
    BY <2>1, <2>2 DEF Views
  <2>4. ShownOK'
    BY <1>3, <2>3 DEF getAnswered, ShownOK
  <2>5. NetworkOK'
    BY <1>3, <2>1, UnlistedTyped DEF getAnswered, NetworkOK, Tokens
  <2> QED BY <1>3, <2>4, <2>5
            DEF getAnswered, PlacesOK, PendingOK, ListingOK, listing, places, pending
<1>4. ASSUME NEW g \in gets, getFailed(g) PROVE Typed'
  <2>1. NetworkOK'
    BY <1>4, UnlistedTyped DEF getFailed, NetworkOK
  <2> QED BY <1>4, <2>1
            DEF getFailed, PlacesOK, ShownOK, PendingOK, ListingOK, listing, places, shown,
                pending
<1> QED BY <1>1, <1>2, <1>3, <1>4

LEMMA TypedRestart == Typed /\ Restart => Typed'
<1> SUFFICES ASSUME Typed, Restart PROVE Typed'
  OBVIOUS
<1> USE SessionAssumption DEF Typed
<1>1. moves' \in 0..MaxMoves
  BY DEF Restart
<1>2. [n |-> moves', at |-> "read", to |-> Default, as |-> None] \in Flows
  BY <1>1 DEF Flows, Tokens
<1>3. PlacesOK'
  BY DEF Restart, PlacesOK, places, Tokens
<1>4. PendingOK'
  <2>1. edits' = {} /\ cut' \subseteq Servers
    BY DEF Restart, PendingOK, ListingOK, Edits
  <2> QED BY <1>2, <2>1 DEF Restart, PendingOK, ListingOK
<1> QED BY <1>1, <1>3, <1>4 DEF Restart, ShownOK, NetworkOK, Tokens

LEMMA TypedInit == Init => Typed
<1> USE SessionAssumption DEF Typed
<1>1. [n |-> 0, at |-> "read", to |-> Default, as |-> None] \in Flows
  BY DEF Flows, Tokens
<1>2. Init => PlacesOK
  BY DEF Init, PlacesOK, Tokens
<1>3. Init => ShownOK
  BY DEF Init, ShownOK, Tokens
<1>4. ASSUME Init PROVE PendingOK
  <2>1. flows \subseteq Flows /\ \A f \in flows : f.at = "me" => f.as # None
    BY <1>1, <1>4 DEF Init
  <2> QED BY <1>4, <2>1 DEF Init, PendingOK, ListingOK, listing
<1>5. Init => NetworkOK
  BY DEF Init, NetworkOK, Tokens
<1>6. Init => moves \in 0..MaxMoves
  BY DEF Init
<1> QED BY <1>2, <1>3, <1>4, <1>5, <1>6

LEMMA TypedNext == Typed /\ [Next]_vars => Typed'
<1> SUFFICES ASSUME Typed, [Next]_vars PROVE Typed'
  OBVIOUS
<1>1. CASE Next
  BY <1>1, TypedRestart, TypedFlow, TypedServer, TypedWrite, TypedPress, TypedCall, TypedNetwork
     DEF Next
<1>2. CASE UNCHANGED vars
  BY <1>2
            DEF vars, places, shown, pending, network, Typed, PlacesOK, ShownOK, PendingOK,
                ListingOK, listing, NetworkOK
<1> QED BY <1>1, <1>2

(* Every variable has its type, whatever the bounds of the instance.       *)
THEOREM TypeCorrect == Spec => []TypeOK
BY TypedInit, TypedNext, Parts, PTL DEF Spec

-----------------------------------------------------------------------------
(* What a load has painted                                                 *)

(* The load that painted an answer has no cached value under way.          *)
Marked ==
  /\ \A g \in gets : \A c \in g.callers : c.n <= loads
  /\ \A r \in reading : r.n <= loads
  /\ view # None => \A n \in view.by : n <= loads
  /\ view # None /\ view.from = "net" => \A r \in reading : r.n \notin view.by

Fresh ==
  LET back == /\ view # None /\ view.from = "net"
              /\ view' # None /\ view'.from = "cache"
  IN  back => view.by \cap view'.by = {}

(* What leaves the screen, or a part of it, and asks nothing new.          *)
LEMMA MarkedKept ==
  ASSUME Marked,
         reading' \subseteq reading, view' = view \/ view' = None, loads' = loads,
         \A h \in gets' : \E g \in gets : h.callers = g.callers
  PROVE  Marked' /\ Fresh
BY DEF Marked, Fresh

LEMMA ShowKeeps ==
  ASSUME NEW u, NEW r, Show(u, r)
  PROVE  (reading' = reading \/ reading' = {}) /\ (view' = view \/ view' = None)
BY DEF Show

LEMMA MarkedFlow == ASSUME Typed, Marked, NEW f \in flows, Flow(f) PROVE Marked' /\ Fresh
<1> USE DEF Typed
<1>1. CASE setBackend(f)
  <2>1. (reading' = reading \/ reading' = {}) /\ (view' = view \/ view' = None)
    BY <1>1, ShowKeeps DEF setBackend, shown
  <2>2. \A h \in gets' : \E g \in gets : h.callers = g.callers
    BY <1>1 DEF setBackend, NetworkOK, Gets
  <2> QED BY <1>1, <2>1, <2>2, MarkedKept DEF setBackend
<1>2. CASE loadActive(f) \/ setActive(f)
  BY <1>2, MarkedKept DEF loadActive, setActive, shown, network
<1>3. CASE setActiveFailed(f) \/ meAnswered(f) \/ meFailed(f)
  BY <1>3, MarkedKept, ShowKeeps DEF setActiveFailed, meAnswered, meFailed, network
<1> QED BY <1>1, <1>2, <1>3 DEF Flow

LEMMA MarkedPress ==
  ASSUME Typed, Marked,
         \/ Restart \/ SignOut \/ PressSave \/ PressDelete
         \/ \E s \in Servers :
              PickServer(s) \/ FollowLink(s) \/ onAddServer(s) \/ onRemoveServer(s)
         \/ \E e \in edits : Write(e)
         \/ \E a \in Accounts : PressSignIn(a) \/ PressApple(a) \/ PressGoogle(a)
         \/ \E c \in calls :
              CancelGoogle(c) \/ SignedIn(c) \/ Refused(c) \/ Saved(c) \/ Erased(c)
  PROVE  Marked' /\ Fresh
<1>1. CASE Restart
  BY <1>1, MarkedKept DEF Restart
<1>2. CASE SignOut \/ \E c \in calls : Erased(c)
  BY <1>2, MarkedKept, ShowKeeps DEF SignOut, Erased, LeaveSession
<1>3. CASE PressSave \/ PressDelete
           \/ \E a \in Accounts : PressSignIn(a) \/ PressApple(a) \/ PressGoogle(a)
  BY <1>3, MarkedKept DEF PressSave, PressDelete, PressSignIn, PressApple, PressGoogle, shown,
                          network
<1>4. ASSUME NEW s \in Servers,
             PickServer(s) \/ FollowLink(s) \/ onAddServer(s) \/ onRemoveServer(s)
      PROVE  Marked' /\ Fresh
  BY <1>4, MarkedKept, ShowKeeps DEF PickServer, FollowLink, onAddServer, onRemoveServer, switchTo,
                                     shown, network
<1>6. ASSUME NEW e \in edits, Write(e) PROVE Marked' /\ Fresh
  <2>1. UNCHANGED network /\ (UNCHANGED shown \/ \E n, s : switchTo(n, s))
    BY <1>6, WriteShows
  <2> QED BY <2>1, MarkedKept, ShowKeeps DEF switchTo, shown, network
<1>5. ASSUME NEW c \in calls, CancelGoogle(c) \/ SignedIn(c) \/ Refused(c) \/ Saved(c)
      PROVE  Marked' /\ Fresh
  BY <1>5, MarkedKept, ShowKeeps DEF CancelGoogle, SignedIn, Refused, Saved, shown, network
<1> QED BY <1>1, <1>2, <1>3, <1>4, <1>5, <1>6

LEMMA MarkedLoad == ASSUME Typed, Marked, Load PROVE Marked' /\ Fresh
<1> DEFINE c == [n |-> loads', key |-> user, mount |-> mount]
<1> USE DEF Typed
<1>1. loads' = loads + 1 /\ loads \in Nat
  BY SessionAssumption DEF Load, NetworkOK
<1>2. ASSUME NEW g \in gets', NEW d \in g.callers PROVE d.n <= loads'
  <2>1. CASE {h \in gets : h.listed} = {}
    <3>1. g \in gets \/ g.callers = {c}
      BY <2>1 DEF Load
    <3> QED BY <3>1, <1>1, <1>2 DEF Marked, NetworkOK, Gets, Callers
  <2>2. CASE {h \in gets : h.listed} # {}
    <3>1. g \in gets \/ \E h \in gets : g = [h EXCEPT !.callers = @ \cup {c}]
      BY <2>2 DEF Load
    <3>2. g \in gets \/ \E h \in gets : g.callers = h.callers \cup {c}
      BY <3>1 DEF NetworkOK, Gets
    <3> QED BY <3>2, <1>1, <1>2 DEF Marked, NetworkOK, Gets, Callers
  <2> QED BY <2>1, <2>2
<1>3. \A r \in reading' : r \in reading \/ r.n = loads'
  BY DEF Load
<1>4. view' = view \/ (view'.by = {loads'} /\ reading' = reading)
  BY DEF Load, OnPhone
<1>5. \A r \in reading : r.n \in Nat /\ r.n <= loads
  BY DEF Marked, ShownOK
<1>6. view # None => view.by \in SUBSET Nat /\ \A n \in view.by : n <= loads
  BY DEF Marked, ShownOK, Views
<1>7. view' = view \/ view'.from = "cache"
  BY DEF Load
<1>8. \A r \in reading' : r.n <= loads'
  BY <1>1, <1>3, <1>5
<1>9. view' # None => \A n \in view'.by : n <= loads'
  BY <1>1, <1>4, <1>6
<1>10. view' # None /\ view'.from = "net" => \A r \in reading' : r.n \notin view'.by
  BY <1>1, <1>3, <1>5, <1>6, <1>7 DEF Marked
<1>11. Fresh
  BY <1>1, <1>4, <1>6 DEF Fresh
<1> QED BY <1>2, <1>8, <1>9, <1>10, <1>11 DEF Marked

LEMMA MarkedAnswer ==
  ASSUME Typed, Marked,
         \/ \E r \in reading : cacheRead(r)
         \/ \E g \in gets : getAnswered(g) \/ getFailed(g)
  PROVE  Marked' /\ Fresh
<1> USE DEF Typed
<1>1. ASSUME NEW r \in reading, cacheRead(r) PROVE Marked' /\ Fresh
  BY <1>1 DEF cacheRead, Marked, Fresh, network
<1>2. ASSUME NEW g \in gets, getAnswered(g) PROVE Marked' /\ Fresh
  <2> DEFINE here == {c.n : c \in {d \in g.callers : d.mount = mount}}
  <2>1. \A h \in gets' : \E k \in gets : h.callers = k.callers
    BY <1>2, UnlistedTyped DEF getAnswered
  <2>2. reading' \subseteq reading /\ \A r \in reading' : r.n \notin here
    BY <1>2 DEF getAnswered
  <2>3. loads' = loads /\ \A n \in here : n <= loads
    BY <1>2 DEF getAnswered, Marked
  <2>4. CASE here = {}
    BY <1>2, <2>1, <2>2, <2>4, MarkedKept DEF getAnswered
  <2>5. CASE here # {}
    <3>1. view' # None => view'.from = "net" /\ view'.by = here
      BY <1>2, <2>5 DEF getAnswered
    <3> QED BY <2>1, <2>2, <2>3, <3>1 DEF Marked, Fresh
  <2> QED BY <2>4, <2>5
<1>3. ASSUME NEW g \in gets, getFailed(g) PROVE Marked' /\ Fresh
  BY <1>3, UnlistedTyped, MarkedKept DEF getFailed, shown
<1> QED BY <1>1, <1>2, <1>3

LEMMA MarkedNext == Typed /\ Marked /\ [Next]_vars => Marked' /\ Fresh
<1> SUFFICES ASSUME Typed, Marked, [Next]_vars PROVE Marked' /\ Fresh
  OBVIOUS
<1>1. CASE Next
  BY <1>1, MarkedFlow, MarkedPress, MarkedLoad, MarkedAnswer DEF Next
<1>2. CASE UNCHANGED vars
  BY <1>2, MarkedKept DEF vars, shown, network
<1> QED BY <1>1, <1>2

(* However loads overlap, fail and are joined, a load that has been        *)
(* answered is not painted over by its own cached value.                   *)
THEOREM AnswersStay == Spec => FreshStays
<1>1. Init => Marked
  BY DEF Init, Marked
<1>2. [Fresh]_vars <=> [LET back == /\ view # None /\ view.from = "net"
                                   /\ view' # None /\ view'.from = "cache"
                        IN  back => view.by \cap view'.by = {}]_vars
  BY DEF Fresh
<1>3. Spec => [][Fresh]_vars
  BY <1>1, TypedInit, TypedNext, MarkedNext, PTL DEF Spec
<1> QED BY <1>2, <1>3, PTL DEF FreshStays

-----------------------------------------------------------------------------
(* While nothing is disturbed: token, server and user                      *)

OneAtATime ==
  /\ flows = {} \/ calls = {}
  /\ edits # {} => flows = {} /\ calls = {}
  /\ \A f, g \in flows : f = g
  /\ \A c, d \in calls : c = d
  /\ \A e, d \in edits : e = d

(* A switch shows the spinner, and knows what is stored.                   *)
FlowFits(f) ==
  /\ restoring /\ user = None
  /\ f.at # "read" => f.to \in known
  /\ f.at \in {"set", "me"} => f.as = stored[f.to]
  /\ f.at = "me" => conn.base = f.to /\ conn.token = f.as

(* Who signs in has not signed in elsewhere meanwhile, and who saves or    *)
(* deletes is still there.                                                 *)
CallFits(c) ==
  /\ c.what \in Ways => user = None /\ c.as.server = conn.base
  /\ c.what \notin Ways => TabsShown /\ c.as = user

(* The list is still as it was read, until it is written; and the server   *)
(* that is forgotten is the one in use if it was at the press.             *)
EditFits(e) ==
  /\ e.at = "save" => e.list = known
  /\ e.what # "forget" => e.at = "save"
  /\ e.what = "forget" => TabsShown /\ (e.here <=> e.server = conn.base)
  /\ e.at \in {"choose", "default"} => stored[e.server] = None \/ e.server \in cut

(* The server in use may be off the list only until the switch away.       *)
Together ==
  /\ SessionsMoveTogether
  /\ OneAtATime
  /\ flows = {} => conn.base \in known \/ BeingForgotten(conn.base)
  /\ \A e \in edits : EditFits(e)
  /\ \A f \in flows : FlowFits(f)
  /\ \A c \in calls : CallFits(c)

Calm == ~disturbed => Together

(* A press that disturbs nothing finds nothing under way.                  *)
LEMMA CalmMove ==
  ASSUME Calm, Move, ~disturbed'
  PROVE  /\ flows = {} /\ calls = {} /\ edits = {} /\ ~disturbed /\ Together
         /\ conn.base \in known
         /\ \A s : ~BeingForgotten(s)
BY DEF Calm, Move, Together, BeingForgotten

LEMMA CalmFlow == ASSUME Typed, Calm, NEW f \in flows, Flow(f) PROVE Calm'
<1> SUFFICES ASSUME ~disturbed' PROVE Together'
  BY DEF Calm
<1> USE SessionAssumption DEF Typed
<1>1. ~disturbed /\ Together /\ ~setActiveFailed(f)
  <2>1. ~setActiveFailed(f)
    BY DEF setActiveFailed
  <2>2. disturbed' = disturbed
    BY <2>1 DEF Flow, loadActive, setActive, setBackend, meAnswered, meFailed, Stay
  <2> QED BY <2>1, <2>2 DEF Calm
<1>2. /\ flows \ {f} = {} /\ calls = {} /\ FlowFits(f) /\ SessionsMoveTogether
      /\ edits = {} /\ edits' = {} /\ cut' = cut
      /\ \A s : ~BeingForgotten(s) /\ ~BeingForgotten(s)'
  <2>1. UNCHANGED listing
    BY DEF Flow, loadActive, setActive, setActiveFailed, setBackend, meAnswered, meFailed
  <2> QED BY <1>1, <2>1 DEF Together, OneAtATime, listing, BeingForgotten
<1>3. f \in Flows /\ conn \in [base : Servers, token : Tokens] /\ stored \in [Servers -> Tokens]
  BY DEF PendingOK, PlacesOK
<1>4. CASE loadActive(f)
  <2> DEFINE b == IF active \in known THEN active ELSE Default
  <2>0. b \in known
    BY DEF PlacesOK
  <2>1. PICK base \in known : flows' = {[f EXCEPT !.at = "set", !.to = base, !.as = stored[base]]}
    <3>1. flows' = {[f EXCEPT !.at = "set", !.to = b, !.as = stored[b]]}
      BY <1>2, <1>4 DEF loadActive
    <3> HIDE DEF b
    <3> QED BY <2>0, <3>1, Zenon
  <2>2. \A g \in flows' : FlowFits(g)'
    BY <1>2, <1>3, <1>4, <2>1 DEF loadActive, FlowFits, Flows, places, shown
  <2> QED BY <1>2, <1>4, <2>1, <2>2
          DEF loadActive, Together, OneAtATime, SessionsMoveTogether, TabsShown, places, shown
<1>5. CASE setActive(f)
  <2>1. flows' = {[f EXCEPT !.at = "set", !.as = stored[f.to]]}
    BY <1>2, <1>5 DEF setActive
  <2>2. \A g \in flows' : FlowFits(g)'
    BY <1>2, <1>3, <1>5, <2>1 DEF setActive, FlowFits, Flows, shown
  <2> QED BY <1>2, <1>5, <2>1, <2>2
          DEF setActive, Together, OneAtATime, SessionsMoveTogether, TabsShown, shown
<1>6. CASE setBackend(f)
  <2>1. f.as = stored[f.to] /\ f.to \in known /\ f.to \in Servers
    BY <1>2, <1>3, <1>6 DEF setBackend, FlowFits, Flows
  <2>2. conn'.base = f.to /\ conn'.token = f.as /\ calls' = calls /\ UNCHANGED places
    BY <1>6 DEF setBackend
  <2>3. user' = None
    BY <1>2, <1>6 DEF setBackend, FlowFits, Show, shown
  <2>4. SessionsMoveTogether'
    BY <1>2, <2>1, <2>2, <2>3 DEF SessionsMoveTogether, TabsShown, places
  <2>5. CASE f.as = None
    BY <1>2, <1>6, <2>1, <2>2, <2>4, <2>5 DEF setBackend, Together, OneAtATime, places
  <2>6. CASE f.as # None
    <3>1. flows' = {[f EXCEPT !.at = "me"]}
      BY <1>2, <1>6, <2>6 DEF setBackend
    <3>2. \A g \in flows' : FlowFits(g)'
      BY <1>2, <1>3, <1>6, <2>1, <2>2, <2>6, <3>1 DEF setBackend, FlowFits, Flows, places, shown
    <3> QED BY <1>2, <2>2, <2>4, <3>1, <3>2 DEF Together, OneAtATime
  <2> QED BY <2>5, <2>6
<1>7. CASE meAnswered(f)
  <2>1. f.as = stored[f.to] /\ conn.base = f.to /\ conn.token = f.as /\ f.to \in known
    BY <1>2, <1>7 DEF meAnswered, FlowFits
  <2>2. user' = f.as
    BY <1>7 DEF meAnswered, Show
  <2> QED BY <1>2, <1>7, <2>1, <2>2
          DEF meAnswered, Together, OneAtATime, SessionsMoveTogether, places
<1>8. CASE meFailed(f)
  <2>1. conn.base = f.to /\ f.to \in known
    BY <1>2, <1>8 DEF meFailed, FlowFits
  <2>2. user' = None /\ conn'.base = conn.base /\ conn'.token = None
    BY <1>2, <1>3, <1>8 DEF meFailed, FlowFits, Show, Remember
  <2>3. \A s \in Servers : stored'[s] \in {stored[s], None}
    BY <1>3, <1>8 DEF meFailed, Remember
  <2> QED BY <1>2, <1>8, <2>1, <2>2, <2>3
          DEF meFailed, Together, OneAtATime, SessionsMoveTogether, TabsShown
<1> QED BY <1>1, <1>4, <1>5, <1>6, <1>7, <1>8 DEF Flow

(* With nothing else under way a switch leaves all as it should be.        *)
LEMMA CalmSwitch ==
  ASSUME Typed, Together, flows = {}, calls = {}, edits' = {},
         NEW n, NEW t \in known', switchTo(n, t), UNCHANGED <<conn, calls>>,
         \A z \in Servers : stored'[z] # None => stored'[z].server = z /\ z \in known' \cup cut'
  PROVE  Together'
<1>1. flows' = {[n |-> n, at |-> "activate", to |-> t, as |-> None]}
  BY DEF switchTo
<1>2. user' = None /\ restoring'
  BY DEF switchTo, Show
<1>3. \A f \in flows' : FlowFits(f)'
  BY <1>1, <1>2 DEF FlowFits
<1> QED BY <1>1, <1>2, <1>3 DEF Together, OneAtATime, SessionsMoveTogether, TabsShown

LEMMA CalmServer ==
  ASSUME Typed, Calm, NEW s \in Servers,
         PickServer(s) \/ FollowLink(s) \/ onAddServer(s) \/ onRemoveServer(s)
  PROVE  Calm'
<1> SUFFICES ASSUME ~disturbed' PROVE Together'
  BY DEF Calm
<1> USE SessionAssumption DEF Typed
<1>1. /\ flows = {} /\ calls = {} /\ edits = {} /\ Together /\ conn.base \in known
      /\ \A z : ~BeingForgotten(z)
  BY CalmMove DEF PickServer, FollowLink, onAddServer, onRemoveServer
<1>2. UNCHANGED <<conn, places, cut, calls>>
  BY DEF PickServer, FollowLink, onAddServer, onRemoveServer, listing
<1>3. \/ /\ s \in known /\ switchTo(moves', s) /\ UNCHANGED edits
      \/ /\ UNCHANGED <<flows, shown>>
         /\ \E what \in {"add", "link", "forget"} : Edit(what, s) /\ (what = "forget" => TabsShown)
  BY <1>1 DEF PickServer, FollowLink, onAddServer, onRemoveServer, listing, Row
<1>4. CASE s \in known /\ switchTo(moves', s) /\ UNCHANGED edits
  BY <1>1, <1>2, <1>4, CalmSwitch DEF Together, SessionsMoveTogether, places
<1>5. ASSUME NEW what \in {"add", "link", "forget"}, Edit(what, s), what = "forget" => TabsShown,
             UNCHANGED <<flows, shown>>
      PROVE  Together'
  <2>1. PICK e : /\ edits' = {e}
                 /\ e.what = what /\ e.at = "save" /\ e.server = s /\ e.list = known
                 /\ e.here = (s = conn.base)
    <3> DEFINE r == [n |-> moves', what |-> what, at |-> "save", server |-> s,
                     list |-> known, here |-> s = conn.base, mount |-> mount]
    <3>1. edits' = {r}
      BY <1>1, <1>5 DEF Edit
    <3>2. /\ r.what = what /\ r.at = "save" /\ r.server = s /\ r.list = known
          /\ r.here = (s = conn.base)
      OBVIOUS
    <3> HIDE DEF r
    <3> QED BY <3>1, <3>2, Zenon
  <2>2. EditFits(e)'
    BY <1>2, <1>5, <2>1 DEF EditFits, TabsShown, places, shown
  <2> QED BY <1>1, <1>2, <1>5, <2>1, <2>2
          DEF Together, OneAtATime, SessionsMoveTogether, TabsShown, places, shown
<1> QED BY <1>3, <1>4, <1>5

(* However a removal ends, the server is on the list no more only if the   *)
(* session there is gone, or was left behind.                              *)
LEMMA CalmRemoved ==
  ASSUME Typed, Together, NEW e \in edits, e.at \in {"choose", "default"}, Removed(e),
         UNCHANGED <<conn, stored, known, cut, calls>>
  PROVE  Together'
<1> USE SessionAssumption DEF Typed
<1>1. /\ edits = {e} /\ edits' = {} /\ flows = {} /\ calls = {} /\ EditFits(e)
  BY DEF Removed, Together, OneAtATime
<1>2. e.what = "forget" /\ TabsShown /\ (e.here <=> e.server = conn.base)
  BY <1>1 DEF EditFits
<1>3. \A z \in Servers : stored'[z] # None => stored'[z].server = z /\ z \in known' \cup cut'
  BY <1>1 DEF Together, SessionsMoveTogether, BeingForgotten, EditFits
<1>4. CASE e.here
  <2>1. Default \in known' /\ switchTo(e.n, Default)
    BY <1>4 DEF Removed, PlacesOK
  <2> QED BY <1>1, <1>3, <2>1, CalmSwitch
<1>5. CASE ~e.here
  <2>1. conn.base \in known /\ ~BeingForgotten(conn.base)
    BY <1>1, <1>2, <1>5 DEF Together, BeingForgotten
  <2>2. UNCHANGED <<flows, shown>>
    BY <1>5 DEF Removed
  <2> QED BY <1>1, <1>2, <1>3, <2>1, <2>2
          DEF Together, OneAtATime, SessionsMoveTogether, TabsShown, shown
<1> QED BY <1>4, <1>5

LEMMA CalmWrite == ASSUME Typed, Calm, NEW e \in edits, Write(e) PROVE Calm'
<1> SUFFICES ASSUME ~disturbed' PROVE Together'
  BY DEF Calm
<1> USE SessionAssumption DEF Typed
<1>1. ~disturbed /\ Together /\ ~chooseDefaultFailed(e)
  <2>1. ~chooseDefaultFailed(e)
    BY DEF chooseDefaultFailed
  <2>2. disturbed' = disturbed
    BY <2>1 DEF Write, abandoned, addBackend, removeBackend, dropToken, chooseAnother,
               chooseDefault, Removed, Stay
  <2> QED BY <2>1, <2>2 DEF Calm
<1>2. /\ edits = {e} /\ flows = {} /\ calls = {} /\ EditFits(e)
      /\ SessionsMoveTogether /\ (conn.base \in known \/ BeingForgotten(conn.base))
  BY <1>1 DEF Together, OneAtATime
<1>3. e \in Edits /\ stored \in [Servers -> Tokens] /\ UNCHANGED <<conn, calls>>
  BY WriteShows DEF PendingOK, ListingOK, PlacesOK
<1>4. CASE abandoned(e)
  <2>1. edits' = {} /\ UNCHANGED <<places, shown, flows, cut>> /\ \A z : ~BeingForgotten(z)
    BY <1>2, <1>4 DEF abandoned, BeingForgotten
  <2> QED BY <1>2, <1>3, <2>1
          DEF Together, OneAtATime, SessionsMoveTogether, TabsShown, places, shown
<1>5. CASE addBackend(e)
  <2>1. edits' = {} /\ known' = known \cup {e.server} /\ UNCHANGED <<stored, cut>>
        /\ \A z : ~BeingForgotten(z)
    BY <1>2, <1>5 DEF addBackend, EditFits, BeingForgotten
  <2>2. \A z \in Servers : stored'[z] # None => stored'[z].server = z /\ z \in known' \cup cut'
    BY <1>2, <2>1 DEF SessionsMoveTogether
  <2>3. CASE e.what = "link"
    BY <1>1, <1>2, <1>3, <1>5, <2>1, <2>2, <2>3, CalmSwitch DEF addBackend
  <2>4. CASE e.what # "link"
    <3>1. UNCHANGED <<flows, shown>>
      BY <1>5, <2>4 DEF addBackend
    <3> QED BY <1>2, <1>3, <2>1, <2>2, <3>1
            DEF Together, OneAtATime, SessionsMoveTogether, TabsShown, shown
  <2> QED BY <2>3, <2>4
<1>6. CASE removeBackend(e)
  <2> DEFINE d == [e EXCEPT !.at = "token"]
  <2>1. edits' = {d} /\ known' = known \ {e.server} /\ UNCHANGED <<stored, shown, flows, cut>>
        /\ \A z : ~BeingForgotten(z)
    BY <1>2, <1>6 DEF removeBackend, Become, EditFits, BeingForgotten
  <2>2. d.server = e.server /\ d.at = "token" /\ d.what = "forget" /\ d.here = e.here
    BY <1>3, <1>6 DEF removeBackend, Edits
  <2>3. EditFits(d)'
    BY <1>2, <1>3, <2>1, <2>2 DEF EditFits, TabsShown, shown
  <2>4. \A z : BeingForgotten(z)' <=> z = e.server
    BY <2>1, <2>2 DEF BeingForgotten
  <2> HIDE DEF d
  <2>5. SessionsMoveTogether'
    BY <1>2, <1>3, <2>1, <2>4 DEF SessionsMoveTogether, TabsShown, shown
  <2> QED BY <1>2, <1>3, <2>1, <2>3, <2>4, <2>5 DEF Together, OneAtATime
<1>7. CASE dropToken(e)
  <2> DEFINE d == [e EXCEPT !.at = "choose"]
  <2>1. edits' = {d} /\ UNCHANGED <<known, shown, flows>>
    BY <1>2, <1>7 DEF dropToken, Become
  <2>2. d.server = e.server /\ d.at = "choose" /\ d.what = "forget" /\ d.here = e.here
    BY <1>2, <1>3, <1>7 DEF dropToken, Edits, EditFits
  <2>3. \A z : BeingForgotten(z)' <=> z = e.server
    BY <2>1, <2>2 DEF BeingForgotten
  <2>4. \A z : BeingForgotten(z) <=> z = e.server
    BY <1>2, <1>7 DEF BeingForgotten, dropToken
  <2>5. \A z \in Servers : /\ stored'[z] \in {stored[z], None}
                           /\ z # e.server => stored'[z] = stored[z] /\ (z \in cut' <=> z \in cut)
    BY <1>3, <1>7 DEF dropToken
  <2>6. stored'[e.server] = None \/ e.server \in cut'
    BY <1>3, <1>7 DEF dropToken, Edits
  <2>7. EditFits(d)'
    BY <1>2, <1>3, <2>1, <2>2, <2>6 DEF EditFits, TabsShown, shown
  <2> HIDE DEF d
  <2>8. SessionsMoveTogether'
    <3>1. conn.base \in Servers
      BY DEF PlacesOK
    <3>2. ASSUME NEW z \in Servers, stored'[z] # None
          PROVE  stored'[z].server = z /\ (z \in known' \/ z \in cut' \/ BeingForgotten(z)')
      <4>1. stored[z] # None /\ stored'[z] = stored[z]
        BY <2>5, <3>2
      <4>2. stored[z].server = z /\ (z \in known \/ z \in cut \/ BeingForgotten(z))
        BY <1>2, <4>1 DEF SessionsMoveTogether
      <4>3. CASE z = e.server
        BY <2>3, <4>1, <4>2, <4>3
      <4>4. CASE z # e.server
        BY <2>1, <2>4, <2>5, <4>1, <4>2, <4>4
      <4> QED BY <4>3, <4>4
    <3>3. TabsShown' => user' = conn'.token
                        /\ (user' = stored'[conn'.base] \/ BeingForgotten(conn.base)')
      <4>1. CASE conn.base = e.server
        BY <1>2, <1>3, <2>1, <2>3, <4>1 DEF SessionsMoveTogether, TabsShown, shown
      <4>2. CASE conn.base # e.server
        BY <1>2, <1>3, <2>1, <2>4, <2>5, <3>1, <4>2 DEF SessionsMoveTogether, TabsShown, shown
      <4> QED BY <4>1, <4>2
    <3>4. conn'.token # None => conn'.token.server = conn'.base
      BY <1>2, <1>3 DEF SessionsMoveTogether
    <3> QED BY <1>3, <3>2, <3>3, <3>4 DEF SessionsMoveTogether, TabsShown
  <2> QED BY <1>2, <1>3, <2>1, <2>3, <2>4, <2>7, <2>8 DEF Together, OneAtATime
<1>8. CASE chooseAnother(e) /\ active = e.server
  <2> DEFINE d == [e EXCEPT !.at = "default"]
  <2>1. edits' = {d} /\ UNCHANGED <<places, shown, flows, cut>>
    BY <1>2, <1>8 DEF chooseAnother, Become
  <2>2. d.server = e.server /\ d.at = "default" /\ d.what = "forget" /\ d.here = e.here
    BY <1>2, <1>3, <1>8 DEF chooseAnother, Edits, EditFits
  <2>3. \A z : BeingForgotten(z)' <=> BeingForgotten(z)
    BY <1>2, <1>8, <2>1, <2>2 DEF BeingForgotten, chooseAnother
  <2>4. EditFits(d)'
    BY <1>2, <1>3, <1>8, <2>1, <2>2 DEF EditFits, TabsShown, places, shown, chooseAnother
  <2> HIDE DEF d
  <2>5. SessionsMoveTogether'
    BY <1>2, <1>3, <2>1, <2>3 DEF SessionsMoveTogether, TabsShown, places, shown
  <2> QED BY <1>2, <1>3, <2>1, <2>3, <2>4, <2>5 DEF Together, OneAtATime, places
<1>9. CASE chooseAnother(e) /\ active # e.server
  BY <1>1, <1>9, CalmRemoved DEF chooseAnother, places
<1>10. CASE chooseDefault(e)
  BY <1>1, <1>10, CalmRemoved DEF chooseDefault
<1> QED BY <1>1, <1>4, <1>5, <1>6, <1>7, <1>8, <1>9, <1>10 DEF Write

LEMMA CalmPress ==
  ASSUME Typed, Calm,
         \/ \E a \in Accounts :
              a.server = conn.base /\ (PressSignIn(a) \/ PressApple(a) \/ PressGoogle(a))
         \/ PressSave \/ PressDelete
  PROVE  Calm'
<1> SUFFICES ASSUME ~disturbed' PROVE Together'
  BY DEF Calm
<1>1. /\ flows = {} /\ calls = {} /\ edits = {} /\ Together /\ \A s : ~BeingForgotten(s)
      /\ UNCHANGED <<conn, places, shown, flows, listing>>
  BY CalmMove DEF PressSignIn, PressApple, PressGoogle, PressSave, PressDelete
<1>2. \/ \E what \in Ways, a \in Accounts :
             Call(what, a) /\ AuthShown /\ a.server = conn.base
      \/ \E what \in {"save", "erase"} : Call(what, conn.token) /\ TabsShown
  <2>1. ASSUME NEW a \in Accounts, a.server = conn.base,
               PressSignIn(a) \/ PressApple(a) \/ PressGoogle(a)
        PROVE  \E what \in Ways, b \in Accounts :
                 Call(what, b) /\ AuthShown /\ b.server = conn.base
    BY <2>1 DEF PressSignIn, PressApple, PressGoogle, Ways
  <2>2. CASE PressSave
    BY <2>2 DEF PressSave, Ways
  <2>3. CASE PressDelete
    BY <2>3 DEF PressDelete, Ways
  <2> QED BY <2>1, <2>2, <2>3
<1>3. \A c, d \in calls' : c = d /\ CallFits(c)'
  BY <1>1, <1>2 DEF Call, CallFits, Together, SessionsMoveTogether, TabsShown, AuthShown, shown,
                    Ways
<1> QED BY <1>1, <1>3
        DEF Together, OneAtATime, SessionsMoveTogether, TabsShown, places, shown, listing

LEMMA CalmLeave ==
  ASSUME Typed, Together, flows = {}, edits = {}, calls' = {}, LeaveSession
  PROVE  Together'
<1>1. conn \in [base : Servers, token : Tokens] /\ stored \in [Servers -> Tokens]
  BY DEF Typed, PlacesOK
<1>2. user' = None /\ conn'.base = conn.base /\ conn'.token = None
  BY <1>1 DEF LeaveSession, Show, Remember
<1>3. \A s \in Servers : stored'[s] \in {stored[s], None}
  BY <1>1 DEF LeaveSession, Remember
<1>4. edits' = {} /\ cut' = cut /\ \A s : ~BeingForgotten(s) /\ ~BeingForgotten(s)'
  BY DEF LeaveSession, listing, BeingForgotten
<1> QED BY <1>2, <1>3, <1>4
        DEF LeaveSession, Together, OneAtATime, SessionsMoveTogether, TabsShown

LEMMA CalmCall ==
  ASSUME Typed, Calm,
         \/ \E c \in calls : CancelGoogle(c) \/ SignedIn(c) \/ Refused(c) \/ Saved(c) \/ Erased(c)
         \/ SignOut
  PROVE  Calm'
<1> SUFFICES ASSUME ~disturbed' PROVE Together'
  BY DEF Calm
<1>1. CASE SignOut
  BY <1>1, CalmMove, CalmLeave DEF SignOut
<1>2. ASSUME NEW c \in calls,
             CancelGoogle(c) \/ SignedIn(c) \/ Refused(c) \/ Saved(c) \/ Erased(c)
      PROVE  Together'
  <2>1. Together /\ calls' = calls \ {c}
    BY <1>2 DEF Calm, CancelGoogle, SignedIn, Refused, Saved, Erased, Stay
  <2>2. /\ flows = {} /\ calls' = {} /\ CallFits(c) /\ conn.base \in known
        /\ edits = {} /\ edits' = {} /\ cut' = cut
        /\ \A s : ~BeingForgotten(s) /\ ~BeingForgotten(s)'
    <3>1. UNCHANGED listing
      BY <1>2 DEF CancelGoogle, SignedIn, Refused, Saved, Erased, LeaveSession
    <3> QED BY <2>1, <3>1 DEF Together, OneAtATime, listing, BeingForgotten
  <2>3. conn \in [base : Servers, token : Tokens] /\ stored \in [Servers -> Tokens]
    BY DEF Typed, PlacesOK
  <2>4. CASE CancelGoogle(c) \/ Refused(c)
    BY <2>1, <2>2, <2>4 DEF CancelGoogle, Refused, Together, OneAtATime, SessionsMoveTogether,
                            TabsShown, places, shown
  <2>5. CASE SignedIn(c)
    <3>1. c.as.server = conn.base
      BY <2>2, <2>5 DEF SignedIn, CallFits
    <3>2. conn'.base = conn.base /\ conn'.token = c.as /\ user' = c.as
      BY <2>3, <2>5 DEF SignedIn, Remember, Show
    <3>3. stored' = [stored EXCEPT ![conn.base] = c.as] /\ UNCHANGED <<known, flows>>
      BY <2>5 DEF SignedIn, Remember
    <3>4. SessionsMoveTogether'
      BY <2>1, <2>2, <2>3, <3>1, <3>2, <3>3 DEF Together, SessionsMoveTogether, TabsShown
    <3> QED BY <2>2, <3>2, <3>3, <3>4 DEF Together, OneAtATime
  <2>6. CASE Saved(c)
    <3>1. user' = user /\ restoring' = restoring
      BY <2>2, <2>6 DEF Saved, CallFits, Show, Ways
    <3> QED BY <2>1, <2>2, <2>6, <3>1
            DEF Saved, Together, OneAtATime, SessionsMoveTogether, TabsShown, places
  <2>7. CASE Erased(c)
    BY <2>1, <2>2, <2>7, CalmLeave DEF Erased
  <2> QED BY <1>2, <2>4, <2>5, <2>6, <2>7
<1> QED BY <1>1, <1>2

LEMMA CalmRestart == ASSUME Typed, Calm, Restart PROVE Calm'
<1> SUFFICES ASSUME ~disturbed, Together PROVE Together'
  BY DEF Calm, Restart
<1> DEFINE f == [n |-> moves', at |-> "read", to |-> Default, as |-> None]
<1>1. /\ flows' = {f} /\ user' = None /\ restoring' /\ calls' = {} /\ UNCHANGED places
      /\ edits' = {} /\ cut' = cut \cup {e.server : e \in {x \in edits : x.at = "token"}}
  BY DEF Restart
<1>2. conn'.base = Default /\ conn'.token \in {stored[Default], None}
  BY DEF Restart
<1>3. \A g \in flows' : FlowFits(g)'
  BY <1>1 DEF FlowFits
<1>4. ASSUME NEW s \in Servers, stored[s] # None
      PROVE  stored[s].server = s /\ (s \in known \/ s \in cut')
  <2>1. ASSUME NEW e \in edits, e.server = s, e.at \in {"choose", "default"} PROVE s \in cut
    BY <1>4, <2>1 DEF Together, EditFits
  <2> QED BY <1>1, <1>4, <2>1 DEF Together, SessionsMoveTogether, BeingForgotten
<1>5. SessionsMoveTogether'
  BY <1>1, <1>2, <1>4, SessionAssumption DEF Together, SessionsMoveTogether, TabsShown, places
<1> QED BY <1>1, <1>3, <1>5 DEF Together, OneAtATime

LEMMA CalmNext == Typed /\ Calm /\ [Next]_vars => Calm'
<1> SUFFICES ASSUME Typed, Calm, [Next]_vars PROVE Calm'
  OBVIOUS
<1> USE DEF Calm, Together, OneAtATime, SessionsMoveTogether, TabsShown, FlowFits, CallFits,
            EditFits, BeingForgotten
<1>1. ASSUME UNCHANGED <<conn, places, user, restoring, pending>> PROVE Calm'
  BY <1>1 DEF places, pending, listing
<1>2. CASE \/ Load \/ \E r \in reading : cacheRead(r)
           \/ \E g \in gets : getAnswered(g) \/ getFailed(g)
  BY <1>1, <1>2 DEF Load, cacheRead, getAnswered, getFailed, shown
<1>3. CASE UNCHANGED vars
  BY <1>1, <1>3 DEF vars, shown
<1> HIDE DEF Calm, Together, OneAtATime, SessionsMoveTogether, TabsShown, FlowFits, CallFits,
             EditFits, BeingForgotten
<1> QED BY <1>2, <1>3, CalmRestart, CalmFlow, CalmServer, CalmWrite, CalmPress, CalmCall DEF Next

LEMMA CalmInit == Init => Calm
<1> SUFFICES ASSUME Init PROVE Together
  BY DEF Calm
<1> USE SessionAssumption
<1>1. \A f \in flows : FlowFits(f)
  BY DEF Init, FlowFits
<1>2. SessionsMoveTogether
  BY DEF Init, SessionsMoveTogether, TabsShown
<1> QED BY <1>1, <1>2 DEF Init, Together, OneAtATime

(* Token, server, user and what is stored of them move together while no   *)
(* press overtakes an answer or a change of the list and the keystore      *)
(* takes every token and every choice of a server, whatever answers fail   *)
(* and between whichever two writes the app is killed.  Only forgetting a  *)
(* server that was cut short, by a kill or by a keystore that does not     *)
(* delete its session, leaves a session of one off the list.               *)
THEOREM MovesTogether == Spec => []SessionsMoveTogetherUndisturbed
<1>1. Calm => SessionsMoveTogetherUndisturbed
  BY DEF Calm, Together, SessionsMoveTogetherUndisturbed
<1> QED BY <1>1, TypedInit, TypedNext, CalmInit, CalmNext, PTL DEF Spec

-----------------------------------------------------------------------------
(* While nothing is disturbed: whose data is shown                         *)

(* A GET that can be joined goes to the server in use.  Whoever asked, or  *)
(* is shown, something was signed in at the server it comes from.          *)
Painted ==
  /\ \A g \in gets : g.listed => g.base = conn.base
  /\ \A g \in gets : \A c \in g.callers :
       /\ c.key.server = g.base
       /\ c.mount <= mount
       /\ c.mount = mount => user # None /\ user.server = g.base
  /\ \A r \in reading : user # None /\ r.of.server = user.server
  /\ view # None => user # None /\ view.of.server = user.server
  /\ \A a \in Accounts : cache[a] # None => cache[a].server = a.server

Clean == ~disturbed => Painted

(* A user is never replaced by another but by way of another screen.       *)
LEMMA ShowPaints ==
  ASSUME Typed, Painted, NEW u \in Tokens, NEW r \in BOOLEAN, Show(u, r),
         u # None /\ user # None => u = user,
         \A h \in gets' : h.listed => h.base = conn'.base,
         \A h \in gets' : \E g \in gets : h.base = g.base /\ h.callers = g.callers,
         \A a \in Accounts : cache'[a] \in {cache[a], None}
  PROVE  Painted'
<1> DEFINE same == ((u = None) <=> (user = None)) /\ (r <=> restoring)
<1>1. /\ user' = u
      /\ IF same THEN mount' = mount /\ view' = view /\ reading' = reading
         ELSE mount' = mount + 1 /\ view' = None /\ reading' = {}
  BY DEF Show
<1>2. mount \in Nat /\ gets \subseteq Gets /\ user \in Tokens
  BY DEF Typed, ShownOK, NetworkOK
<1>3. ASSUME NEW h \in gets', NEW c \in h.callers
      PROVE  /\ c.key.server = h.base
             /\ c.mount <= mount'
             /\ c.mount = mount' => user' # None /\ user'.server = h.base
  <2>1. PICK g \in gets : h.base = g.base /\ h.callers = g.callers
    OBVIOUS
  <2>2. c \in g.callers /\ c.mount \in Nat
    BY <1>2, <2>1 DEF Gets, Callers
  <2>3. c.key.server = g.base /\ c.mount <= mount
        /\ (c.mount = mount => user # None /\ user.server = g.base)
    BY <2>2 DEF Painted
  <2>4. CASE same
    BY <1>1, <2>1, <2>3, <2>4
  <2>5. CASE ~same
    BY <1>1, <1>2, <2>1, <2>2, <2>3, <2>5
  <2> QED BY <2>4, <2>5
<1>4. \A x \in reading' : user' # None /\ x.of.server = user'.server
  BY <1>1 DEF Painted
<1>5. view' # None => user' # None /\ view'.of.server = user'.server
  BY <1>1 DEF Painted
<1>6. \A a \in Accounts : cache'[a] # None => cache'[a].server = a.server
  BY DEF Painted
<1> QED BY <1>3, <1>4, <1>5, <1>6 DEF Painted

LEMMA CleanFlow == ASSUME Typed, Calm, Clean, NEW f \in flows, Flow(f) PROVE Clean'
<1> SUFFICES ASSUME ~disturbed' PROVE Painted'
  BY DEF Clean
<1>1. ~setActiveFailed(f)
  BY DEF setActiveFailed
<1>2. disturbed' = disturbed
  BY <1>1 DEF Flow, loadActive, setActive, setBackend, meAnswered, meFailed, Stay
<1>3. Painted /\ user = None /\ restoring /\ f \in Flows
  BY <1>2 DEF Clean, Calm, Together, FlowFits, Typed, PendingOK
<1>4. conn \in [base : Servers, token : Tokens] /\ gets \subseteq Gets
  BY DEF Typed, PlacesOK, NetworkOK
<1>5. CASE loadActive(f) \/ setActive(f)
  BY <1>3, <1>5 DEF loadActive, setActive, Painted, shown, network
<1>6. CASE setBackend(f)
  <2>1. \A h \in gets' : ~h.listed /\ \E g \in gets : h.base = g.base /\ h.callers = g.callers
    BY <1>4, <1>6 DEF setBackend, Gets
  <2>2. cache' = cache
    BY <1>6 DEF setBackend
  <2>3. CASE f.as = None
    BY <1>3, <1>6, <2>1, <2>2, <2>3, ShowPaints DEF setBackend, Tokens
  <2>4. CASE f.as # None
    <3>1. UNCHANGED shown
      BY <1>6, <2>4 DEF setBackend
    <3>2. ASSUME NEW h \in gets', NEW c \in h.callers
          PROVE  /\ c.key.server = h.base
                 /\ c.mount <= mount'
                 /\ c.mount = mount' => user' # None /\ user'.server = h.base
      BY <1>3, <2>1, <3>1 DEF Painted, shown
    <3> QED BY <1>3, <2>1, <2>2, <3>1, <3>2 DEF Painted, shown
  <2> QED BY <2>3, <2>4
<1>7. CASE meAnswered(f) \/ meFailed(f)
  <2>1. conn'.base = conn.base
    BY <1>4, <1>7 DEF meAnswered, meFailed, Remember
  <2>2. UNCHANGED <<gets, cache>>
    BY <1>7 DEF meAnswered, meFailed, network
  <2>3. PICK u \in Tokens : Show(u, FALSE)
    BY <1>3, <1>7 DEF meAnswered, meFailed, Flows, Tokens
  <2> QED BY <1>3, <2>1, <2>2, <2>3, ShowPaints DEF Painted
<1> QED BY <1>1, <1>5, <1>6, <1>7 DEF Flow

LEMMA CleanServer ==
  ASSUME Typed, Clean,
         \/ \E s \in Servers :
              PickServer(s) \/ FollowLink(s) \/ onAddServer(s) \/ onRemoveServer(s)
         \/ \E e \in edits : Write(e)
  PROVE  Clean'
<1> SUFFICES ASSUME ~disturbed' PROVE Painted'
  BY DEF Clean
<1>1. /\ Painted /\ UNCHANGED <<conn, network>>
      /\ UNCHANGED shown \/ \E n, t : switchTo(n, t)
  <2>1. ASSUME NEW s \in Servers,
               PickServer(s) \/ FollowLink(s) \/ onAddServer(s) \/ onRemoveServer(s)
        PROVE  /\ ~disturbed /\ UNCHANGED <<conn, network>>
               /\ UNCHANGED shown \/ \E n, t : switchTo(n, t)
    BY <2>1 DEF Move, PickServer, FollowLink, onAddServer, onRemoveServer
  <2>2. ASSUME NEW e \in edits, Write(e)
        PROVE  /\ ~disturbed /\ UNCHANGED <<conn, network>>
               /\ UNCHANGED shown \/ \E n, t : switchTo(n, t)
    <3>1. ~disturbed
      BY <2>2 DEF Write, abandoned, addBackend, removeBackend, dropToken, chooseAnother,
                 chooseDefault, chooseDefaultFailed, Removed, Stay
    <3> QED BY <2>2, <3>1, WriteShows
  <2> QED BY <2>1, <2>2 DEF Clean
<1>2. CASE \E n, t : switchTo(n, t)
  BY <1>1, <1>2, ShowPaints DEF switchTo, Painted, Tokens, network
<1>3. CASE UNCHANGED shown
  BY <1>1, <1>3 DEF Painted, shown, network
<1> QED BY <1>1, <1>2, <1>3

LEMMA CleanCall ==
  ASSUME Typed, Calm, Clean,
         \/ \E c \in calls : CancelGoogle(c) \/ SignedIn(c) \/ Refused(c) \/ Saved(c) \/ Erased(c)
         \/ SignOut
  PROVE  Clean'
<1> SUFFICES ASSUME ~disturbed' PROVE Painted'
  BY DEF Clean
<1>1. ~disturbed /\ Painted /\ Together
  <2>1. ASSUME NEW c \in calls,
               CancelGoogle(c) \/ SignedIn(c) \/ Refused(c) \/ Saved(c) \/ Erased(c)
        PROVE  ~disturbed
    BY <2>1 DEF CancelGoogle, SignedIn, Refused, Saved, Erased, Stay
  <2>2. ASSUME SignOut PROVE ~disturbed
    BY <2>2 DEF SignOut, Move
  <2> QED BY <2>1, <2>2 DEF Clean, Calm
<1>2. conn \in [base : Servers, token : Tokens] /\ restoring \in BOOLEAN /\ calls \subseteq Requests
      /\ user \in Tokens
  BY DEF Typed, PlacesOK, ShownOK, PendingOK
<1>3. ASSUME LeaveSession PROVE Painted'
  <2>1. conn'.base = conn.base /\ gets' = gets /\ Show(None, restoring)
    BY <1>2, <1>3 DEF LeaveSession, Remember
  <2>2. \A a \in Accounts : cache'[a] \in {cache[a], None}
    BY <1>3 DEF LeaveSession
  <2> QED BY <1>1, <1>2, <2>1, <2>2, ShowPaints DEF Painted, Tokens
<1>4. ASSUME NEW c \in calls, SignedIn(c) \/ Saved(c) PROVE Painted'
  <2>1. c.as \in Tokens /\ Show(c.as, restoring) /\ UNCHANGED network
    BY <1>2, <1>4 DEF SignedIn, Saved, Requests
  <2>2. user # None => c.as = user
    BY <1>1, <1>4 DEF Together, CallFits, SignedIn, Saved, Ways
  <2>3. conn'.base = conn.base
    BY <1>2, <1>4 DEF SignedIn, Saved, Remember
  <2> QED BY <1>1, <1>2, <2>1, <2>2, <2>3, ShowPaints DEF Painted, network
<1>5. ASSUME NEW c \in calls, CancelGoogle(c) \/ Refused(c) PROVE Painted'
  BY <1>1, <1>5 DEF CancelGoogle, Refused, Painted, shown, network
<1> QED BY <1>3, <1>4, <1>5 DEF SignOut, Erased

LEMMA CleanLoad == ASSUME Typed, Calm, Clean, Load PROVE Clean'
<1> SUFFICES ASSUME ~disturbed PROVE Painted'
  BY DEF Clean, Load, pending
<1> DEFINE c == [n |-> loads', key |-> user, mount |-> mount]
<1>1. /\ Painted /\ UNCHANGED <<conn, user, mount, cache>>
      /\ user \in Accounts /\ user.server = conn.base /\ user # None
  BY DEF Clean, Calm, Together, SessionsMoveTogether, Load, TabsShown, Typed, ShownOK, Tokens
<1>2. mount \in Nat /\ gets \subseteq Gets
  BY DEF Typed, ShownOK, NetworkOK
<1>3. \A h \in gets' :
        \/ h \in gets
        \/ h.base = conn.base /\ h.callers = {c}
        \/ \E g \in gets : g.listed /\ h.base = g.base /\ h.callers = g.callers \cup {c}
  <2>1. CASE {h \in gets : h.listed} = {}
    BY <2>1 DEF Load
  <2>2. CASE {h \in gets : h.listed} # {}
    <3>1. \A h \in gets' : \/ h \in gets
                           \/ \E g \in gets : g.listed /\ h = [g EXCEPT !.callers = @ \cup {c}]
      BY <2>2 DEF Load
    <3> QED BY <1>2, <3>1 DEF Gets
  <2> QED BY <2>1, <2>2
<1>4. \A h \in gets' : h.listed => h.base = conn.base
  <2>1. CASE {h \in gets : h.listed} = {}
    BY <1>1, <2>1 DEF Load, Painted
  <2>2. CASE {h \in gets : h.listed} # {}
    BY <1>1, <1>3 DEF Painted
  <2> QED BY <2>1, <2>2
<1>5. ASSUME NEW h \in gets', NEW d \in h.callers
      PROVE  /\ d.key.server = h.base
             /\ d.mount <= mount
             /\ d.mount = mount => user.server = h.base
  <2>1. CASE d = c
    BY <1>1, <1>2, <1>3, <2>1 DEF Painted
  <2>2. CASE d # c
    BY <1>1, <1>3, <1>5, <2>2 DEF Painted
  <2> QED BY <2>1, <2>2
<1>6. /\ \A r \in reading' : r \in reading \/ (cache[user] # None /\ r.of = cache[user])
      /\ view' = view \/ (cache[user] # None /\ view'.of = cache[user])
  BY DEF Load
<1>7. cache[user] # None => cache[user].server = user.server
  BY <1>1 DEF Painted
<1> QED BY <1>1, <1>4, <1>5, <1>6, <1>7 DEF Painted

LEMMA CleanAnswer ==
  ASSUME Typed, Clean,
         \/ \E r \in reading : cacheRead(r)
         \/ \E g \in gets : getAnswered(g) \/ getFailed(g)
  PROVE  Clean'
<1> SUFFICES ASSUME ~disturbed PROVE Painted'
  BY DEF Clean, cacheRead, getAnswered, getFailed, pending
<1>0. Painted
  BY DEF Clean
<1>1. ASSUME NEW r \in reading, cacheRead(r) PROVE Painted'
  BY <1>0, <1>1 DEF cacheRead, Painted, network
<1>2. ASSUME NEW g \in gets
      PROVE  \A h \in Unlisted(g) :
               ~h.listed /\ \E k \in gets : h.base = k.base /\ h.callers = k.callers
  BY UnlistedTyped DEF Typed
<1>3. ASSUME NEW g \in gets, getAnswered(g) PROVE Painted'
  <2> DEFINE here == {c.n : c \in {d \in g.callers : d.mount = mount}}
  <2>1. g.as.server = g.base /\ UNCHANGED <<conn, user, mount>> /\ gets' = Unlisted(g)
    BY <1>3 DEF getAnswered
  <2>2. \A h \in gets' : \A c \in h.callers :
          /\ c.key.server = h.base
          /\ c.mount <= mount
          /\ c.mount = mount => user # None /\ user.server = h.base
    BY <1>0, <1>2, <2>1 DEF Painted
  <2>3. \A a \in Accounts : cache'[a] # None => cache'[a].server = a.server
    <3>1. \A c \in g.callers : c.key.server = g.base
      BY <1>0 DEF Painted
    <3> QED BY <1>0, <1>3, <2>1, <3>1 DEF getAnswered, Painted
  <2>4. view' # None => user # None /\ view'.of.server = user.server
    <3>1. here # {} => user # None /\ user.server = g.base
      BY <1>0 DEF Painted
    <3>2. view' = view \/ (here # {} /\ view'.of = g.as)
      BY <1>3 DEF getAnswered
    <3> QED BY <1>0, <2>1, <3>1, <3>2 DEF Painted
  <2>5. reading' \subseteq reading
    BY <1>3 DEF getAnswered
  <2>6. \A h \in gets' : ~h.listed
    BY <1>2, <2>1
  <2> QED BY <1>0, <2>1, <2>2, <2>3, <2>4, <2>5, <2>6 DEF Painted
<1>4. ASSUME NEW g \in gets, getFailed(g) PROVE Painted'
  <2>1. UNCHANGED <<shown, cache>> /\ gets' = Unlisted(g)
    BY <1>4 DEF getFailed
  <2>2. \A h \in gets' : ~h.listed /\ \A c \in h.callers :
          /\ c.key.server = h.base
          /\ c.mount <= mount
          /\ c.mount = mount => user # None /\ user.server = h.base
    BY <1>0, <1>2, <2>1 DEF Painted
  <2> QED BY <1>0, <2>1, <2>2 DEF Painted, shown
<1> QED BY <1>1, <1>3, <1>4

LEMMA CleanNext == Typed /\ Calm /\ Clean /\ [Next]_vars => Clean'
<1> SUFFICES ASSUME Typed, Calm, Clean, [Next]_vars PROVE Clean'
  OBVIOUS
<1>1. ASSUME UNCHANGED <<conn, shown, network>>, ~disturbed' => ~disturbed PROVE Clean'
  BY <1>1 DEF Clean, Painted, shown, network
<1>2. CASE \/ \E a \in Accounts : PressSignIn(a) \/ PressApple(a) \/ PressGoogle(a)
           \/ PressSave \/ PressDelete
  BY <1>1, <1>2 DEF PressSignIn, PressApple, PressGoogle, PressSave, PressDelete, Move
<1>3. CASE UNCHANGED vars
  BY <1>1, <1>3 DEF vars, pending
<1>4. CASE Restart
  BY <1>4 DEF Restart, Clean, Painted
<1> QED BY <1>2, <1>3, <1>4, CleanFlow, CleanServer, CleanCall, CleanLoad, CleanAnswer DEF Next

(* However GETs overlap with switches, sign-ins and restarts, nothing of   *)
(* another server is painted or cached while nothing is disturbed.         *)
THEOREM PaintsOneServer == Spec => []SameServerShown
<1>1. Init => Clean
  BY DEF Init, Clean, Painted
<1>2. Clean => SameServerShown
  BY DEF Clean, Painted, SameServerShown
<1> QED BY <1>1, <1>2, TypedInit, TypedNext, CalmInit, CalmNext, CleanNext, PTL DEF Spec

=============================================================================

-------------------------- MODULE CartVisitsProofs --------------------------
(***************************************************************************)
(* Theorems about CartVisits, for any number of browsers, tabs, sessions   *)
(* and items: its types; that no two visitors ever share a session; that a *)
(* customer who has logged in is served with his own; and that what a      *)
(* visitor was told is in his cart stays in the cart he is shown.          *)
(***************************************************************************)
EXTENDS CartVisits, TLAPS

TabStates == {Idle} \union Sent \union Resolved \union LoggingIn \union Answered
LoginPoints == {"opened", "promoted", "served"}

(* A session that has not been opened has no cart.                         *)
UnopenedAreEmpty == \A s \in Sessions : sessions[s].kind = "NONE" => carts[s] = {}

TypeInv == TypeOK /\ UnopenedAreEmpty

(* The sessions a browser knows: by a cookie or token it has or had, or by *)
(* one that goes with a request of its own or comes with an answer to it.  *)
Mentions(q, s) ==
    \/ q.at \in {"sent", "answered"} /\ s \in {q.cookie, q.bearer}
    \/ q.at = "resolved" /\ s \in {q.cookie, q.session}
    \/ q.at \in LoginPoints /\ s \in {q.guest, q.session}

Knows(b, s) ==
    \/ s \in {jar[b].cookie, jar[b].bearer} \union given[b]
    \/ \E t \in Tabs : tab[t] # Idle /\ tab[t].browser = b /\ Mentions(tab[t], s)

KnownAreOpen == \A b \in Browsers, s \in Sessions : Knows(b, s) => sessions[s].kind # "NONE"
KnownByOne == \A a, b \in Browsers, s \in Sessions : Knows(a, s) /\ Knows(b, s) => a = b

VisitInv == TypeInv /\ KnownAreOpen /\ KnownByOne

-----------------------------------------------------------------------------
LEMMA Numbers == Sessions \subseteq Nat /\ None \notin Sessions /\ Same \notin Sessions /\ None # Same
BY SessionsAssumption DEF None, Same

LEMMA InitTypes == Init => TypeInv
BY DEF Init, TypeInv, TypeOK, UnopenedAreEmpty, Unopened, Row, Ids, Idle

(* What an answer that sets nothing but a cookie looks like.               *)
LEMMA AnswerType ==
    ASSUME NEW b \in Browsers, NEW c \in Ids \union {Same}
    PROVE  /\ Answer(b, c) \in Answered
           /\ Answer(b, c).items = {}
BY DEF Answer, Answered

LEMMA CookieType ==
    ASSUME NEW q \in Resolved
    PROVE  CookieOf(q) \in Ids \union {Same}
BY DEF CookieOf, Resolved

(* Which kind of state a tab is in is told by its field "at".              *)
LEMMA TabKinds ==
    ASSUME TypeOK, NEW t \in Tabs
    PROVE  /\ tab[t].at = "sent" => tab[t] \in Sent
           /\ tab[t].at = "resolved" => tab[t] \in Resolved
           /\ tab[t].at \in LoginPoints => tab[t] \in LoggingIn
           /\ tab[t].at = "answered" => tab[t] \in Answered
           /\ tab[t] = Idle <=> tab[t].at = "idle"
           /\ tab[t] # Idle => tab[t].browser \in Browsers
BY DEF TypeOK, Sent, Resolved, LoggingIn, Answered, Idle, LoginPoints

LEMMA TabType ==
    ASSUME TypeOK, NEW t \in Tabs, NEW q \in TabStates, Goes(t, q)
    PROVE  tab' \in [Tabs -> TabStates]
BY DEF TypeOK, Goes, TabStates

(* A request names a session the browser knows.                            *)
LEMMA SendForm ==
    ASSUME TypeOK, NEW t \in Tabs, Send(t)
    PROVE  \E b \in Browsers, op \in Ops, c \in Ids :
               /\ tab[t] = Idle
               /\ Goes(t, [at |-> "sent", browser |-> b, op |-> op, bearer |-> jar[b].bearer, cookie |-> c])
               /\ c = jar[b].cookie \/ (c \in given[b] /\ op = "login")
               /\ op = "login" => jar[b].bearer = None
               /\ op = "logout" => jar[b].bearer # None
               /\ disturbed' = disturbed \union {x \in {b} : InFlight(b) # {} \/ c # jar[b].cookie}
               /\ UNCHANGED <<server, client, kept>>
<1>1. PICK b \in Browsers, op \in Ops, named \in Ids :
          /\ named = None \/ (named \in given[b] /\ op = "login")
          /\ tab[t] = Idle
          /\ op = "login" => jar[b].bearer = None
          /\ op = "logout" => jar[b].bearer # None
          /\ Goes(t, [at |-> "sent", browser |-> b, op |-> op, bearer |-> jar[b].bearer,
                      cookie |-> IF named = None THEN jar[b].cookie ELSE named])
          /\ disturbed' = disturbed \union {x \in {b} : InFlight(b) # {} \/ named \notin {None, jar[b].cookie}}
          /\ UNCHANGED <<server, client, kept>>
  <2>1. \A b \in Browsers : given[b] \subseteq Ids
    BY DEF TypeOK, Ids
  <2> QED BY <2>1 DEF Send, Ids
<1> DEFINE c == IF named = None THEN jar[b].cookie ELSE named
<1>2. c \in Ids
  <2>1. jar[b].cookie \in Ids /\ given[b] \subseteq Ids
    BY DEF TypeOK, Ids
  <2> QED BY <1>1, <2>1
<1>3. c = jar[b].cookie \/ (c \in given[b] /\ op = "login")
  BY <1>1
<1>4. named \notin {None, jar[b].cookie} <=> c # jar[b].cookie
  OBVIOUS
<1>5. disturbed' = disturbed \union {x \in {b} : InFlight(b) # {} \/ c # jar[b].cookie}
  BY <1>1, <1>4
<1>6. Goes(t, [at |-> "sent", browser |-> b, op |-> op, bearer |-> jar[b].bearer, cookie |-> c])
  BY <1>1
<1> HIDE DEF c
<1> QED BY <1>1, <1>2, <1>3, <1>5, <1>6

(* A login that goes on is still the same browser's, with its session.     *)
LEMMA LoginForm ==
    ASSUME TypeOK, NEW t \in Tabs, NoGuest(t) \/ TransferCart(t) \/ ReleaseCart(t) \/ RevokeGuest(t)
    PROVE  /\ tab[t] \in LoggingIn
           /\ \E q \in LoggingIn :
                  /\ Goes(t, q)
                  /\ q.browser = tab[t].browser /\ q.session = tab[t].session
                  /\ q.at = IF TransferCart(t) \/ ReleaseCart(t) THEN "promoted" ELSE "served"
                  /\ q.guest = IF NoGuest(t) THEN None ELSE tab[t].guest
<1>1. tab[t] \in LoggingIn
  BY TabKinds DEF NoGuest, TransferCart, ReleaseCart, RevokeGuest, LoginPoints
<1> DEFINE P(q) == /\ q \in LoggingIn /\ Goes(t, q)
                   /\ q.browser = tab[t].browser /\ q.session = tab[t].session
                   /\ q.at = IF TransferCart(t) \/ ReleaseCart(t) THEN "promoted" ELSE "served"
                   /\ q.guest = IF NoGuest(t) THEN None ELSE tab[t].guest
<1>2. CASE NoGuest(t)
  <2>1. P([tab[t] EXCEPT !.at = "served", !.guest = None])
    BY <1>1, <1>2 DEF NoGuest, TransferCart, ReleaseCart, Promotable, LoggingIn, Ids
  <2> QED BY <1>1, <2>1
<1>3. CASE TransferCart(t) \/ ReleaseCart(t)
  <2>1. P([tab[t] EXCEPT !.at = "promoted"])
    BY <1>1, <1>3 DEF NoGuest, TransferCart, ReleaseCart, LoggingIn
  <2> QED BY <1>1, <2>1
<1>4. CASE RevokeGuest(t)
  <2>1. P([tab[t] EXCEPT !.at = "served"])
    BY <1>1, <1>4 DEF NoGuest, TransferCart, ReleaseCart, RevokeGuest, LoggingIn
  <2> QED BY <1>1, <2>1
<1> QED BY <1>2, <1>3, <1>4

-----------------------------------------------------------------------------
(* Every step keeps the types: one step of the proof per action.           *)
LEMMA NextTypes == TypeInv /\ KnownAreOpen /\ [Next]_vars => TypeInv'
<1> SUFFICES ASSUME TypeInv, KnownAreOpen, [Next]_vars PROVE TypeInv'
  OBVIOUS
<1> USE Numbers
<1> USE DEF client
<1>1. ASSUME NEW t \in Tabs, Send(t) PROVE TypeInv'
  <2>1. PICK b \in Browsers, op \in Ops, c \in Ids :
            /\ Goes(t, [at |-> "sent", browser |-> b, op |-> op, bearer |-> jar[b].bearer, cookie |-> c])
            /\ disturbed' \subseteq disturbed \union {b}
            /\ UNCHANGED <<server, client, kept>>
    BY <1>1, SendForm DEF TypeInv
  <2>2. [at |-> "sent", browser |-> b, op |-> op, bearer |-> jar[b].bearer, cookie |-> c] \in TabStates
    BY DEF TypeInv, TypeOK, TabStates, Sent
  <2> QED BY <2>1, <2>2, TabType DEF TypeInv, TypeOK, TabStates, UnopenedAreEmpty, server
<1>2. ASSUME NEW t \in Tabs, ResolveCookie(t) PROVE TypeInv'
  <2>1. tab[t] \in Sent /\ tab[t].op \in CartOps /\ tab[t].cookie \in Sessions
    BY <1>2, TabKinds DEF ResolveCookie, LiveGuest, Live, Sent, Ids, TypeInv
  <2>2. [at |-> "resolved", browser |-> tab[t].browser, op |-> tab[t].op, session |-> tab[t].cookie, cookie |-> None] \in TabStates
    BY <2>1 DEF TabStates, Sent, Resolved, Ids
  <2> QED BY <1>2, <2>2, TabType DEF ResolveCookie, ResolvesTo, TypeInv, TypeOK, TabStates, UnopenedAreEmpty, server
<1>3. ASSUME NEW t \in Tabs, ResolveBearer(t) PROVE TypeInv'
  <2>1. tab[t] \in Sent /\ tab[t].op \in CartOps /\ tab[t].bearer \in Sessions
    BY <1>3, TabKinds DEF ResolveBearer, Sent, Ids, TypeInv
  <2>2. [at |-> "resolved", browser |-> tab[t].browser, op |-> tab[t].op, session |-> tab[t].bearer, cookie |-> None] \in TabStates
    BY <2>1 DEF TabStates, Sent, Resolved, Ids
  <2>3. Answer(tab[t].browser, Same) \in TabStates
    BY <2>1, AnswerType DEF TabStates, Sent
  <2> QED BY <1>3, <2>2, <2>3, TabType DEF ResolveBearer, ResolvesTo, TypeInv, TypeOK, TabStates, UnopenedAreEmpty, server
<1>4. ASSUME NEW t \in Tabs, CreateGuestSession(t) PROVE TypeInv'
  <2>1. PICK s \in NewSession :
            sessions' = Opened(s, "GUEST") /\ ResolvesTo(t, s, s) /\ UNCHANGED <<carts, client, kept, disturbed>>
    BY <1>4 DEF CreateGuestSession
  <2>2. tab[t] \in Sent /\ tab[t].op \in CartOps /\ s \in Sessions
    BY <1>4, <2>1, TabKinds DEF CreateGuestSession, NewSession, TypeInv
  <2>3. [at |-> "resolved", browser |-> tab[t].browser, op |-> tab[t].op, session |-> s, cookie |-> s] \in TabStates
    BY <2>2 DEF TabStates, Sent, Resolved, Ids
  <2>4. sessions' \in [Sessions -> Row]
    BY <2>1, <2>2 DEF Opened, Row, TypeInv, TypeOK
  <2>5. UnopenedAreEmpty'
    BY <2>1, <2>2 DEF Opened, UnopenedAreEmpty, TypeInv, TypeOK
  <2> QED BY <2>1, <2>3, <2>4, <2>5, TabType DEF ResolvesTo, TypeInv, TypeOK, TabStates
<1>5. ASSUME NEW t \in Tabs, RefuseKey(t) \/ ServeExpired(t) \/ Serve(t) PROVE TypeInv'
  <2>1. tab[t] \in Resolved
    BY <1>5, TabKinds DEF RefuseKey, ServeExpired, Serve, TypeInv
  <2>2. PICK c \in Ids \union {Same} : Goes(t, Answer(tab[t].browser, c))
    BY <1>5, <2>1, CookieType DEF RefuseKey, ServeExpired, Serve, Ids
  <2>3. Answer(tab[t].browser, c) \in TabStates
    BY <2>1, AnswerType DEF TabStates, Resolved
  <2> QED BY <1>5, <2>2, <2>3, TabType DEF RefuseKey, ServeExpired, Serve, TypeInv, TypeOK, TabStates, UnopenedAreEmpty, server
<1>6. ASSUME NEW t \in Tabs, ServeAdd(t) PROVE TypeInv'
  <2>1. PICK i \in Items :
            /\ tab[t].at = "resolved" /\ Live(tab[t].session)
            /\ \A s \in Sessions : i \notin carts[s]
            /\ carts' = [carts EXCEPT ![tab[t].session] = @ \union {i}]
            /\ Goes(t, [Answer(tab[t].browser, CookieOf(tab[t])) EXCEPT !.items = {i}])
            /\ UNCHANGED <<sessions, client, kept, disturbed>>
    BY <1>6 DEF ServeAdd
  <2>2. tab[t] \in Resolved
    BY <2>1, TabKinds DEF TypeInv
  <2>3. [Answer(tab[t].browser, CookieOf(tab[t])) EXCEPT !.items = {i}] \in TabStates
    BY <2>2, CookieType DEF TabStates, Resolved, Answer, Answered
  <2>4. carts' \in [Sessions -> SUBSET Items] /\ \A s, u \in Sessions : s # u => carts'[s] \intersect carts'[u] = {}
    BY <2>1, <2>2 DEF TypeInv, TypeOK, Resolved
  <2>5. UnopenedAreEmpty'
    BY <2>1, <2>2 DEF TypeInv, TypeOK, Resolved, UnopenedAreEmpty, Live
  <2> QED BY <2>1, <2>3, <2>4, <2>5, TabType DEF TypeInv, TypeOK, TabStates
<1>7. ASSUME NEW t \in Tabs, OpenUserSession(t) PROVE TypeInv'
  <2>1. PICK s \in NewSession, kind \in {"USER", "ADMIN"} :
            /\ tab[t].at = "sent" /\ sessions' = Opened(s, kind)
            /\ Goes(t, [at |-> "opened", browser |-> tab[t].browser, guest |-> tab[t].cookie, session |-> s])
            /\ UNCHANGED <<carts, client, kept, disturbed>>
    BY <1>7 DEF OpenUserSession
  <2>2. tab[t] \in Sent /\ s \in Sessions
    BY <2>1, TabKinds DEF NewSession, TypeInv
  <2>3. [at |-> "opened", browser |-> tab[t].browser, guest |-> tab[t].cookie, session |-> s] \in TabStates
    BY <2>2 DEF TabStates, Sent, LoggingIn
  <2>4. sessions' \in [Sessions -> Row]
    BY <2>1, <2>2 DEF Opened, Row, TypeInv, TypeOK
  <2>5. UnopenedAreEmpty'
    BY <2>1, <2>2 DEF Opened, UnopenedAreEmpty, TypeInv, TypeOK
  <2> QED BY <2>1, <2>3, <2>4, <2>5, TabType DEF TypeInv, TypeOK, TabStates
<1>8. ASSUME NEW t \in Tabs, NoGuest(t) \/ TransferCart(t) \/ ReleaseCart(t) \/ RevokeGuest(t) PROVE TypeInv'
  <2>1. tab[t] \in LoggingIn /\ (~NoGuest(t) /\ tab[t].at = "opened" => tab[t].guest \in Sessions)
    BY <1>8, TabKinds DEF NoGuest, TransferCart, ReleaseCart, RevokeGuest, Promotable, LoginPoints, LoggingIn, Ids, TypeInv
  <2>2. tab' \in [Tabs -> TabStates]
    <3>1. PICK q \in LoggingIn : Goes(t, q)
      BY <1>8, LoginForm DEF TypeInv
    <3> QED BY <3>1, TabType DEF TabStates, TypeInv
  <2>3. sessions' \in [Sessions -> Row] /\ \A u \in Sessions : sessions'[u].kind = sessions[u].kind
    <3>1. sessions' = sessions \/ sessions' = [sessions EXCEPT ![tab[t].guest].state = "REVOKED"]
      BY <1>8 DEF NoGuest, TransferCart, ReleaseCart, RevokeGuest, server
    <3>2. CASE sessions' = sessions
      BY <3>2 DEF TypeInv, TypeOK
    <3>3. CASE sessions' = [sessions EXCEPT ![tab[t].guest].state = "REVOKED"]
      BY <3>3, ZenonT(60) DEF TypeInv, TypeOK, Row
    <3> QED BY <3>1, <3>2, <3>3
  <2>4. /\ carts' \in [Sessions -> SUBSET Items]
        /\ \A a, b \in Sessions : a # b => carts'[a] \intersect carts'[b] = {}
        /\ UnopenedAreEmpty'
    <3>1. CASE NoGuest(t) \/ RevokeGuest(t)
      BY <2>3, <3>1 DEF NoGuest, RevokeGuest, TypeInv, TypeOK, UnopenedAreEmpty, server
    <3>2. CASE TransferCart(t)
      <4>1. tab[t].guest \in Sessions /\ tab[t].session \in Sessions /\ sessions[tab[t].session].kind # "NONE"
        BY <2>1, <3>2 DEF TransferCart, Promotable, LoggingIn, Ids
      <4> DEFINE g == tab[t].guest
                 s == tab[t].session
      <4>2. carts' = Moved(g, s)
        BY <3>2 DEF TransferCart
      <4> HIDE DEF g, s
      <4>3. \A u \in Sessions : carts'[u] = IF u = s THEN carts[g] ELSE IF u = g THEN {} ELSE carts[u]
        BY <4>1, <4>2 DEF Moved, TypeInv, TypeOK, g, s
      <4>4. carts' \in [Sessions -> SUBSET Items]
        BY <4>1, <4>2 DEF Moved, TypeInv, TypeOK, g, s
      <4>5. \A a, b \in Sessions : a # b => carts'[a] \intersect carts'[b] = {}
        BY <4>1, <4>3, ZenonT(60) DEF TypeInv, TypeOK, g, s
      <4> QED BY <2>3, <4>1, <4>3, <4>4, <4>5 DEF TypeInv, TypeOK, UnopenedAreEmpty, s
    <3>3. CASE ReleaseCart(t)
      BY <2>3, <3>3 DEF ReleaseCart, Released, TypeInv, TypeOK, UnopenedAreEmpty
    <3> QED BY <1>8, <3>1, <3>2, <3>3
  <2>5. kept' \in [Browsers -> SUBSET Items] /\ UNCHANGED <<client, disturbed>>
    BY <1>8 DEF NoGuest, TransferCart, ReleaseCart, RevokeGuest, Released, TypeInv, TypeOK
  <2> QED BY <2>2, <2>3, <2>4, <2>5 DEF TypeInv, TypeOK, TabStates
<1>9. ASSUME NEW t \in Tabs, AnswerLogin(t) PROVE TypeInv'
  <2>1. tab[t] \in LoggingIn
    BY <1>9, TabKinds DEF AnswerLogin, LoginPoints, TypeInv
  <2>2. [Answer(tab[t].browser, ClearCartCookie) EXCEPT !.bearer = tab[t].session] \in TabStates
    BY <2>1 DEF TabStates, LoggingIn, Answer, Answered, ClearCartCookie, Ids
  <2> QED BY <1>9, <2>2, TabType DEF AnswerLogin, TypeInv, TypeOK, TabStates, UnopenedAreEmpty, server
<1>10. ASSUME NEW t \in Tabs, Logout(t) PROVE TypeInv'
  <2> DEFINE q == tab[t]
  <2>1. /\ q.at = "sent"
        /\ sessions' = sessions \/ sessions' = [sessions EXCEPT ![q.bearer].state = "REVOKED"]
        /\ UNCHANGED <<carts, kept>> \/ Released(q.bearer)
        /\ \/ Goes(t, [Answer(q.browser, Same) EXCEPT !.bearer = None])
           \/ Goes(t, Answer(q.browser, Same))
        /\ UNCHANGED <<client, disturbed>>
    BY <1>10 DEF Logout, server
  <2>2. q \in Sent
    BY <2>1, TabKinds DEF TypeInv
  <2>3. [Answer(q.browser, Same) EXCEPT !.bearer = None] \in TabStates /\ Answer(q.browser, Same) \in TabStates
    BY <2>2, AnswerType DEF TabStates, Sent, Answer, Answered, Ids
  <2>4. sessions' \in [Sessions -> Row] /\ \A u \in Sessions : sessions'[u].kind = sessions[u].kind
    <3>1. CASE sessions' = sessions
      BY <3>1 DEF TypeInv, TypeOK
    <3>2. CASE sessions' = [sessions EXCEPT ![q.bearer].state = "REVOKED"]
      BY <3>2, ZenonT(60) DEF TypeInv, TypeOK, Row
    <3> QED BY <2>1, <3>1, <3>2
  <2>5. /\ carts' \in [Sessions -> SUBSET Items]
        /\ \A a, b \in Sessions : a # b => carts'[a] \intersect carts'[b] = {}
        /\ \A u \in Sessions : carts'[u] \subseteq carts[u]
    <3>1. carts' = carts \/ carts' = [carts EXCEPT ![q.bearer] = {}]
      BY <2>1 DEF Released
    <3> HIDE DEF q
    <3> QED BY <3>1 DEF TypeInv, TypeOK
  <2>6. UnopenedAreEmpty'
    BY <2>4, <2>5 DEF UnopenedAreEmpty, TypeInv
  <2>7. kept' \in [Browsers -> SUBSET Items]
    BY <2>1 DEF Released, TypeInv, TypeOK
  <2>8. tab' \in [Tabs -> TabStates]
    BY <2>1, <2>3, TabType DEF TypeInv
  <2> QED BY <2>1, <2>4, <2>5, <2>6, <2>7, <2>8 DEF TypeInv, TypeOK, TabStates
<1>11. ASSUME NEW t \in Tabs, Checkout(t) PROVE TypeInv'
  <2> DEFINE q == tab[t]
  <2>1. /\ q.at = "sent"
        /\ Goes(t, Answer(q.browser, Same))
        /\ \/ carts' = carts
           \/ /\ q.bearer # None /\ LiveGuest(q.cookie) /\ sessions[q.bearer].state # "REVOKED" /\ carts[q.bearer] = {}
              /\ carts' = Moved(q.cookie, q.bearer)
        /\ UNCHANGED <<sessions, client, kept, disturbed>>
    BY <1>11 DEF Checkout
  <2>2. q \in Sent
    BY <2>1, TabKinds DEF TypeInv
  <2>3. Answer(q.browser, Same) \in TabStates
    BY <2>2, AnswerType DEF TabStates, Sent
  <2>4. /\ carts' \in [Sessions -> SUBSET Items]
        /\ \A a, b \in Sessions : a # b => carts'[a] \intersect carts'[b] = {}
        /\ UnopenedAreEmpty'
    <3>1. CASE carts' = carts
      BY <2>1, <3>1 DEF TypeInv, TypeOK, UnopenedAreEmpty
    <3>2. CASE carts' # carts
      <4>1. /\ q.cookie \in Sessions /\ sessions[q.cookie].kind # "NONE"
            /\ q.bearer \in Sessions /\ carts[q.bearer] = {}
            /\ carts' = Moved(q.cookie, q.bearer)
        BY <2>1, <2>2, <3>2 DEF LiveGuest, Live, Sent, Ids
      <4>2. sessions[q.bearer].kind # "NONE"
        BY <2>1, <2>2, <4>1, TabKinds DEF KnownAreOpen, Knows, Mentions, TypeInv
      <4>3. \A u \in Sessions : carts'[u] = IF u = q.bearer THEN carts[q.cookie] ELSE IF u = q.cookie THEN {} ELSE carts[u]
        BY <4>1 DEF Moved, TypeInv, TypeOK
      <4>4. carts' \in [Sessions -> SUBSET Items]
        BY <4>1 DEF Moved, TypeInv, TypeOK
      <4>5. \A a, b \in Sessions : a # b => carts'[a] \intersect carts'[b] = {}
        BY <4>1, <4>3, ZenonT(60) DEF TypeInv, TypeOK
      <4> QED BY <2>1, <4>1, <4>2, <4>3, <4>4, <4>5 DEF TypeInv, TypeOK, UnopenedAreEmpty
    <3> QED BY <3>1, <3>2
  <2>5. tab' \in [Tabs -> TabStates]
    BY <2>1, <2>3, TabType DEF TypeInv
  <2> QED BY <2>1, <2>4, <2>5 DEF TypeInv, TypeOK, TabStates
<1>12. ASSUME NEW t \in Tabs, RequestFails(t) PROVE TypeInv'
  <2>1. tab[t].browser \in Browsers /\ (tab[t].at = "resolved" => tab[t] \in Resolved)
    BY <1>12, TabKinds DEF RequestFails, TypeInv
  <2>2. PICK c \in Ids \union {Same} : Goes(t, Answer(tab[t].browser, c))
    BY <1>12, <2>1, CookieType DEF RequestFails
  <2>3. Answer(tab[t].browser, c) \in TabStates
    BY <2>1, AnswerType DEF TabStates
  <2> QED BY <1>12, <2>1, <2>2, <2>3, TabType DEF RequestFails, TypeInv, TypeOK, TabStates, UnopenedAreEmpty, server
<1>13. ASSUME NEW t \in Tabs, Deliver(t) PROVE TypeInv'
  <2>1. tab[t] \in Answered
    BY <1>13, TabKinds DEF Deliver, TypeInv
  <2>2. jar' \in [Browsers -> [cookie: Ids, bearer: Ids]]
    BY <1>13, <2>1 DEF Deliver, Stored, Answered, TypeInv, TypeOK
  <2>3. kept' \in [Browsers -> SUBSET Items]
    BY <1>13, <2>1 DEF Deliver, Answered, TypeInv, TypeOK
  <2>4. tab' \in [Tabs -> TabStates]
    BY <1>13, TabType DEF Deliver, TabStates, TypeInv
  <2>5. given' \in [Browsers -> SUBSET Sessions]
    BY <1>13, <2>1 DEF Deliver, Answered, Ids, TypeInv, TypeOK
  <2> QED BY <1>13, <2>2, <2>3, <2>4, <2>5 DEF Deliver, TypeInv, TypeOK, TabStates, UnopenedAreEmpty, server
<1>14. ASSUME NEW t \in Tabs, Lose(t) PROVE TypeInv'
  <2>1. tab[t].browser \in Browsers
    BY <1>14, TabKinds DEF Lose, TypeInv, Idle
  <2>2. tab' \in [Tabs -> TabStates]
    BY <1>14, TabType DEF Lose, TabStates, TypeInv
  <2> QED BY <1>14, <2>1, <2>2 DEF Lose, TypeInv, TypeOK, TabStates, UnopenedAreEmpty, server
<1>15. ASSUME NEW b \in Browsers, CookieLapses(b) \/ ForgetToken(b) PROVE TypeInv'
  <2>1. jar' \in [Browsers -> [cookie: Ids, bearer: Ids]]
    <3>1. jar' = [jar EXCEPT ![b].cookie = None] \/ jar' = [jar EXCEPT ![b].bearer = None]
      BY <1>15 DEF CookieLapses, ForgetToken
    <3> QED BY <3>1 DEF TypeInv, TypeOK, Ids
  <2>2. disturbed' \subseteq Browsers /\ UNCHANGED <<server, given, tab, kept>>
    BY <1>15 DEF CookieLapses, ForgetToken, TypeInv, TypeOK
  <2> QED BY <2>1, <2>2 DEF TypeInv, TypeOK, UnopenedAreEmpty, server
<1>16. ASSUME NEW s \in Sessions, SessionExpires(s) PROVE TypeInv'
  <2>1. sessions' \in [Sessions -> Row] /\ carts' \in [Sessions -> SUBSET Items] /\ kept' \in [Browsers -> SUBSET Items]
    BY <1>16 DEF SessionExpires, Released, TypeInv, TypeOK, Row
  <2>2. \A u \in Sessions : sessions'[u].kind = sessions[u].kind /\ carts'[u] \subseteq carts[u]
    BY <1>16 DEF SessionExpires, Released, TypeInv, TypeOK, Row
  <2> QED BY <1>16, <2>1, <2>2 DEF SessionExpires, TypeInv, TypeOK, UnopenedAreEmpty
<1>17. CASE UNCHANGED vars
  BY <1>17 DEF vars, server, client, TypeInv, TypeOK, UnopenedAreEmpty
<1> QED BY <1>1, <1>2, <1>3, <1>4, <1>5, <1>6, <1>7, <1>8, <1>9, <1>10, <1>11, <1>12, <1>13, <1>14, <1>15, <1>16, <1>17 DEF Next

-----------------------------------------------------------------------------
(* What a step may teach a browser.  Sessions that are open stay open; and *)
(* of sessions it did not know, at most one browser learns, and only such  *)
(* as the step itself has opened.                                          *)
StayOpen == \A s \in Sessions : sessions[s].kind # "NONE" => sessions'[s].kind # "NONE"
Learns(c) == \A b \in Browsers, s \in Sessions :
    Knows(b, s)' => \/ Knows(b, s)
                    \/ b = c /\ sessions[s].kind = "NONE" /\ sessions'[s].kind # "NONE"

LEMMA LearningIsSafe ==
    ASSUME KnownAreOpen, KnownByOne, StayOpen, NEW c, Learns(c)
    PROVE  KnownAreOpen' /\ KnownByOne'
<1>1. KnownAreOpen'
  BY DEF KnownAreOpen, StayOpen, Learns
<1>2. KnownByOne'
  BY DEF KnownAreOpen, KnownByOne, Learns
<1> QED BY <1>1, <1>2

(* Where only one tab moves on, its browser knows what it knew and what    *)
(* the tab's new state mentions; nobody else learns anything.              *)
LEMMA TabLearns ==
    ASSUME TypeOK, NEW t \in Tabs, NEW q, Goes(t, q), UNCHANGED client,
           q.browser = tab[t].browser,
           \A s \in Sessions : Mentions(q, s) =>
               \/ tab[t] # Idle /\ Mentions(tab[t], s)
               \/ sessions[s].kind = "NONE" /\ sessions'[s].kind # "NONE"
    PROVE  Learns(tab[t].browser)
<1> SUFFICES ASSUME NEW b \in Browsers, NEW s \in Sessions, Knows(b, s)'
             PROVE  \/ Knows(b, s)
                    \/ b = tab[t].browser /\ sessions[s].kind = "NONE" /\ sessions'[s].kind # "NONE"
  BY DEF Learns
<1>1. CASE s \in {jar[b].cookie, jar[b].bearer} \union given[b]
  BY <1>1 DEF Knows
<1>2. CASE \E u \in Tabs : tab'[u] # Idle /\ tab'[u].browser = b /\ Mentions(tab'[u], s)
  <2>1. PICK u \in Tabs : tab'[u] # Idle /\ tab'[u].browser = b /\ Mentions(tab'[u], s)
    BY <1>2
  <2>2. CASE u # t
    <3>1. tab'[u] = tab[u]
      BY <2>2 DEF Goes, TypeOK
    <3> QED BY <2>1, <3>1 DEF Knows
  <2>3. CASE u = t
    <3>1. tab'[t] = q
      BY DEF Goes, TypeOK
    <3> QED BY <2>1, <2>3, <3>1 DEF Knows
  <2> QED BY <2>2, <2>3
<1> QED BY <1>1, <1>2 DEF Knows, Mentions, client

(* Who learns in each step.                                                *)
LEMMA NextLearns ==
    ASSUME TypeInv, KnownAreOpen, [Next]_vars
    PROVE  StayOpen /\ \E c : Learns(c)
<1> USE Numbers
<1> USE DEF TypeInv
<1>1. ASSUME NEW t \in Tabs, Send(t) PROVE StayOpen /\ \E c : Learns(c)
  <2>1. PICK b \in Browsers, op \in Ops, x \in Ids :
            /\ tab[t] = Idle
            /\ Goes(t, [at |-> "sent", browser |-> b, op |-> op, bearer |-> jar[b].bearer, cookie |-> x])
            /\ x = jar[b].cookie \/ (x \in given[b] /\ op = "login")
            /\ UNCHANGED <<server, client, kept>>
    BY <1>1, SendForm
  <2> DEFINE q == [at |-> "sent", browser |-> b, op |-> op, bearer |-> jar[b].bearer, cookie |-> x]
  <2>2. ASSUME NEW a \in Browsers, NEW s \in Sessions, Knows(a, s)' PROVE Knows(a, s)
    <3>1. \A u \in Tabs : tab'[u] = IF u = t THEN q ELSE tab[u]
      BY <2>1 DEF Goes, TypeOK
    <3>2. CASE s \in {jar'[a].cookie, jar'[a].bearer} \union given'[a]
      BY <2>1, <3>2 DEF Knows, client
    <3>3. CASE \E u \in Tabs : tab'[u] # Idle /\ tab'[u].browser = a /\ Mentions(tab'[u], s)
      <4>1. PICK u \in Tabs : tab'[u] # Idle /\ tab'[u].browser = a /\ Mentions(tab'[u], s)
        BY <3>3
      <4>2. CASE u = t
        <5>1. a = b /\ s \in {jar[b].bearer, x}
          BY <3>1, <4>1, <4>2 DEF Mentions, LoginPoints
        <5> QED BY <2>1, <5>1 DEF Knows
      <4>3. CASE u # t
        BY <3>1, <4>1, <4>3 DEF Knows
      <4> QED BY <4>2, <4>3
    <3> QED BY <2>2, <3>2, <3>3 DEF Knows, Mentions
  <2> QED BY <2>1, <2>2 DEF Learns, StayOpen, server
<1>2. ASSUME NEW t \in Tabs, ResolveCookie(t) \/ ResolveBearer(t) PROVE StayOpen /\ \E c : Learns(c)
  <2>1. tab[t] \in Sent /\ tab[t] # Idle
    BY <1>2, TabKinds DEF ResolveCookie, ResolveBearer, Idle
  <2>2. PICK q : /\ Goes(t, q)
                 /\ q.browser = tab[t].browser
                 /\ \A s \in Sessions : Mentions(q, s) => Mentions(tab[t], s)
    BY <1>2, <2>1 DEF ResolveCookie, ResolveBearer, ResolvesTo, Answer, Mentions, LoginPoints
  <2>3. UNCHANGED <<server, client>>
    BY <1>2 DEF ResolveCookie, ResolveBearer
  <2> QED BY <2>1, <2>2, <2>3, TabLearns DEF StayOpen, server
<1>3. ASSUME NEW t \in Tabs, CreateGuestSession(t) PROVE StayOpen /\ \E c : Learns(c)
  <2>1. PICK s \in Sessions :
            /\ sessions[s].kind = "NONE"
            /\ sessions' = Opened(s, "GUEST") /\ ResolvesTo(t, s, s) /\ UNCHANGED client
    BY <1>3 DEF CreateGuestSession, NewSession, Unused
  <2>2. StayOpen /\ sessions'[s].kind # "NONE"
    BY <2>1 DEF StayOpen, Opened, TypeOK, Row
  <2> DEFINE q == [at |-> "resolved", browser |-> tab[t].browser, op |-> tab[t].op, session |-> s, cookie |-> s]
  <2>3. Goes(t, q) /\ q.browser = tab[t].browser /\ \A u \in Sessions : Mentions(q, u) => u = s
    BY <2>1 DEF ResolvesTo, Mentions, LoginPoints
  <2> HIDE DEF q
  <2> QED BY <2>1, <2>2, <2>3, TabLearns
<1>4. ASSUME NEW t \in Tabs, RefuseKey(t) \/ ServeExpired(t) \/ Serve(t) \/ ServeAdd(t) PROVE StayOpen /\ \E c : Learns(c)
  <2>1. tab[t] \in Resolved /\ tab[t] # Idle
    BY <1>4, TabKinds DEF RefuseKey, ServeExpired, Serve, ServeAdd, Idle
  <2>2. PICK q : /\ Goes(t, q)
                 /\ q.browser = tab[t].browser
                 /\ \A s \in Sessions : Mentions(q, s) => Mentions(tab[t], s)
    <3>1. CookieOf(tab[t]) \in {Same, tab[t].cookie}
      BY DEF CookieOf
    <3>2. ASSUME NEW c \in {None, Same, tab[t].cookie} PROVE \A s \in Sessions : Mentions(Answer(tab[t].browser, c), s) => Mentions(tab[t], s)
      BY <2>1, <3>2 DEF Answer, Mentions, Resolved, LoginPoints
    <3>3. CASE RefuseKey(t) \/ ServeExpired(t) \/ Serve(t)
      <4>1. \E c \in {None, Same, tab[t].cookie} : Goes(t, Answer(tab[t].browser, c))
        BY <3>1, <3>3 DEF RefuseKey, ServeExpired, Serve
      <4> QED BY <3>2, <4>1 DEF Answer
    <3>4. CASE ServeAdd(t)
      <4>1. PICK i \in Items : Goes(t, [Answer(tab[t].browser, CookieOf(tab[t])) EXCEPT !.items = {i}])
        BY <3>4 DEF ServeAdd
      <4>2. \A s \in Sessions : Mentions([Answer(tab[t].browser, CookieOf(tab[t])) EXCEPT !.items = {i}], s) => Mentions(tab[t], s)
        BY <2>1, <3>1 DEF Answer, Mentions, Resolved, LoginPoints
      <4> QED BY <4>1, <4>2 DEF Answer
    <3> QED BY <1>4, <3>3, <3>4
  <2>3. UNCHANGED <<sessions, client>>
    BY <1>4 DEF RefuseKey, ServeExpired, Serve, ServeAdd, server
  <2> QED BY <2>1, <2>2, <2>3, TabLearns DEF StayOpen
<1>5. ASSUME NEW t \in Tabs, OpenUserSession(t) PROVE StayOpen /\ \E c : Learns(c)
  <2>1. PICK s \in Sessions, kind \in {"USER", "ADMIN"} :
            /\ sessions[s].kind = "NONE" /\ sessions' = Opened(s, kind) /\ tab[t].at = "sent"
            /\ Goes(t, [at |-> "opened", browser |-> tab[t].browser, guest |-> tab[t].cookie, session |-> s])
            /\ UNCHANGED client
    BY <1>5 DEF OpenUserSession, NewSession, Unused
  <2>2. StayOpen /\ sessions'[s].kind # "NONE"
    BY <2>1 DEF StayOpen, Opened, TypeOK, Row
  <2> DEFINE q == [at |-> "opened", browser |-> tab[t].browser, guest |-> tab[t].cookie, session |-> s]
  <2>3. /\ Goes(t, q) /\ q.browser = tab[t].browser
        /\ \A u \in Sessions : Mentions(q, u) => u = s \/ (tab[t] # Idle /\ Mentions(tab[t], u))
    BY <2>1 DEF Mentions, LoginPoints, Idle
  <2> HIDE DEF q
  <2> QED BY <2>1, <2>2, <2>3, TabLearns
<1>6. ASSUME NEW t \in Tabs, NoGuest(t) \/ TransferCart(t) \/ ReleaseCart(t) \/ RevokeGuest(t) \/ AnswerLogin(t)
       PROVE  StayOpen /\ \E c : Learns(c)
  <2>1. tab[t] \in LoggingIn /\ tab[t].at \in LoginPoints /\ tab[t] # Idle
    BY <1>6, TabKinds DEF NoGuest, TransferCart, ReleaseCart, RevokeGuest, AnswerLogin, LoginPoints, Idle
  <2>2. PICK q : /\ Goes(t, q)
                 /\ q.browser = tab[t].browser
                 /\ \A s \in Sessions : Mentions(q, s) => Mentions(tab[t], s)
    <3>1. CASE AnswerLogin(t)
      BY <2>1, <3>1 DEF AnswerLogin, Answer, ClearCartCookie, Mentions, LoginPoints
    <3>2. CASE NoGuest(t) \/ TransferCart(t) \/ ReleaseCart(t) \/ RevokeGuest(t)
      <4>1. PICK q \in LoggingIn :
                /\ Goes(t, q)
                /\ q.browser = tab[t].browser /\ q.session = tab[t].session
                /\ q.guest \in {None, tab[t].guest}
        BY <3>2, LoginForm
      <4> QED BY <2>1, <4>1 DEF LoggingIn, Mentions, LoginPoints
    <3> QED BY <1>6, <3>1, <3>2
  <2>3. UNCHANGED client
    BY <1>6 DEF NoGuest, TransferCart, ReleaseCart, RevokeGuest, AnswerLogin
  <2>4. StayOpen
    <3>1. sessions' = sessions \/ sessions' = [sessions EXCEPT ![tab[t].guest].state = "REVOKED"]
      BY <1>6 DEF NoGuest, TransferCart, ReleaseCart, RevokeGuest, AnswerLogin, server
    <3> QED BY <3>1 DEF StayOpen, TypeOK, Row
  <2> QED BY <2>1, <2>2, <2>3, <2>4, TabLearns
<1>7. ASSUME NEW t \in Tabs, Logout(t) \/ Checkout(t) \/ RequestFails(t) PROVE StayOpen /\ \E c : Learns(c)
  <2>1. tab[t] # Idle
    BY <1>7 DEF Logout, Checkout, RequestFails, Idle
  <2>2. PICK q : /\ Goes(t, q)
                 /\ q.browser = tab[t].browser
                 /\ \A s \in Sessions : Mentions(q, s) => Mentions(tab[t], s)
    <3>1. CASE Logout(t)
      BY <3>1 DEF Logout, Answer, Mentions, LoginPoints
    <3>2. CASE Checkout(t)
      BY <3>2 DEF Checkout, Answer, Mentions, LoginPoints
    <3>3. CASE RequestFails(t)
      BY <3>3 DEF RequestFails, Answer, CookieOf, Mentions, LoginPoints
    <3> QED BY <1>7, <3>1, <3>2, <3>3
  <2>3. UNCHANGED client
    BY <1>7 DEF Logout, Checkout, RequestFails
  <2>4. StayOpen
    <3>1. sessions' = sessions \/ sessions' = [sessions EXCEPT ![tab[t].bearer].state = "REVOKED"]
      BY <1>7 DEF Logout, Checkout, RequestFails, server
    <3> QED BY <3>1 DEF StayOpen, TypeOK, Row
  <2> QED BY <2>1, <2>2, <2>3, <2>4, TabLearns
<1>8. ASSUME NEW t \in Tabs, Deliver(t) PROVE StayOpen /\ \E c : Learns(c)
  <2>1. tab[t] \in Answered /\ tab[t] # Idle
    BY <1>8, TabKinds DEF Deliver, Idle
  <2>2. ASSUME NEW a \in Browsers, NEW s \in Sessions, Knows(a, s)' PROVE Knows(a, s)
    <3>1. CASE s \in {jar'[a].cookie, jar'[a].bearer} \union given'[a]
      <4>1. CASE a = tab[t].browser
        <5>1. s \in {jar[a].cookie, jar[a].bearer, tab[t].cookie, tab[t].bearer} \union given[a]
          BY <1>8, <2>1, <3>1, <4>1 DEF Deliver, Stored, TypeOK, Answered
        <5> QED BY <2>1, <4>1, <5>1 DEF Knows, Mentions, Answered
      <4>2. CASE a # tab[t].browser
        BY <1>8, <3>1, <4>2 DEF Deliver, Knows, TypeOK
      <4> QED BY <4>1, <4>2
    <3>2. CASE \E u \in Tabs : tab'[u] # Idle /\ tab'[u].browser = a /\ Mentions(tab'[u], s)
      BY <1>8, <3>2 DEF Deliver, Goes, Knows, TypeOK
    <3> QED BY <2>2, <3>1, <3>2 DEF Knows, Mentions
  <2> QED BY <1>8, <2>2 DEF Deliver, Learns, StayOpen, server
<1>9. ASSUME NEW t \in Tabs, Lose(t) PROVE StayOpen /\ \E c : Learns(c)
  <2>1. ASSUME NEW a \in Browsers, NEW s \in Sessions, Knows(a, s)' PROVE Knows(a, s)
    BY <1>9, <2>1 DEF Lose, Goes, Knows, Mentions, TypeOK, client
  <2> QED BY <1>9, <2>1 DEF Lose, Learns, StayOpen, server
<1>10. ASSUME NEW b \in Browsers, CookieLapses(b) \/ ForgetToken(b) PROVE StayOpen /\ \E c : Learns(c)
  <2>1. \A a \in Browsers : /\ jar'[a].cookie \in {jar[a].cookie, None}
                            /\ jar'[a].bearer \in {jar[a].bearer, None}
    BY <1>10 DEF CookieLapses, ForgetToken, TypeOK
  <2>2. UNCHANGED <<server, given, tab>>
    BY <1>10 DEF CookieLapses, ForgetToken
  <2>3. \A a \in Browsers, s \in Sessions : Knows(a, s)' => Knows(a, s)
    BY <2>1, <2>2 DEF Knows, Mentions
  <2> QED BY <2>2, <2>3 DEF Learns, StayOpen, server
<1>11. ASSUME NEW s \in Sessions, SessionExpires(s) PROVE StayOpen /\ \E c : Learns(c)
  <2>1. UNCHANGED <<client, tab>> /\ sessions' = [sessions EXCEPT ![s].state = "EXPIRED"]
    BY <1>11 DEF SessionExpires
  <2>2. StayOpen
    BY <2>1 DEF StayOpen, TypeOK, Row
  <2> QED BY <2>1, <2>2 DEF Learns, Knows, Mentions, client
<1>12. CASE UNCHANGED vars
  BY <1>12 DEF vars, server, client, Learns, Knows, Mentions, StayOpen
<1> QED BY <1>1, <1>2, <1>3, <1>4, <1>5, <1>6, <1>7, <1>8, <1>9, <1>10, <1>11, <1>12 DEF Next

-----------------------------------------------------------------------------
LEMMA InitVisits == Init => VisitInv
<1> SUFFICES ASSUME Init PROVE VisitInv
  OBVIOUS
<1>1. \A b \in Browsers, s \in Sessions : ~Knows(b, s)
  BY Numbers DEF Init, Knows, Mentions, Idle
<1> QED BY <1>1, InitTypes DEF VisitInv, KnownAreOpen, KnownByOne

(* The inductive invariant: what a browser knows is open, and nobody else  *)
(* knows it.                                                               *)
THEOREM VisitInvariant == Spec => []VisitInv
<1>1. VisitInv /\ [Next]_vars => VisitInv'
  BY NextTypes, NextLearns, LearningIsSafe DEF VisitInv
<1> QED BY <1>1, InitVisits, PTL DEF Spec

(* The state of a browser, a request or an answer is well formed, and an   *)
(* item is in one cart only, however carts move between sessions.          *)
THEOREM VisitTypesCorrect == Spec => []TypeOK
<1>1. VisitInv => TypeOK
  BY DEF VisitInv, TypeInv
<1> QED BY <1>1, VisitInvariant, PTL

(* What a browser holds it knows, so no two browsers ever hold, or are     *)
(* about to be given, one session (cart-session-resolver.adapter.ts).      *)
THEOREM CartsAreNotShared == Spec => []VisitorsNeverShareACart
<1>1. ASSUME VisitInv PROVE VisitorsNeverShareACart
  <2>1. ASSUME NEW b \in Browsers, NEW s \in Held(b) PROVE s \in Sessions /\ Knows(b, s)
    <3>1. s \notin {None, Same}
      BY DEF Held
    <3>2. CASE s \in {jar[b].cookie, jar[b].bearer}
      BY <1>1, <3>1, <3>2 DEF Knows, VisitInv, TypeInv, TypeOK, Ids
    <3>3. CASE \E t \in InFlight(b) : tab[t].at \in {"resolved"} \union LoginPoints /\ s = tab[t].session
      BY <1>1, <3>3, TabKinds DEF InFlight, Knows, Mentions, VisitInv, TypeInv, Resolved, LoggingIn, LoginPoints
    <3>4. CASE \E t \in InFlight(b) : tab[t].at = "answered" /\ s \in {tab[t].cookie, tab[t].bearer}
      BY <1>1, <3>1, <3>4, TabKinds DEF InFlight, Knows, Mentions, VisitInv, TypeInv, Answered, Ids
    <3> QED BY <3>2, <3>3, <3>4 DEF Held, LoginPoints
  <2> QED BY <1>1, <2>1 DEF VisitorsNeverShareACart, VisitInv, KnownByOne
<1> QED BY <1>1, VisitInvariant, PTL

-----------------------------------------------------------------------------
(* Visitors who do one thing at a time.  j is a browser's jar, K what it   *)
(* was told is in its cart, C the carts, now or after a step.              *)
Home(j) == IF j.cookie # None THEN j.cookie ELSE j.bearer
After(j, q) == [cookie |-> Stored(j.cookie, q.cookie), bearer |-> Stored(j.bearer, q.bearer)]
Own(j) == j.bearer # None => j.cookie = None
Holds(h, K, C) == K # {} => h # None /\ K \subseteq C[h]
InCarts(I, C) == {i \in I : \E s \in Sessions : i \in C[s]}

(* A request carries what the jar holds.  A guest session is opened only   *)
(* for a visitor without an account or items; a login has his items in the *)
(* guest's cart before it promotes him, in the cart of the session it has  *)
(* opened after; an answer says where they are.                            *)
Awaits(q, j, K, C) ==
    /\ q.at = "sent" =>
           /\ q.cookie = j.cookie /\ q.bearer = j.bearer
           /\ q.op = "login" => j.bearer = None
           /\ q.op = "logout" => j.bearer # None
           /\ Holds(Home(j), K, C)
    /\ q.at = "resolved" =>
           IF q.cookie = None THEN q.session = Home(j) /\ Holds(Home(j), K, C)
           ELSE q.session = q.cookie /\ K = {} /\ j.bearer = None
    /\ q.at \in LoginPoints => j.bearer = None
    /\ q.at = "opened" => q.guest = j.cookie /\ q.guest # q.session /\ Holds(Home(j), K, C)
    /\ q.at = "promoted" => q.guest # None /\ C[q.guest] = {}
    /\ q.at \in {"promoted", "served"} => Holds(q.session, K, C)
    /\ q.at = "answered" =>
           Own(After(j, q)) /\ Holds(Home(After(j, q)), K \union InCarts(q.items, C), C)

DeadAreEmpty(b) == \A s \in Sessions : Knows(b, s) /\ ~Live(s) => carts[s] = {}

(* The cart moves to a session that has not died.                          *)
OpensLive(q) == q.at = "opened" => Live(q.session)

Calm(b) ==
    /\ \A t, u \in InFlight(b) : t = u
    /\ Own(jar[b])
    /\ DeadAreEmpty(b)
    /\ InFlight(b) = {} => Holds(Home(jar[b]), kept[b], carts)
    /\ \A t \in InFlight(b) : Awaits(tab[t], jar[b], kept[b], carts) /\ OpensLive(tab[t])
CalmInv == \A b \in Browsers : b \notin disturbed => Calm(b)

IsGuest(s, S) == s \in Sessions => S[s].kind = "GUEST"
CarriesCookie(q) == q.at \in {"resolved", "answered"} \/ (q.at = "sent" /\ q.op # "login")
GuestCookies ==
    /\ \A b \in Browsers : IsGuest(jar[b].cookie, sessions)
    /\ \A t \in Tabs : CarriesCookie(tab[t]) => IsGuest(tab[t].cookie, sessions)

CartsInv == VisitInv /\ GuestCookies /\ CalmInv

LEMMA InitCarts == Init => CartsInv
<1> SUFFICES ASSUME Init PROVE CartsInv
  OBVIOUS
<1>1. VisitInv
  BY InitVisits
<1>2. GuestCookies
  BY Numbers DEF Init, GuestCookies, IsGuest, Idle, CarriesCookie
<1>3. ASSUME NEW b \in Browsers PROVE Calm(b)
  <2>1. InFlight(b) = {}
    BY DEF Init, InFlight
  <2>2. Own(jar[b]) /\ DeadAreEmpty(b) /\ Holds(Home(jar[b]), kept[b], carts)
    BY DEF Init, Own, DeadAreEmpty, Holds
  <2> QED BY <2>1, <2>2 DEF Calm
<1> QED BY <1>1, <1>2, <1>3 DEF CartsInv, CalmInv

-----------------------------------------------------------------------------
(* A cookie of this kind is a guest's: only sessions opened for guests are *)
(* ever put in one.                                                        *)
LEMMA TabKeepsGuests ==
    ASSUME TypeOK, GuestCookies, NEW t \in Tabs, NEW q, Goes(t, q), UNCHANGED jar,
           \A s \in Sessions : sessions[s].kind = "GUEST" => sessions'[s].kind = "GUEST",
           CarriesCookie(q) => IsGuest(q.cookie, sessions')
    PROVE  GuestCookies'
<1>1. \A u \in Tabs : tab'[u] = IF u = t THEN q ELSE tab[u]
  BY DEF Goes, TypeOK
<1> QED BY <1>1 DEF GuestCookies, IsGuest

LEMMA GuestStep == VisitInv /\ GuestCookies /\ [Next]_vars => GuestCookies'
<1> SUFFICES ASSUME VisitInv, GuestCookies, [Next]_vars PROVE GuestCookies'
  OBVIOUS
<1> USE Numbers
<1>0. TypeInv /\ TypeOK
  BY DEF VisitInv, TypeInv
<1>1. ASSUME NEW t \in Tabs, Send(t) PROVE GuestCookies'
  <2>1. PICK b \in Browsers, op \in Ops, c \in Ids :
            /\ Goes(t, [at |-> "sent", browser |-> b, op |-> op, bearer |-> jar[b].bearer, cookie |-> c])
            /\ c = jar[b].cookie \/ (c \in given[b] /\ op = "login")
            /\ UNCHANGED <<server, client, kept>>
    BY <1>0, <1>1, SendForm
  <2> DEFINE q == [at |-> "sent", browser |-> b, op |-> op, bearer |-> jar[b].bearer, cookie |-> c]
  <2>2. CarriesCookie(q) => IsGuest(q.cookie, sessions')
    BY <2>1 DEF CarriesCookie, GuestCookies, server
  <2>3. Goes(t, q) /\ UNCHANGED <<sessions, jar>>
    BY <2>1 DEF server, client
  <2> HIDE DEF q
  <2> QED BY <1>0, <2>2, <2>3, TabKeepsGuests
<1>2. ASSUME NEW t \in Tabs, ResolveCookie(t) PROVE GuestCookies'
  <2>1. \E q : Goes(t, q) /\ q.cookie = None
    BY <1>2 DEF ResolveCookie, ResolvesTo
  <2> QED BY <1>0, <1>2, <2>1, TabKeepsGuests DEF ResolveCookie, server, client, IsGuest
<1>3. ASSUME NEW t \in Tabs, ResolveBearer(t) PROVE GuestCookies'
  <2>1. \E q : Goes(t, q) /\ q.cookie \in {None, Same}
    BY <1>3 DEF ResolveBearer, ResolvesTo, Answer
  <2> QED BY <1>0, <1>3, <2>1, TabKeepsGuests DEF ResolveBearer, server, client, IsGuest
<1>4. ASSUME NEW t \in Tabs, CreateGuestSession(t) PROVE GuestCookies'
  <2>1. PICK s \in Sessions : sessions' = Opened(s, "GUEST") /\ ResolvesTo(t, s, s) /\ UNCHANGED jar
    BY <1>4 DEF CreateGuestSession, NewSession, client
  <2>2. \A u \in Sessions : sessions'[u].kind = IF u = s THEN "GUEST" ELSE sessions[u].kind
    BY <1>0, <2>1 DEF Opened, TypeOK, Row
  <2>3. \E q : Goes(t, q) /\ q.cookie = s
    BY <2>1 DEF ResolvesTo
  <2> QED BY <1>0, <2>1, <2>2, <2>3, TabKeepsGuests DEF IsGuest
<1>5. ASSUME NEW t \in Tabs, RefuseKey(t) \/ ServeExpired(t) \/ Serve(t) \/ ServeAdd(t) \/ RequestFails(t)
      PROVE  GuestCookies'
  <2>1. \E q : /\ Goes(t, q)
               /\ q.cookie \in {None, Same} \/ (q.cookie = tab[t].cookie /\ CarriesCookie(tab[t]))
    <3>1. CookieOf(tab[t]) \in {Same, tab[t].cookie}
      BY DEF CookieOf
    <3>2. CASE ServeAdd(t)
      BY <3>1, <3>2 DEF ServeAdd, Answer, CarriesCookie
    <3>3. CASE RefuseKey(t) \/ ServeExpired(t) \/ Serve(t)
      BY <3>1, <3>3 DEF RefuseKey, ServeExpired, Serve, Answer, CarriesCookie
    <3>4. CASE RequestFails(t)
      BY <3>1, <3>4 DEF RequestFails, Answer, CarriesCookie
    <3> QED BY <1>5, <3>2, <3>3, <3>4
  <2>2. UNCHANGED <<sessions, jar>>
    BY <1>5 DEF RefuseKey, ServeExpired, Serve, ServeAdd, RequestFails, server, client
  <2> QED BY <1>0, <2>1, <2>2, TabKeepsGuests DEF GuestCookies, IsGuest
<1>6. ASSUME NEW t \in Tabs, OpenUserSession(t) PROVE GuestCookies'
  <2>1. PICK s \in Sessions, kind \in {"USER", "ADMIN"} :
            /\ sessions[s].kind = "NONE" /\ sessions' = Opened(s, kind)
            /\ Goes(t, [at |-> "opened", browser |-> tab[t].browser, guest |-> tab[t].cookie, session |-> s])
            /\ UNCHANGED jar
    BY <1>6 DEF OpenUserSession, NewSession, Unused, client
  <2>2. \A u \in Sessions : sessions[u].kind = "GUEST" => sessions'[u].kind = "GUEST"
    BY <1>0, <2>1 DEF Opened, TypeOK, Row
  <2>3. \E q : Goes(t, q) /\ ~CarriesCookie(q)
    BY <2>1 DEF CarriesCookie
  <2> QED BY <1>0, <2>1, <2>2, <2>3, TabKeepsGuests
<1>7. ASSUME NEW t \in Tabs, NoGuest(t) \/ TransferCart(t) \/ ReleaseCart(t) \/ RevokeGuest(t) \/ AnswerLogin(t)
       PROVE  GuestCookies'
  <2>1. tab[t] \in LoggingIn
    BY <1>0, <1>7, TabKinds DEF NoGuest, TransferCart, ReleaseCart, RevokeGuest, AnswerLogin, LoginPoints
  <2>2. \E q : Goes(t, q) /\ (~CarriesCookie(q) \/ q.cookie = None)
    <3>1. CASE AnswerLogin(t)
      BY <3>1 DEF AnswerLogin, Answer, ClearCartCookie
    <3>2. CASE NoGuest(t) \/ TransferCart(t) \/ ReleaseCart(t) \/ RevokeGuest(t)
      BY <1>0, <3>2, LoginForm DEF LoggingIn, CarriesCookie
    <3> QED BY <1>7, <3>1, <3>2
  <2>3. UNCHANGED jar /\ \A u \in Sessions : sessions'[u].kind = sessions[u].kind
    <3>1. sessions' = sessions \/ sessions' = [sessions EXCEPT ![tab[t].guest].state = "REVOKED"]
      BY <1>7 DEF NoGuest, TransferCart, ReleaseCart, RevokeGuest, AnswerLogin, server
    <3>2. UNCHANGED jar
      BY <1>7 DEF NoGuest, TransferCart, ReleaseCart, RevokeGuest, AnswerLogin, client
    <3> QED BY <1>0, <3>1, <3>2 DEF TypeOK, Row
  <2> QED BY <1>0, <2>2, <2>3, TabKeepsGuests DEF IsGuest
<1>8. ASSUME NEW t \in Tabs, Logout(t) \/ Checkout(t) PROVE GuestCookies'
  <2>1. \E q : Goes(t, q) /\ q.cookie = Same
    BY <1>8 DEF Logout, Checkout, Answer
  <2>2. UNCHANGED jar /\ \A u \in Sessions : sessions'[u].kind = sessions[u].kind
    <3>1. sessions' = sessions \/ sessions' = [sessions EXCEPT ![tab[t].bearer].state = "REVOKED"]
      BY <1>8 DEF Logout, Checkout, server
    <3>2. UNCHANGED jar
      BY <1>8 DEF Logout, Checkout, client
    <3> QED BY <1>0, <3>1, <3>2 DEF TypeOK, Row
  <2> QED BY <1>0, <2>1, <2>2, TabKeepsGuests DEF IsGuest
<1>9. ASSUME NEW t \in Tabs, Deliver(t) PROVE GuestCookies'
  <2>1. tab[t] \in Answered
    BY <1>0, <1>9, TabKinds DEF Deliver
  <2>2. \A b \in Browsers : jar'[b].cookie \in {jar[b].cookie, tab[t].cookie}
    BY <1>0, <1>9, <2>1 DEF Deliver, Stored, TypeOK, Answered
  <2>3. UNCHANGED sessions /\ Goes(t, Idle)
    BY <1>9 DEF Deliver, server
  <2>4. \A u \in Tabs : tab'[u] = IF u = t THEN Idle ELSE tab[u]
    BY <1>0, <2>3 DEF Goes, TypeOK
  <2>5. IsGuest(tab[t].cookie, sessions)
    BY <1>9 DEF Deliver, GuestCookies, CarriesCookie
  <2> QED BY <2>2, <2>3, <2>4, <2>5 DEF GuestCookies, Idle, CarriesCookie
<1>10. ASSUME NEW t \in Tabs, Lose(t) PROVE GuestCookies'
  BY <1>0, <1>10, TabKeepsGuests DEF Lose, server, client, Idle, CarriesCookie
<1>11. ASSUME NEW b \in Browsers, CookieLapses(b) \/ ForgetToken(b) PROVE GuestCookies'
  <2>1. \A a \in Browsers : jar'[a].cookie \in {jar[a].cookie, None}
    BY <1>0, <1>11 DEF CookieLapses, ForgetToken, TypeOK
  <2>2. UNCHANGED <<sessions, tab>>
    BY <1>11 DEF CookieLapses, ForgetToken, server
  <2> QED BY <2>1, <2>2 DEF GuestCookies, IsGuest
<1>12. ASSUME NEW s \in Sessions, SessionExpires(s) PROVE GuestCookies'
  <2>1. UNCHANGED <<jar, tab>> /\ \A u \in Sessions : sessions'[u].kind = sessions[u].kind
    BY <1>0, <1>12 DEF SessionExpires, TypeOK, Row, client
  <2> QED BY <2>1 DEF GuestCookies, IsGuest
<1>13. CASE UNCHANGED vars
  BY <1>13 DEF vars, server, client, GuestCookies
<1> QED BY <1>1, <1>2, <1>3, <1>4, <1>5, <1>6, <1>7, <1>8, <1>9, <1>10, <1>11, <1>12, <1>13 DEF Next

-----------------------------------------------------------------------------
(* Where a browser's items are, it knows.                                  *)
LEMMA HomeIsKnown ==
    ASSUME TypeOK, NEW b \in Browsers
    PROVE  /\ Home(jar[b]) # None => Home(jar[b]) \in Sessions /\ Knows(b, Home(jar[b]))
           /\ \A t \in InFlight(b) : tab[t].at = "answered" /\ Home(After(jar[b], tab[t])) # None =>
                  /\ Home(After(jar[b], tab[t])) \in Sessions
                  /\ Knows(b, Home(After(jar[b], tab[t])))
<1>1. jar[b].cookie \in Ids /\ jar[b].bearer \in Ids
  BY DEF TypeOK
<1>2. Home(jar[b]) # None => Home(jar[b]) \in Sessions /\ Knows(b, Home(jar[b]))
  BY <1>1 DEF Home, Ids, Knows
<1>3. ASSUME NEW t \in InFlight(b), tab[t].at = "answered", Home(After(jar[b], tab[t])) # None
      PROVE  Home(After(jar[b], tab[t])) \in Sessions /\ Knows(b, Home(After(jar[b], tab[t])))
  <2> DEFINE h == Home(After(jar[b], tab[t]))
  <2>1. tab[t] \in Answered /\ t \in Tabs /\ tab[t] # Idle /\ tab[t].browser = b
    BY <1>3, TabKinds DEF InFlight
  <2>2. tab[t].cookie \in Ids \union {Same} /\ tab[t].bearer \in Ids \union {Same}
    BY <2>1 DEF Answered
  <2>3. h \in {jar[b].cookie, jar[b].bearer, tab[t].cookie, tab[t].bearer} /\ h \in Ids
    BY <1>1, <2>2 DEF Home, After, Stored
  <2>4. Knows(b, h)
    BY <1>3, <2>1, <2>3 DEF Knows, Mentions
  <2> QED BY <1>3, <2>3, <2>4 DEF Ids
<1> QED BY <1>2, <1>3

(* A browser that a step does not concern.                                 *)
LEMMA Bystander ==
    ASSUME TypeOK, NEW b \in Browsers, Calm(b),
           jar'[b] = jar[b], given'[b] = given[b], kept'[b] \subseteq kept[b],
           \A t \in Tabs : (tab[t] # Idle /\ tab[t].browser = b) \/ (tab'[t] # Idle /\ tab'[t].browser = b)
               => tab'[t] = tab[t],
           \A s \in Sessions : Knows(b, s) => (Live(s)' <=> Live(s)) /\ carts'[s] = carts[s],
           \A t \in InFlight(b) : tab[t].at = "answered" =>
               InCarts(tab[t].items, carts') \subseteq InCarts(tab[t].items, carts)
    PROVE  Calm(b)'
<1>1. InFlight(b)' = InFlight(b) /\ \A t \in InFlight(b) : tab'[t] = tab[t]
  BY DEF InFlight
<1>2. \A s \in Sessions : Knows(b, s)' => Knows(b, s)
  BY DEF Knows, Mentions
<1>3. DeadAreEmpty(b)'
  BY <1>2 DEF Calm, DeadAreEmpty
<1>4. Holds(Home(jar[b]), kept[b], carts) => Holds(Home(jar[b]), kept'[b], carts')
  BY HomeIsKnown DEF Holds
<1>5. \A t \in InFlight(b) : OpensLive(tab[t])'
  <2>1. \A t \in InFlight(b) : tab[t].at = "opened" => tab[t].session \in Sessions /\ Knows(b, tab[t].session)
    BY TabKinds DEF InFlight, Knows, Mentions, LoggingIn, LoginPoints
  <2> QED BY <1>1, <2>1 DEF OpensLive, Calm
<1>6. ASSUME NEW t \in InFlight(b), tab[t].at \in {"promoted", "served"}
      PROVE  /\ carts'[tab[t].session] = carts[tab[t].session]
             /\ tab[t].guest # None => carts'[tab[t].guest] = carts[tab[t].guest]
  <2>1. tab[t] \in LoggingIn /\ t \in Tabs /\ tab[t] # Idle /\ tab[t].browser = b
    BY <1>6, TabKinds DEF InFlight, LoginPoints
  <2>2. tab[t].session \in Sessions /\ Knows(b, tab[t].session)
    BY <1>6, <2>1 DEF Knows, Mentions, LoggingIn, LoginPoints
  <2>3. tab[t].guest # None => tab[t].guest \in Sessions /\ Knows(b, tab[t].guest)
    BY <1>6, <2>1 DEF Knows, Mentions, LoggingIn, LoginPoints, Ids
  <2> QED BY <2>2, <2>3
<1>7. ASSUME NEW t \in InFlight(b) PROVE Awaits(tab[t], jar[b], kept'[b], carts')
  <2>1. Awaits(tab[t], jar[b], kept[b], carts)
    BY DEF Calm
  <2>2. CASE tab[t].at = "answered"
    <3> DEFINE h == Home(After(jar[b], tab[t]))
               K == kept[b] \union InCarts(tab[t].items, carts)
               L == kept'[b] \union InCarts(tab[t].items, carts')
    <3>1. Own(After(jar[b], tab[t])) /\ Holds(h, K, carts) /\ L \subseteq K
      BY <2>1, <2>2 DEF Awaits
    <3>2. h # None => carts'[h] = carts[h]
      BY <2>2, HomeIsKnown
    <3> HIDE DEF h, K, L
    <3>3. Holds(h, L, carts')
      BY <3>1, <3>2 DEF Holds
    <3> QED BY <2>2, <3>1, <3>3 DEF Awaits, LoginPoints, h, L
  <2>3. CASE tab[t].at # "answered"
    <3>1. kept[b] = {} => kept'[b] = {}
      OBVIOUS
    <3>2. tab[t].at \in {"promoted", "served"} =>
              (Holds(tab[t].session, kept[b], carts) => Holds(tab[t].session, kept'[b], carts'))
      BY <1>6 DEF Holds
    <3>3. tab[t].at = "promoted" /\ tab[t].guest # None => carts'[tab[t].guest] = carts[tab[t].guest]
      BY <1>6
    <3> QED BY <1>4, <2>1, <2>3, <3>1, <3>2, <3>3 DEF Awaits, LoginPoints
  <2> QED BY <2>2, <2>3
<1> QED BY <1>1, <1>3, <1>4, <1>5, <1>7 DEF Calm

-----------------------------------------------------------------------------
(* What a step of the browser a may not do to the others: nothing happens  *)
(* to sessions that are open and that a does not know.                     *)
OthersUntouched(a) ==
    /\ \A b \in Browsers : b # a => jar'[b] = jar[b] /\ given'[b] = given[b] /\ kept'[b] \subseteq kept[b]
    /\ \A t \in Tabs : tab'[t] # tab[t] =>
           (tab[t] = Idle \/ tab[t].browser = a) /\ (tab'[t] = Idle \/ tab'[t].browser = a)
    /\ \A s \in Sessions : sessions[s].kind # "NONE" /\ ~Knows(a, s) =>
           (Live(s)' <=> Live(s)) /\ carts'[s] = carts[s]
    /\ \A t \in Tabs : tab[t].at = "answered" /\ tab[t].browser # a =>
           InCarts(tab[t].items, carts') \subseteq InCarts(tab[t].items, carts)

LEMMA OthersStayCalm ==
    ASSUME VisitInv, CalmInv, NEW a \in Browsers, OthersUntouched(a),
           disturbed \subseteq disturbed',
           a \notin disturbed' => Calm(a)'
    PROVE  CalmInv'
<1> SUFFICES ASSUME NEW b \in Browsers, b \notin disturbed', b # a PROVE Calm(b)'
  BY DEF CalmInv
<1>1. TypeOK /\ Calm(b)
  BY DEF CalmInv, VisitInv, TypeInv
<1>2. \A s \in Sessions : Knows(b, s) => (Live(s)' <=> Live(s)) /\ carts'[s] = carts[s]
  BY DEF OthersUntouched, VisitInv, KnownAreOpen, KnownByOne
<1>3. jar'[b] = jar[b] /\ given'[b] = given[b] /\ kept'[b] \subseteq kept[b]
  BY DEF OthersUntouched
<1>4. \A t \in Tabs : (tab[t] # Idle /\ tab[t].browser = b) \/ (tab'[t] # Idle /\ tab'[t].browser = b)
          => tab'[t] = tab[t]
  BY DEF OthersUntouched
<1>5. \A t \in InFlight(b) : tab[t].at = "answered" =>
          InCarts(tab[t].items, carts') \subseteq InCarts(tab[t].items, carts)
  BY DEF OthersUntouched, InFlight
<1> QED BY <1>1, <1>2, <1>3, <1>4, <1>5, Bystander

(* The sessions a browser knows that have died stay without a cart.        *)
NoCartForTheDead ==
    \A s \in Sessions : ~Live(s)' => carts'[s] = {} \/ (~Live(s) /\ carts'[s] = carts[s])

LEMMA DeadStayEmpty ==
    ASSUME VisitInv, [Next]_vars, NEW b \in Browsers, DeadAreEmpty(b), NoCartForTheDead
    PROVE  DeadAreEmpty(b)'
<1>1. \A s \in Sessions : Knows(b, s)' => Knows(b, s) \/ sessions[s].kind = "NONE"
  BY NextLearns DEF VisitInv, Learns
<1>2. \A s \in Sessions : sessions[s].kind = "NONE" => carts[s] = {}
  BY DEF VisitInv, TypeInv, UnopenedAreEmpty
<1> QED BY <1>1, <1>2 DEF DeadAreEmpty, NoCartForTheDead

(* A request or an answer of the browser moves on.                         *)
LEMMA TabMoves ==
    ASSUME VisitInv, CalmInv, [Next]_vars,
           NEW t \in Tabs, tab[t] # Idle, NEW q, q # Idle, q.browser = tab[t].browser, Goes(t, q),
           UNCHANGED jar, disturbed \subseteq disturbed',
           OthersUntouched(tab[t].browser),
           tab[t].browser \notin disturbed' /\ Calm(tab[t].browser) =>
               /\ NoCartForTheDead
               /\ Awaits(q, jar[tab[t].browser], kept'[tab[t].browser], carts')
               /\ q.at = "opened" => Live(q.session)'
    PROVE  CalmInv'
<1>1. TypeOK
  BY DEF VisitInv, TypeInv
<1>2. PICK a \in Browsers : a = tab[t].browser
  BY <1>1, TabKinds
<1>3. \A u \in Tabs : tab'[u] = IF u = t THEN q ELSE tab[u]
  BY <1>1 DEF Goes, TypeOK
<1>4. InFlight(a)' = InFlight(a) /\ t \in InFlight(a)
  BY <1>2, <1>3 DEF InFlight
<1>5. ASSUME a \notin disturbed' PROVE Calm(a)'
  <2>1. Calm(a)
    BY <1>5 DEF CalmInv
  <2>2. NoCartForTheDead /\ Awaits(q, jar[a], kept'[a], carts') /\ (q.at = "opened" => Live(q.session)')
    BY <1>2, <1>5, <2>1
  <2>3. DeadAreEmpty(a)'
    BY <2>1, <2>2, DeadStayEmpty DEF Calm
  <2>4. \A u \in InFlight(a) : u = t
    BY <1>4, <2>1 DEF Calm
  <2>5. \A u \in InFlight(a)' : tab'[u] = q
    BY <1>3, <1>4, <2>4
  <2>6. OpensLive(tab[t])'
    BY <1>3, <2>2 DEF OpensLive
  <2>7. \A u \in InFlight(a)' : Awaits(tab'[u], jar'[a], kept'[a], carts') /\ OpensLive(tab[u])'
    BY <1>4, <2>2, <2>4, <2>5, <2>6
  <2> QED BY <1>4, <2>1, <2>3, <2>4, <2>7 DEF Calm
<1>6. OthersUntouched(a)
  BY <1>2
<1> QED BY <1>5, <1>6, OthersStayCalm

(* ... while sessions, carts and what browsers were told stay as they are. *)
LEMMA TabMovesQuietly ==
    ASSUME VisitInv, CalmInv, [Next]_vars,
           NEW t \in Tabs, tab[t] # Idle, NEW q, q # Idle, q.browser = tab[t].browser, Goes(t, q),
           q.at # "opened",
           UNCHANGED <<server, client, kept>>, disturbed \subseteq disturbed',
           tab[t].browser \notin disturbed' /\ Calm(tab[t].browser) =>
               Awaits(q, jar[tab[t].browser], kept[tab[t].browser], carts)
    PROVE  CalmInv'
<1>1. TypeOK
  BY DEF VisitInv, TypeInv
<1>2. \A u \in Tabs : tab'[u] = IF u = t THEN q ELSE tab[u]
  BY <1>1 DEF Goes, TypeOK
<1>3. OthersUntouched(tab[t].browser)
  BY <1>2 DEF OthersUntouched, server, client, Live
<1>4. NoCartForTheDead
  BY DEF NoCartForTheDead, server, Live
<1>5. UNCHANGED <<jar, kept, carts>>
  BY DEF server, client
<1> QED BY <1>3, <1>4, <1>5, TabMoves

-----------------------------------------------------------------------------
(* What the visitor may be answered, with no item: nothing new while his   *)
(* items are where the jar says, any cookie while he has neither items nor *)
(* a token, and no cookie while he has no items.                           *)
LEMMA PlainAnswer ==
    ASSUME NEW b, NEW c, NEW j, NEW K, NEW C,
           \/ c = Same /\ Own(j) /\ Holds(Home(j), K, C)
           \/ K = {} /\ (c = None \/ j.bearer = None)
    PROVE  Awaits(Answer(b, c), j, K, C)
<1> DEFINE q == Answer(b, c)
<1>1. q.at = "answered" /\ q.cookie = c /\ q.bearer = Same /\ q.items = {}
  BY DEF Answer
<1> HIDE DEF q
<1>2. InCarts(q.items, C) = {}
  BY <1>1 DEF InCarts
<1>3. After(j, q).bearer = j.bearer /\ After(j, q).cookie = IF c = Same THEN j.cookie ELSE c
  BY <1>1 DEF After, Stored
<1>4. ASSUME c = Same, Own(j), Holds(Home(j), K, C) PROVE Awaits(q, j, K, C)
  <2>1. Own(After(j, q)) /\ Home(After(j, q)) = Home(j)
    BY <1>3, <1>4 DEF Own, Home
  <2>2. K \union InCarts(q.items, C) = K
    BY <1>2
  <2> QED BY <1>1, <1>4, <2>1, <2>2 DEF Awaits, LoginPoints
<1>5. ASSUME K = {}, c = None \/ j.bearer = None PROVE Awaits(q, j, K, C)
  <2>1. Own(After(j, q))
    BY <1>3, <1>5, Numbers DEF Own
  <2>2. Holds(Home(After(j, q)), K \union InCarts(q.items, C), C)
    BY <1>2, <1>5 DEF Holds
  <2> QED BY <1>1, <2>1, <2>2 DEF Awaits, LoginPoints
<1> QED BY <1>4, <1>5 DEF q

(* The answer to a request once its session is resolved.                   *)
LEMMA ServedAnswer ==
    ASSUME NEW b, NEW q, NEW j, NEW K, NEW C, q.at = "resolved", Awaits(q, j, K, C), Own(j)
    PROVE  Awaits(Answer(b, CookieOf(q)), j, K, C)
<1>1. CASE q.cookie = None
  <2>1. Holds(Home(j), K, C) /\ CookieOf(q) = Same
    BY <1>1 DEF Awaits, CookieOf
  <2> QED BY <2>1, PlainAnswer
<1>2. CASE q.cookie # None
  <2>1. K = {} /\ j.bearer = None /\ CookieOf(q) = q.cookie
    BY <1>2 DEF Awaits, CookieOf
  <2> QED BY <2>1, PlainAnswer
<1> QED BY <1>1, <1>2

(* A calm browser awaits the answer to its request.                        *)
LEMMA CalmAwaits ==
    ASSUME TypeOK, NEW t \in Tabs, tab[t] # Idle, Calm(tab[t].browser)
    PROVE  /\ Own(jar[tab[t].browser])
           /\ Awaits(tab[t], jar[tab[t].browser], kept[tab[t].browser], carts)
           /\ DeadAreEmpty(tab[t].browser)
BY DEF Calm, InFlight

(* Steps of a request that change neither a session nor a cart.            *)
LEMMA QuietSteps ==
    ASSUME VisitInv, CalmInv, [Next]_vars, NEW t \in Tabs,
           \/ ResolveCookie(t) \/ ResolveBearer(t) \/ RefuseKey(t) \/ ServeExpired(t) \/ Serve(t)
           \/ NoGuest(t) \/ AnswerLogin(t) \/ RequestFails(t)
    PROVE  CalmInv'
<1> DEFINE a == tab[t].browser
           j == jar[a]
           K == kept[a]
<1> USE Numbers
<1>0. TypeOK /\ UNCHANGED <<server, client, kept>> /\ disturbed \subseteq disturbed'
  BY DEF VisitInv, TypeInv, ResolveCookie, ResolveBearer, RefuseKey, ServeExpired, Serve, NoGuest, AnswerLogin, RequestFails
<1>1. tab[t] # Idle
  BY DEF ResolveCookie, ResolveBearer, RefuseKey, ServeExpired, Serve, NoGuest, AnswerLogin, RequestFails, Idle
<1>2. Calm(a) => Own(j) /\ Awaits(tab[t], j, K, carts) /\ DeadAreEmpty(a)
  BY <1>0, <1>1, CalmAwaits
<1>3. \E q : /\ q # Idle /\ q.browser = a /\ Goes(t, q) /\ q.at # "opened"
             /\ a \notin disturbed' /\ Calm(a) => Awaits(q, j, K, carts)
  <2>1. CASE ResolveCookie(t)
    <3> DEFINE q == [at |-> "resolved", browser |-> a, op |-> tab[t].op, session |-> tab[t].cookie, cookie |-> None]
    <3>1. Goes(t, q) /\ tab[t].at = "sent" /\ tab[t].cookie # None
      BY <2>1 DEF ResolveCookie, ResolvesTo, LiveGuest, Live
    <3>2. q # Idle /\ q.browser = a /\ q.at = "resolved" /\ q.cookie = None /\ q.session = tab[t].cookie
      BY DEF Idle
    <3> HIDE DEF q, a, j, K
    <3>3. Calm(a) => Awaits(q, j, K, carts)
      BY <1>2, <3>1, <3>2 DEF Awaits, Home, LoginPoints
    <3> QED BY <3>1, <3>2, <3>3
  <2>2. CASE ResolveBearer(t)
    <3> DEFINE q == [at |-> "resolved", browser |-> a, op |-> tab[t].op, session |-> tab[t].bearer, cookie |-> None]
               n == Answer(a, Same)
    <3>1. (Goes(t, q) \/ Goes(t, n)) /\ tab[t].at = "sent" /\ tab[t].cookie = None
      BY <2>2 DEF ResolveBearer, ResolvesTo
    <3>2. q # Idle /\ q.browser = a /\ q.at = "resolved" /\ q.cookie = None /\ q.session = tab[t].bearer
      BY DEF Idle
    <3>3. n # Idle /\ n.browser = a /\ n.at # "opened"
      BY DEF Answer, Idle
    <3>4. Calm(a) => Awaits(n, j, K, carts)
      BY <1>2, <3>1, PlainAnswer DEF Awaits
    <3> HIDE DEF q, n, a, j, K
    <3>5. Calm(a) => Awaits(q, j, K, carts)
      BY <1>2, <3>1, <3>2 DEF Awaits, Home, LoginPoints
    <3> QED BY <3>1, <3>2, <3>3, <3>4, <3>5
  <2>3. CASE RefuseKey(t) \/ Serve(t)
    <3>1. Goes(t, Answer(a, CookieOf(tab[t]))) /\ tab[t].at = "resolved"
      BY <2>3 DEF RefuseKey, Serve
    <3>2. Calm(a) => Awaits(Answer(a, CookieOf(tab[t])), j, K, carts)
      BY <1>2, <3>1, ServedAnswer
    <3>3. Answer(a, CookieOf(tab[t])) # Idle /\ Answer(a, CookieOf(tab[t])).browser = a
          /\ Answer(a, CookieOf(tab[t])).at # "opened"
      BY DEF Answer, Idle
    <3> QED BY <3>1, <3>2, <3>3
  <2>4. CASE ServeExpired(t)
    <3> DEFINE c == IF tab[t].op = "view" THEN None ELSE CookieOf(tab[t])
    <3>1. Goes(t, Answer(a, c)) /\ tab[t].at = "resolved" /\ ~Live(tab[t].session)
      BY <2>4 DEF ServeExpired
    <3>2. ASSUME Calm(a) PROVE K = {}
      <4>1. tab[t] \in Resolved
        BY <1>0, <3>1, TabKinds
      <4>2. tab[t].session \in Sessions /\ Knows(a, tab[t].session)
        BY <1>1, <3>1, <4>1 DEF Knows, Mentions, Resolved
      <4>3. carts[tab[t].session] = {}
        BY <1>2, <3>1, <3>2, <4>2 DEF DeadAreEmpty
      <4> HIDE DEF a, j, K
      <4> QED BY <1>2, <3>1, <3>2, <4>3 DEF Awaits, Holds
    <3>3. Calm(a) => Awaits(Answer(a, c), j, K, carts)
      BY <1>2, <3>1, <3>2, ServedAnswer, PlainAnswer
    <3>4. Answer(a, c) # Idle /\ Answer(a, c).browser = a /\ Answer(a, c).at # "opened"
      BY DEF Answer, Idle
    <3> QED BY <3>1, <3>3, <3>4
  <2>5. CASE RequestFails(t)
    <3> DEFINE c == IF tab[t].at = "resolved" THEN CookieOf(tab[t]) ELSE Same
    <3>1. Goes(t, Answer(a, c)) /\ disturbed' = disturbed \union {b \in {a} : Stranded(tab[t])}
      BY <2>5 DEF RequestFails
    <3>2. ASSUME tab[t].at \in {"sent", "opened"}, Calm(a) PROVE Awaits(Answer(a, Same), j, K, carts)
      <4>1. Own(j) /\ Holds(Home(j), K, carts)
        BY <1>2, <3>2 DEF Awaits
      <4> QED BY <4>1, PlainAnswer
    <3>3. ASSUME tab[t].at = "resolved", Calm(a) PROVE Awaits(Answer(a, CookieOf(tab[t])), j, K, carts)
      BY <1>2, <3>3, ServedAnswer
    <3>4. ASSUME tab[t].at \in {"promoted", "served"}, Calm(a), a \notin disturbed'
          PROVE  Awaits(Answer(a, Same), j, K, carts)
      <4>1. carts[tab[t].session] = {}
        BY <3>1, <3>4 DEF Stranded
      <4>2. K = {} /\ j.bearer = None
        BY <1>2, <3>4, <4>1 DEF Awaits, Holds, LoginPoints
      <4> QED BY <4>2, PlainAnswer
    <3>5. tab[t].at \in {"sent", "opened", "promoted", "served", "resolved"}
      BY <1>0, <2>5 DEF RequestFails, TypeOK, Idle, Sent, Resolved, LoggingIn, Answered
    <3>6. a \notin disturbed' /\ Calm(a) => Awaits(Answer(a, c), j, K, carts)
      BY <3>2, <3>3, <3>4, <3>5
    <3>7. Answer(a, c) # Idle /\ Answer(a, c).browser = a /\ Answer(a, c).at # "opened"
      BY DEF Answer, Idle
    <3> QED BY <3>1, <3>6, <3>7
  <2>6. CASE NoGuest(t)
    <3>1. PICK q \in LoggingIn :
              /\ Goes(t, q) /\ q.browser = a /\ q.session = tab[t].session
              /\ q.at = "served" /\ q.guest = None
      BY <1>0, <2>6, LoginForm DEF NoGuest, TransferCart, ReleaseCart
    <3>2. q # Idle
      BY <3>1 DEF Idle
    <3>3. ASSUME Calm(a) PROVE K = {} /\ j.bearer = None
      <4>1. tab[t].at = "opened" /\ ~Promotable(tab[t].guest)
        BY <2>6 DEF NoGuest
      <4>2. tab[t] \in LoggingIn
        BY <1>0, <4>1, TabKinds DEF LoginPoints
      <4>3. tab[t].guest = j.cookie /\ j.bearer = None /\ Holds(Home(j), K, carts)
        BY <1>2, <3>3, <4>1 DEF Awaits, LoginPoints
      <4>4. Home(j) = tab[t].guest
        BY <4>3 DEF Home
      <4>5. tab[t].guest # None => tab[t].guest \in Sessions /\ Knows(a, tab[t].guest)
        BY <1>1, <4>1, <4>2 DEF Knows, Mentions, LoggingIn, LoginPoints, Ids
      <4>6. tab[t].guest # None => carts[tab[t].guest] = {}
        BY <1>2, <3>3, <4>1, <4>5 DEF Promotable, Live, DeadAreEmpty
      <4> QED BY <4>3, <4>4, <4>6 DEF Holds
    <3>4. Calm(a) => Awaits(q, j, K, carts)
      BY <3>1, <3>3 DEF Awaits, Holds, LoginPoints
    <3> QED BY <3>1, <3>2, <3>4
  <2>7. CASE AnswerLogin(t)
    <3> DEFINE q == [Answer(a, ClearCartCookie) EXCEPT !.bearer = tab[t].session]
    <3>1. tab[t].at = "served" /\ Goes(t, q)
      BY <2>7 DEF AnswerLogin
    <3>2. /\ q # Idle /\ q.browser = a /\ q.at = "answered" /\ q.items = {}
          /\ q.cookie = None /\ q.bearer = tab[t].session
      BY DEF Answer, Idle, ClearCartCookie
    <3>3. tab[t] \in LoggingIn
      BY <1>0, <3>1, TabKinds DEF LoginPoints
    <3> HIDE DEF q
    <3>4. Own(After(j, q)) /\ Home(After(j, q)) = tab[t].session
      BY <3>2, <3>3 DEF After, Stored, Own, Home, LoggingIn
    <3>5. K \union InCarts(q.items, carts) = K
      BY <3>2 DEF InCarts
    <3>6. Calm(a) => Holds(tab[t].session, K, carts)
      BY <1>2, <3>1 DEF Awaits
    <3>7. Calm(a) => Awaits(q, j, K, carts)
      BY <3>2, <3>4, <3>5, <3>6 DEF Awaits, LoginPoints
    <3> QED BY <3>1, <3>2, <3>7
  <2> QED BY <2>1, <2>2, <2>3, <2>4, <2>5, <2>6, <2>7
<1> QED BY <1>0, <1>1, <1>3, TabMovesQuietly

-----------------------------------------------------------------------------
(* A guest session is opened for a visitor who has no account, and whose   *)
(* items, if he was told of any, have gone with the session he had.        *)
LEMMA CreateStep ==
    ASSUME VisitInv, GuestCookies, CalmInv, [Next]_vars, NEW t \in Tabs, CreateGuestSession(t)
    PROVE  CalmInv'
<1> DEFINE a == tab[t].browser
           j == jar[a]
           K == kept[a]
<1> USE Numbers DEF client
<1>0. TypeOK /\ tab[t].at = "sent" /\ tab[t] # Idle /\ tab[t] \in Sent
  BY TabKinds DEF VisitInv, TypeInv, CreateGuestSession, Idle
<1>1. PICK s \in Sessions :
          /\ sessions[s].kind = "NONE" /\ sessions' = Opened(s, "GUEST") /\ ResolvesTo(t, s, s)
          /\ UNCHANGED <<carts, client, kept, disturbed>>
  BY DEF CreateGuestSession, NewSession, Unused
<1>2. \A u \in Sessions : u # s => (Live(u)' <=> Live(u))
  BY <1>0, <1>1 DEF Opened, Live, TypeOK, Row
<1>3. Live(s)'
  BY <1>0, <1>1 DEF Opened, Live, TypeOK, Row
<1> DEFINE q == [at |-> "resolved", browser |-> a, op |-> tab[t].op, session |-> s, cookie |-> s]
<1>4. Goes(t, q) /\ q # Idle /\ q.browser = a /\ q.at = "resolved" /\ q.cookie = s /\ q.session = s
  BY <1>1 DEF ResolvesTo, Idle
<1> HIDE DEF q
<1>5. \A u \in Tabs : tab'[u] = IF u = t THEN q ELSE tab[u]
  BY <1>0, <1>4 DEF Goes, TypeOK
<1>6. OthersUntouched(a)
  BY <1>1, <1>2, <1>4, <1>5 DEF OthersUntouched
<1>7. NoCartForTheDead
  BY <1>1, <1>2, <1>3 DEF NoCartForTheDead
<1>8. ASSUME Calm(a) PROVE K = {} /\ j.bearer = None
  <2>1. Own(j) /\ Awaits(tab[t], j, K, carts) /\ DeadAreEmpty(a)
    BY <1>0, <1>8, CalmAwaits
  <2>2. tab[t].cookie = j.cookie /\ tab[t].bearer = j.bearer /\ Holds(Home(j), K, carts)
    BY <1>0, <2>1 DEF Awaits
  <2>3. CASE tab[t].cookie = None
    <3>1. j.bearer = None
      BY <2>2, <2>3 DEF CreateGuestSession, NeedsGuest
    <3> QED BY <2>2, <2>3, <3>1 DEF Home, Holds
  <2>4. CASE tab[t].cookie # None
    <3>1. tab[t].cookie \in Sessions /\ Knows(a, tab[t].cookie)
      BY <1>0, <2>4 DEF Sent, Ids, Knows, Mentions
    <3>2. sessions[tab[t].cookie].kind = "GUEST"
      BY <1>0, <3>1 DEF CreateGuestSession, CartOps, CarriesCookie, GuestCookies, IsGuest
    <3>3. ~Live(tab[t].cookie)
      BY <2>4, <3>2 DEF CreateGuestSession, NeedsGuest, LiveGuest
    <3>4. carts[tab[t].cookie] = {}
      BY <2>1, <3>1, <3>3 DEF DeadAreEmpty
    <3>5. Home(j) = tab[t].cookie /\ j.bearer = None
      BY <2>1, <2>2, <2>4 DEF Home, Own
    <3> QED BY <2>2, <3>4, <3>5 DEF Holds
  <2> QED BY <2>3, <2>4
<1>9. Calm(a) => Awaits(q, j, kept'[a], carts')
  BY <1>1, <1>4, <1>8 DEF Awaits, LoginPoints
<1> QED BY <1>0, <1>1, <1>4, <1>6, <1>7, <1>9, TabMoves

(* An item is added to the cart of the session that answers, where the     *)
(* visitor's other items are.                                              *)
LEMMA AddStep ==
    ASSUME VisitInv, CalmInv, [Next]_vars, NEW t \in Tabs, ServeAdd(t)
    PROVE  CalmInv'
<1> DEFINE a == tab[t].browser
           j == jar[a]
           K == kept[a]
<1> USE Numbers DEF client
<1>0. TypeOK /\ tab[t].at = "resolved" /\ tab[t] # Idle /\ tab[t] \in Resolved
  BY TabKinds DEF VisitInv, TypeInv, ServeAdd, Idle
<1>1. PICK i \in Items :
          /\ Live(tab[t].session)
          /\ \A u \in Tabs : tab[u].at = "answered" => i \notin tab[u].items
          /\ carts' = [carts EXCEPT ![tab[t].session] = @ \union {i}]
          /\ Goes(t, [Answer(a, CookieOf(tab[t])) EXCEPT !.items = {i}])
          /\ UNCHANGED <<sessions, client, kept, disturbed>>
  BY DEF ServeAdd
<1>2. PICK h \in Sessions : h = tab[t].session
  BY <1>0 DEF Resolved
<1>3. Knows(a, h)
  BY <1>0, <1>2 DEF Knows, Mentions
<1>4. \A u \in Sessions : carts'[u] = IF u = h THEN carts[h] \union {i} ELSE carts[u]
  BY <1>0, <1>1, <1>2 DEF TypeOK
<1>5. \A u \in Sessions : Live(u)' <=> Live(u)
  BY <1>1 DEF Live
<1> DEFINE q == [Answer(a, CookieOf(tab[t])) EXCEPT !.items = {i}]
<1>6. /\ Goes(t, q) /\ q # Idle /\ q.browser = a /\ q.at = "answered"
      /\ q.cookie = CookieOf(tab[t]) /\ q.bearer = Same /\ q.items = {i}
  BY <1>1 DEF Answer, Idle
<1> HIDE DEF q
<1>7. \A u \in Tabs : tab'[u] = IF u = t THEN q ELSE tab[u]
  BY <1>0, <1>6 DEF Goes, TypeOK
<1>8. \A u \in Tabs : tab[u].at = "answered" => InCarts(tab[u].items, carts') \subseteq InCarts(tab[u].items, carts)
  BY <1>1, <1>4 DEF InCarts
<1>9. OthersUntouched(a)
  BY <1>0, <1>1, <1>2, <1>3, <1>4, <1>5, <1>6, <1>7, <1>8 DEF OthersUntouched
<1>10. NoCartForTheDead
  BY <1>1, <1>2, <1>4, <1>5 DEF NoCartForTheDead
<1>11. ASSUME Calm(a) PROVE Awaits(q, j, K, carts')
  <2>1. Own(j) /\ Awaits(tab[t], j, K, carts)
    BY <1>0, <1>11, CalmAwaits
  <2>2. InCarts(q.items, carts') \subseteq {i}
    BY <1>6 DEF InCarts
  <2>3. After(j, q).bearer = j.bearer
        /\ After(j, q).cookie = IF CookieOf(tab[t]) = Same THEN j.cookie ELSE CookieOf(tab[t])
    BY <1>6 DEF After, Stored
  <2>4. CASE tab[t].cookie = None
    <3>1. h = Home(j) /\ Holds(Home(j), K, carts)
      BY <1>0, <1>2, <2>1, <2>4 DEF Awaits
    <3>2. Own(After(j, q)) /\ Home(After(j, q)) = h
      BY <2>1, <2>3, <2>4, <3>1 DEF CookieOf, Own, Home
    <3>3. K \subseteq carts[h]
      BY <3>1 DEF Holds
    <3>4. Holds(h, K \union InCarts(q.items, carts'), carts')
      BY <1>4, <2>2, <3>3 DEF Holds
    <3> QED BY <1>6, <3>2, <3>4 DEF Awaits, LoginPoints
  <2>5. CASE tab[t].cookie # None
    <3>1. h = tab[t].cookie /\ K = {} /\ j.bearer = None
      BY <1>0, <1>2, <2>1, <2>5 DEF Awaits
    <3>2. CookieOf(tab[t]) = h
      BY <2>5, <3>1 DEF CookieOf
    <3>3. Own(After(j, q)) /\ Home(After(j, q)) = h
      BY <2>3, <3>1, <3>2 DEF Own, Home
    <3>4. Holds(h, K \union InCarts(q.items, carts'), carts')
      BY <1>4, <2>2, <3>1 DEF Holds
    <3> QED BY <1>6, <3>3, <3>4 DEF Awaits, LoginPoints
  <2> QED BY <2>4, <2>5
<1> QED BY <1>0, <1>1, <1>6, <1>9, <1>10, <1>11, TabMoves

-----------------------------------------------------------------------------
(* A login opens a session that has no cart yet and that nobody knows.     *)
LEMMA OpenStep ==
    ASSUME VisitInv, CalmInv, [Next]_vars, NEW t \in Tabs, OpenUserSession(t)
    PROVE  CalmInv'
<1> DEFINE a == tab[t].browser
           j == jar[a]
           K == kept[a]
<1> USE Numbers DEF client
<1>0. TypeOK /\ tab[t].at = "sent" /\ tab[t].op = "login" /\ tab[t] # Idle /\ tab[t] \in Sent
  BY TabKinds DEF VisitInv, TypeInv, OpenUserSession, Idle
<1>1. PICK s \in Sessions, kind \in {"USER", "ADMIN"} :
          /\ sessions[s].kind = "NONE" /\ sessions' = Opened(s, kind)
          /\ Goes(t, [at |-> "opened", browser |-> a, guest |-> tab[t].cookie, session |-> s])
          /\ UNCHANGED <<carts, client, kept, disturbed>>
  BY DEF OpenUserSession, NewSession, Unused
<1>2. \A u \in Sessions : u # s => (Live(u)' <=> Live(u))
  BY <1>0, <1>1 DEF Opened, Live, TypeOK, Row
<1>3. Live(s)'
  BY <1>0, <1>1 DEF Opened, Live, TypeOK, Row
<1> DEFINE q == [at |-> "opened", browser |-> a, guest |-> tab[t].cookie, session |-> s]
<1>4. Goes(t, q) /\ q # Idle /\ q.browser = a /\ q.at = "opened" /\ q.guest = tab[t].cookie /\ q.session = s
  BY <1>1 DEF Idle
<1> HIDE DEF q
<1>5. \A u \in Tabs : tab'[u] = IF u = t THEN q ELSE tab[u]
  BY <1>0, <1>4 DEF Goes, TypeOK
<1>6. OthersUntouched(a)
  BY <1>1, <1>2, <1>4, <1>5 DEF OthersUntouched
<1>7. NoCartForTheDead
  BY <1>1, <1>2, <1>3 DEF NoCartForTheDead
<1>8. tab[t].cookie # s
  <2>1. tab[t].cookie \in Sessions => Knows(a, tab[t].cookie)
    BY <1>0 DEF Knows, Mentions
  <2> QED BY <1>0, <1>1, <2>1 DEF VisitInv, KnownAreOpen, Sent
<1>9. ASSUME Calm(a) PROVE Awaits(q, j, kept'[a], carts')
  <2>1. tab[t].cookie = j.cookie /\ j.bearer = None /\ Holds(Home(j), K, carts)
    BY <1>0, <1>9, CalmAwaits DEF Awaits
  <2> QED BY <1>1, <1>4, <1>8, <2>1 DEF Awaits, LoginPoints
<1> QED BY <1>0, <1>1, <1>3, <1>4, <1>6, <1>7, <1>9, TabMoves

(* The guest's cart moves to the session the login has opened, or is given *)
(* up with all that the visitor was told of it.                            *)
LEMMA PromoteStep ==
    ASSUME VisitInv, CalmInv, [Next]_vars, NEW t \in Tabs, TransferCart(t) \/ ReleaseCart(t)
    PROVE  CalmInv'
<1> DEFINE a == tab[t].browser
           j == jar[a]
           K == kept[a]
           g == tab[t].guest
           s == tab[t].session
<1> USE Numbers DEF client
<1>0. TypeOK /\ tab[t].at = "opened" /\ tab[t] # Idle /\ tab[t] \in LoggingIn /\ a \in Browsers
  BY TabKinds DEF VisitInv, TypeInv, TransferCart, ReleaseCart, Idle, LoginPoints
<1>1. g # None /\ UNCHANGED <<sessions, client, disturbed>>
  BY DEF TransferCart, ReleaseCart, Promotable
<1>2. PICK q \in LoggingIn :
          /\ Goes(t, q) /\ q.browser = a /\ q.session = s /\ q.guest = g /\ q.at = "promoted"
  <2>1. ~NoGuest(t)
    BY DEF NoGuest, TransferCart, ReleaseCart
  <2> QED BY <1>0, <2>1, LoginForm
<1>3. q # Idle
  BY <1>2 DEF Idle
<1>4. g \in Sessions /\ s \in Sessions /\ Knows(a, g) /\ Knows(a, s)
  <2>1. g \in Sessions /\ s \in Sessions
    BY <1>0, <1>1 DEF LoggingIn, Ids
  <2> QED BY <1>0, <2>1 DEF Knows, Mentions, LoginPoints
<1>5. \A u \in Sessions : Live(u)' <=> Live(u)
  BY <1>1 DEF Live
<1>6. \/ /\ kept' = kept
         /\ \A u \in Sessions : carts'[u] = IF u = s THEN carts[g] ELSE IF u = g THEN {} ELSE carts[u]
      \/ /\ \A b \in Browsers : kept'[b] = kept[b] \ carts[g]
         /\ \A u \in Sessions : carts'[u] = IF u = g THEN {} ELSE carts[u]
  <2>1. CASE TransferCart(t)
    BY <1>0, <1>4, <2>1 DEF TransferCart, Moved, TypeOK
  <2>2. CASE ReleaseCart(t)
    BY <1>0, <1>4, <2>2 DEF ReleaseCart, Released, TypeOK
  <2> QED BY <2>1, <2>2
<1> HIDE DEF a, g, s
<1>7. \A u \in Tabs : tab'[u] = IF u = t THEN q ELSE tab[u]
  BY <1>0, <1>2 DEF Goes, TypeOK
<1>8. \A u \in Tabs : InCarts(tab[u].items, carts') \subseteq InCarts(tab[u].items, carts)
  BY <1>4, <1>6 DEF InCarts
<1>9. \A b \in Browsers : kept'[b] \subseteq kept[b]
  BY <1>6
<1>10. \A u \in Sessions : ~Knows(a, u) => carts'[u] = carts[u]
  BY <1>4, <1>6
<1>11. OthersUntouched(a)
  BY <1>1, <1>2, <1>5, <1>7, <1>8, <1>9, <1>10 DEF OthersUntouched, a
<1>12. ASSUME Calm(a) PROVE NoCartForTheDead /\ Awaits(q, j, kept'[a], carts')
  <2>1. Awaits(tab[t], j, K, carts) /\ OpensLive(tab[t])
    BY <1>0, <1>12 DEF Calm, InFlight, a
  <2>2. g = j.cookie /\ g # s /\ j.bearer = None /\ Holds(Home(j), K, carts) /\ Live(s)
    BY <1>0, <2>1 DEF Awaits, LoginPoints, OpensLive, g, s
  <2>3. K \subseteq carts[g]
    BY <1>1, <2>2 DEF Home, Holds
  <2>4. carts'[g] = {}
    BY <1>4, <1>6, <2>2
  <2>5. NoCartForTheDead
    BY <1>4, <1>5, <1>6, <2>2 DEF NoCartForTheDead
  <2>6. Holds(s, kept'[a], carts')
    BY <1>0, <1>4, <1>6, <2>3 DEF Holds
  <2> QED BY <1>1, <1>2, <2>2, <2>4, <2>5, <2>6 DEF Awaits, LoginPoints
<1> QED BY <1>0, <1>1, <1>2, <1>3, <1>11, <1>12, TabMoves DEF a

(* The guest's session is revoked without a cart.                          *)
LEMMA RevokeStep ==
    ASSUME VisitInv, CalmInv, [Next]_vars, NEW t \in Tabs, RevokeGuest(t)
    PROVE  CalmInv'
<1> DEFINE a == tab[t].browser
           j == jar[a]
           K == kept[a]
           g == tab[t].guest
<1> USE Numbers DEF client
<1>0. TypeOK /\ tab[t].at = "promoted" /\ tab[t] # Idle /\ tab[t] \in LoggingIn
  BY TabKinds DEF VisitInv, TypeInv, RevokeGuest, Idle, LoginPoints
<1>1. sessions' = [sessions EXCEPT ![g].state = "REVOKED"] /\ UNCHANGED <<carts, client, kept, disturbed>>
  BY DEF RevokeGuest
<1>2. PICK q \in LoggingIn :
          /\ Goes(t, q) /\ q.browser = a /\ q.session = tab[t].session /\ q.at = "served"
  BY <1>0, LoginForm DEF TransferCart, ReleaseCart
<1>3. q # Idle
  BY <1>2 DEF Idle
<1>4. g \in Sessions => Knows(a, g)
  BY <1>0 DEF Knows, Mentions, LoginPoints
<1>5. \A u \in Sessions : u # g => (Live(u)' <=> Live(u))
  BY <1>0, <1>1 DEF TypeOK, Live
<1>6. \A u \in Tabs : tab'[u] = IF u = t THEN q ELSE tab[u]
  BY <1>0, <1>2 DEF Goes, TypeOK
<1>7. OthersUntouched(a)
  BY <1>1, <1>2, <1>4, <1>5, <1>6 DEF OthersUntouched
<1>8. ASSUME Calm(a) PROVE NoCartForTheDead /\ Awaits(q, j, kept'[a], carts')
  <2>1. Awaits(tab[t], j, K, carts)
    BY <1>0, <1>8, CalmAwaits
  <2>2. carts[g] = {} /\ j.bearer = None /\ Holds(tab[t].session, K, carts)
    BY <1>0, <2>1 DEF Awaits, LoginPoints
  <2>3. NoCartForTheDead
    BY <1>1, <1>5, <2>2 DEF NoCartForTheDead
  <2> QED BY <1>1, <1>2, <2>2, <2>3 DEF Awaits, LoginPoints
<1> QED BY <1>0, <1>1, <1>2, <1>3, <1>7, <1>8, TabMoves

(* With a logout the cart of the token's session goes, if there is one; a  *)
(* guest's stays.                                                          *)
LEMMA LogoutStep ==
    ASSUME VisitInv, CalmInv, [Next]_vars, NEW t \in Tabs, Logout(t)
    PROVE  CalmInv'
<1> DEFINE a == tab[t].browser
           j == jar[a]
           K == kept[a]
           s == tab[t].bearer
           Revoked == sessions' = [sessions EXCEPT ![s].state = "REVOKED"]
<1> USE Numbers DEF client
<1>0. TypeOK /\ tab[t].at = "sent" /\ tab[t].op = "logout" /\ tab[t] # Idle /\ tab[t] \in Sent
  BY TabKinds DEF VisitInv, TypeInv, Logout, Idle
<1>1. a \in Browsers /\ UNCHANGED <<client, disturbed>>
  BY <1>0 DEF Sent, Logout
<1>2. s \in Sessions => Knows(a, s)
  BY <1>0 DEF Knows, Mentions
<1>3. PICK q :
          /\ Goes(t, q) /\ q # Idle /\ q.browser = a /\ q.at = "answered"
          /\ q.cookie = Same /\ q.bearer \in {None, Same} /\ q.items = {}
  BY DEF Logout, Answer, Idle
<1>4. \/ UNCHANGED <<sessions, carts, kept>> /\ sessions[s].state = "REVOKED"
      \/ /\ Revoked \/ sessions' = sessions
         /\ \A u \in Sessions : carts'[u] = IF u = s THEN {} ELSE carts[u]
         /\ \A b \in Browsers : kept'[b] = kept[b] \ carts[s]
  BY <1>0 DEF Logout, server, Released, TypeOK
<1>5. \A u \in Sessions : u # s => (Live(u)' <=> Live(u)) /\ carts'[u] = carts[u]
  BY <1>0, <1>4 DEF TypeOK, Live
<1>6. \A u \in Sessions : carts'[u] \subseteq carts[u]
  BY <1>4
<1>7. \A b \in Browsers : kept'[b] \subseteq kept[b]
  BY <1>4
<1>8. \A u \in Tabs : tab'[u] = IF u = t THEN q ELSE tab[u]
  BY <1>0, <1>3 DEF Goes, TypeOK
<1>9. \A u \in Tabs : InCarts(tab[u].items, carts') \subseteq InCarts(tab[u].items, carts)
  BY <1>6 DEF InCarts
<1>10. OthersUntouched(a)
  BY <1>1, <1>2, <1>3, <1>5, <1>7, <1>8, <1>9 DEF OthersUntouched
<1>11. NoCartForTheDead
  <2>1. CASE UNCHANGED <<sessions, carts>>
    BY <2>1 DEF NoCartForTheDead, Live
  <2>2. CASE \A u \in Sessions : carts'[u] = IF u = s THEN {} ELSE carts[u]
    BY <1>5, <2>2 DEF NoCartForTheDead
  <2> QED BY <1>4, <2>1, <2>2
<1>12. ASSUME Calm(a) PROVE Awaits(q, j, kept'[a], carts')
  <2>1. Own(j) /\ Awaits(tab[t], j, K, carts) /\ DeadAreEmpty(a)
    BY <1>0, <1>12, CalmAwaits
  <2>2. s = j.bearer /\ s # None /\ Holds(Home(j), K, carts)
    BY <1>0, <2>1 DEF Awaits
  <2>3. Home(j) = s /\ s \in Sessions
    BY <1>0, <2>1, <2>2 DEF Own, Home, Sent, Ids
  <2>4. kept'[a] = {}
    <3>1. K \subseteq carts[s]
      BY <2>2, <2>3 DEF Holds
    <3>2. sessions[s].state = "REVOKED" => carts[s] = {}
      BY <1>2, <2>1, <2>3 DEF DeadAreEmpty, Live
    <3> QED BY <1>1, <1>4, <3>1, <3>2
  <2>5. After(j, q).cookie = j.cookie /\ After(j, q).bearer \in {None, j.bearer}
    BY <1>3 DEF After, Stored
  <2>6. Own(After(j, q))
    BY <2>1, <2>5 DEF Own
  <2>7. kept'[a] \union InCarts(q.items, carts') = {}
    BY <1>3, <2>4 DEF InCarts
  <2> QED BY <1>3, <2>6, <2>7 DEF Awaits, Holds, LoginPoints
<1> QED BY <1>0, <1>1, <1>3, <1>10, <1>11, <1>12, TabMoves

(* A checkout takes a guest's cart over only where the browser sends both  *)
(* a cookie and a token, which one that did one thing at a time never has. *)
LEMMA CheckoutStep ==
    ASSUME VisitInv, CalmInv, [Next]_vars, NEW t \in Tabs, Checkout(t)
    PROVE  CalmInv'
<1> DEFINE a == tab[t].browser
           j == jar[a]
           K == kept[a]
           g == tab[t].cookie
           s == tab[t].bearer
           q == Answer(a, Same)
<1> USE Numbers DEF client
<1>0. TypeOK /\ tab[t].at = "sent" /\ tab[t] # Idle /\ tab[t] \in Sent
  BY TabKinds DEF VisitInv, TypeInv, Checkout, Idle
<1>1. /\ Goes(t, q)
      /\ carts' = carts \/ (s # None /\ LiveGuest(g) /\ carts[s] = {} /\ carts' = Moved(g, s))
      /\ UNCHANGED <<sessions, client, kept, disturbed>>
  BY DEF Checkout
<1>2. q # Idle /\ q.browser = a /\ q.at = "answered"
  BY DEF Answer, Idle
<1>3. \A u \in Tabs : tab'[u] = IF u = t THEN q ELSE tab[u]
  BY <1>0, <1>1 DEF Goes, TypeOK
<1>4. \A u \in Sessions : Live(u)' <=> Live(u)
  BY <1>1 DEF Live
<1> HIDE DEF q
<1>5. carts' # carts =>
          /\ g \in Sessions /\ s \in Sessions /\ Knows(a, g) /\ Knows(a, s) /\ carts[s] = {}
          /\ \A u \in Sessions : carts'[u] = IF u = s THEN carts[g] ELSE IF u = g THEN {} ELSE carts[u]
  <2> SUFFICES ASSUME carts' # carts
               PROVE  /\ g \in Sessions /\ s \in Sessions /\ Knows(a, g) /\ Knows(a, s) /\ carts[s] = {}
                      /\ \A u \in Sessions : carts'[u] = IF u = s THEN carts[g] ELSE IF u = g THEN {} ELSE carts[u]
    OBVIOUS
  <2>1. g \in Sessions /\ s \in Sessions /\ carts[s] = {} /\ carts' = Moved(g, s)
    BY <1>0, <1>1 DEF Sent, Ids, LiveGuest, Live
  <2>2. Knows(a, g) /\ Knows(a, s)
    BY <1>0, <2>1 DEF Knows, Mentions
  <2>3. \A u \in Sessions : carts'[u] = IF u = s THEN carts[g] ELSE IF u = g THEN {} ELSE carts[u]
    BY <1>0, <2>1 DEF Moved, TypeOK
  <2> QED BY <2>1, <2>2, <2>3
<1>6. \A u \in Tabs : InCarts(tab[u].items, carts') \subseteq InCarts(tab[u].items, carts)
  BY <1>5 DEF InCarts
<1>7. \A u \in Sessions : ~Knows(a, u) => carts'[u] = carts[u]
  BY <1>5
<1>8. OthersUntouched(a)
  BY <1>1, <1>2, <1>3, <1>4, <1>6, <1>7 DEF OthersUntouched
<1>9. ASSUME Calm(a) PROVE NoCartForTheDead /\ Awaits(q, j, kept'[a], carts')
  <2>1. Own(j) /\ Awaits(tab[t], j, K, carts)
    BY <1>0, <1>9, CalmAwaits
  <2>2. g = j.cookie /\ s = j.bearer /\ Holds(Home(j), K, carts)
    BY <1>0, <2>1 DEF Awaits
  <2>3. carts' = carts
    BY <1>1, <2>1, <2>2 DEF Own, LiveGuest, Live
  <2>4. NoCartForTheDead
    BY <1>4, <2>3 DEF NoCartForTheDead
  <2>5. Awaits(q, j, K, carts)
    BY <2>1, <2>2, PlainAnswer DEF q
  <2> QED BY <1>1, <2>3, <2>4, <2>5
<1> QED BY <1>0, <1>1, <1>2, <1>8, <1>9, TabMoves

-----------------------------------------------------------------------------
(* A browser that sends nothing while another request of its own is in     *)
(* flight, or else is no longer one that does one thing at a time.         *)
LEMMA SendStep ==
    ASSUME VisitInv, CalmInv, [Next]_vars, NEW t \in Tabs, Send(t)
    PROVE  CalmInv'
<1> USE DEF client
<1>0. TypeOK
  BY DEF VisitInv, TypeInv
<1>1. PICK a \in Browsers, op \in Ops, c \in Ids :
          /\ tab[t] = Idle
          /\ Goes(t, [at |-> "sent", browser |-> a, op |-> op, bearer |-> jar[a].bearer, cookie |-> c])
          /\ c = jar[a].cookie \/ (c \in given[a] /\ op = "login")
          /\ op = "login" => jar[a].bearer = None
          /\ op = "logout" => jar[a].bearer # None
          /\ disturbed' = disturbed \union {x \in {a} : InFlight(a) # {} \/ c # jar[a].cookie}
          /\ UNCHANGED <<server, client, kept>>
  BY <1>0, SendForm
<1> DEFINE q == [at |-> "sent", browser |-> a, op |-> op, bearer |-> jar[a].bearer, cookie |-> c]
<1>2. /\ Goes(t, q) /\ q # Idle /\ q.browser = a /\ q.at = "sent" /\ q.op = op
      /\ q.cookie = c /\ q.bearer = jar[a].bearer
  BY <1>1 DEF Idle
<1> HIDE DEF q
<1>3. \A u \in Tabs : tab'[u] = IF u = t THEN q ELSE tab[u]
  BY <1>0, <1>2 DEF Goes, TypeOK
<1>4. OthersUntouched(a)
  BY <1>1, <1>2, <1>3 DEF OthersUntouched, server, Live
<1>5. ASSUME a \notin disturbed' PROVE Calm(a)'
  <2>1. InFlight(a) = {} /\ Calm(a) /\ c = jar[a].cookie
    BY <1>1, <1>5 DEF CalmInv
  <2>2. InFlight(a)' = {t}
    BY <1>2, <1>3, <2>1 DEF InFlight
  <2>3. Own(jar[a]) /\ Holds(Home(jar[a]), kept[a], carts) /\ DeadAreEmpty(a)
    BY <2>1 DEF Calm
  <2>4. DeadAreEmpty(a)'
    <3>1. NoCartForTheDead
      BY <1>1 DEF NoCartForTheDead, server, Live
    <3> QED BY <2>3, <3>1, DeadStayEmpty
  <2>5. Awaits(q, jar[a], kept[a], carts)
    BY <1>1, <1>2, <2>1, <2>3 DEF Awaits, LoginPoints
  <2>6. tab'[t] = q /\ jar' = jar /\ kept' = kept /\ carts' = carts
    BY <1>1, <1>3 DEF server
  <2>7. \A u \in InFlight(a)' : Awaits(tab'[u], jar'[a], kept'[a], carts') /\ OpensLive(tab[u])'
    BY <1>2, <2>2, <2>5, <2>6 DEF OpensLive
  <2> QED BY <2>2, <2>3, <2>4, <2>6, <2>7 DEF Calm
<1> QED BY <1>1, <1>4, <1>5, OthersStayCalm

(* What the answer promised is so once the browser has stored it.          *)
LEMMA DeliverStep ==
    ASSUME VisitInv, CalmInv, [Next]_vars, NEW t \in Tabs, Deliver(t)
    PROVE  CalmInv'
<1>0. TypeOK /\ tab[t].at = "answered" /\ tab[t] # Idle /\ tab[t] \in Answered
  BY TabKinds DEF VisitInv, TypeInv, Deliver, Idle
<1>1. PICK a \in Browsers : a = tab[t].browser
  BY <1>0 DEF Answered
<1>2. /\ jar' = [jar EXCEPT ![a] = After(jar[a], tab[t])]
      /\ kept' = [kept EXCEPT ![a] = @ \union InCarts(tab[t].items, carts)]
      /\ Goes(t, Idle)
      /\ given' = [given EXCEPT ![a] = @ \union ({tab[t].cookie, tab[t].bearer} \ {None, Same})]
      /\ UNCHANGED <<server, disturbed>>
  BY <1>1 DEF Deliver, After, InCarts
<1>3. /\ jar'[a] = After(jar[a], tab[t]) /\ kept'[a] = kept[a] \union InCarts(tab[t].items, carts)
      /\ \A b \in Browsers : b # a => jar'[b] = jar[b] /\ given'[b] = given[b] /\ kept'[b] = kept[b]
  BY <1>0, <1>2 DEF TypeOK
<1>4. \A u \in Tabs : tab'[u] = IF u = t THEN Idle ELSE tab[u]
  BY <1>0, <1>2 DEF Goes, TypeOK
<1>5. OthersUntouched(a)
  BY <1>1, <1>2, <1>3, <1>4 DEF OthersUntouched, server, Live
<1>6. ASSUME a \notin disturbed' PROVE Calm(a)'
  <2>1. Calm(a)
    BY <1>2, <1>6 DEF CalmInv
  <2>2. Own(After(jar[a], tab[t]))
        /\ Holds(Home(After(jar[a], tab[t])), kept[a] \union InCarts(tab[t].items, carts), carts)
    BY <1>0, <1>1, <2>1, CalmAwaits DEF Awaits
  <2>3. carts' = carts
    BY <1>2 DEF server
  <2>4. Own(jar'[a]) /\ Holds(Home(jar'[a]), kept'[a], carts')
    BY <1>3, <2>2, <2>3
  <2>5. InFlight(a)' = {}
    BY <1>0, <1>1, <1>4, <2>1 DEF Calm, InFlight
  <2>6. DeadAreEmpty(a)'
    <3>1. NoCartForTheDead
      BY <1>2 DEF NoCartForTheDead, server, Live
    <3> QED BY <2>1, <3>1, DeadStayEmpty DEF Calm
  <2> QED BY <2>4, <2>5, <2>6 DEF Calm
<1> QED BY <1>2, <1>5, <1>6, OthersStayCalm

(* An answer that is lost, a cookie whose date has passed, and a token the *)
(* client gives up.                                                        *)
LEMMA BrowserStep ==
    ASSUME VisitInv, CalmInv, [Next]_vars,
           \/ \E t \in Tabs : Lose(t)
           \/ \E b \in Browsers : CookieLapses(b) \/ ForgetToken(b)
    PROVE  CalmInv'
<1> USE DEF client
<1>0. TypeOK
  BY DEF VisitInv, TypeInv
<1>1. ASSUME NEW t \in Tabs, Lose(t) PROVE CalmInv'
  <2>1. PICK a \in Browsers : a = tab[t].browser
    BY <1>0, <1>1, TabKinds DEF Lose, Idle
  <2>2. a \in disturbed' /\ disturbed \subseteq disturbed' /\ Goes(t, Idle) /\ UNCHANGED <<server, client, kept>>
    BY <1>1, <2>1 DEF Lose
  <2>3. \A u \in Tabs : tab'[u] = IF u = t THEN Idle ELSE tab[u]
    BY <1>0, <2>2 DEF Goes, TypeOK
  <2>4. OthersUntouched(a)
    BY <2>1, <2>2, <2>3 DEF OthersUntouched, server, Live
  <2> QED BY <2>2, <2>4, OthersStayCalm
<1>2. ASSUME NEW a \in Browsers, CookieLapses(a) PROVE CalmInv'
  <2>1. a \in disturbed' /\ disturbed \subseteq disturbed' /\ UNCHANGED <<server, given, tab, kept>>
        /\ \A b \in Browsers : b # a => jar'[b] = jar[b]
    BY <1>0, <1>2 DEF CookieLapses, TypeOK
  <2>2. OthersUntouched(a)
    BY <2>1 DEF OthersUntouched, server, Live
  <2> QED BY <2>1, <2>2, OthersStayCalm
<1>3. ASSUME NEW a \in Browsers, ForgetToken(a) PROVE CalmInv'
  <2>1. /\ jar[a].bearer # None /\ InFlight(a) = {} /\ ~Live(jar[a].bearer)
        /\ UNCHANGED <<server, given, tab, kept, disturbed>>
    BY <1>3 DEF ForgetToken
  <2>2. /\ jar'[a].bearer = None /\ jar'[a].cookie = jar[a].cookie
        /\ \A b \in Browsers : b # a => jar'[b] = jar[b]
    BY <1>0, <1>3 DEF ForgetToken, TypeOK
  <2>3. OthersUntouched(a)
    BY <2>1, <2>2 DEF OthersUntouched, server, Live
  <2>4. ASSUME a \notin disturbed' PROVE Calm(a)'
    <3>1. Own(jar[a]) /\ Holds(Home(jar[a]), kept[a], carts) /\ DeadAreEmpty(a)
      BY <2>1, <2>4 DEF CalmInv, Calm
    <3>2. Home(jar[a]) = jar[a].bearer
      BY <2>1, <3>1 DEF Own, Home
    <3>3. jar[a].bearer \in Sessions /\ Knows(a, jar[a].bearer)
      BY <1>0, <2>1 DEF TypeOK, Ids, Knows
    <3>4. kept'[a] = {}
      BY <2>1, <3>1, <3>2, <3>3 DEF DeadAreEmpty, Holds
    <3>5. InFlight(a)' = {} /\ Own(jar'[a]) /\ Holds(Home(jar'[a]), kept'[a], carts')
      BY <2>1, <2>2, <3>4 DEF InFlight, Own, Holds
    <3>6. DeadAreEmpty(a)'
      <4>1. NoCartForTheDead
        BY <2>1 DEF NoCartForTheDead, server, Live
      <4> QED BY <3>1, <4>1, DeadStayEmpty
    <3> QED BY <3>5, <3>6 DEF Calm
  <2> QED BY <2>1, <2>3, <2>4, OthersStayCalm
<1> QED BY <1>1, <1>2, <1>3

-----------------------------------------------------------------------------
(* When a session expires its items are gone, and with them what browsers  *)
(* were told of them.                                                      *)
LEMMA HoldsWithout ==
    ASSUME NEW C, NEW D, NEW h, NEW s \in Sessions, NEW K, NEW L, NEW I, h # None => h \in Sessions,
           \A u \in Sessions : D[u] = IF u = s THEN {} ELSE C[u],
           \A u, v \in Sessions : u # v => C[u] \intersect C[v] = {},
           L = K \ C[s],
           Holds(h, K \union InCarts(I, C), C)
    PROVE  Holds(h, L \union InCarts(I, D), D)
<1> SUFFICES ASSUME NEW i \in L \union InCarts(I, D) PROVE h # None /\ i \in D[h]
  BY DEF Holds
<1>1. i \in K \union InCarts(I, C) /\ i \notin C[s]
  BY DEF InCarts
<1>2. h \in Sessions /\ h # None /\ i \in C[h]
  BY <1>1 DEF Holds
<1> QED BY <1>1, <1>2

LEMMA ExpiryStep ==
    ASSUME VisitInv, CalmInv, [Next]_vars, NEW s \in Sessions, SessionExpires(s)
    PROVE  CalmInv'
<1> USE DEF client
<1>0. TypeOK
  BY DEF VisitInv, TypeInv
<1>1. /\ \A u \in Sessions : carts'[u] = IF u = s THEN {} ELSE carts[u]
      /\ \A b \in Browsers : kept'[b] = kept[b] \ carts[s]
      /\ \A u \in Sessions : u # s => (Live(u)' <=> Live(u))
      /\ UNCHANGED <<jar, tab, disturbed>>
  BY <1>0 DEF SessionExpires, Released, TypeOK, Live
<1>2. \A u, v \in Sessions : u # v => carts[u] \intersect carts[v] = {}
  BY <1>0 DEF TypeOK
<1>3. NoCartForTheDead
  BY <1>1 DEF NoCartForTheDead
<1> SUFFICES ASSUME NEW b \in Browsers, b \notin disturbed' PROVE Calm(b)'
  BY DEF CalmInv
<1>4. Calm(b)
  BY <1>1 DEF CalmInv
<1>5. DeadAreEmpty(b)'
  BY <1>3, <1>4, DeadStayEmpty DEF Calm
<1>6. InFlight(b)' = InFlight(b)
  BY <1>1 DEF InFlight
<1>7. ASSUME NEW h, NEW I, h # None => h \in Sessions,
              Holds(h, kept[b] \union InCarts(I, carts), carts)
       PROVE  Holds(h, kept'[b] \union InCarts(I, carts'), carts')
  <2>1. PICK C, D, K, L : C = carts /\ D = carts' /\ K = kept[b] /\ L = kept'[b]
    OBVIOUS
  <2>2. \A u \in Sessions : D[u] = IF u = s THEN {} ELSE C[u]
    BY <1>1, <2>1
  <2>3. \A u, v \in Sessions : u # v => C[u] \intersect C[v] = {}
    BY <1>2, <2>1
  <2>4. L = K \ C[s]
    BY <1>1, <2>1
  <2>5. Holds(h, K \union InCarts(I, C), C)
    BY <1>7, <2>1
  <2>6. Holds(h, L \union InCarts(I, D), D)
    BY <1>7, <2>2, <2>3, <2>4, <2>5, HoldsWithout
  <2> QED BY <2>1, <2>6
<1>8. Holds(Home(jar[b]), kept[b], carts) => Holds(Home(jar[b]), kept'[b], carts')
  <2>1. kept[b] \union InCarts({}, carts) = kept[b] /\ kept'[b] \union InCarts({}, carts') = kept'[b]
    BY DEF InCarts
  <2>2. Home(jar[b]) # None => Home(jar[b]) \in Sessions
    BY <1>0, HomeIsKnown
  <2>3. Holds(Home(jar[b]), kept[b] \union InCarts({}, carts), carts) =>
            Holds(Home(jar[b]), kept'[b] \union InCarts({}, carts'), carts')
    BY <2>2, <1>7
  <2> QED BY <2>1, <2>3
<1>9. ASSUME NEW t \in InFlight(b), tab[t].at \in {"promoted", "served"}
       PROVE  /\ Holds(tab[t].session, kept[b], carts) => Holds(tab[t].session, kept'[b], carts')
              /\ tab[t].guest # None /\ carts[tab[t].guest] = {} => carts'[tab[t].guest] = {}
  <2>1. tab[t] \in LoggingIn
    BY <1>0, <1>9, TabKinds DEF InFlight, LoginPoints
  <2>2. tab[t].session \in Sessions /\ (tab[t].guest # None => tab[t].guest \in Sessions)
    BY <2>1 DEF LoggingIn, Ids
  <2>3. kept[b] \union InCarts({}, carts) = kept[b] /\ kept'[b] \union InCarts({}, carts') = kept'[b]
    BY DEF InCarts
  <2>4. Holds(tab[t].session, kept[b] \union InCarts({}, carts), carts) =>
            Holds(tab[t].session, kept'[b] \union InCarts({}, carts'), carts')
    BY <2>2, <1>7
  <2> QED BY <1>1, <2>2, <2>3, <2>4
<1>10. \A t \in InFlight(b) : OpensLive(tab[t])'
  <2>1. ASSUME NEW t \in InFlight(b), tab[t].at = "opened" PROVE Live(tab[t].session)'
    <3>1. tab[t] \in LoggingIn /\ t \in Tabs
      BY <1>0, <2>1, TabKinds DEF InFlight, LoginPoints
    <3>2. tab[t].session \in Sessions /\ tab[t].session # s
      BY <2>1, <3>1 DEF SessionExpires, LoginOver, LoggingIn
    <3>3. Live(tab[t].session)
      BY <1>4, <2>1 DEF Calm, OpensLive
    <3> QED BY <1>1, <3>2, <3>3 DEF Live
  <2> QED BY <1>1, <2>1 DEF OpensLive
<1>11. ASSUME NEW t \in InFlight(b) PROVE Awaits(tab[t], jar[b], kept'[b], carts')
  <2>1. Awaits(tab[t], jar[b], kept[b], carts)
    BY <1>4 DEF Calm
  <2>2. CASE tab[t].at = "answered"
    <3>1. PICK h : h = Home(After(jar[b], tab[t]))
      OBVIOUS
    <3>2. h # None => h \in Sessions
      BY <1>0, <2>2, <3>1, HomeIsKnown
    <3>3. Own(After(jar[b], tab[t])) /\ Holds(h, kept[b] \union InCarts(tab[t].items, carts), carts)
      BY <2>1, <2>2, <3>1 DEF Awaits
    <3>4. Holds(h, kept'[b] \union InCarts(tab[t].items, carts'), carts')
      BY <1>7, <3>2, <3>3
    <3> QED BY <2>2, <3>1, <3>3, <3>4 DEF Awaits, LoginPoints
  <2>3. CASE tab[t].at # "answered"
    <3>1. kept[b] = {} => kept'[b] = {}
      BY <1>1
    <3> QED BY <1>8, <1>9, <2>1, <2>3, <3>1 DEF Awaits, LoginPoints
  <2> QED BY <2>2, <2>3
<1>12. \A t \in InFlight(b)' : Awaits(tab'[t], jar'[b], kept'[b], carts') /\ OpensLive(tab[t])'
  BY <1>1, <1>6, <1>11, <1>10
<1> QED BY <1>1, <1>4, <1>5, <1>6, <1>8, <1>12 DEF Calm

-----------------------------------------------------------------------------
LEMMA CalmStep == CartsInv /\ [Next]_vars => CalmInv'
<1> SUFFICES ASSUME VisitInv, GuestCookies, CalmInv, [Next]_vars PROVE CalmInv'
  BY DEF CartsInv
<1>1. CASE UNCHANGED vars
  <2>1. /\ UNCHANGED <<jar, kept, tab, disturbed>>
        /\ \A b \in Browsers : Calm(b)' <=> Calm(b)
    BY <1>1 DEF vars, server, client, Calm, InFlight, DeadAreEmpty, OpensLive, Knows, Live
  <2> QED BY <2>1 DEF CalmInv
<1> QED BY <1>1, QuietSteps, SendStep, CreateStep, AddStep, OpenStep, PromoteStep, RevokeStep, LogoutStep, CheckoutStep,
          DeliverStep, BrowserStep, ExpiryStep DEF Next

(* The inductive invariant: cookies name guests' sessions, and a browser   *)
(* that did one thing at a time finds its items where its jar, or the      *)
(* answer it awaits, sends it.                                             *)
THEOREM CartsInvariant == Spec => []CartsInv
<1>1. CartsInv /\ [Next]_vars => CartsInv'
  <2> SUFFICES ASSUME CartsInv, [Next]_vars PROVE CartsInv'
    OBVIOUS
  <2>1. VisitInv'
    BY NextTypes, NextLearns, LearningIsSafe DEF CartsInv, VisitInv
  <2>2. GuestCookies' /\ CalmInv'
    BY GuestStep, CalmStep DEF CartsInv
  <2> QED BY <2>1, <2>2 DEF CartsInv
<1> QED BY <1>1, InitCarts, PTL DEF Spec

(* After a login a visitor is served with his own session, the guest's     *)
(* cookie being gone (identity.controller.ts:256, 286 clear it, and the    *)
(* resolver would put it first), whoever logs in and wherever an earlier   *)
(* attempt of his has failed.                                              *)
THEOREM LoginsServeTheirOwnCart == Spec => []OwnCartAfterLogin
<1>1. CartsInv => OwnCartAfterLogin
  BY DEF CartsInv, CalmInv, Calm, Own, OwnCartAfterLogin
<1> QED BY <1>1, CartsInvariant, PTL

(* What a visitor was told is in his cart is in the cart he is shown, for  *)
(* any number of visitors, requests, sessions that expire and logins that  *)
(* are taken step by step, an administrator's giving the cart up; for one  *)
(* whose login fails after the cart has moved, or names another session    *)
(* than the cookie's, it says nothing (disturbed).                         *)
THEOREM CartsKeepTheirItems == Spec => []AcknowledgedItemsStay
<1>1. ASSUME CartsInv PROVE AcknowledgedItemsStay
  <2>1. \A b \in Browsers : Current(b) = Home(jar[b])
    BY DEF Current, Home
  <2> QED BY <1>1, <2>1 DEF CartsInv, CalmInv, Calm, Holds, AcknowledgedItemsStay
<1> QED BY <1>1, CartsInvariant, PTL
=============================================================================

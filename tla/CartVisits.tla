----------------------------- MODULE CartVisits -----------------------------
(***************************************************************************)
(* Which cart a visitor sees: the session behind every cart request        *)
(* (src/modules/cart-reservation: controller and session resolver) and the *)
(* cookies that login, registration and the cart leave in a browser.       *)
(*                                                                         *)
(* A request carries the cookies the browser has when it is sent; what its *)
(* answer sets is stored when the answer arrives.  Tabs of one browser     *)
(* send requests that overlap, and answers may be lost.  A cart is the set *)
(* of its items, empty when the session has none.                          *)
(***************************************************************************)
EXTENDS Integers, FiniteSets

CONSTANTS
    Browsers,
    Tabs,           \* requests in flight at most, of whichever browsers
    Sessions,       \* sessions rows, numbers given out in order
    Items           \* each added once at most

ASSUME SessionsAssumption == Sessions \subseteq Nat \ {0} /\ IsFiniteSet(Sessions)

VARIABLES
    sessions,       \* [Sessions -> kind and state]
    carts,          \* [Sessions -> items of the session's cart]
    jar,            \* [Browsers -> merkee_cart_session cookie and bearer token]
    tab,            \* [Tabs -> the request in flight]
    given,          \* [Browsers -> sessions its answers have named]
    kept,           \* [Browsers -> items it was told are in its cart]
    disturbed       \* browsers the properties make an exception of: requests
                    \* overlapped; an answer or, by its date, a cookie was
                    \* lost; a login named a session that is not the cookie's,
                    \* or failed once it had moved the cart

server == <<sessions, carts>>
client == <<jar, given>>
vars == <<server, client, tab, kept, disturbed>>

-----------------------------------------------------------------------------
None == 0
Same == -1                      \* the answer sets nothing
Unopened == [kind |-> "NONE", state |-> "LIVE"]
Row == [kind: {"NONE", "GUEST", "USER", "ADMIN"}, state: {"LIVE", "EXPIRED", "REVOKED"}]
Ids == Sessions \union {None}

CartOps == {"view", "add", "change"}       \* change: set a quantity, or remove
KeyedOps == CartOps \ {"view"}
Ops == CartOps \union {"login", "logout", "checkout"}

Idle == [at |-> "idle"]
Sent == [at: {"sent"}, browser: Browsers, op: Ops, cookie: Ids, bearer: Ids]
Resolved == [at: {"resolved"}, browser: Browsers, op: CartOps, session: Sessions, cookie: Ids]
(* A login past its first commit: the session it opened, the guest's (None *)
(* when there is none to promote).                                         *)
LoggingIn == [at: {"opened", "promoted", "served"}, browser: Browsers, guest: Ids, session: Sessions]
Answered == [at: {"answered"}, browser: Browsers, cookie: Ids \union {Same}, bearer: Ids \union {Same}, items: SUBSET Items]

TypeOK ==
    /\ sessions \in [Sessions -> Row]
    /\ carts \in [Sessions -> SUBSET Items]
    /\ jar \in [Browsers -> [cookie: Ids, bearer: Ids]]
    /\ tab \in [Tabs -> {Idle} \union Sent \union Resolved \union LoggingIn \union Answered]
    /\ given \in [Browsers -> SUBSET Sessions]
    /\ kept \in [Browsers -> SUBSET Items]
    /\ disturbed \subseteq Browsers
    /\ \A s, u \in Sessions : s # u => carts[s] \intersect carts[u] = {}

Init ==
    /\ sessions = [s \in Sessions |-> Unopened]
    /\ carts = [s \in Sessions |-> {}]
    /\ jar = [b \in Browsers |-> [cookie |-> None, bearer |-> None]]
    /\ tab = [t \in Tabs |-> Idle]
    /\ given = [b \in Browsers |-> {}]
    /\ kept = [b \in Browsers |-> {}]
    /\ disturbed = {}

-----------------------------------------------------------------------------
Live(s) == s # None /\ sessions[s].kind # "NONE" /\ sessions[s].state = "LIVE"
LiveGuest(s) == Live(s) /\ sessions[s].kind = "GUEST"
Goes(t, state) == tab' = [tab EXCEPT ![t] = state]

(* The session a request of the browser is served with: the cookie goes    *)
(* before the bearer token.                                                *)
Current(b) == IF jar[b].cookie # None THEN jar[b].cookie ELSE jar[b].bearer
InFlight(b) == {t \in Tabs : tab[t] # Idle /\ tab[t].browser = b}

(* What an answer, of whatever status, sets.                               *)
Answer(b, cookie) == [at |-> "answered", browser |-> b, cookie |-> cookie, bearer |-> Same, items |-> {}]

(* A client offers to log in while it has no token, to log out while it    *)
(* has one.  (A second login opens a session with an empty cart: the cart  *)
(* of the user's earlier session is not looked for.)  The session a login  *)
(* names in its body goes before the cookie's.                             *)
Send(t) == \E b \in Browsers, op \in Ops :
    \E named \in {None} \union {s \in given[b] : op = "login"} :
    /\ tab[t] = Idle
    /\ op = "logout" => jar[b].bearer # None
    /\ op = "login" => jar[b].bearer = None
    /\ Goes(t, [at |-> "sent", browser |-> b, op |-> op, bearer |-> jar[b].bearer,
                cookie |-> IF named = None THEN jar[b].cookie ELSE named])
    /\ disturbed' = disturbed \union {x \in {b} : InFlight(b) # {} \/ named \notin {None, jar[b].cookie}}
    /\ UNCHANGED <<server, client, kept>>

-----------------------------------------------------------------------------
(* The resolver: a cookie of a live guest session is used; a stale one is  *)
(* replaced by a new guest session, as is none at all; only without a      *)
(* cookie does the bearer token decide, on its signature alone.            *)
Unused(s) == sessions[s].kind = "NONE" /\ \A u \in Sessions : u < s => sessions[u].kind # "NONE"
NewSessionReused ==             \* mutant: a guest session with no cart is given again
    {s \in Sessions : Unused(s) \/ (LiveGuest(s) /\ carts[s] = {})}
NewSession == {s \in Sessions : Unused(s)}

Opened(s, kind) == [sessions EXCEPT ![s] = [kind |-> kind, state |-> "LIVE"]]

ResolvesTo(t, s, cookie) ==
    Goes(t, [at |-> "resolved", browser |-> tab[t].browser, op |-> tab[t].op, session |-> s,
             cookie |-> cookie])

ResolveCookie(t) ==
    /\ tab[t].at = "sent" /\ tab[t].op \in CartOps
    /\ LiveGuest(tab[t].cookie)
    /\ ResolvesTo(t, tab[t].cookie, None)
    /\ UNCHANGED <<server, client, kept, disturbed>>

ResolveBearer(t) ==
    /\ tab[t].at = "sent" /\ tab[t].op \in CartOps
    /\ tab[t].cookie = None /\ tab[t].bearer # None
    /\ \/ ResolvesTo(t, tab[t].bearer, None)
       \/ Goes(t, Answer(tab[t].browser, Same))
    /\ UNCHANGED <<server, client, kept, disturbed>>

NeedsGuestAlways(q) == TRUE     \* mutant: the cookie is not looked at
NeedsGuest(q) == IF q.cookie # None THEN ~LiveGuest(q.cookie) ELSE q.bearer = None

CreateGuestSession(t) == \E s \in NewSession :
    /\ tab[t].at = "sent" /\ tab[t].op \in CartOps
    /\ NeedsGuest(tab[t])
    /\ sessions' = Opened(s, "GUEST")
    /\ ResolvesTo(t, s, s)
    /\ UNCHANGED <<carts, client, kept, disturbed>>

(* The cookie of a session created on the way is set whatever follows.     *)
CookieOf(q) == IF q.cookie = None THEN Same ELSE q.cookie

RefuseKey(t) ==
    /\ tab[t].at = "resolved" /\ tab[t].op \in KeyedOps
    /\ Goes(t, Answer(tab[t].browser, CookieOf(tab[t])))
    /\ UNCHANGED <<server, client, kept, disturbed>>

(* The use case finds the session expired or revoked; GET clears the       *)
(* guest's cookie with its answer, whichever session it answers for.       *)
ServeExpired(t) ==
    /\ tab[t].at = "resolved" /\ ~Live(tab[t].session)
    /\ Goes(t, Answer(tab[t].browser, IF tab[t].op = "view" THEN None ELSE CookieOf(tab[t])))
    /\ UNCHANGED <<server, client, kept, disturbed>>

(* View, set and remove leave the cart its items (a removal is refused by  *)
(* the database, see CartReservation); an administrator has no cart.       *)
Serve(t) ==
    LET q == tab[t] IN
    /\ q.at = "resolved" /\ Live(q.session)
    /\ q.op # "add" \/ sessions[q.session].kind = "ADMIN"
    /\ Goes(t, Answer(q.browser, CookieOf(q)))
    /\ UNCHANGED <<server, client, kept, disturbed>>

ServeAdd(t) == \E i \in Items :
    LET q == tab[t] IN
    /\ q.at = "resolved" /\ q.op = "add" /\ Live(q.session)
    /\ sessions[q.session].kind # "ADMIN"
    /\ \A s \in Sessions : i \notin carts[s]
    /\ \A b \in Browsers : i \notin kept[b]
    /\ \A u \in Tabs : tab[u].at = "answered" => i \notin tab[u].items
    /\ carts' = [carts EXCEPT ![q.session] = @ \union {i}]
    /\ Goes(t, [Answer(q.browser, CookieOf(q)) EXCEPT !.items = {i}])
    /\ UNCHANGED <<sessions, client, kept, disturbed>>

-----------------------------------------------------------------------------
(* Login and registration (credentials and tokens are in Accounts): a      *)
(* session is opened; a guest's session found unrevoked gives its cart to  *)
(* it, or gives the cart up when an administrator logs in; that session is *)
(* revoked and the token signed.  Every step is a commit of its own, after *)
(* any of which the login may fail (RequestFails).                         *)
OpenUserSession(t) == \E s \in NewSession, kind \in {"USER", "ADMIN"} :
    LET q == tab[t] IN
    /\ q.at = "sent" /\ q.op = "login"
    /\ sessions' = Opened(s, kind)
    /\ Goes(t, [at |-> "opened", browser |-> q.browser, guest |-> q.cookie, session |-> s])
    /\ UNCHANGED <<carts, client, kept, disturbed>>

Promotable(g) == g # None /\ sessions[g].state # "REVOKED"

NoGuest(t) ==
    /\ tab[t].at = "opened" /\ ~Promotable(tab[t].guest)
    /\ Goes(t, [tab[t] EXCEPT !.at = "served", !.guest = None])
    /\ UNCHANGED <<server, client, kept, disturbed>>

Moved(g, s) == [carts EXCEPT ![g] = {}, ![s] = carts[g]]

TransferCart(t) ==
    LET q == tab[t] IN
    /\ q.at = "opened" /\ Promotable(q.guest)
    /\ sessions[q.session].kind = "USER"
    /\ carts' = Moved(q.guest, q.session)
    /\ Goes(t, [q EXCEPT !.at = "promoted"])
    /\ UNCHANGED <<sessions, client, kept, disturbed>>

(* The reservations of a cart given up are released: nobody is told that   *)
(* its items are kept any more.                                            *)
Released(s) ==
    /\ carts' = [carts EXCEPT ![s] = {}]
    /\ kept' = [b \in Browsers |-> kept[b] \ carts[s]]

(* Releasing and closing the cart are two commits; a cart without          *)
(* reservations is none here.                                              *)
ReleaseCart(t) ==
    LET q == tab[t] IN
    /\ q.at = "opened" /\ Promotable(q.guest)
    /\ sessions[q.session].kind = "ADMIN"
    /\ Released(q.guest)
    /\ Goes(t, [q EXCEPT !.at = "promoted"])
    /\ UNCHANGED <<sessions, client, disturbed>>

RevokeGuest(t) ==
    /\ tab[t].at = "promoted"
    /\ sessions' = [sessions EXCEPT ![tab[t].guest].state = "REVOKED"]
    /\ Goes(t, [tab[t] EXCEPT !.at = "served"])
    /\ UNCHANGED <<carts, client, kept, disturbed>>

(* The answer clears the cookie, whether a guest was promoted or not.      *)
ClearCartCookieKept == Same   \* mutant: the guest's cookie is left
ClearCartCookie == None

AnswerLogin(t) ==
    /\ tab[t].at = "served"
    /\ Goes(t, [Answer(tab[t].browser, ClearCartCookie) EXCEPT !.bearer = tab[t].session])
    /\ UNCHANGED <<server, client, kept, disturbed>>

(* Logout releases the cart and, in a second commit that may fail, revokes *)
(* the session; one already revoked it leaves alone.  The guest's cookie   *)
(* stays, and the client told of success forgets its token.                *)
Logout(t) ==
    LET q == tab[t]
        Succeed == Goes(t, [Answer(q.browser, Same) EXCEPT !.bearer = None])
    IN
    /\ q.at = "sent" /\ q.op = "logout"
    /\ \/ /\ sessions[q.bearer].state = "REVOKED"
          /\ Succeed
          /\ UNCHANGED <<server, kept>>
       \/ /\ sessions[q.bearer].state # "REVOKED"
          /\ Released(q.bearer)
          /\ \/ sessions' = [sessions EXCEPT ![q.bearer].state = "REVOKED"] /\ Succeed
             \/ Goes(t, Answer(q.browser, Same)) /\ UNCHANGED sessions
    /\ UNCHANGED <<client, disturbed>>

(* Checkout is for the bearer's session; when that has no cart it takes    *)
(* over the one of the guest's cookie.  (The order is Checkout's.)         *)
Checkout(t) ==
    LET q == tab[t] IN
    /\ q.at = "sent" /\ q.op = "checkout"
    /\ Goes(t, Answer(q.browser, Same))
    /\ carts' = IF /\ q.bearer # None /\ sessions[q.bearer].kind = "USER"
                   /\ sessions[q.bearer].state # "REVOKED" /\ carts[q.bearer] = {}
                   /\ LiveGuest(q.cookie)
                THEN Moved(q.cookie, q.bearer) ELSE carts
    /\ UNCHANGED <<sessions, client, kept, disturbed>>

(* A request may fail wherever it is.  A login that fails once the cart    *)
(* has moved leaves it to a session that nobody will know.                 *)
Stranded(q) == q.at \in {"promoted", "served"} /\ carts[q.session] # {}

RequestFails(t) ==
    LET q == tab[t] IN
    /\ q.at \notin {"idle", "answered"}
    /\ Goes(t, Answer(q.browser, IF q.at = "resolved" THEN CookieOf(q) ELSE Same))
    /\ disturbed' = disturbed \union {b \in {q.browser} : Stranded(q)}
    /\ UNCHANGED <<server, client, kept>>

-----------------------------------------------------------------------------
(* The browser stores what the answer sets.                                *)
Stored(old, new) == IF new = Same THEN old ELSE new

Deliver(t) ==
    LET q == tab[t]
        b == q.browser
    IN
    /\ q.at = "answered"
    /\ jar' = [jar EXCEPT ![b] = [cookie |-> Stored(@.cookie, q.cookie),
                                  bearer |-> Stored(@.bearer, q.bearer)]]
    /\ given' = [given EXCEPT ![b] = @ \union ({q.cookie, q.bearer} \ {None, Same})]
    /\ kept' = [kept EXCEPT ![b] = @ \union {i \in q.items : \E s \in Sessions : i \in carts[s]}]
    /\ Goes(t, Idle)
    /\ UNCHANGED <<server, disturbed>>

Lose(t) ==
    /\ tab[t].at = "answered"
    /\ disturbed' = disturbed \union {tab[t].browser}
    /\ Goes(t, Idle)
    /\ UNCHANGED <<server, client, kept>>

(* A cookie's date is set once, when its session is created, ten minutes   *)
(* ahead; the session's is put off by every request.                       *)
CookieLapses(b) ==
    /\ jar[b].cookie # None
    /\ jar' = [jar EXCEPT ![b].cookie = None]
    /\ disturbed' = disturbed \union {b}
    /\ UNCHANGED <<server, given, tab, kept>>

(* The client gives a token up that is answered 401 or 410.                *)
ForgetToken(b) ==
    /\ jar[b].bearer # None /\ InFlight(b) = {} /\ ~Live(jar[b].bearer)
    /\ jar' = [jar EXCEPT ![b].bearer = None]
    /\ UNCHANGED <<server, given, tab, kept, disturbed>>

(* With the session go its cart's reservations.  Ten minutes without a     *)
(* request are longer than a login: the session it opens does not expire   *)
(* before its end.                                                         *)
LoginOver(s) == \A t \in Tabs : tab[t].at \in {"opened", "promoted", "served"} => tab[t].session # s
SessionExpires(s) ==
    /\ Live(s) /\ LoginOver(s)
    /\ sessions' = [sessions EXCEPT ![s].state = "EXPIRED"]
    /\ Released(s)
    /\ UNCHANGED <<client, tab, disturbed>>

Next ==
    \/ \E t \in Tabs :
          \/ Send(t) \/ ResolveCookie(t) \/ ResolveBearer(t) \/ CreateGuestSession(t)
          \/ RefuseKey(t) \/ ServeExpired(t) \/ Serve(t) \/ ServeAdd(t)
          \/ OpenUserSession(t) \/ NoGuest(t) \/ TransferCart(t) \/ ReleaseCart(t)
          \/ RevokeGuest(t) \/ AnswerLogin(t)
          \/ Logout(t) \/ Checkout(t) \/ RequestFails(t) \/ Deliver(t) \/ Lose(t)
    \/ \E b \in Browsers : CookieLapses(b) \/ ForgetToken(b)
    \/ \E s \in Sessions : SessionExpires(s)

Spec == Init /\ [][Next]_vars

-----------------------------------------------------------------------------
(* No two browsers ever hold, or are about to be given, one session: two   *)
(* visitors never share a cart, however their first requests overlap.      *)
Held(b) ==
    ({jar[b].cookie, jar[b].bearer}
     \union {tab[t].session : t \in {u \in InFlight(b) : tab[u].at \in {"resolved", "opened", "promoted", "served"}}}
     \union UNION {{tab[t].cookie, tab[t].bearer} : t \in {u \in InFlight(b) : tab[u].at = "answered"}})
    \ {None, Same}
VisitorsNeverShareACart == \A a, b \in Browsers : a # b => Held(a) \intersect Held(b) = {}

(* A visitor who has logged in is served with his own session: the guest's *)
(* cookie, which goes before the token, is gone for good -- unless requests*)
(* overlapped, when a late answer brings one back.                         *)
OwnCartAfterLogin == \A b \in Browsers :
    b \notin disturbed /\ jar[b].bearer # None => jar[b].cookie = None

(* What a visitor was told is in his cart stays in the cart he is shown,   *)
(* through a customer's login too, however many of its steps are taken     *)
(* when it fails before the cart moves -- unless requests overlapped, an   *)
(* answer was lost, the cookie lapsed, a login named another session than  *)
(* the cookie's, or failed after the cart had moved.  The items end with   *)
(* their session's expiry or logout, and when an administrator logs in.    *)
AcknowledgedItemsStay == \A b \in Browsers :
    b \notin disturbed /\ InFlight(b) = {} /\ kept[b] # {} =>
        Current(b) # None /\ kept[b] \subseteq carts[Current(b)]

(* Login keeps the guest's cart for the customer (login.use-case.ts:33-34) *)
(* -- by the code it does not when it fails after the cart has moved.      *)
FailedLoginKeepsCart == [][\A t \in Tabs : RequestFails(t) => ~Stranded(tab[t])]_vars
=============================================================================

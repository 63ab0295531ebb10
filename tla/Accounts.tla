------------------------------ MODULE Accounts ------------------------------
(***************************************************************************)
(* Accounts and the sessions opened for them (src/modules/identity):       *)
(* registration, login with the promotion of a guest's cart, refresh,      *)
(* logout, change of password and of profile, the mailed reset, and the    *)
(* first administrator, whom every replica tries to create as it starts.   *)
(*                                                                         *)
(* Login, registration, refresh and logout are statements that commit one  *)
(* by one.  The password and profile changes are SERIALIZABLE units of     *)
(* work: each fixes a snapshot first, and PostgreSQL refuses its writes to *)
(* rows that another transaction has changed since.                        *)
(***************************************************************************)
EXTENDS Integers, FiniteSets

CONSTANTS
    Requests,       \* HTTP requests and starting replicas, each served once
    Emails,         \* addresses, one account each
    InitialAdmin,   \* INITIAL_ADMIN_EMAIL
    Customers,      \* accounts registered before
    Secrets,        \* passwords people use
    Names,          \* bodies of a profile update
    Keys,           \* idempotency keys
    Sessions,       \* ids of sessions
    Guests,         \* sessions of shoppers who have not logged in
    Carts,          \* ids of carts
    Tokens,         \* password reset tokens
    MailedTokens    \* those in the customers' mail at the start

ASSUME AccountsAssumption == InitialAdmin \in Emails /\ Customers \subseteq Emails
ASSUME SessionsAssumption ==
    Sessions \subseteq Nat \ {0} /\ IsFiniteSet(Sessions) /\ Guests \subseteq Sessions
ASSUME TokensAssumption == Tokens \subseteq Nat /\ MailedTokens \subseteq Tokens
ASSUME CartsAssumption == Carts \subseteq Nat \ {0}

VARIABLES
    users,          \* [Emails -> account row]
    sessions,       \* [Sessions -> session row]
    carts,          \* [Carts -> the session it belongs to, and its status]
    resetTokens,    \* [Tokens -> password_reset_tokens row]
    worked,         \* history: how many passwords each token has set
    records,        \* idempotency_records of the two scopes of a user
    req             \* where each request stands, and what it has read

tables == <<users, sessions, carts, resetTokens, worked, records>>
vars == <<tables, req>>

-----------------------------------------------------------------------------
(* Rows.  rev is the row's version: PostgreSQL's own, which every UPDATE   *)
(* replaces.  gen names the refresh token of a session, fresh at every     *)
(* rotation.                                                               *)
NoSession == 0
NoCart == 0
Nobody == "nobody"
Guest == "guest"
ASSUME NamesAssumption == Nobody \notin Emails /\ Guest \notin Emails

NoUser == [role |-> "none", secret |-> "none", mustChange |-> FALSE, rev |-> 0]
UserRow == {NoUser}
    \union [role: {"cliente"}, secret: Secrets, mustChange: {FALSE}, rev: Nat]
    \union [role: {"admin"}, secret: Secrets, mustChange: BOOLEAN, rev: Nat]
Exists(e) == users[e] # NoUser

SessionRow ==
    [owner: Emails \union {Guest, Nobody}, gen: Nat, revoked: BOOLEAN, expired: BOOLEAN]
OwnedBy(o) == [owner |-> o, gen |-> 0, revoked |-> FALSE, expired |-> FALSE]

Bodies == (Secrets \X Secrets) \union {<<n>> : n \in Names}
Record == [op: {"change", "profile"}, actor: Emails, key: Keys, body: Bodies]
RecordsOf(op, e, k) == {x \in records : x.op = op /\ x.actor = e /\ x.key = k}

CreatedUser(role, secret) ==
    [role |-> role, secret |-> secret, mustChange |-> role = "admin", rev |-> 0]
WithPassword(e, secret) ==
    [users EXCEPT ![e].secret = secret, ![e].mustChange = FALSE, ![e].rev = @ + 1]
WithProfile(e) == [users EXCEPT ![e].rev = @ + 1]

Opened(s, e) == [sessions EXCEPT ![s] = OwnedBy(e)]
RotatedRevived(s) ==            \* mutant: rotation rewrites the whole row
    [sessions EXCEPT ![s].gen = @ + 1, ![s].expired = FALSE, ![s].revoked = FALSE]
Rotated(s) == [sessions EXCEPT ![s].gen = @ + 1, ![s].expired = FALSE]
Revoked(S) == [s \in Sessions |->
    IF s \in S THEN [sessions[s] EXCEPT !.revoked = TRUE] ELSE sessions[s]]

UnrevokedOf(e) == {s \in Sessions : sessions[s].owner = e /\ ~sessions[s].revoked}

CartOf(s) == IF \E c \in Carts : carts[c].owner = s
             THEN CHOOSE c \in Carts : carts[c].owner = s ELSE NoCart

LiveTokens(e) == {t \in Tokens : resetTokens[t].state = "LIVE" /\ resetTokens[t].owner = e}
SpentToken(t) == [resetTokens EXCEPT ![t].state = "USED"]
NewTokenBeside(t, e) ==         \* mutant: the earlier ones are left alone
    [u \in Tokens |->
        IF u = t THEN [owner |-> e, state |-> "LIVE", expired |-> FALSE, mailed |-> FALSE]
        ELSE resetTokens[u]]
NewToken(t, e) ==
    [u \in Tokens |->
        IF u = t THEN [owner |-> e, state |-> "LIVE", expired |-> FALSE, mailed |-> FALSE]
        ELSE IF u \in LiveTokens(e) THEN [resetTokens[u] EXCEPT !.state = "USED"]
        ELSE resetTokens[u]]

-----------------------------------------------------------------------------
(* What a request remembers.                                               *)
Idle == [at |-> "idle"]

Snapshot == [user: Nat, rows: SUBSET [id: Sessions, row: SessionRow]]

Promoting == [at: {"verified", "opened", "promoting", "revoking"}, op: {"login", "register"},
    email: Emails, guest: Guests \union {NoSession}, own: Sessions \union {NoSession},
    cart: Carts \union {NoCart}]
Keyed == [at: {"changing", "editing"}, own: Sessions, email: Emails, key: Keys, body: Bodies]
Writing == [at: {"changing-tx", "editing-tx"}, own: Sessions, email: Emails, key: Keys,
    body: Bodies, snap: Snapshot]
Simple ==
    [at: {"hashed"}, email: Emails, secret: Secrets, guest: Guests \union {NoSession}]
    \union [at: {"rotating", "leaving"}, own: Sessions]
    \union [at: {"asking", "bootstrapping"}, email: Emails]
    \union [at: {"asking-tx"}, email: Emails, seen: SUBSET Tokens]
    \union [at: {"mailing"}, email: Emails, token: Tokens]
Resetting ==
    [at: {"resetting"}, token: Tokens, secret: Secrets]
    \union [at: {"resetting-tx"}, token: Tokens, secret: Secrets, snap: Snapshot]

Codes == {"OK", "CHANGED", "REPLAY", "INVALID_CREDENTIALS", "EMAIL_ALREADY_REGISTERED",
    "AUTHENTICATION_REQUIRED", "IDEMPOTENCY_KEY_REUSED", "CURRENT_PASSWORD_INVALID",
    "PASSWORD_RESET_TOKEN_INVALID_OR_EXPIRED", "TECHNICAL_DEPENDENCY_FAILURE"}
Answered ==
    [at: {"done"}, answer: Codes]
    \union [at: {"done"}, answer: Codes, op: {"change", "profile"}, email: Emails,
            key: Keys, body: Bodies]
    \union [at: {"done"}, answer: Codes, guest: Guests, cart: Carts \union {NoCart}]
    \union [at: {"done"}, answer: Codes, token: Tokens]

RequestState ==
    {Idle} \union Promoting \union Keyed \union Writing \union Simple \union Resetting
    \union Answered

Goes(r, state) == req' = [req EXCEPT ![r] = state]
Answers(r, code) == Goes(r, [at |-> "done", answer |-> code])
AnswersKeyed(r, op, e, k, body, code) ==
    Goes(r, [at |-> "done", answer |-> code, op |-> op, email |-> e, key |-> k, body |-> body])

TypeOK ==
    /\ users \in [Emails -> UserRow]
    /\ sessions \in [Sessions -> SessionRow]
    /\ carts \in [Carts -> [owner: Sessions \union {NoSession}, status: {"ACTIVE", "CLOSED"}]]
    /\ resetTokens \in [Tokens -> [owner: Emails, state: {"UNISSUED", "LIVE", "USED"},
                                   expired: BOOLEAN, mailed: BOOLEAN]]
    /\ worked \in [Tokens -> Nat]
    /\ records \subseteq Record
    /\ req \in [Requests -> RequestState]

(* Some customers have registered and have one session each; some guests   *)
(* have a session; one customer's mail holds a reset token.                *)
Init ==
    /\ users \in [Emails -> {NoUser} \union {CreatedUser("cliente", s) : s \in Secrets}]
    /\ {e \in Emails : Exists(e)} = Customers
    /\ sessions \in [Sessions -> {OwnedBy(o) : o \in Customers \union {Guest, Nobody}}]
    /\ {s \in Sessions : sessions[s].owner = Guest} = Guests
    /\ \A e \in Customers : Cardinality(UnrevokedOf(e)) = 1
    /\ \A s, t \in Sessions : s < t /\ sessions[s].owner = Nobody => sessions[t].owner = Nobody
    /\ carts = [c \in Carts |-> [owner |-> NoSession, status |-> "ACTIVE"]]
    /\ resetTokens \in [Tokens -> {[owner |-> o, state |-> x, expired |-> FALSE, mailed |-> x = "LIVE"] :
                                   o \in Customers, x \in {"UNISSUED", "LIVE"}}]
    /\ {t \in Tokens : resetTokens[t].mailed} = MailedTokens
    /\ \A e \in Customers : \A t, u \in LiveTokens(e) : t = u
    /\ worked = [t \in Tokens |-> 0]
    /\ records = {}
    /\ req = [r \in Requests |-> Idle]

-----------------------------------------------------------------------------
(* Login and registration: every step a statement of its own.              *)
FreshSession == {s \in Sessions : sessions[s].owner = Nobody}

VerifyLogin(r) == \E e \in Emails, pw \in Secrets, g \in Guests \union {NoSession} :
    /\ req[r] = Idle
    /\ IF Exists(e) /\ users[e].secret = pw
       THEN Goes(r, [at |-> "verified", op |-> "login", email |-> e, guest |-> g,
                     own |-> NoSession, cart |-> NoCart])
       ELSE Answers(r, "INVALID_CREDENTIALS")
    /\ UNCHANGED tables

CheckEmail(r) == \E e \in Emails, pw \in Secrets, g \in Guests \union {NoSession} :
    /\ req[r] = Idle
    /\ IF Exists(e) THEN Answers(r, "EMAIL_ALREADY_REGISTERED")
       ELSE Goes(r, [at |-> "hashed", email |-> e, secret |-> pw, guest |-> g])
    /\ UNCHANGED tables

(* UNIQUE(lower(email)) refuses an address taken since it was looked for.  *)
CreateUser(r) ==
    /\ req[r].at = "hashed"
    /\ IF Exists(req[r].email)
       THEN Answers(r, "TECHNICAL_DEPENDENCY_FAILURE") /\ UNCHANGED users
       ELSE /\ users' = [users EXCEPT ![req[r].email] = CreatedUser("cliente", req[r].secret)]
            /\ Goes(r, [at |-> "verified", op |-> "register", email |-> req[r].email,
                        guest |-> req[r].guest, own |-> NoSession, cart |-> NoCart])
    /\ UNCHANGED <<sessions, carts, resetTokens, worked, records>>

OpenSession(r) == \E s \in FreshSession :
    /\ req[r].at = "verified"
    /\ \A t \in FreshSession : s <= t
    /\ sessions' = Opened(s, req[r].email)
    /\ IF req[r].guest = NoSession THEN Answers(r, "OK")
       ELSE Goes(r, [req[r] EXCEPT !.at = "opened", !.own = s])
    /\ UNCHANGED <<users, carts, resetTokens, worked, records>>

ReadGuest(r) ==
    /\ req[r].at = "opened"
    /\ IF sessions[req[r].guest].revoked THEN Answers(r, "OK")
       ELSE Goes(r, [req[r] EXCEPT !.at = "promoting", !.cart = CartOf(req[r].guest)])
    /\ UNCHANGED tables

(* A customer's session takes over the guest's cart; an administrator has  *)
(* no cart, and the guest's is closed (its reservations are released in    *)
(* CartReservation).                                                       *)
Transferred(g, s) ==
    [c \in Carts |-> IF carts[c].owner = g THEN [carts[c] EXCEPT !.owner = s] ELSE carts[c]]
ClosedOf(g) ==
    [c \in Carts |-> IF carts[c].owner = g THEN [carts[c] EXCEPT !.status = "CLOSED"] ELSE carts[c]]

PromoteEmptyHanded(r) ==        \* mutant: the cart stays when the account has one
    /\ req[r].at = "promoting"
    /\ carts' = IF \E s \in Sessions : sessions[s].owner = req[r].email /\ CartOf(s) # NoCart
                THEN carts ELSE Transferred(req[r].guest, req[r].own)
    /\ Goes(r, [req[r] EXCEPT !.at = "revoking"])
    /\ UNCHANGED <<users, sessions, resetTokens, worked, records>>
PromoteCart(r) ==
    /\ req[r].at = "promoting"
    /\ carts' = IF users[req[r].email].role = "admin" THEN ClosedOf(req[r].guest)
                ELSE Transferred(req[r].guest, req[r].own)
    /\ Goes(r, [req[r] EXCEPT !.at = "revoking"])
    /\ UNCHANGED <<users, sessions, resetTokens, worked, records>>

RevokeGuest(r) ==
    /\ req[r].at = "revoking"
    /\ sessions' = Revoked({req[r].guest})
    /\ Goes(r, [at |-> "done", answer |-> "OK", guest |-> req[r].guest, cart |-> req[r].cart])
    /\ UNCHANGED <<users, carts, resetTokens, worked, records>>

-----------------------------------------------------------------------------
(* Refresh and logout.  A cookie holds the token of some earlier rotation. *)
FindRefreshToken(r) == \E s \in Sessions, gen \in 0..1 :
    /\ req[r] = Idle
    /\ sessions[s].owner # Nobody
    /\ IF /\ sessions[s].gen = gen /\ ~sessions[s].revoked /\ ~sessions[s].expired
          /\ sessions[s].owner # Guest
       THEN Goes(r, [at |-> "rotating", own |-> s])
       ELSE Answers(r, "AUTHENTICATION_REQUIRED")
    /\ UNCHANGED tables

Rotate(r) ==
    /\ req[r].at = "rotating"
    /\ sessions' = Rotated(req[r].own)
    /\ Answers(r, "OK")
    /\ UNCHANGED <<users, carts, resetTokens, worked, records>>

(* The access token of a guarded operation is checked by its signature and *)
(* age alone, so the session may be revoked or expired by now.             *)
Bearers == {s \in Sessions : sessions[s].owner \in Emails}

FindSession(r) == \E s \in Bearers :
    /\ req[r] = Idle
    /\ IF sessions[s].revoked THEN Answers(r, "OK") ELSE Goes(r, [at |-> "leaving", own |-> s])
    /\ UNCHANGED tables

Leave(r) ==
    /\ req[r].at = "leaving"
    /\ sessions' = Revoked({req[r].own})
    /\ Answers(r, "OK")
    /\ UNCHANGED <<users, carts, resetTokens, worked, records>>

-----------------------------------------------------------------------------
(* The keyed operations.  "rows" are the session rows that a transaction   *)
(* means to write; it fails when one of them, or the account's, has been   *)
(* written by another since its snapshot.                                  *)
TakenSnapshot(e, S) ==
    [user |-> users[e].rev, rows |-> {[id |-> s, row |-> sessions[s]] : s \in S}]
RowsUnchanged(rows) ==      \* that a session expires writes nothing
    \A x \in rows : sessions[x.id] = [x.row EXCEPT !.expired = sessions[x.id].expired]
SnapshotHolds(e, snap) == users[e].rev = snap.user /\ RowsUnchanged(snap.rows)
RowIds(snap) == {x.id : x \in snap.rows}

Recorded(op, e, k) == RecordsOf(op, e, k) # {}
RecordedBody(op, e, k) == (CHOOSE x \in RecordsOf(op, e, k) : TRUE).body
AnswersFromRecord(r, op, e, k, body) ==
    AnswersKeyed(r, op, e, k, body,
        IF RecordedBody(op, e, k) = body THEN "REPLAY" ELSE "IDEMPOTENCY_KEY_REUSED")
Saved(op, e, k, body) == records \union {[op |-> op, actor |-> e, key |-> k, body |-> body]}

(* body[1] is the current password, body[2] the new one.                   *)
ChangePassword(r) == \E s \in Bearers, k \in Keys, body \in Secrets \X Secrets :
    LET e == sessions[s].owner IN
    /\ req[r] = Idle
    /\ CASE Recorded("change", e, k) -> AnswersFromRecord(r, "change", e, k, body)
         [] ~Recorded("change", e, k) /\ users[e].secret # body[1] ->
                Answers(r, "CURRENT_PASSWORD_INVALID")
         [] OTHER -> Goes(r, [at |-> "changing", own |-> s, email |-> e, key |-> k, body |-> body])
    /\ UNCHANGED tables

BeginChange(r) ==
    /\ req[r].at = "changing"
    /\ LET q == req[r] IN
       IF Recorded("change", q.email, q.key)
       THEN AnswersFromRecord(r, "change", q.email, q.key, q.body)
       ELSE Goes(r, [at |-> "changing-tx", own |-> q.own, email |-> q.email, key |-> q.key,
                body |-> q.body,
                snap |-> TakenSnapshot(q.email, UnrevokedOf(q.email) \union {q.own})])
    /\ UNCHANGED tables

(* UNIQUE(scope, key) refuses a second record.                             *)
ChangeCommitsUpserted(q) == TRUE    \* mutant: READ COMMITTED, the record upserted
ChangeCommits(q) ==
    SnapshotHolds(q.email, q.snap) /\ ~Recorded("change", q.email, q.key)

CommitChange(r) ==
    /\ req[r].at = "changing-tx"
    /\ LET q == req[r] IN
       IF ChangeCommits(q)
       THEN /\ users' = WithPassword(q.email, q.body[2])
            /\ sessions' = [s \in Sessions |->
                  IF s = q.own THEN Rotated(s)[s] ELSE Revoked(RowIds(q.snap))[s]]
            /\ records' = Saved("change", q.email, q.key, q.body)
            /\ AnswersKeyed(r, "change", q.email, q.key, q.body, "CHANGED")
       ELSE Answers(r, "TECHNICAL_DEPENDENCY_FAILURE") /\ UNCHANGED <<users, sessions, records>>
    /\ UNCHANGED <<carts, resetTokens, worked>>

BeginProfile(r) == \E s \in Bearers, k \in Keys, n \in Names :
    LET e == sessions[s].owner IN
    /\ req[r] = Idle
    /\ IF Recorded("profile", e, k) THEN AnswersFromRecord(r, "profile", e, k, <<n>>)
       ELSE Goes(r, [at |-> "editing-tx", own |-> s, email |-> e, key |-> k, body |-> <<n>>,
                     snap |-> TakenSnapshot(e, {})])
    /\ UNCHANGED tables

CommitProfile(r) ==
    /\ req[r].at = "editing-tx"
    /\ LET q == req[r] IN
       IF SnapshotHolds(q.email, q.snap) /\ ~Recorded("profile", q.email, q.key)
       THEN /\ users' = WithProfile(q.email)
            /\ records' = Saved("profile", q.email, q.key, q.body)
            /\ AnswersKeyed(r, "profile", q.email, q.key, q.body, "CHANGED")
       ELSE Answers(r, "TECHNICAL_DEPENDENCY_FAILURE") /\ UNCHANGED <<users, records>>
    /\ UNCHANGED <<sessions, carts, resetTokens, worked>>

-----------------------------------------------------------------------------
(* The mailed reset.                                                       *)
RequestReset(r) == \E e \in Emails :
    /\ req[r] = Idle
    /\ IF Exists(e) THEN Goes(r, [at |-> "asking", email |-> e]) ELSE Answers(r, "OK")
    /\ UNCHANGED tables

BeginRequestReset(r) ==
    /\ req[r].at = "asking"
    /\ Goes(r, [at |-> "asking-tx", email |-> req[r].email, seen |-> LiveTokens(req[r].email)])
    /\ UNCHANGED tables

(* UNIQUE(user_id) WHERE used_at IS NULL, and the rows written since.      *)
IssueCommits(q) == LiveTokens(q.email) = q.seen

CommitRequestReset(r) ==
    /\ req[r].at = "asking-tx"
    /\ LET q == req[r] IN
       IF IssueCommits(q)
       THEN \E t \in Tokens :
               /\ resetTokens[t].state = "UNISSUED"
               /\ \A u \in Tokens : resetTokens[u].state = "UNISSUED" => t <= u
               /\ resetTokens' = NewToken(t, q.email)
               /\ Goes(r, [at |-> "mailing", email |-> q.email, token |-> t])
       ELSE Answers(r, "TECHNICAL_DEPENDENCY_FAILURE") /\ UNCHANGED resetTokens
    /\ UNCHANGED <<users, sessions, carts, worked, records>>

(* A mail that cannot be sent is not reported.                             *)
Mail(r) == \E sent \in BOOLEAN :
    /\ req[r].at = "mailing"
    /\ resetTokens' = [resetTokens EXCEPT ![req[r].token].mailed = sent]
    /\ Answers(r, "OK")
    /\ UNCHANGED <<users, sessions, carts, worked, records>>

FindResetToken(r) == \E t \in Tokens, pw \in Secrets :
    /\ req[r] = Idle
    /\ resetTokens[t].mailed
    /\ IF resetTokens[t].state = "LIVE" /\ ~resetTokens[t].expired
       THEN Goes(r, [at |-> "resetting", token |-> t, secret |-> pw])
       ELSE Answers(r, "PASSWORD_RESET_TOKEN_INVALID_OR_EXPIRED")
    /\ UNCHANGED tables

BeginReset(r) ==
    /\ req[r].at = "resetting"
    /\ LET q == req[r]
           e == resetTokens[q.token].owner
       IN IF resetTokens[q.token].state = "USED"
          THEN Answers(r, "PASSWORD_RESET_TOKEN_INVALID_OR_EXPIRED")
          ELSE Goes(r, [at |-> "resetting-tx", token |-> q.token, secret |-> q.secret,
                        snap |-> TakenSnapshot(e, UnrevokedOf(e))])
    /\ UNCHANGED tables

(* A conflict on the token's row is thrown; one on the account or on a     *)
(* session comes back as a value that is not looked at, so the transaction *)
(* that PostgreSQL has aborted is committed, which rolls it back, and the  *)
(* answer is OK.                                                           *)
ConsumesAny(q) == TRUE          \* mutant: UPDATE ... WHERE id, without used_at IS NULL
Consumes(q) == resetTokens[q.token].state = "LIVE"

CommitReset(r) ==
    /\ req[r].at = "resetting-tx"
    /\ LET q == req[r]
           e == resetTokens[q.token].owner
       IN CASE ~Consumes(q) ->
                 /\ Answers(r, "TECHNICAL_DEPENDENCY_FAILURE")
                 /\ UNCHANGED <<users, sessions, resetTokens, worked>>
            [] Consumes(q) /\ SnapshotHolds(e, q.snap) ->
                 /\ users' = WithPassword(e, q.secret)
                 /\ sessions' = Revoked(RowIds(q.snap))
                 /\ resetTokens' = SpentToken(q.token)
                 /\ worked' = [worked EXCEPT ![q.token] = @ + 1]
                 /\ Goes(r, [at |-> "done", answer |-> "OK", token |-> q.token])
            [] OTHER ->
                 /\ Goes(r, [at |-> "done", answer |-> "OK", token |-> q.token])
                 /\ UNCHANGED <<users, sessions, resetTokens, worked>>
    /\ UNCHANGED <<carts, records>>

-----------------------------------------------------------------------------
(* A replica that starts.                                                  *)
ReadInitialAdmin(r) ==
    /\ req[r] = Idle
    /\ CASE ~Exists(InitialAdmin) -> Goes(r, [at |-> "bootstrapping", email |-> InitialAdmin])
         [] users[InitialAdmin].role = "admin" -> Answers(r, "OK")
         [] OTHER -> Answers(r, "TECHNICAL_DEPENDENCY_FAILURE")
    /\ UNCHANGED tables

CreateInitialAdmin(r) == \E pw \in Secrets :
    /\ req[r].at = "bootstrapping"
    /\ IF Exists(InitialAdmin)
       THEN Answers(r, "TECHNICAL_DEPENDENCY_FAILURE") /\ UNCHANGED users
       ELSE Answers(r, "OK") /\ users' = [users EXCEPT ![InitialAdmin] = CreatedUser("admin", pw)]
    /\ UNCHANGED <<sessions, carts, resetTokens, worked, records>>

(* A statement fails or the process dies: what has committed stays.        *)
RequestFails(r) ==
    /\ req[r].at \notin {"idle", "done"}
    /\ Answers(r, "TECHNICAL_DEPENDENCY_FAILURE")
    /\ UNCHANGED tables

-----------------------------------------------------------------------------
SessionExpires == \E s \in Sessions :
    /\ sessions[s].owner # Nobody /\ ~sessions[s].expired
    /\ sessions' = [sessions EXCEPT ![s].expired = TRUE]
    /\ UNCHANGED <<users, carts, resetTokens, worked, records, req>>

TokenExpires == \E t \in Tokens :
    /\ resetTokens[t].state = "LIVE" /\ ~resetTokens[t].expired
    /\ resetTokens' = [resetTokens EXCEPT ![t].expired = TRUE]
    /\ UNCHANGED <<users, sessions, carts, worked, records, req>>

(* The first item of a session without a cart creates one.                 *)
OpenCart == \E s \in Sessions, c \in Carts :
    /\ sessions[s].owner # Nobody /\ ~sessions[s].revoked /\ ~sessions[s].expired
    /\ sessions[s].owner \in Emails => users[sessions[s].owner].role # "admin"
    /\ CartOf(s) = NoCart
    /\ carts[c].owner = NoSession
    /\ \A d \in Carts : carts[d].owner = NoSession => c <= d
    /\ carts' = [carts EXCEPT ![c].owner = s]
    /\ UNCHANGED <<users, sessions, resetTokens, worked, records, req>>

Login(r) == VerifyLogin(r) \/ OpenSession(r) \/ ReadGuest(r) \/ PromoteCart(r) \/ RevokeGuest(r)
Register(r) == CheckEmail(r) \/ CreateUser(r)
Refresh(r) == FindRefreshToken(r) \/ Rotate(r)
Logout(r) == FindSession(r) \/ Leave(r)
Change(r) == ChangePassword(r) \/ BeginChange(r) \/ CommitChange(r)
Profile(r) == BeginProfile(r) \/ CommitProfile(r)
AskReset(r) == RequestReset(r) \/ BeginRequestReset(r) \/ CommitRequestReset(r) \/ Mail(r)
Reset(r) == FindResetToken(r) \/ BeginReset(r) \/ CommitReset(r)
Bootstrap(r) == ReadInitialAdmin(r) \/ CreateInitialAdmin(r)

Next ==
    \/ \E r \in Requests :
          \/ Login(r) \/ Register(r) \/ Refresh(r) \/ Logout(r) \/ Change(r) \/ Profile(r)
          \/ AskReset(r) \/ Reset(r) \/ Bootstrap(r) \/ RequestFails(r)
    \/ SessionExpires \/ TokenExpires \/ OpenCart

Spec == Init /\ [][Next]_vars

-----------------------------------------------------------------------------
(* Of all the reset tokens of a customer one works, requests for another   *)
(* replace it, and each sets one password at most and none once it was     *)
(* replaced, whatever resets and requests overlap.                         *)
ResetTokens == INSTANCE OneTimeToken WITH
    Holders <- Emails,
    status <- [t \in Tokens |->
        CASE resetTokens[t].state = "UNISSUED" -> "unissued"
          [] resetTokens[t].state = "LIVE" -> "live"
          [] resetTokens[t].state = "USED" -> "dead"],
    holder <- [t \in Tokens |-> resetTokens[t].owner],
    uses <- worked

ResetTokensAreOneTime == ResetTokens!Spec

(* A logout, a password change or a promoted login is final: a refresh     *)
(* that found the session before does not bring it back.                   *)
RevocationIsFinal ==
    [][\A s \in Sessions : sessions[s].revoked => sessions'[s].revoked]_vars

(* An address is taken once: neither a registration that lost the race nor *)
(* a starting replica changes the role or the password of an account.      *)
(* Every replaced password is accounted for by an idempotency record or a  *)
(* reset token that the same step used up.  (It need not be the password   *)
(* that the change verified: that is read before the transaction, and a    *)
(* reset that commits in between is overwritten.)                          *)
PasswordChangesAreAccounted ==
    [][\A e \in Emails :
          /\ Exists(e) => users'[e].role = users[e].role
          /\ Exists(e) /\ users'[e].secret # users[e].secret =>
               \/ \E x \in records' \ records :
                     x.op = "change" /\ x.actor = e /\ x.body[2] = users'[e].secret
               \/ \E t \in LiveTokens(e) : resetTokens'[t].state = "USED"]_vars

(* Whatever the answers of one actor's requests with one key say, the      *)
(* effect they report (CHANGED) or repeat (REPLAY) is that of one body,    *)
(* and it happened at most once.                                           *)
Effective(q) == q.at = "done" /\ q.answer \in {"CHANGED", "REPLAY"}
OneEffectPerKey == \A a, b \in Requests :
    /\ Effective(req[a]) /\ Effective(req[b])
    /\ req[a].op = req[b].op /\ req[a].email = req[b].email /\ req[a].key = req[b].key
    => /\ req[a].body = req[b].body
       /\ req[a].answer = "CHANGED" /\ req[b].answer = "CHANGED" => a = b

(* When a login with a guest's cookie is answered, the cart that guest had *)
(* is in a session of an account, or is closed: it is never left behind in *)
(* the session just revoked.                                               *)
Promoted(q) == q.at = "done" /\ "guest" \in DOMAIN q
PromotedCartIsNotLost == \A r \in Requests :
    Promoted(req[r]) /\ req[r].cart # NoCart =>
        /\ sessions[req[r].guest].revoked
        /\ \/ carts[req[r].cart].status = "CLOSED"
           \/ sessions[carts[req[r].cart].owner].owner \in Emails

(* Comment of the reset's unit of work (prisma-reset-password-unit-of-     *)
(* work.adapter.ts:9-16): the token's use, the password and the sessions   *)
(* are one transaction.  So a reset that answers 204 has used its token.   *)
ResetTellsTruth == \A r \in Requests :
    req[r].at = "done" /\ req[r].answer = "OK" /\ "token" \in DOMAIN req[r] =>
        resetTokens[req[r].token].state = "USED"
=============================================================================

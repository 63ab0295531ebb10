--------------------------- MODULE AccountsProofs ---------------------------
(***************************************************************************)
(* Theorems about Accounts, for any number of requests, accounts, sessions *)
(* and tokens: a revocation is final, the mailed reset refines             *)
(* OneTimeToken, a key has one effect, a guest's cart is not lost to a     *)
(* login, and no password changes unaccounted for.                         *)
(***************************************************************************)
EXTENDS Accounts, TLAPS

TokenTypes == resetTokens \in [Tokens -> [owner: Emails, state: {"UNISSUED", "LIVE", "USED"},
                                          expired: BOOLEAN, mailed: BOOLEAN]]
SessionTypes == sessions \in [Sessions -> SessionRow]

Open(s) == s \in Sessions /\ sessions[s].owner # Nobody

(* A row that is still to be opened has not been revoked; a guest's is     *)
(* open from the start.                                                    *)
UnopenedUnrevoked == \A s \in Sessions : sessions[s].owner = Nobody => ~sessions[s].revoked
GuestsAreOpen == \A g \in Guests : Open(g)

OpenOnes == {s \in Sessions : Open(s)}

(* What a request remembers was there when it was read: its sessions are   *)
(* open, its tokens and addresses exist.                                   *)
Fits(q, open) ==
    /\ q.at \in {"verified", "hashed", "asking", "asking-tx"} => q.email \in Emails
    /\ q.at \in {"verified", "hashed", "opened", "promoting", "revoking"} => q.guest \in Guests \union {NoSession}
    /\ q.at \in {"rotating", "leaving", "changing", "changing-tx"} => q.own \in open
    /\ q.at \in {"changing", "changing-tx"} => q.email \in Emails
    /\ q.at \in {"mailing", "resetting", "resetting-tx"} => q.token \in Tokens
    /\ q.at \in {"changing-tx", "resetting-tx"} => RowIds(q.snap) \subseteq open

RequestsFit == DOMAIN req = Requests /\ \A r \in Requests : Fits(req[r], OpenOnes)

AccountsInv == TokenTypes /\ SessionTypes /\ UnopenedUnrevoked /\ GuestsAreOpen /\ RequestsFit

-----------------------------------------------------------------------------
USE DEF NoSession

LEMMA InitAccounts == Init => AccountsInv
<1> SUFFICES ASSUME Init PROVE AccountsInv
  OBVIOUS
<1>1. SessionTypes
  <2>1. \A o \in Customers \union {Guest, Nobody} : OwnedBy(o) \in SessionRow
    BY AccountsAssumption DEF OwnedBy, SessionRow
  <2>2. sessions \in [Sessions -> {OwnedBy(o) : o \in Customers \union {Guest, Nobody}}]
    BY DEF Init
  <2> QED BY <2>1, <2>2 DEF SessionTypes
<1>2. TokenTypes
  <2>1. resetTokens \in [Tokens -> {[owner |-> o, state |-> x, expired |-> FALSE, mailed |-> x = "LIVE"] :
                                   o \in Customers, x \in {"UNISSUED", "LIVE"}}]
    BY DEF Init
  <2>2. ASSUME NEW o \in Customers, NEW x \in {"UNISSUED", "LIVE"}
        PROVE  [owner |-> o, state |-> x, expired |-> FALSE, mailed |-> x = "LIVE"] \in
                   [owner: Emails, state: {"UNISSUED", "LIVE", "USED"}, expired: BOOLEAN, mailed: BOOLEAN]
    <3> DEFINE sent == x = "LIVE"
    <3>1. sent \in BOOLEAN
      OBVIOUS
    <3> HIDE DEF sent
    <3>2. [owner |-> o, state |-> x, expired |-> FALSE, mailed |-> sent] \in
              [owner: Emails, state: {"UNISSUED", "LIVE", "USED"}, expired: BOOLEAN, mailed: BOOLEAN]
      BY <3>1, AccountsAssumption
    <3> QED BY <3>2 DEF sent
  <2> DEFINE F(o, x) == [owner |-> o, state |-> x, expired |-> FALSE, mailed |-> x = "LIVE"]
             Row == [owner: Emails, state: {"UNISSUED", "LIVE", "USED"}, expired: BOOLEAN, mailed: BOOLEAN]
  <2>3. resetTokens \in [Tokens -> {F(o, x) : o \in Customers, x \in {"UNISSUED", "LIVE"}}]
    BY <2>1
  <2>4. \A o \in Customers, x \in {"UNISSUED", "LIVE"} : F(o, x) \in Row
    BY <2>2
  <2> HIDE DEF F, Row
  <2>5. resetTokens \in [Tokens -> Row]
    BY <2>3, <2>4
  <2> QED BY <2>5 DEF TokenTypes, Row
<1>3. UnopenedUnrevoked
  BY DEF Init, UnopenedUnrevoked, OwnedBy
<1>4. GuestsAreOpen
  BY SessionsAssumption DEF Init, GuestsAreOpen, Open, Guest, Nobody
<1>5. RequestsFit
  BY DEF Init, RequestsFit, Fits, Idle
<1> QED BY <1>1, <1>2, <1>3, <1>4, <1>5 DEF AccountsInv

-----------------------------------------------------------------------------
(* What every step does to the sessions: an open one stays open, a revoked *)
(* one stays revoked, and none is revoked before it is opened.             *)
SessionsMoveOn ==
    /\ SessionTypes'
    /\ UnopenedUnrevoked'
    /\ \A s \in Sessions : /\ Open(s) => Open(s)' /\ sessions'[s].owner = sessions[s].owner
                           /\ sessions[s].revoked => sessions'[s].revoked

(* Row by row.                                                             *)
LEMMA RowsMoveOn ==
    ASSUME AccountsInv, SessionTypes',
           \A s \in Sessions :
               /\ sessions[s].owner # Nobody => sessions'[s].owner = sessions[s].owner
               /\ sessions[s].revoked => sessions'[s].revoked
               /\ sessions'[s].revoked => sessions[s].revoked \/ sessions[s].owner # Nobody
    PROVE  SessionsMoveOn
<1>1. UnopenedUnrevoked'
  BY DEF AccountsInv, UnopenedUnrevoked
<1>2. \A s \in Sessions : Open(s) => Open(s)' /\ sessions'[s].owner = sessions[s].owner
  BY DEF Open
<1> QED BY <1>1, <1>2 DEF SessionsMoveOn

(* What revoking and rotating do to a row.                                 *)
LEMMA RevokedRows ==
    ASSUME SessionTypes, NEW S, NEW s \in Sessions
    PROVE  /\ Revoked(S)[s] \in SessionRow
           /\ Revoked(S)[s].owner = sessions[s].owner
           /\ sessions[s].revoked => Revoked(S)[s].revoked
           /\ Revoked(S)[s].revoked => sessions[s].revoked \/ s \in S
<1> DEFINE row == [sessions[s] EXCEPT !.revoked = TRUE]
<1>1. row \in SessionRow /\ row.owner = sessions[s].owner /\ row.revoked = TRUE
  BY DEF SessionTypes, SessionRow
<1> HIDE DEF row
<1>2. Revoked(S)[s] = IF s \in S THEN row ELSE sessions[s]
  BY DEF Revoked, row
<1>3. sessions[s] \in SessionRow
  BY DEF SessionTypes
<1>4. CASE s \in S
  BY <1>1, <1>2, <1>4
<1>5. CASE s \notin S
  BY <1>2, <1>3, <1>5
<1> QED BY <1>4, <1>5

LEMMA RotatedRows ==
    ASSUME SessionTypes, NEW o \in Sessions, NEW s \in Sessions
    PROVE  /\ Rotated(o)[s] \in SessionRow
           /\ Rotated(o)[s].owner = sessions[s].owner
           /\ Rotated(o)[s].revoked = sessions[s].revoked
<1> DEFINE row == sessions[s]
           turned == [row EXCEPT !.gen = @ + 1]
<1>1. row \in SessionRow
  BY DEF SessionTypes
<1>2. Rotated(o)[s] = IF s = o THEN [turned EXCEPT !.expired = FALSE] ELSE row
  BY DEF Rotated, SessionTypes
<1> HIDE DEF row
<1>3. turned \in SessionRow /\ turned.owner = row.owner /\ turned.revoked = row.revoked
  BY <1>1 DEF SessionRow
<1> HIDE DEF turned
<1>4. /\ [turned EXCEPT !.expired = FALSE] \in SessionRow
      /\ [turned EXCEPT !.expired = FALSE].owner = row.owner
      /\ [turned EXCEPT !.expired = FALSE].revoked = row.revoked
  BY <1>3 DEF SessionRow
<1> QED BY <1>1, <1>2, <1>4 DEF row

LEMMA SessionsStep == AccountsInv /\ [Next]_vars => SessionsMoveOn
<1> SUFFICES ASSUME AccountsInv, [Next]_vars PROVE SessionsMoveOn
  OBVIOUS
<1>1. CASE UNCHANGED sessions
  BY <1>1 DEF AccountsInv, SessionsMoveOn, SessionTypes, UnopenedUnrevoked, Open
<1>2. ASSUME NEW r \in Requests, OpenSession(r) PROVE SessionsMoveOn
  <2>1. PICK s \in FreshSession : sessions' = Opened(s, req[r].email)
    BY <1>2 DEF OpenSession
  <2>2. req[r].email \in Emails
    BY <1>2 DEF OpenSession, AccountsInv, RequestsFit, Fits, OpenOnes
  <2> QED BY <2>1, <2>2, NamesAssumption DEF FreshSession, Opened, OwnedBy, AccountsInv, SessionsMoveOn, SessionTypes,
            SessionRow, UnopenedUnrevoked, Open
<1>3. ASSUME NEW S, \A s \in S \intersect Sessions : Open(s), sessions' = Revoked(S) PROVE SessionsMoveOn
  <2>1. SessionTypes'
    BY <1>3, RevokedRows DEF SessionTypes, Revoked, AccountsInv
  <2> QED BY <1>3, <2>1, RevokedRows, RowsMoveOn DEF Open, AccountsInv
<1>4. ASSUME NEW r \in Requests, RevokeGuest(r) PROVE SessionsMoveOn
  <2>1. sessions' = Revoked({req[r].guest}) /\ req[r].guest \in Guests \union {NoSession}
    BY <1>4 DEF RevokeGuest, AccountsInv, RequestsFit, Fits
  <2> QED BY <2>1, <1>3, SessionsAssumption DEF AccountsInv, GuestsAreOpen
<1>5. ASSUME NEW r \in Requests, Rotate(r) PROVE SessionsMoveOn
  <2>1. sessions' = Rotated(req[r].own) /\ req[r].own \in Sessions
    BY <1>5 DEF Rotate, AccountsInv, RequestsFit, Fits, OpenOnes
  <2>2. SessionTypes'
    BY <2>1, RotatedRows DEF SessionTypes, Rotated, AccountsInv
  <2> QED BY <2>1, <2>2, RotatedRows, RowsMoveOn DEF AccountsInv
<1>6. ASSUME NEW r \in Requests, Leave(r) PROVE SessionsMoveOn
  <2>1. sessions' = Revoked({req[r].own}) /\ Open(req[r].own)
    BY <1>6 DEF Leave, AccountsInv, RequestsFit, Fits, OpenOnes
  <2> QED BY <2>1, <1>3
<1>7. ASSUME NEW r \in Requests, CommitChange(r), sessions' # sessions PROVE SessionsMoveOn
  <2> DEFINE S == RowIds(req[r].snap)
  <2>1. /\ sessions' = [s \in Sessions |-> IF s = req[r].own THEN Rotated(s)[s] ELSE Revoked(S)[s]]
        /\ RowIds(req[r].snap) \subseteq OpenOnes
    BY <1>7 DEF CommitChange, AccountsInv, RequestsFit, Fits, OpenOnes
  <2>2. \A s \in S : Open(s)
    BY <2>1 DEF OpenOnes
  <2> HIDE DEF S
  <2>3. \A s \in Sessions : sessions'[s] \in {Rotated(s)[s], Revoked(S)[s]}
    BY <2>1
  <2>4. SessionTypes'
    BY <2>1, <2>3, RotatedRows, RevokedRows DEF SessionTypes, AccountsInv
  <2> QED BY <2>2, <2>3, <2>4, RotatedRows, RevokedRows, RowsMoveOn DEF Open, AccountsInv
<1>8. ASSUME NEW r \in Requests, CommitReset(r), sessions' # sessions PROVE SessionsMoveOn
  <2>1. sessions' = Revoked(RowIds(req[r].snap)) /\ RowIds(req[r].snap) \subseteq OpenOnes
    BY <1>8 DEF CommitReset, AccountsInv, RequestsFit, Fits, OpenOnes
  <2> QED BY <2>1, <1>3 DEF OpenOnes
<1>9. CASE SessionExpires
  <2>1. PICK o \in Sessions : sessions' = [sessions EXCEPT ![o].expired = TRUE]
    BY <1>9 DEF SessionExpires
  <2>2. \A s \in Sessions : /\ sessions'[s].owner = sessions[s].owner
                            /\ sessions'[s].revoked = sessions[s].revoked
    BY <2>1 DEF SessionTypes, SessionRow, AccountsInv
  <2>3. SessionTypes'
    BY <2>1 DEF SessionTypes, SessionRow, AccountsInv
  <2> QED BY <2>2, <2>3, RowsMoveOn
<1>10. ASSUME NEW r \in Requests,
              VerifyLogin(r) \/ ReadGuest(r) \/ PromoteCart(r) \/ Register(r) \/ FindRefreshToken(r) \/ FindSession(r)
       PROVE  UNCHANGED sessions
  BY <1>10 DEF VerifyLogin, ReadGuest, PromoteCart, Register, CheckEmail, CreateUser, FindRefreshToken, FindSession,
       tables
<1>11. ASSUME NEW r \in Requests,
              ChangePassword(r) \/ BeginChange(r) \/ Profile(r) \/ AskReset(r)
       PROVE  UNCHANGED sessions
  BY <1>11 DEF ChangePassword, BeginChange, Profile, BeginProfile, CommitProfile, AskReset, RequestReset,
       BeginRequestReset, CommitRequestReset, Mail, tables
<1>12. ASSUME NEW r \in Requests,
              FindResetToken(r) \/ BeginReset(r) \/ Bootstrap(r) \/ RequestFails(r)
       PROVE  UNCHANGED sessions
  BY <1>12 DEF FindResetToken, BeginReset, Bootstrap, ReadInitialAdmin, CreateInitialAdmin, RequestFails, tables
<1>13. CASE TokenExpires \/ OpenCart \/ UNCHANGED vars
  BY <1>1, <1>13 DEF TokenExpires, OpenCart, vars, tables
<1> QED BY <1>1, <1>2, <1>4, <1>5, <1>6, <1>7, <1>8, <1>9, <1>10, <1>11, <1>12, <1>13
          DEF Next, Login, Refresh, Logout, Change, Reset

LEMMA OpenOnesGrow == SessionsMoveOn => OpenOnes \subseteq OpenOnes'
BY DEF SessionsMoveOn, OpenOnes

-----------------------------------------------------------------------------
(* Requests go on to states that fit.                                      *)
LEMMA GoesFits ==
    ASSUME AccountsInv, SessionsMoveOn, NEW r \in Requests, NEW q, Goes(r, q), Fits(q, OpenOnes)
    PROVE  RequestsFit'
<1>1. \A p : Fits(p, OpenOnes) => Fits(p, OpenOnes')
  BY OpenOnesGrow DEF Fits
<1>2. \A p \in Requests : req'[p] = IF p = r THEN q ELSE req[p]
  BY DEF Goes, AccountsInv, RequestsFit
<1>3. DOMAIN req' = Requests
  BY DEF Goes, AccountsInv, RequestsFit
<1>4. \A p \in Requests : Fits(req'[p], OpenOnes')
  BY <1>1, <1>2 DEF AccountsInv, RequestsFit
<1> QED BY <1>3, <1>4 DEF RequestsFit

LEMMA AnswerFits ==
    ASSUME AccountsInv, SessionsMoveOn, NEW r \in Requests, NEW q, q.at = "done", Goes(r, q)
    PROVE  RequestsFit'
BY GoesFits DEF Fits

LEMMA AnswersFit ==
    ASSUME AccountsInv, SessionsMoveOn, NEW r \in Requests, NEW code, Answers(r, code)
    PROVE  RequestsFit'
BY AnswerFits DEF Answers

LEMMA KeyedAnswersFit ==
    ASSUME AccountsInv, SessionsMoveOn, NEW r \in Requests, NEW op, NEW e, NEW k, NEW body, NEW code,
           AnswersKeyed(r, op, e, k, body, code)
    PROVE  RequestsFit'
BY AnswerFits DEF AnswersKeyed

LEMMA RecordedAnswersFit ==
    ASSUME AccountsInv, SessionsMoveOn, NEW r \in Requests, NEW op, NEW e, NEW k, NEW body,
           AnswersFromRecord(r, op, e, k, body)
    PROVE  RequestsFit'
BY AnswersFit, KeyedAnswersFit DEF AnswersFromRecord

LEMMA LoginFits ==
    ASSUME AccountsInv, SessionsMoveOn, NEW r \in Requests, Login(r) \/ Register(r)
    PROVE  RequestsFit'
<1>1. CASE VerifyLogin(r)
  <2>1. PICK e \in Emails, pw \in Secrets, g \in Guests \union {NoSession} :
            \/ Goes(r, [at |-> "verified", op |-> "login", email |-> e, guest |-> g, own |-> NoSession, cart |-> NoCart])
            \/ Answers(r, "INVALID_CREDENTIALS")
    BY <1>1 DEF VerifyLogin
  <2>2. Fits([at |-> "verified", op |-> "login", email |-> e, guest |-> g, own |-> NoSession, cart |-> NoCart], OpenOnes)
    BY DEF Fits
  <2> QED BY <2>1, <2>2, GoesFits, AnswersFit
<1>2. CASE CheckEmail(r)
  <2>1. PICK e \in Emails, pw \in Secrets, g \in Guests \union {NoSession} :
            \/ Goes(r, [at |-> "hashed", email |-> e, secret |-> pw, guest |-> g])
            \/ Answers(r, "EMAIL_ALREADY_REGISTERED")
    BY <1>2 DEF CheckEmail
  <2>2. Fits([at |-> "hashed", email |-> e, secret |-> pw, guest |-> g], OpenOnes)
    BY DEF Fits
  <2> QED BY <2>1, <2>2, GoesFits, AnswersFit
<1>3. CASE CreateUser(r)
  <2> DEFINE q == [at |-> "verified", op |-> "register", email |-> req[r].email, guest |-> req[r].guest,
                   own |-> NoSession, cart |-> NoCart]
  <2>1. Goes(r, q) \/ Answers(r, "TECHNICAL_DEPENDENCY_FAILURE")
    BY <1>3 DEF CreateUser
  <2>2. Fits(q, OpenOnes)
    BY <1>3 DEF CreateUser, AccountsInv, RequestsFit, Fits
  <2> QED BY <2>1, <2>2, GoesFits, AnswersFit
<1>4. CASE OpenSession(r)
  <2>1. PICK s \in FreshSession : Goes(r, [req[r] EXCEPT !.at = "opened", !.own = s]) \/ Answers(r, "OK")
    BY <1>4 DEF OpenSession
  <2>2. Fits([req[r] EXCEPT !.at = "opened", !.own = s], OpenOnes)
    BY <1>4 DEF OpenSession, AccountsInv, RequestsFit, Fits
  <2> QED BY <2>1, <2>2, GoesFits, AnswersFit
<1>5. CASE ReadGuest(r)
  <2> DEFINE q == [req[r] EXCEPT !.at = "promoting", !.cart = CartOf(req[r].guest)]
  <2>1. Goes(r, q) \/ Answers(r, "OK")
    BY <1>5 DEF ReadGuest
  <2>2. Fits(q, OpenOnes)
    BY <1>5 DEF ReadGuest, AccountsInv, RequestsFit, Fits
  <2> QED BY <2>1, <2>2, GoesFits, AnswersFit
<1>6. CASE PromoteCart(r)
  <2>1. Fits([req[r] EXCEPT !.at = "revoking"], OpenOnes)
    BY <1>6 DEF PromoteCart, AccountsInv, RequestsFit, Fits
  <2> QED BY <1>6, <2>1, GoesFits DEF PromoteCart
<1>7. CASE RevokeGuest(r)
  BY <1>7, AnswerFits DEF RevokeGuest
<1> QED BY <1>1, <1>2, <1>3, <1>4, <1>5, <1>6, <1>7 DEF Login, Register

LEMMA SessionRequestsFit ==
    ASSUME AccountsInv, SessionsMoveOn, NEW r \in Requests, Refresh(r) \/ Logout(r)
    PROVE  RequestsFit'
<1>1. CASE FindRefreshToken(r)
  <2>1. PICK s \in Sessions : /\ sessions[s].owner # Nobody
                              /\ \/ Goes(r, [at |-> "rotating", own |-> s])
                                 \/ Answers(r, "AUTHENTICATION_REQUIRED")
    BY <1>1 DEF FindRefreshToken
  <2>2. Fits([at |-> "rotating", own |-> s], OpenOnes)
    BY <2>1 DEF Fits, OpenOnes, Open
  <2> QED BY <2>1, <2>2, GoesFits, AnswersFit
<1>2. CASE FindSession(r)
  <2>1. PICK s \in Bearers : Goes(r, [at |-> "leaving", own |-> s]) \/ Answers(r, "OK")
    BY <1>2 DEF FindSession
  <2>2. Fits([at |-> "leaving", own |-> s], OpenOnes)
    BY NamesAssumption DEF Fits, Bearers, OpenOnes, Open
  <2> QED BY <2>1, <2>2, GoesFits, AnswersFit
<1>3. CASE Rotate(r) \/ Leave(r)
  BY <1>3, AnswersFit DEF Rotate, Leave
<1> QED BY <1>1, <1>2, <1>3 DEF Refresh, Logout

(* A snapshot holds the rows it was taken of.                              *)
LEMMA SnapshotIds ==
    ASSUME NEW e, NEW S
    PROVE  RowIds(TakenSnapshot(e, S)) = S
<1> DEFINE rows == {[id |-> s, row |-> sessions[s]] : s \in S}
<1>1. TakenSnapshot(e, S).rows = rows
  BY DEF TakenSnapshot
<1>2. ASSUME NEW x \in {y.id : y \in rows} PROVE x \in S
  BY <1>2
<1>3. ASSUME NEW s \in S PROVE s \in {y.id : y \in rows}
  <2>1. [id |-> s, row |-> sessions[s]] \in rows /\ [id |-> s, row |-> sessions[s]].id = s
    OBVIOUS
  <2> HIDE DEF rows
  <2> QED BY <2>1
<1> HIDE DEF rows
<1>4. {y.id : y \in rows} = S
  BY <1>2, <1>3
<1> QED BY <1>1, <1>4 DEF RowIds

LEMMA KeyedRequestsFit ==
    ASSUME AccountsInv, SessionsMoveOn, NEW r \in Requests, Change(r) \/ Profile(r)
    PROVE  RequestsFit'
<1>1. CASE ChangePassword(r)
  <2>1. PICK s \in Bearers, k \in Keys, body \in Secrets \X Secrets :
            \/ AnswersFromRecord(r, "change", sessions[s].owner, k, body)
            \/ Answers(r, "CURRENT_PASSWORD_INVALID")
            \/ Goes(r, [at |-> "changing", own |-> s, email |-> sessions[s].owner, key |-> k, body |-> body])
    BY <1>1 DEF ChangePassword
  <2>2. Fits([at |-> "changing", own |-> s, email |-> sessions[s].owner, key |-> k, body |-> body], OpenOnes)
    BY NamesAssumption DEF Fits, Bearers, OpenOnes, Open
  <2> QED BY <2>1, <2>2, GoesFits, AnswersFit, RecordedAnswersFit
<1>2. CASE BeginChange(r)
  <2> DEFINE S == UnrevokedOf(req[r].email) \union {req[r].own}
             snap == TakenSnapshot(req[r].email, S)
             q == [at |-> "changing-tx", own |-> req[r].own, email |-> req[r].email, key |-> req[r].key,
                   body |-> req[r].body, snap |-> snap]
  <2>1. Goes(r, q) \/ AnswersFromRecord(r, "change", req[r].email, req[r].key, req[r].body)
    BY <1>2 DEF BeginChange
  <2>2. req[r].own \in OpenOnes /\ req[r].email \in Emails
    BY <1>2 DEF BeginChange, AccountsInv, RequestsFit, Fits
  <2>3. S \subseteq OpenOnes
    BY <2>2, NamesAssumption DEF UnrevokedOf, OpenOnes, Open
  <2>4. RowIds(snap) = S
    BY SnapshotIds
  <2> HIDE DEF snap, S
  <2>5. Fits(q, OpenOnes)
    BY <2>2, <2>3, <2>4 DEF Fits
  <2> QED BY <2>1, <2>5, GoesFits, RecordedAnswersFit
<1>3. CASE CommitChange(r) \/ CommitProfile(r)
  BY <1>3, KeyedAnswersFit, AnswersFit DEF CommitChange, CommitProfile
<1>4. CASE BeginProfile(r)
  <2>1. PICK s \in Bearers, k \in Keys, n \in Names :
            \/ AnswersFromRecord(r, "profile", sessions[s].owner, k, <<n>>)
            \/ Goes(r, [at |-> "editing-tx", own |-> s, email |-> sessions[s].owner, key |-> k, body |-> <<n>>,
                        snap |-> TakenSnapshot(sessions[s].owner, {})])
    BY <1>4 DEF BeginProfile
  <2>2. Fits([at |-> "editing-tx", own |-> s, email |-> sessions[s].owner, key |-> k, body |-> <<n>>,
              snap |-> TakenSnapshot(sessions[s].owner, {})], OpenOnes)
    BY DEF Fits
  <2> QED BY <2>1, <2>2, GoesFits, RecordedAnswersFit
<1> QED BY <1>1, <1>2, <1>3, <1>4 DEF Change, Profile

LEMMA ResetRequestsFit ==
    ASSUME AccountsInv, SessionsMoveOn, NEW r \in Requests, AskReset(r) \/ Reset(r)
    PROVE  RequestsFit'
<1>1. CASE RequestReset(r)
  <2>1. PICK e \in Emails : Goes(r, [at |-> "asking", email |-> e]) \/ Answers(r, "OK")
    BY <1>1 DEF RequestReset
  <2>2. Fits([at |-> "asking", email |-> e], OpenOnes)
    BY DEF Fits
  <2> QED BY <2>1, <2>2, GoesFits, AnswersFit
<1>2. CASE BeginRequestReset(r)
  <2>1. Fits([at |-> "asking-tx", email |-> req[r].email, seen |-> LiveTokens(req[r].email)], OpenOnes)
    BY <1>2 DEF BeginRequestReset, AccountsInv, RequestsFit, Fits
  <2> QED BY <1>2, <2>1, GoesFits DEF BeginRequestReset
<1>3. CASE CommitRequestReset(r)
  <2>1. CASE Answers(r, "TECHNICAL_DEPENDENCY_FAILURE")
    BY <2>1, AnswersFit
  <2>2. CASE \E t \in Tokens : Goes(r, [at |-> "mailing", email |-> req[r].email, token |-> t])
    <3>1. PICK t \in Tokens : Goes(r, [at |-> "mailing", email |-> req[r].email, token |-> t])
      BY <2>2
    <3>2. Fits([at |-> "mailing", email |-> req[r].email, token |-> t], OpenOnes)
      BY DEF Fits
    <3> QED BY <3>1, <3>2, GoesFits
  <2> QED BY <1>3, <2>1, <2>2 DEF CommitRequestReset
<1>4. CASE Mail(r)
  BY <1>4, AnswersFit DEF Mail
<1>5. CASE FindResetToken(r)
  <2>1. PICK t \in Tokens, pw \in Secrets :
            \/ Goes(r, [at |-> "resetting", token |-> t, secret |-> pw])
            \/ Answers(r, "PASSWORD_RESET_TOKEN_INVALID_OR_EXPIRED")
    BY <1>5 DEF FindResetToken
  <2>2. Fits([at |-> "resetting", token |-> t, secret |-> pw], OpenOnes)
    BY DEF Fits
  <2> QED BY <2>1, <2>2, GoesFits, AnswersFit
<1>6. CASE BeginReset(r)
  <2> DEFINE e == resetTokens[req[r].token].owner
             S == UnrevokedOf(e)
             snap == TakenSnapshot(e, S)
             q == [at |-> "resetting-tx", token |-> req[r].token, secret |-> req[r].secret, snap |-> snap]
  <2>1. Goes(r, q) \/ Answers(r, "PASSWORD_RESET_TOKEN_INVALID_OR_EXPIRED")
    BY <1>6 DEF BeginReset
  <2>2. req[r].token \in Tokens
    BY <1>6 DEF BeginReset, AccountsInv, RequestsFit, Fits
  <2>3. e \in Emails
    BY <2>2 DEF AccountsInv, TokenTypes
  <2>4. S \subseteq OpenOnes
    BY <2>3, NamesAssumption DEF UnrevokedOf, OpenOnes, Open
  <2>5. RowIds(snap) = S
    BY SnapshotIds
  <2> HIDE DEF e, S, snap
  <2>6. Fits(q, OpenOnes)
    BY <2>2, <2>4, <2>5 DEF Fits
  <2> QED BY <2>1, <2>6, GoesFits, AnswersFit
<1>7. CASE CommitReset(r)
  BY <1>7, AnswersFit, AnswerFits DEF CommitReset
<1> QED BY <1>1, <1>2, <1>3, <1>4, <1>5, <1>6, <1>7 DEF AskReset, Reset

LEMMA RequestsStep == AccountsInv /\ SessionsMoveOn /\ [Next]_vars => RequestsFit'
<1> SUFFICES ASSUME AccountsInv, SessionsMoveOn, [Next]_vars PROVE RequestsFit'
  OBVIOUS
<1>1. ASSUME NEW r \in Requests, ReadInitialAdmin(r) PROVE RequestsFit'
  <2>1. Fits([at |-> "bootstrapping", email |-> InitialAdmin], OpenOnes)
    BY DEF Fits
  <2> QED BY <1>1, <2>1, GoesFits, AnswersFit DEF ReadInitialAdmin
<1>2. ASSUME NEW r \in Requests, CreateInitialAdmin(r) \/ RequestFails(r) PROVE RequestsFit'
  BY <1>2, AnswersFit DEF CreateInitialAdmin, RequestFails
<1>3. CASE UNCHANGED req
  <2>1. \A p : Fits(p, OpenOnes) => Fits(p, OpenOnes')
    BY OpenOnesGrow DEF Fits
  <2> QED BY <1>3, <2>1 DEF AccountsInv, RequestsFit
<1>4. SessionExpires \/ TokenExpires \/ OpenCart \/ UNCHANGED vars => UNCHANGED req
  BY DEF SessionExpires, TokenExpires, OpenCart, vars
<1> QED BY <1>1, <1>2, <1>3, <1>4, LoginFits, SessionRequestsFit, KeyedRequestsFit, ResetRequestsFit DEF Next, Bootstrap

-----------------------------------------------------------------------------
(* The mailed reset.  How a token's row reads in OneTimeToken.             *)
TokenRow == [owner: Emails, state: {"UNISSUED", "LIVE", "USED"}, expired: BOOLEAN, mailed: BOOLEAN]
StatusOf(row) ==
    CASE row.state = "UNISSUED" -> "unissued"
      [] row.state = "LIVE" -> "live"
      [] row.state = "USED" -> "dead"

LEMMA Statuses ==
    ASSUME NEW row \in TokenRow
    PROVE  /\ StatusOf(row) = "unissued" <=> row.state = "UNISSUED"
           /\ StatusOf(row) = "live" <=> row.state = "LIVE"
           /\ StatusOf(row) = "dead" <=> row.state = "USED"
           /\ StatusOf(row) \in {"unissued", "live", "dead"}
<1>1. row.state \in {"UNISSUED", "LIVE", "USED"}
  BY DEF TokenRow
<1> QED BY <1>1 DEF StatusOf

LEMMA LiveTokensAreLive ==
    ASSUME TokenTypes, NEW h
    PROVE  ResetTokens!Live(h) = LiveTokens(h)
<1>1. \A t \in Tokens : resetTokens[t] \in TokenRow
  BY DEF TokenTypes, TokenRow
<1>2. ResetTokens!Live(h) = {t \in Tokens : StatusOf(resetTokens[t]) = "live" /\ resetTokens[t].owner = h}
  BY DEF ResetTokens!Live, StatusOf
<1> QED BY <1>1, <1>2, Statuses DEF LiveTokens

LEMMA InitTokens == Init => ResetTokens!Init
<1> SUFFICES ASSUME Init PROVE ResetTokens!Init
  OBVIOUS
<1>1. TokenTypes
  BY InitAccounts DEF AccountsInv
<1>2. \A t \in Tokens : resetTokens[t] \in TokenRow
  BY <1>1 DEF TokenTypes, TokenRow
<1>3. [t \in Tokens |-> StatusOf(resetTokens[t])] \in [Tokens -> {"unissued", "live", "dead"}]
  BY <1>2, Statuses
<1>4. [t \in Tokens |-> resetTokens[t].owner] \in [Tokens -> Emails]
  BY <1>2 DEF TokenRow
<1>5. \A t \in Tokens : resetTokens[t].owner \in Customers
  BY DEF Init
<1>6. \A h \in Emails : \A t, u \in LiveTokens(h) : t = u
  BY <1>5 DEF Init, LiveTokens
<1>7. \A h \in Emails : \A t, u \in ResetTokens!Live(h) : t = u
  BY <1>1, <1>6, LiveTokensAreLive
<1>8. worked = [t \in Tokens |-> 0]
  BY DEF Init
<1> QED BY <1>3, <1>4, <1>7, <1>8 DEF ResetTokens!Init, StatusOf

(* A step that leaves owners and states alone is no step of a token.       *)
LEMMA TokensStutter ==
    ASSUME TokenTypes, TokenTypes', UNCHANGED worked,
           \A t \in Tokens : resetTokens'[t].owner = resetTokens[t].owner /\ resetTokens'[t].state = resetTokens[t].state
    PROVE  UNCHANGED ResetTokens!TokenVars
<1>1. \A t \in Tokens : resetTokens[t] \in TokenRow /\ resetTokens'[t] \in TokenRow
  BY DEF TokenTypes, TokenRow
<1>2. \A t \in Tokens : StatusOf(resetTokens'[t]) = StatusOf(resetTokens[t])
  BY <1>1, Statuses
<1>3. [t \in Tokens |-> StatusOf(resetTokens'[t])] = [t \in Tokens |-> StatusOf(resetTokens[t])]
  BY <1>2
<1>4. [t \in Tokens |-> resetTokens'[t].owner] = [t \in Tokens |-> resetTokens[t].owner]
  OBVIOUS
<1> QED BY <1>3, <1>4 DEF ResetTokens!TokenVars, StatusOf

LEMMA TokensStep == AccountsInv /\ [Next]_vars => TokenTypes' /\ [ResetTokens!Next]_(ResetTokens!TokenVars)
<1> SUFFICES ASSUME AccountsInv, [Next]_vars PROVE TokenTypes' /\ [ResetTokens!Next]_(ResetTokens!TokenVars)
  OBVIOUS
<1> DEFINE Steps == TokenTypes' /\ [ResetTokens!Next]_(ResetTokens!TokenVars)
<1> HIDE DEF Steps
<1>0. TokenTypes /\ \A t \in Tokens : resetTokens[t] \in TokenRow
  BY DEF AccountsInv, TokenTypes, TokenRow
<1>1. CASE UNCHANGED <<resetTokens, worked>>
  <2>1. UNCHANGED ResetTokens!TokenVars
    BY <1>1 DEF ResetTokens!TokenVars
  <2> QED BY <1>0, <1>1, <2>1 DEF Steps, TokenTypes
<1>2. ASSUME NEW r \in Requests, CommitRequestReset(r), ~UNCHANGED <<resetTokens, worked>> PROVE Steps
  <2>1. PICK e \in Emails : e = req[r].email
    BY <1>2 DEF CommitRequestReset, AccountsInv, RequestsFit, Fits
  <2>2. PICK t \in Tokens : resetTokens[t].state = "UNISSUED" /\ resetTokens' = NewToken(t, e) /\ UNCHANGED worked
    BY <1>2, <2>1 DEF CommitRequestReset
  <2> DEFINE fresh == [owner |-> e, state |-> "LIVE", expired |-> FALSE, mailed |-> FALSE]
             used(u) == [resetTokens[u] EXCEPT !.state = "USED"]
  <2>3. fresh \in TokenRow /\ fresh.owner = e /\ fresh.state = "LIVE"
    BY <2>1 DEF TokenRow
  <2>4. ASSUME NEW u \in Tokens
        PROVE  used(u) \in TokenRow /\ used(u).owner = resetTokens[u].owner /\ used(u).state = "USED"
    BY <1>0 DEF TokenRow
  <2>5. resetTokens' = [u \in Tokens |-> IF u = t THEN fresh ELSE IF u \in LiveTokens(e) THEN used(u) ELSE resetTokens[u]]
    BY <2>2 DEF NewToken
  <2> HIDE DEF fresh, used
  <2>6. \A u \in Tokens : /\ resetTokens'[u] \in TokenRow
                          /\ resetTokens'[u].state = IF u = t THEN "LIVE" ELSE IF u \in LiveTokens(e) THEN "USED" ELSE resetTokens[u].state
                          /\ resetTokens'[u].owner = IF u = t THEN e ELSE resetTokens[u].owner
    BY <1>0, <2>3, <2>4, <2>5
  <2>7. TokenTypes'
    BY <2>5, <2>6 DEF TokenTypes, TokenRow
  <2>8. ResetTokens!Issue(t, e)
    <3>1. StatusOf(resetTokens[t]) = "unissued"
      BY <1>0, <2>2, Statuses
    <3>2. \A u \in Tokens : StatusOf(resetTokens'[u]) =
              IF u = t THEN "live" ELSE IF u \in LiveTokens(e) THEN "dead" ELSE StatusOf(resetTokens[u])
      <4> SUFFICES ASSUME NEW u \in Tokens
                   PROVE  StatusOf(resetTokens'[u]) =
                              IF u = t THEN "live" ELSE IF u \in LiveTokens(e) THEN "dead" ELSE StatusOf(resetTokens[u])
        OBVIOUS
      <4>1. CASE u = t \/ u \in LiveTokens(e)
        BY <2>6, <4>1, Statuses
      <4>2. CASE u # t /\ u \notin LiveTokens(e)
        BY <2>5, <4>2
      <4> QED BY <4>1, <4>2
    <3>3. [u \in Tokens |-> StatusOf(resetTokens'[u])] =
              [u \in Tokens |-> IF u = t THEN "live" ELSE IF u \in ResetTokens!Live(e) THEN "dead"
                                ELSE [v \in Tokens |-> StatusOf(resetTokens[v])][u]]
      BY <1>0, <3>2, LiveTokensAreLive
    <3>4. [u \in Tokens |-> resetTokens'[u].owner] = [[u \in Tokens |-> resetTokens[u].owner] EXCEPT ![t] = e]
      BY <2>6
    <3> QED BY <2>2, <3>1, <3>3, <3>4 DEF ResetTokens!Issue, StatusOf
  <2>9. ResetTokens!Next
    BY <2>1, <2>8 DEF ResetTokens!Next
  <2> QED BY <2>7, <2>9 DEF Steps
<1>3. ASSUME NEW r \in Requests, Mail(r) PROVE Steps
  <2>1. PICK sent \in BOOLEAN :
            resetTokens' = [resetTokens EXCEPT ![req[r].token].mailed = sent] /\ UNCHANGED worked
    BY <1>3 DEF Mail
  <2>2. TokenTypes'
    BY <1>0, <2>1 DEF TokenTypes, TokenRow
  <2>3. \A t \in Tokens : resetTokens'[t].owner = resetTokens[t].owner /\ resetTokens'[t].state = resetTokens[t].state
    BY <1>0, <2>1 DEF TokenTypes, TokenRow
  <2> QED BY <1>0, <2>1, <2>2, <2>3, TokensStutter DEF Steps
<1>4. ASSUME NEW r \in Requests, CommitReset(r), ~UNCHANGED <<resetTokens, worked>> PROVE Steps
  <2>1. PICK t \in Tokens : t = req[r].token
    BY <1>4 DEF CommitReset, AccountsInv, RequestsFit, Fits
  <2>2. /\ resetTokens[t].state = "LIVE" /\ resetTokens' = [resetTokens EXCEPT ![t].state = "USED"]
        /\ worked' = [worked EXCEPT ![t] = @ + 1]
    BY <1>4, <2>1 DEF CommitReset, Consumes, SpentToken
  <2>3. TokenTypes'
    BY <1>0, <2>2 DEF TokenTypes, TokenRow
  <2>4. \A u \in Tokens : /\ resetTokens'[u].owner = resetTokens[u].owner
                          /\ u # t => resetTokens'[u] = resetTokens[u]
                          /\ resetTokens'[t].state = "USED" /\ resetTokens'[t] \in TokenRow
    BY <1>0, <2>2, <2>1 DEF TokenTypes, TokenRow
  <2>5. ResetTokens!Spend(t)
    <3>1. StatusOf(resetTokens[t]) = "live" /\ StatusOf(resetTokens'[t]) = "dead"
      BY <1>0, <2>2, <2>1, <2>4, Statuses
    <3>2. [u \in Tokens |-> StatusOf(resetTokens'[u])] = [[u \in Tokens |-> StatusOf(resetTokens[u])] EXCEPT ![t] = "dead"]
      BY <2>1, <2>4, <3>1
    <3>3. [u \in Tokens |-> resetTokens'[u].owner] = [u \in Tokens |-> resetTokens[u].owner]
      BY <2>4
    <3> QED BY <2>1, <2>2, <3>1, <3>2, <3>3 DEF ResetTokens!Spend, StatusOf
  <2>6. ResetTokens!Next
    BY <2>1, <2>5 DEF ResetTokens!Next
  <2> QED BY <2>3, <2>6 DEF Steps
<1>5. CASE TokenExpires
  <2>1. PICK x \in Tokens : resetTokens' = [resetTokens EXCEPT ![x].expired = TRUE] /\ UNCHANGED worked
    BY <1>5 DEF TokenExpires
  <2>2. TokenTypes'
    BY <1>0, <2>1 DEF TokenTypes, TokenRow
  <2>3. \A t \in Tokens : resetTokens'[t].owner = resetTokens[t].owner /\ resetTokens'[t].state = resetTokens[t].state
    BY <1>0, <2>1 DEF TokenTypes, TokenRow
  <2> QED BY <1>0, <2>1, <2>2, <2>3, TokensStutter DEF Steps
<1>6. ASSUME NEW r \in Requests, Login(r) \/ Register(r) \/ Refresh(r) \/ Logout(r)
      PROVE  UNCHANGED <<resetTokens, worked>>
  BY <1>6 DEF Login, VerifyLogin, OpenSession, ReadGuest, PromoteCart, RevokeGuest, Register, CheckEmail, CreateUser,
       Refresh, FindRefreshToken, Rotate, Logout, FindSession, Leave, tables
<1>7. ASSUME NEW r \in Requests, Change(r) \/ Profile(r) PROVE UNCHANGED <<resetTokens, worked>>
  BY <1>7 DEF Change, ChangePassword, BeginChange, CommitChange, Profile, BeginProfile, CommitProfile, tables
<1>8. ASSUME NEW r \in Requests,
             RequestReset(r) \/ BeginRequestReset(r) \/ FindResetToken(r) \/ BeginReset(r) \/ Bootstrap(r) \/ RequestFails(r)
      PROVE  UNCHANGED <<resetTokens, worked>>
  BY <1>8 DEF RequestReset, BeginRequestReset, FindResetToken, BeginReset, Bootstrap, ReadInitialAdmin,
       CreateInitialAdmin, RequestFails, tables
<1>9. CASE SessionExpires \/ OpenCart \/ UNCHANGED vars
  BY <1>1, <1>9 DEF SessionExpires, OpenCart, vars, tables
<1> QED BY <1>1, <1>2, <1>3, <1>4, <1>5, <1>6, <1>7, <1>8, <1>9 DEF Next, AskReset, Reset, Steps

-----------------------------------------------------------------------------
LEMMA AccountsStep == AccountsInv /\ [Next]_vars => AccountsInv'
<1> SUFFICES ASSUME AccountsInv, [Next]_vars PROVE AccountsInv'
  OBVIOUS
<1>1. SessionTypes' /\ UnopenedUnrevoked' /\ OpenOnes \subseteq OpenOnes'
  BY SessionsStep, OpenOnesGrow DEF SessionsMoveOn
<1>2. GuestsAreOpen'
  <2>1. \A g \in Guests : g \in OpenOnes
    BY SessionsAssumption DEF AccountsInv, GuestsAreOpen, OpenOnes
  <2> QED BY <1>1, <2>1 DEF GuestsAreOpen, OpenOnes
<1> QED BY <1>1, <1>2, TokensStep, SessionsStep, RequestsStep DEF AccountsInv

(* The inductive invariant: rows are well formed, a row to be opened has   *)
(* not been revoked, and what requests remember exists.                    *)
THEOREM AccountsInvariant == Spec => []AccountsInv
BY InitAccounts, AccountsStep, PTL DEF Spec

(* No step of any request brings a revoked session back: not the refresh   *)
(* that found it before, nor the rotation by a password change             *)
(* (prisma-session-repository.adapter.ts, rotateRefreshToken).             *)
THEOREM RevokedSessionsStayRevoked == Spec => RevocationIsFinal
<1>1. AccountsInv /\ [Next]_vars => [\A s \in Sessions : sessions[s].revoked => sessions'[s].revoked]_vars
  BY SessionsStep DEF SessionsMoveOn
<1> QED BY <1>1, AccountsInvariant, PTL DEF Spec, RevocationIsFinal

(* The requests and uses of reset tokens, interleaved in any way, implement *)
(* OneTimeToken (prisma-password-reset-unit-of-work.adapter.ts and          *)
(* prisma-reset-password-unit-of-work.adapter.ts).                          *)
THEOREM ResetTokensRefine == Spec => ResetTokensAreOneTime
BY InitTokens, TokensStep, AccountsInvariant, PTL DEF Spec, ResetTokensAreOneTime, ResetTokens!Spec

-----------------------------------------------------------------------------
(* What the answers say, and the carts on their way.  S, C and R are       *)
(* sessions, carts and records, now or after a step.                       *)
AccountRow == [role: {"none", "cliente", "admin"}, secret: Secrets \union {"none"}, mustChange: BOOLEAN, rev: Nat]
CartRow == [owner: Sessions \union {NoSession}, status: {"ACTIVE", "CLOSED"}]

Rows ==
    /\ users \in [Emails -> AccountRow]
    /\ carts \in [Carts -> CartRow]
    /\ \A g \in Guests : sessions[g].owner = Guest

(* UNIQUE(scope, key).                                                     *)
OneRecordPerKey == \A x, y \in records :
    x.op = y.op /\ x.actor = y.actor /\ x.key = y.key => x.body = y.body

(* A cart is an account's, or over.                                        *)
Kept(c, S, C) ==
    \/ C[c].status = "CLOSED"
    \/ C[c].owner \in Sessions /\ S[C[c].owner].owner \in Emails

Remembers(q) ==
    /\ q.at \in {"changing", "changing-tx"} => q.body \in Secrets \X Secrets
    /\ q.at \in {"hashed", "resetting", "resetting-tx"} => q.secret \in Secrets
    /\ q.at = "editing-tx" => q.email \in Emails

(* A cart found with the guest is the guest's until somebody promotes it.  *)
Promotes(q, S, C) ==
    /\ q.at \in {"opened", "promoting", "revoking"} =>
           q.guest \in Guests /\ q.own \in Sessions /\ S[q.own].owner \in Emails
    /\ q.at = "promoting" /\ q.cart # NoCart =>
           q.cart \in Carts /\ (C[q.cart].owner = q.guest \/ Kept(q.cart, S, C))
    /\ q.at = "revoking" /\ q.cart # NoCart => q.cart \in Carts /\ Kept(q.cart, S, C)
    /\ Promoted(q) /\ q.cart # NoCart =>
           /\ q.guest \in Guests /\ S[q.guest].revoked
           /\ q.cart \in Carts /\ Kept(q.cart, S, C)

RecordOf(q, R) == {x \in R : x.op = q.op /\ x.actor = q.email /\ x.key = q.key}
Reports(q, R) == Effective(q) => \E x \in RecordOf(q, R) : x.body = q.body

Tells(q, S, C, R) == Remembers(q) /\ Promotes(q, S, C) /\ Reports(q, R)

Changed(q) == Effective(q) /\ q.answer = "CHANGED"
ChangedOnce == \A a, b \in Requests :
    /\ Changed(req[a]) /\ Changed(req[b])
    /\ req[a].op = req[b].op /\ req[a].email = req[b].email /\ req[a].key = req[b].key
    => a = b

AnswersInv ==
    /\ AccountsInv
    /\ Rows
    /\ OneRecordPerKey
    /\ \A r \in Requests : Tells(req[r], sessions, carts, records)
    /\ ChangedOnce

-----------------------------------------------------------------------------
LEMMA InitAnswers == Init => AnswersInv
<1> SUFFICES ASSUME Init PROVE AnswersInv
  OBVIOUS
<1>1. AccountsInv
  BY InitAccounts
<1>2. Rows
  <2>1. users \in [Emails -> AccountRow]
    <3>1. NoUser \in AccountRow /\ \A x \in Secrets : CreatedUser("cliente", x) \in AccountRow
      BY DEF NoUser, CreatedUser, AccountRow
    <3> QED BY <3>1 DEF Init
  <2>2. carts \in [Carts -> CartRow]
    BY DEF Init, CartRow
  <2>3. \A g \in Guests : sessions[g].owner = Guest
    BY DEF Init
  <2> QED BY <2>1, <2>2, <2>3 DEF Rows
<1>3. OneRecordPerKey
  BY DEF Init, OneRecordPerKey
<1>4. \A r \in Requests : Tells(req[r], sessions, carts, records)
  <2>1. Tells(Idle, sessions, carts, records)
    BY DEF Idle, Tells, Remembers, Promotes, Reports, Promoted, Effective
  <2> QED BY <2>1 DEF Init
<1>5. ChangedOnce
  BY DEF Init, ChangedOnce, Changed, Effective, Idle
<1> QED BY <1>1, <1>2, <1>3, <1>4, <1>5 DEF AnswersInv

-----------------------------------------------------------------------------
(* The accounts.                                                           *)
LEMMA WithPasswordRows ==
    ASSUME users \in [Emails -> AccountRow], NEW e \in Emails, NEW secret \in Secrets
    PROVE  /\ WithPassword(e, secret) \in [Emails -> AccountRow]
           /\ WithPassword(e, secret)[e].role = users[e].role
           /\ WithPassword(e, secret)[e].secret = secret
           /\ \A u \in Emails \ {e} : WithPassword(e, secret)[u] = users[u]
<1> DEFINE f == [users EXCEPT ![e].secret = secret]
           g == [f EXCEPT ![e].mustChange = FALSE]
           h == [g EXCEPT ![e].rev = users[e].rev + 1]
<1>1. /\ f \in [Emails -> AccountRow]
      /\ f[e].role = users[e].role /\ f[e].secret = secret
      /\ \A u \in Emails \ {e} : f[u] = users[u]
  BY DEF AccountRow
<1>2. WithPassword(e, secret) = h
  BY DEF WithPassword
<1>3. users[e].rev + 1 \in Nat
  BY DEF AccountRow
<1> HIDE DEF f
<1>4. /\ g \in [Emails -> AccountRow]
      /\ g[e].role = users[e].role /\ g[e].secret = secret
      /\ \A u \in Emails \ {e} : g[u] = users[u]
  BY <1>1, ZenonT(60) DEF AccountRow
<1> HIDE DEF g
<1>5. /\ h \in [Emails -> AccountRow]
      /\ h[e].role = users[e].role /\ h[e].secret = secret
      /\ \A u \in Emails \ {e} : h[u] = users[u]
  BY <1>3, <1>4 DEF AccountRow
<1> HIDE DEF h
<1> QED BY <1>2, <1>5

LEMMA WithProfileRows ==
    ASSUME users \in [Emails -> AccountRow], NEW e \in Emails
    PROVE  /\ WithProfile(e) \in [Emails -> AccountRow]
           /\ WithProfile(e)[e].role = users[e].role
           /\ WithProfile(e)[e].secret = users[e].secret
           /\ \A u \in Emails \ {e} : WithProfile(e)[u] = users[u]
BY DEF WithProfile, AccountRow

(* How a password may be replaced in a step.                               *)
Accounted(e) ==
    /\ Exists(e) => users'[e].role = users[e].role
    /\ Exists(e) /\ users'[e].secret # users[e].secret =>
         \/ \E x \in records' \ records :
               x.op = "change" /\ x.actor = e /\ x.body[2] = users'[e].secret
         \/ \E t \in LiveTokens(e) : resetTokens'[t].state = "USED"

LEMMA UsersStep == AnswersInv /\ [Next]_vars => users' \in [Emails -> AccountRow] /\ \A e \in Emails : Accounted(e)
<1> SUFFICES ASSUME AnswersInv, [Next]_vars
             PROVE  users' \in [Emails -> AccountRow] /\ \A e \in Emails : Accounted(e)
  OBVIOUS
<1> DEFINE Good == users' \in [Emails -> AccountRow] /\ \A e \in Emails : Accounted(e)
<1>0. users \in [Emails -> AccountRow] /\ \A r \in Requests : Fits(req[r], OpenOnes) /\ Remembers(req[r])
  BY DEF AnswersInv, Rows, AccountsInv, RequestsFit, Tells
<1>1. ASSUME UNCHANGED users PROVE Good
  BY <1>0, <1>1 DEF Accounted
<1>2. ASSUME NEW e, NEW row \in AccountRow, ~Exists(e), users' = [users EXCEPT ![e] = row] PROVE Good
  BY <1>0, <1>2 DEF Accounted
<1>3. ASSUME NEW r \in Requests, CreateUser(r) PROVE Good
  <2>1. CASE UNCHANGED users
    BY <1>1, <2>1
  <2>2. CASE ~Exists(req[r].email) /\ users' = [users EXCEPT ![req[r].email] = CreatedUser("cliente", req[r].secret)]
    <3>1. req[r].secret \in Secrets
      BY <1>0, <1>3 DEF CreateUser, Remembers
    <3>2. CreatedUser("cliente", req[r].secret) \in AccountRow
      BY <3>1 DEF CreatedUser, AccountRow
    <3> QED BY <1>2, <2>2, <3>2
  <2> QED BY <1>3, <2>1, <2>2 DEF CreateUser
<1>4. ASSUME NEW r \in Requests, CreateInitialAdmin(r) PROVE Good
  <2>1. PICK pw \in Secrets :
            \/ UNCHANGED users
            \/ ~Exists(InitialAdmin) /\ users' = [users EXCEPT ![InitialAdmin] = CreatedUser("admin", pw)]
    BY <1>4 DEF CreateInitialAdmin
  <2>2. CreatedUser("admin", pw) \in AccountRow
    BY DEF CreatedUser, AccountRow
  <2> QED BY <1>1, <1>2, <2>1, <2>2
<1>5. ASSUME NEW r \in Requests, CommitChange(r) PROVE Good
  <2>1. CASE UNCHANGED users
    BY <1>1, <2>1
  <2>2. CASE ~UNCHANGED users
    <3> DEFINE q == req[r]
    <3>1. /\ ~Recorded("change", q.email, q.key)
          /\ users' = WithPassword(q.email, q.body[2])
          /\ records' = Saved("change", q.email, q.key, q.body)
      BY <1>5, <2>2 DEF CommitChange, ChangeCommits
    <3>2. q.email \in Emails /\ q.body \in Secrets \X Secrets
      BY <1>0, <1>5 DEF CommitChange, Fits, Remembers
    <3>3. PICK o \in Emails, k \in {q.key}, body \in Secrets \X Secrets : o = q.email /\ body = q.body
      BY <3>2
    <3> DEFINE saved == [op |-> "change", actor |-> o, key |-> k, body |-> body]
    <3>4. saved \in records' \ records
      BY <3>1, <3>3 DEF Recorded, RecordsOf, Saved
    <3>5. /\ users' \in [Emails -> AccountRow]
          /\ users'[o].role = users[o].role /\ users'[o].secret = body[2]
          /\ \A u \in Emails \ {o} : users'[u] = users[u]
      BY <1>0, <3>1, <3>3, WithPasswordRows
    <3>6. saved.op = "change" /\ saved.actor = o /\ saved.body = body
      OBVIOUS
    <3> HIDE DEF saved
    <3>7. Accounted(o)
      BY <3>4, <3>5, <3>6 DEF Accounted
    <3>8. \A u \in Emails \ {o} : Accounted(u)
      BY <3>5 DEF Accounted
    <3> QED BY <3>5, <3>7, <3>8
  <2> QED BY <2>1, <2>2
<1>6. ASSUME NEW r \in Requests, CommitProfile(r) PROVE Good
  <2>1. CASE UNCHANGED users
    BY <1>1, <2>1
  <2>2. CASE ~UNCHANGED users
    <3>1. PICK e \in Emails : e = req[r].email
      BY <1>0, <1>6 DEF CommitProfile, Remembers
    <3>2. users' = WithProfile(e)
      BY <1>6, <2>2, <3>1 DEF CommitProfile
    <3>3. /\ users' \in [Emails -> AccountRow]
          /\ \A u \in Emails : users'[u].role = users[u].role /\ users'[u].secret = users[u].secret
      BY <1>0, <3>2, WithProfileRows
    <3> QED BY <3>3 DEF Accounted
  <2> QED BY <2>1, <2>2
<1>7. ASSUME NEW r \in Requests, CommitReset(r) PROVE Good
  <2>1. CASE UNCHANGED users
    BY <1>1, <2>1
  <2>2. CASE ~UNCHANGED users
    <3>1. PICK t \in Tokens : t = req[r].token
      BY <1>0, <1>7 DEF CommitReset, Fits
    <3>2. PICK e \in Emails : e = resetTokens[t].owner
      BY DEF AnswersInv, AccountsInv, TokenTypes
    <3>3. PICK pw \in Secrets : pw = req[r].secret
      BY <1>0, <1>7 DEF CommitReset, Remembers
    <3>4. resetTokens[t].state = "LIVE" /\ users' = WithPassword(e, pw) /\ resetTokens' = SpentToken(t)
      BY <1>7, <2>2, <3>1, <3>2, <3>3 DEF CommitReset, Consumes
    <3>5. /\ users' \in [Emails -> AccountRow]
          /\ users'[e].role = users[e].role
          /\ \A u \in Emails \ {e} : users'[u] = users[u]
      BY <1>0, <3>4, WithPasswordRows
    <3>6. resetTokens'[t].state = "USED" /\ t \in LiveTokens(e)
      BY <3>2, <3>4 DEF SpentToken, LiveTokens, AnswersInv, AccountsInv, TokenTypes
    <3> QED BY <3>5, <3>6 DEF Accounted
  <2> QED BY <2>1, <2>2
<1>8. ASSUME NEW r \in Requests,
             Login(r) \/ CheckEmail(r) \/ Refresh(r) \/ Logout(r) \/ ChangePassword(r) \/ BeginChange(r) \/ BeginProfile(r)
      PROVE  UNCHANGED users
  BY <1>8 DEF Login, VerifyLogin, OpenSession, ReadGuest, PromoteCart, RevokeGuest, CheckEmail,
       Refresh, FindRefreshToken, Rotate, Logout, FindSession, Leave, ChangePassword, BeginChange, BeginProfile, tables
<1>9. ASSUME NEW r \in Requests,
             AskReset(r) \/ FindResetToken(r) \/ BeginReset(r) \/ ReadInitialAdmin(r) \/ RequestFails(r)
      PROVE  UNCHANGED users
  BY <1>9 DEF AskReset, RequestReset, BeginRequestReset, CommitRequestReset, Mail, FindResetToken, BeginReset,
       ReadInitialAdmin, RequestFails, tables
<1>10. SessionExpires \/ TokenExpires \/ OpenCart \/ UNCHANGED vars => UNCHANGED users
  BY DEF SessionExpires, TokenExpires, OpenCart, vars, tables
<1> HIDE DEF Good
<1>11. Good
  BY <1>1, <1>3, <1>4, <1>5, <1>6, <1>7, <1>8, <1>9, <1>10 DEF Next, Register, Change, Profile, Reset, Bootstrap
<1> QED BY <1>11 DEF Good

-----------------------------------------------------------------------------
(* The records: added one at a time, each under a key that had none.       *)
LEMMA SavedRecord ==
    ASSUME OneRecordPerKey, NEW op, NEW e, NEW k, NEW body, ~Recorded(op, e, k), records' = Saved(op, e, k, body)
    PROVE  records \subseteq records' /\ OneRecordPerKey'
BY DEF OneRecordPerKey, Recorded, RecordsOf, Saved

LEMMA RecordsStep == AnswersInv /\ [Next]_vars => records \subseteq records' /\ OneRecordPerKey'
<1> SUFFICES ASSUME AnswersInv, [Next]_vars PROVE records \subseteq records' /\ OneRecordPerKey'
  OBVIOUS
<1>0. OneRecordPerKey
  BY DEF AnswersInv
<1>1. ASSUME UNCHANGED records PROVE records \subseteq records' /\ OneRecordPerKey'
  BY <1>0, <1>1 DEF OneRecordPerKey
<1>2. ASSUME NEW r \in Requests, CommitChange(r) PROVE records \subseteq records' /\ OneRecordPerKey'
  BY <1>0, <1>1, <1>2, SavedRecord DEF CommitChange, ChangeCommits
<1>3. ASSUME NEW r \in Requests, CommitProfile(r) PROVE records \subseteq records' /\ OneRecordPerKey'
  BY <1>0, <1>1, <1>3, SavedRecord DEF CommitProfile
<1>4. ASSUME NEW r \in Requests,
             \/ Login(r) \/ Register(r) \/ Refresh(r) \/ Logout(r)
             \/ ChangePassword(r) \/ BeginChange(r) \/ BeginProfile(r)
      PROVE  UNCHANGED records
  BY <1>4 DEF Login, VerifyLogin, OpenSession, ReadGuest, PromoteCart, RevokeGuest, Register, CheckEmail, CreateUser,
       Refresh, FindRefreshToken, Rotate, Logout, FindSession, Leave, ChangePassword, BeginChange, BeginProfile, tables
<1>5. ASSUME NEW r \in Requests, AskReset(r) \/ Reset(r) \/ Bootstrap(r) \/ RequestFails(r)
      PROVE  UNCHANGED records
  BY <1>5 DEF AskReset, RequestReset, BeginRequestReset, CommitRequestReset, Mail, Reset, FindResetToken, BeginReset,
       CommitReset, Bootstrap, ReadInitialAdmin, CreateInitialAdmin, RequestFails, tables
<1>6. SessionExpires \/ TokenExpires \/ OpenCart \/ UNCHANGED vars => UNCHANGED records
  BY DEF SessionExpires, TokenExpires, OpenCart, vars, tables
<1> QED BY <1>1, <1>2, <1>3, <1>4, <1>5, <1>6 DEF Next, Change, Profile

-----------------------------------------------------------------------------
(* The carts: one that an account has stays an account's, or is closed;    *)
(* one that a guest has stays the guest's until then.                      *)
CartsMoveOn ==
    /\ carts' \in [Carts -> CartRow]
    /\ \A c \in Carts : Kept(c, sessions, carts) => Kept(c, sessions', carts')
    /\ \A c \in Carts, g \in Guests :
           carts[c].owner = g => carts'[c].owner = g \/ Kept(c, sessions', carts')

LEMMA OwnersStay ==
    ASSUME SessionsMoveOn, NEW c, NEW C, Kept(c, sessions, C)
    PROVE  Kept(c, sessions', C)
<1>1. CASE C[c].status = "CLOSED"
  BY <1>1 DEF Kept
<1>2. CASE C[c].owner \in Sessions /\ sessions[C[c].owner].owner \in Emails
  <2>1. Open(C[c].owner)
    BY <1>2, NamesAssumption DEF Open
  <2>2. sessions'[C[c].owner].owner = sessions[C[c].owner].owner
    BY <1>2, <2>1 DEF SessionsMoveOn
  <2> QED BY <1>2, <2>2 DEF Kept
<1> QED BY <1>1, <1>2 DEF Kept

(* What promotion does to a row.                                           *)
LEMMA TransferredRows ==
    ASSUME Rows, NEW g, NEW s \in Sessions, NEW c \in Carts
    PROVE  /\ Transferred(g, s)[c] \in CartRow
           /\ carts[c].owner = g => Transferred(g, s)[c].owner = s
           /\ carts[c].owner # g => Transferred(g, s)[c] = carts[c]
           /\ Transferred(g, s)[c].status = carts[c].status
<1> DEFINE row == [carts[c] EXCEPT !.owner = s]
<1>0. carts[c] \in CartRow
  BY DEF Rows
<1>1. row \in CartRow /\ row.owner = s /\ row.status = carts[c].status
  BY <1>0 DEF CartRow
<1> HIDE DEF row
<1>2. Transferred(g, s)[c] = IF carts[c].owner = g THEN row ELSE carts[c]
  BY DEF Transferred, row
<1> QED BY <1>0, <1>1, <1>2

LEMMA ClosedRows ==
    ASSUME Rows, NEW g, NEW c \in Carts
    PROVE  /\ ClosedOf(g)[c] \in CartRow
           /\ ClosedOf(g)[c].owner = carts[c].owner
           /\ carts[c].owner = g => ClosedOf(g)[c].status = "CLOSED"
           /\ carts[c].owner # g => ClosedOf(g)[c] = carts[c]
<1> DEFINE row == [carts[c] EXCEPT !.status = "CLOSED"]
<1>0. carts[c] \in CartRow
  BY DEF Rows
<1>1. row \in CartRow /\ row.status = "CLOSED" /\ row.owner = carts[c].owner
  BY <1>0 DEF CartRow
<1> HIDE DEF row
<1>2. ClosedOf(g)[c] = IF carts[c].owner = g THEN row ELSE carts[c]
  BY DEF ClosedOf, row
<1> QED BY <1>0, <1>1, <1>2

(* A guest's cart promoted: no other cart is touched, and an account's     *)
(* never is, for no guest is an account.                                   *)
LEMMA Promotion ==
    ASSUME AnswersInv, NEW g \in Guests, NEW s \in Sessions, sessions[s].owner \in Emails,
           carts' = ClosedOf(g) \/ carts' = Transferred(g, s)
    PROVE  /\ carts' \in [Carts -> CartRow]
           /\ \A c \in Carts : Kept(c, sessions, carts) => Kept(c, sessions, carts')
           /\ \A c \in Carts : carts[c].owner = g => Kept(c, sessions, carts')
           /\ \A c \in Carts : carts[c].owner # g => carts'[c].owner = carts[c].owner
<1>0. Rows
  BY DEF AnswersInv
<1>1. \A c \in Carts : /\ carts'[c] \in CartRow
                       /\ carts'[c].owner = s \/ carts'[c].status = "CLOSED" \/ carts'[c] = carts[c]
                       /\ carts[c].owner = g => carts'[c].owner = s \/ carts'[c].status = "CLOSED"
                       /\ carts[c].owner # g => carts'[c] = carts[c]
  BY <1>0, TransferredRows, ClosedRows
<1>2. carts' \in [Carts -> CartRow]
  BY <1>1 DEF Transferred, ClosedOf
<1> QED BY <1>1, <1>2 DEF Kept

LEMMA CartsStep == AnswersInv /\ SessionsMoveOn /\ [Next]_vars => CartsMoveOn
<1> SUFFICES ASSUME AnswersInv, SessionsMoveOn, [Next]_vars PROVE CartsMoveOn
  OBVIOUS
<1>0. Rows /\ \A r \in Requests : Tells(req[r], sessions, carts, records)
  BY DEF AnswersInv
<1>1. ASSUME UNCHANGED carts PROVE CartsMoveOn
  BY <1>0, <1>1, OwnersStay DEF CartsMoveOn, Rows
<1>2. ASSUME NEW r \in Requests, PromoteCart(r) PROVE CartsMoveOn
  <2>1. PICK g \in Guests, s \in Sessions : g = req[r].guest /\ s = req[r].own /\ sessions[s].owner \in Emails
    BY <1>0, <1>2 DEF PromoteCart, Tells, Promotes
  <2>2. UNCHANGED sessions /\ (carts' = ClosedOf(g) \/ carts' = Transferred(g, s))
    BY <1>2, <2>1 DEF PromoteCart
  <2> QED BY <2>1, <2>2, Promotion DEF CartsMoveOn
<1>3. CASE OpenCart
  <2>1. PICK s \in Sessions, c \in Carts : carts[c].owner = NoSession /\ carts' = [carts EXCEPT ![c].owner = s] /\ UNCHANGED sessions
    BY <1>3 DEF OpenCart
  <2> DEFINE row == [carts[c] EXCEPT !.owner = s]
  <2>2. row \in CartRow /\ row.status = carts[c].status
    BY <1>0 DEF Rows, CartRow
  <2>3. carts' = [carts EXCEPT ![c] = row]
    BY <2>1
  <2> HIDE DEF row
  <2>4. /\ carts' \in [Carts -> CartRow]
        /\ carts'[c].status = carts[c].status
        /\ \A d \in Carts \ {c} : carts'[d] = carts[d]
    BY <1>0, <2>2, <2>3 DEF Rows
  <2>5. NoSession \notin Sessions
    BY SessionsAssumption
  <2>6. \A d \in Carts : Kept(d, sessions, carts) => Kept(d, sessions', carts')
    BY <2>1, <2>4, <2>5 DEF Kept
  <2>7. \A d \in Carts, g \in Guests : carts[d].owner = g => carts'[d].owner = g
    BY <2>1, <2>4, <2>5, SessionsAssumption
  <2> QED BY <2>4, <2>6, <2>7 DEF CartsMoveOn
<1>4. ASSUME NEW r \in Requests,
             \/ VerifyLogin(r) \/ OpenSession(r) \/ ReadGuest(r) \/ RevokeGuest(r)
             \/ Register(r) \/ Refresh(r) \/ Logout(r) \/ Change(r) \/ Profile(r)
      PROVE  UNCHANGED carts
  BY <1>4 DEF VerifyLogin, OpenSession, ReadGuest, RevokeGuest, Register, CheckEmail, CreateUser, Refresh,
       FindRefreshToken, Rotate, Logout, FindSession, Leave, Change, ChangePassword, BeginChange, CommitChange,
       Profile, BeginProfile, CommitProfile, tables
<1>5. ASSUME NEW r \in Requests, AskReset(r) \/ Reset(r) \/ Bootstrap(r) \/ RequestFails(r)
      PROVE  UNCHANGED carts
  BY <1>5 DEF AskReset, RequestReset, BeginRequestReset, CommitRequestReset, Mail, Reset, FindResetToken, BeginReset,
       CommitReset, Bootstrap, ReadInitialAdmin, CreateInitialAdmin, RequestFails, tables
<1>6. SessionExpires \/ TokenExpires \/ UNCHANGED vars => UNCHANGED carts
  BY DEF SessionExpires, TokenExpires, vars, tables
<1> QED BY <1>1, <1>2, <1>3, <1>4, <1>5, <1>6 DEF Next, Login

-----------------------------------------------------------------------------
(* What a step leaves true of every request.                               *)
WorldMovesOn ==
    /\ SessionsMoveOn /\ CartsMoveOn
    /\ records \subseteq records'
    /\ AccountsInv' /\ Rows' /\ OneRecordPerKey'

LEMMA WorldStep == AnswersInv /\ [Next]_vars => WorldMovesOn
<1> SUFFICES ASSUME AnswersInv, [Next]_vars PROVE WorldMovesOn
  OBVIOUS
<1>1. SessionsMoveOn /\ AccountsInv'
  BY SessionsStep, AccountsStep DEF AnswersInv
<1>2. CartsMoveOn
  BY <1>1, CartsStep
<1>3. \A g \in Guests : sessions'[g].owner = Guest
  BY <1>1, SessionsAssumption DEF AnswersInv, AccountsInv, GuestsAreOpen, SessionsMoveOn, Rows
<1>4. Rows'
  BY <1>2, <1>3, UsersStep DEF CartsMoveOn, Rows
<1> QED BY <1>1, <1>2, <1>4, RecordsStep DEF WorldMovesOn

LEMMA TellsOn ==
    ASSUME WorldMovesOn, NEW q, Tells(q, sessions, carts, records)
    PROVE  Tells(q, sessions', carts', records')
<1>1. \A s \in Sessions : sessions[s].owner \in Emails => sessions'[s].owner \in Emails
  BY NamesAssumption DEF WorldMovesOn, SessionsMoveOn, Open
<1>2. Promotes(q, sessions', carts')
  BY <1>1, SessionsAssumption DEF Tells, Promotes, WorldMovesOn, CartsMoveOn, SessionsMoveOn
<1>3. Reports(q, records')
  BY DEF Tells, Reports, RecordOf, WorldMovesOn
<1> QED BY <1>2, <1>3 DEF Tells

(* One request goes on, to a state of which all is true that is told; an   *)
(* effect is reported under a key that had none.                           *)
LEMMA MovesOn ==
    ASSUME AnswersInv, WorldMovesOn, NEW r \in Requests, NEW q, Goes(r, q),
           Tells(q, sessions', carts', records'), Changed(q) => RecordOf(q, records) = {}
    PROVE  AnswersInv'
<1>1. \A p \in Requests : req'[p] = IF p = r THEN q ELSE req[p]
  BY DEF Goes, AnswersInv, AccountsInv, RequestsFit
<1>2. \A p \in Requests : Tells(req'[p], sessions', carts', records')
  BY <1>1, TellsOn DEF AnswersInv
<1>3. \A p \in Requests : Changed(req[p]) => RecordOf(req[p], records) # {}
  BY DEF Changed, AnswersInv, Tells, Reports
<1>4. ChangedOnce'
  <2> SUFFICES ASSUME NEW a \in Requests, NEW b \in Requests, Changed(req'[a]), Changed(req'[b]),
                      req'[a].op = req'[b].op, req'[a].email = req'[b].email, req'[a].key = req'[b].key
               PROVE  a = b
    BY DEF ChangedOnce
  <2>1. RecordOf(req'[a], records) = RecordOf(req'[b], records)
    BY DEF RecordOf
  <2>2. a = r /\ b # r => FALSE
    BY <1>1, <1>3, <2>1
  <2>3. b = r /\ a # r => FALSE
    BY <1>1, <1>3, <2>1
  <2>4. CASE a # r /\ b # r
    BY <1>1, <2>4 DEF AnswersInv, ChangedOnce
  <2> QED BY <2>2, <2>3, <2>4
<1> QED BY <1>2, <1>4 DEF AnswersInv, WorldMovesOn

(* States of which nothing is told.                                        *)
Quiet(q) ==
    /\ q.at \notin {"hashed", "opened", "promoting", "revoking", "changing", "changing-tx", "editing-tx",
                    "resetting", "resetting-tx"}
    /\ ~Promoted(q) /\ ~Effective(q)

LEMMA QuietMoves ==
    ASSUME AnswersInv, WorldMovesOn, NEW r \in Requests, NEW q, Goes(r, q), Quiet(q)
    PROVE  AnswersInv'
<1>1. Tells(q, sessions', carts', records') /\ ~Changed(q)
  BY DEF Quiet, Tells, Remembers, Promotes, Reports, Changed
<1> QED BY <1>1, MovesOn

LEMMA AnswersAreQuiet ==
    ASSUME AnswersInv, WorldMovesOn, NEW r \in Requests, NEW code, code \notin {"CHANGED", "REPLAY"}, Answers(r, code)
    PROVE  AnswersInv'
<1>1. Quiet([at |-> "done", answer |-> code])
  BY DEF Quiet, Promoted, Effective
<1> QED BY <1>1, QuietMoves DEF Answers

LEMMA KeyedTells ==
    ASSUME AnswersInv, WorldMovesOn, NEW r \in Requests,
           NEW op, NEW e, NEW k, NEW body, NEW code, AnswersKeyed(r, op, e, k, body, code),
           code \in {"CHANGED", "REPLAY"} => \E x \in records' : x.op = op /\ x.actor = e /\ x.key = k /\ x.body = body,
           code = "CHANGED" => ~Recorded(op, e, k)
    PROVE  AnswersInv'
<1> DEFINE q == [at |-> "done", answer |-> code, op |-> op, email |-> e, key |-> k, body |-> body]
<1>1. /\ q.at = "done" /\ q.answer = code /\ q.op = op /\ q.email = e /\ q.key = k /\ q.body = body
      /\ ~Promoted(q)
  BY DEF Promoted
<1>2. Goes(r, q)
  BY DEF AnswersKeyed
<1> HIDE DEF q
<1>3. Remembers(q) /\ Promotes(q, sessions', carts')
  BY <1>1 DEF Remembers, Promotes
<1>4. Reports(q, records')
  BY <1>1 DEF Reports, RecordOf, Effective
<1>5. Changed(q) => RecordOf(q, records) = {}
  BY <1>1 DEF Changed, RecordOf, Recorded, RecordsOf
<1> QED BY <1>2, <1>3, <1>4, <1>5, MovesOn DEF Tells

LEMMA FromRecordTells ==
    ASSUME AnswersInv, WorldMovesOn, NEW r \in Requests, NEW op, NEW e, NEW k, NEW body,
           Recorded(op, e, k), AnswersFromRecord(r, op, e, k, body)
    PROVE  AnswersInv'
<1>1. PICK x \in RecordsOf(op, e, k) : x.body = RecordedBody(op, e, k)
  BY DEF Recorded, RecordedBody
<1>2. x \in records' /\ x.op = op /\ x.actor = e /\ x.key = k
  BY <1>1 DEF RecordsOf, WorldMovesOn
<1>3. CASE RecordedBody(op, e, k) = body
  <2>1. AnswersKeyed(r, op, e, k, body, "REPLAY")
    BY <1>3 DEF AnswersFromRecord
  <2> QED BY <1>1, <1>2, <1>3, <2>1, KeyedTells
<1>4. CASE RecordedBody(op, e, k) # body
  <2>1. AnswersKeyed(r, op, e, k, body, "IDEMPOTENCY_KEY_REUSED")
    BY <1>4 DEF AnswersFromRecord
  <2> QED BY <2>1, KeyedTells
<1> QED BY <1>3, <1>4

LEMMA SavedTells ==
    ASSUME AnswersInv, WorldMovesOn, NEW r \in Requests, NEW op, NEW e, NEW k, NEW body, ~Recorded(op, e, k),
           records' = Saved(op, e, k, body), AnswersKeyed(r, op, e, k, body, "CHANGED")
    PROVE  AnswersInv'
<1> DEFINE saved == [op |-> op, actor |-> e, key |-> k, body |-> body]
<1>0. saved \in records' /\ saved.op = op /\ saved.actor = e /\ saved.key = k /\ saved.body = body
  BY DEF Saved
<1> HIDE DEF saved
<1>1. \E x \in records' : x.op = op /\ x.actor = e /\ x.key = k /\ x.body = body
  BY <1>0
<1> QED BY <1>1, KeyedTells

-----------------------------------------------------------------------------
LEMMA LoginTells ==
    ASSUME AnswersInv, WorldMovesOn, NEW r \in Requests, Login(r) \/ Register(r)
    PROVE  AnswersInv'
<1>0. Fits(req[r], OpenOnes) /\ Tells(req[r], sessions, carts, records)
  BY DEF AnswersInv, AccountsInv, RequestsFit
<1>1. CASE VerifyLogin(r)
  <2>1. PICK e \in Emails, g \in Guests \union {NoSession} :
            \/ Goes(r, [at |-> "verified", op |-> "login", email |-> e, guest |-> g, own |-> NoSession, cart |-> NoCart])
            \/ Answers(r, "INVALID_CREDENTIALS")
    BY <1>1 DEF VerifyLogin
  <2>2. Quiet([at |-> "verified", op |-> "login", email |-> e, guest |-> g, own |-> NoSession, cart |-> NoCart])
    BY DEF Quiet, Promoted, Effective
  <2> QED BY <2>1, <2>2, QuietMoves, AnswersAreQuiet
<1>2. CASE CheckEmail(r)
  <2>1. PICK e \in Emails, pw \in Secrets, g \in Guests \union {NoSession} :
            \/ Goes(r, [at |-> "hashed", email |-> e, secret |-> pw, guest |-> g])
            \/ Answers(r, "EMAIL_ALREADY_REGISTERED")
    BY <1>2 DEF CheckEmail
  <2> DEFINE q == [at |-> "hashed", email |-> e, secret |-> pw, guest |-> g]
  <2>2. Tells(q, sessions', carts', records') /\ ~Changed(q)
    BY DEF Tells, Remembers, Promotes, Reports, Changed, Promoted, Effective
  <2> HIDE DEF q
  <2>3. Goes(r, q) => AnswersInv'
    BY <2>2, MovesOn
  <2> QED BY <2>1, <2>3, AnswersAreQuiet DEF q
<1>3. CASE CreateUser(r)
  <2> DEFINE q == [at |-> "verified", op |-> "register", email |-> req[r].email, guest |-> req[r].guest,
                   own |-> NoSession, cart |-> NoCart]
  <2>1. Goes(r, q) \/ Answers(r, "TECHNICAL_DEPENDENCY_FAILURE")
    BY <1>3 DEF CreateUser
  <2>2. Quiet(q)
    BY DEF Quiet, Promoted, Effective
  <2> QED BY <2>1, <2>2, QuietMoves, AnswersAreQuiet
<1>4. CASE OpenSession(r)
  <2>1. PICK s \in FreshSession :
            /\ sessions' = Opened(s, req[r].email)
            /\ \/ Answers(r, "OK")
               \/ req[r].guest # NoSession /\ Goes(r, [req[r] EXCEPT !.at = "opened", !.own = s])
    BY <1>4 DEF OpenSession
  <2> DEFINE q == [req[r] EXCEPT !.at = "opened", !.own = s]
  <2>2. s \in Sessions /\ sessions'[s].owner \in Emails /\ req[r].guest \in Guests \union {NoSession}
    BY <1>0, <1>4, <2>1 DEF OpenSession, Fits, FreshSession, Opened, OwnedBy, AnswersInv, AccountsInv, SessionTypes
  <2>3. q.at = "opened" /\ q.own = s /\ q.guest = req[r].guest
    BY <1>4 DEF OpenSession
  <2> HIDE DEF q
  <2>4. ~Promoted(q) /\ ~Effective(q)
    BY <2>3 DEF Promoted, Effective
  <2>5. CASE req[r].guest # NoSession /\ Goes(r, q)
    <3>1. Tells(q, sessions', carts', records')
      BY <2>2, <2>3, <2>4, <2>5 DEF Tells, Remembers, Promotes, Reports
    <3> QED BY <2>4, <2>5, <3>1, MovesOn DEF Changed
  <2> QED BY <2>1, <2>5, AnswersAreQuiet DEF q
<1>5. CASE ReadGuest(r)
  <2> DEFINE q == [req[r] EXCEPT !.at = "promoting", !.cart = CartOf(req[r].guest)]
  <2>1. Goes(r, q) \/ Answers(r, "OK")
    BY <1>5 DEF ReadGuest
  <2>2. q.at = "promoting" /\ q.cart = CartOf(req[r].guest) /\ q.guest = req[r].guest /\ q.own = req[r].own
    BY <1>5 DEF ReadGuest
  <2> HIDE DEF q
  <2>3. ~Promoted(q) /\ ~Effective(q)
    BY <2>2 DEF Promoted, Effective
  <2>4. q.guest \in Guests /\ q.own \in Sessions /\ sessions[q.own].owner \in Emails
    BY <1>0, <1>5, <2>2 DEF ReadGuest, Tells, Promotes
  <2>5. q.cart # NoCart => q.cart \in Carts /\ carts[q.cart].owner = q.guest
    BY <2>2 DEF CartOf
  <2>6. Tells(q, sessions, carts, records)
    BY <2>2, <2>3, <2>4, <2>5 DEF Tells, Remembers, Promotes, Reports
  <2>7. Goes(r, q) => AnswersInv'
    BY <2>3, <2>6, TellsOn, MovesOn DEF Changed
  <2> QED BY <2>1, <2>7, AnswersAreQuiet
<1>6. CASE PromoteCart(r)
  <2> DEFINE q == [req[r] EXCEPT !.at = "revoking"]
  <2>1. Goes(r, q)
    BY <1>6 DEF PromoteCart
  <2>2. q.at = "revoking" /\ q.cart = req[r].cart /\ q.guest = req[r].guest /\ q.own = req[r].own
    BY <1>6 DEF PromoteCart
  <2> HIDE DEF q
  <2>3. ~Promoted(q) /\ ~Effective(q)
    BY <2>2 DEF Promoted, Effective
  <2>4. PICK g \in Guests, s \in Sessions : g = q.guest /\ s = q.own /\ sessions[s].owner \in Emails
    BY <1>0, <1>6, <2>2 DEF PromoteCart, Tells, Promotes
  <2>5. UNCHANGED sessions /\ (carts' = ClosedOf(g) \/ carts' = Transferred(g, s))
    BY <1>6, <2>2, <2>4 DEF PromoteCart
  <2>6. q.cart # NoCart => q.cart \in Carts /\ (carts[q.cart].owner = g \/ Kept(q.cart, sessions, carts))
    BY <1>0, <1>6, <2>2, <2>4 DEF PromoteCart, Tells, Promotes
  <2>7. q.cart # NoCart => q.cart \in Carts /\ Kept(q.cart, sessions', carts')
    BY <2>4, <2>5, <2>6, Promotion
  <2>8. Tells(q, sessions', carts', records')
    BY <2>2, <2>3, <2>4, <2>5, <2>7 DEF Tells, Remembers, Promotes, Reports
  <2> QED BY <2>1, <2>3, <2>8, MovesOn DEF Changed
<1>7. CASE RevokeGuest(r)
  <2> DEFINE q == [at |-> "done", answer |-> "OK", guest |-> req[r].guest, cart |-> req[r].cart]
  <2>1. Goes(r, q) /\ sessions' = Revoked({req[r].guest}) /\ UNCHANGED carts
    BY <1>7 DEF RevokeGuest
  <2>2. q.at = "done" /\ q.guest = req[r].guest /\ q.cart = req[r].cart /\ ~Effective(q)
    BY DEF Effective
  <2> HIDE DEF q
  <2>3. req[r].guest \in Guests /\ (req[r].cart # NoCart => req[r].cart \in Carts /\ Kept(req[r].cart, sessions, carts))
    BY <1>0, <1>7 DEF RevokeGuest, Tells, Promotes
  <2>4. sessions'[req[r].guest].revoked
    <3>1. req[r].guest \in Sessions
      BY <2>3, SessionsAssumption
    <3>2. sessions[req[r].guest] \in SessionRow
      BY <3>1 DEF AnswersInv, AccountsInv, SessionTypes
    <3> QED BY <2>1, <3>1, <3>2 DEF Revoked, SessionRow
  <2>5. req[r].cart # NoCart => req[r].cart \in Carts /\ Kept(req[r].cart, sessions', carts')
    BY <2>3 DEF WorldMovesOn, CartsMoveOn
  <2>6. Tells(q, sessions', carts', records')
    BY <2>2, <2>3, <2>4, <2>5 DEF Tells, Remembers, Promotes, Reports
  <2> QED BY <2>1, <2>2, <2>6, MovesOn DEF Changed
<1> QED BY <1>1, <1>2, <1>3, <1>4, <1>5, <1>6, <1>7 DEF Login, Register

LEMMA SessionRequestsTell ==
    ASSUME AnswersInv, WorldMovesOn, NEW r \in Requests, Refresh(r) \/ Logout(r) \/ Bootstrap(r) \/ RequestFails(r)
    PROVE  AnswersInv'
<1>1. CASE FindRefreshToken(r)
  <2>1. PICK s \in Sessions : Goes(r, [at |-> "rotating", own |-> s]) \/ Answers(r, "AUTHENTICATION_REQUIRED")
    BY <1>1 DEF FindRefreshToken
  <2>2. Quiet([at |-> "rotating", own |-> s])
    BY DEF Quiet, Promoted, Effective
  <2> QED BY <2>1, <2>2, QuietMoves, AnswersAreQuiet
<1>2. CASE FindSession(r)
  <2>1. PICK s \in Bearers : Goes(r, [at |-> "leaving", own |-> s]) \/ Answers(r, "OK")
    BY <1>2 DEF FindSession
  <2>2. Quiet([at |-> "leaving", own |-> s])
    BY DEF Quiet, Promoted, Effective
  <2> QED BY <2>1, <2>2, QuietMoves, AnswersAreQuiet
<1>3. CASE ReadInitialAdmin(r)
  <2>1. \/ Goes(r, [at |-> "bootstrapping", email |-> InitialAdmin])
        \/ Answers(r, "OK") \/ Answers(r, "TECHNICAL_DEPENDENCY_FAILURE")
    BY <1>3, Zenon DEF ReadInitialAdmin
  <2>2. Quiet([at |-> "bootstrapping", email |-> InitialAdmin])
    BY DEF Quiet, Promoted, Effective
  <2> QED BY <2>1, <2>2, QuietMoves, AnswersAreQuiet
<1>4. CASE Rotate(r) \/ Leave(r) \/ RequestFails(r)
  BY <1>4, AnswersAreQuiet DEF Rotate, Leave, RequestFails
<1>5. CASE CreateInitialAdmin(r)
  <2>1. Answers(r, "OK") \/ Answers(r, "TECHNICAL_DEPENDENCY_FAILURE")
    BY <1>5 DEF CreateInitialAdmin
  <2> QED BY <2>1, AnswersAreQuiet
<1> QED BY <1>1, <1>2, <1>3, <1>4, <1>5 DEF Refresh, Logout, Bootstrap

LEMMA KeyedRequestsTell ==
    ASSUME AnswersInv, WorldMovesOn, NEW r \in Requests, Change(r) \/ Profile(r)
    PROVE  AnswersInv'
<1>0. Fits(req[r], OpenOnes) /\ Tells(req[r], sessions, carts, records)
  BY DEF AnswersInv, AccountsInv, RequestsFit
<1>1. CASE ChangePassword(r)
  <2>1. PICK s \in Bearers, k \in Keys, body \in Secrets \X Secrets :
            \/ /\ Recorded("change", sessions[s].owner, k)
               /\ AnswersFromRecord(r, "change", sessions[s].owner, k, body)
            \/ Answers(r, "CURRENT_PASSWORD_INVALID")
            \/ Goes(r, [at |-> "changing", own |-> s, email |-> sessions[s].owner, key |-> k, body |-> body])
    BY <1>1, Zenon DEF ChangePassword
  <2> DEFINE q == [at |-> "changing", own |-> s, email |-> sessions[s].owner, key |-> k, body |-> body]
  <2>2. Tells(q, sessions', carts', records') /\ ~Changed(q)
    BY DEF Tells, Remembers, Promotes, Reports, Changed, Promoted, Effective
  <2> HIDE DEF q
  <2>3. Goes(r, q) => AnswersInv'
    BY <2>2, MovesOn
  <2> QED BY <2>1, <2>3, AnswersAreQuiet, FromRecordTells DEF q
<1>2. CASE BeginChange(r)
  <2> DEFINE p == req[r]
             snap == TakenSnapshot(p.email, UnrevokedOf(p.email) \union {p.own})
  <2>1. \/ Recorded("change", p.email, p.key) /\ AnswersFromRecord(r, "change", p.email, p.key, p.body)
        \/ Goes(r, [at |-> "changing-tx", own |-> p.own, email |-> p.email, key |-> p.key, body |-> p.body, snap |-> snap])
    BY <1>2 DEF BeginChange
  <2>2. p.body \in Secrets \X Secrets
    BY <1>0, <1>2 DEF BeginChange, Tells, Remembers
  <2> HIDE DEF snap
  <2> DEFINE q == [at |-> "changing-tx", own |-> p.own, email |-> p.email, key |-> p.key, body |-> p.body, snap |-> snap]
  <2>3. Tells(q, sessions', carts', records') /\ ~Changed(q)
    BY <2>2 DEF Tells, Remembers, Promotes, Reports, Changed, Promoted, Effective
  <2> HIDE DEF q
  <2>4. Goes(r, q) => AnswersInv'
    BY <2>3, MovesOn
  <2> QED BY <2>1, <2>4, FromRecordTells DEF q
<1>3. CASE CommitChange(r)
  <2> DEFINE q == req[r]
  <2>1. \/ Answers(r, "TECHNICAL_DEPENDENCY_FAILURE")
        \/ /\ ~Recorded("change", q.email, q.key)
           /\ records' = Saved("change", q.email, q.key, q.body)
           /\ AnswersKeyed(r, "change", q.email, q.key, q.body, "CHANGED")
    BY <1>3 DEF CommitChange, ChangeCommits
  <2> QED BY <2>1, AnswersAreQuiet, SavedTells
<1>4. CASE BeginProfile(r)
  <2>1. PICK s \in Bearers, k \in Keys, n \in Names :
            \/ /\ Recorded("profile", sessions[s].owner, k)
               /\ AnswersFromRecord(r, "profile", sessions[s].owner, k, <<n>>)
            \/ Goes(r, [at |-> "editing-tx", own |-> s, email |-> sessions[s].owner, key |-> k, body |-> <<n>>,
                        snap |-> TakenSnapshot(sessions[s].owner, {})])
    BY <1>4 DEF BeginProfile
  <2> DEFINE q == [at |-> "editing-tx", own |-> s, email |-> sessions[s].owner, key |-> k, body |-> <<n>>,
                   snap |-> TakenSnapshot(sessions[s].owner, {})]
  <2>2. sessions[s].owner \in Emails
    BY DEF Bearers
  <2>3. Tells(q, sessions', carts', records') /\ ~Changed(q)
    BY <2>2 DEF Tells, Remembers, Promotes, Reports, Changed, Promoted, Effective
  <2> HIDE DEF q
  <2>4. Goes(r, q) => AnswersInv'
    BY <2>3, MovesOn
  <2> QED BY <2>1, <2>4, FromRecordTells DEF q
<1>5. CASE CommitProfile(r)
  <2> DEFINE q == req[r]
  <2>1. \/ Answers(r, "TECHNICAL_DEPENDENCY_FAILURE")
        \/ /\ ~Recorded("profile", q.email, q.key)
           /\ records' = Saved("profile", q.email, q.key, q.body)
           /\ AnswersKeyed(r, "profile", q.email, q.key, q.body, "CHANGED")
    BY <1>5 DEF CommitProfile
  <2> QED BY <2>1, AnswersAreQuiet, SavedTells
<1> QED BY <1>1, <1>2, <1>3, <1>4, <1>5 DEF Change, Profile

LEMMA ResetRequestsTell ==
    ASSUME AnswersInv, WorldMovesOn, NEW r \in Requests, AskReset(r) \/ Reset(r)
    PROVE  AnswersInv'
<1>0. Tells(req[r], sessions, carts, records)
  BY DEF AnswersInv
<1>1. CASE RequestReset(r)
  <2>1. PICK e \in Emails : Goes(r, [at |-> "asking", email |-> e]) \/ Answers(r, "OK")
    BY <1>1 DEF RequestReset
  <2>2. Quiet([at |-> "asking", email |-> e])
    BY DEF Quiet, Promoted, Effective
  <2> QED BY <2>1, <2>2, QuietMoves, AnswersAreQuiet
<1>2. CASE BeginRequestReset(r)
  <2>1. Quiet([at |-> "asking-tx", email |-> req[r].email, seen |-> LiveTokens(req[r].email)])
    BY DEF Quiet, Promoted, Effective
  <2> QED BY <1>2, <2>1, QuietMoves DEF BeginRequestReset
<1>3. CASE CommitRequestReset(r)
  <2>1. \/ Answers(r, "TECHNICAL_DEPENDENCY_FAILURE")
        \/ \E t \in Tokens : Goes(r, [at |-> "mailing", email |-> req[r].email, token |-> t])
    BY <1>3 DEF CommitRequestReset
  <2>2. \A t \in Tokens : Quiet([at |-> "mailing", email |-> req[r].email, token |-> t])
    BY DEF Quiet, Promoted, Effective
  <2> QED BY <2>1, <2>2, QuietMoves, AnswersAreQuiet
<1>4. CASE Mail(r)
  BY <1>4, AnswersAreQuiet DEF Mail
<1>5. CASE FindResetToken(r)
  <2>1. PICK t \in Tokens, pw \in Secrets :
            \/ Goes(r, [at |-> "resetting", token |-> t, secret |-> pw])
            \/ Answers(r, "PASSWORD_RESET_TOKEN_INVALID_OR_EXPIRED")
    BY <1>5 DEF FindResetToken
  <2> DEFINE q == [at |-> "resetting", token |-> t, secret |-> pw]
  <2>2. Tells(q, sessions', carts', records') /\ ~Changed(q)
    BY DEF Tells, Remembers, Promotes, Reports, Changed, Promoted, Effective
  <2> HIDE DEF q
  <2>3. Goes(r, q) => AnswersInv'
    BY <2>2, MovesOn
  <2> QED BY <2>1, <2>3, AnswersAreQuiet DEF q
<1>6. CASE BeginReset(r)
  <2> DEFINE e == resetTokens[req[r].token].owner
             snap == TakenSnapshot(e, UnrevokedOf(e))
             q == [at |-> "resetting-tx", token |-> req[r].token, secret |-> req[r].secret, snap |-> snap]
  <2>1. Goes(r, q) \/ Answers(r, "PASSWORD_RESET_TOKEN_INVALID_OR_EXPIRED")
    BY <1>6 DEF BeginReset
  <2>2. req[r].secret \in Secrets
    BY <1>0, <1>6 DEF BeginReset, Tells, Remembers
  <2> HIDE DEF e, snap
  <2>3. Tells(q, sessions', carts', records') /\ ~Changed(q)
    BY <2>2 DEF Tells, Remembers, Promotes, Reports, Changed, Promoted, Effective
  <2> HIDE DEF q
  <2>4. Goes(r, q) => AnswersInv'
    BY <2>3, MovesOn
  <2> QED BY <2>1, <2>4, AnswersAreQuiet
<1>7. CASE CommitReset(r)
  <2>1. \/ Answers(r, "TECHNICAL_DEPENDENCY_FAILURE")
        \/ Goes(r, [at |-> "done", answer |-> "OK", token |-> req[r].token])
    BY <1>7 DEF CommitReset
  <2>2. Quiet([at |-> "done", answer |-> "OK", token |-> req[r].token])
    BY DEF Quiet, Promoted, Effective
  <2> QED BY <2>1, <2>2, QuietMoves, AnswersAreQuiet
<1> QED BY <1>1, <1>2, <1>3, <1>4, <1>5, <1>6, <1>7 DEF AskReset, Reset

LEMMA AnswersStep == AnswersInv /\ [Next]_vars => AnswersInv'
<1> SUFFICES ASSUME AnswersInv, [Next]_vars PROVE AnswersInv'
  OBVIOUS
<1>1. WorldMovesOn
  BY WorldStep
<1>2. ASSUME UNCHANGED req PROVE AnswersInv'
  <2>1. \A p \in Requests : Tells(req[p], sessions', carts', records')
    BY <1>1, TellsOn DEF AnswersInv
  <2>2. ChangedOnce'
    BY <1>2 DEF AnswersInv, ChangedOnce
  <2> QED BY <1>1, <1>2, <2>1, <2>2 DEF AnswersInv, WorldMovesOn
<1>3. SessionExpires \/ TokenExpires \/ OpenCart \/ UNCHANGED vars => UNCHANGED req
  BY DEF SessionExpires, TokenExpires, OpenCart, vars
<1> QED BY <1>1, <1>2, <1>3, LoginTells, SessionRequestsTell, KeyedRequestsTell, ResetRequestsTell DEF Next

(* The inductive invariant behind the answers: what each is about is in    *)
(* the tables, and a cart on its way from a guest is the guest's until it  *)
(* is an account's.                                                        *)
THEOREM AnswersInvariant == Spec => []AnswersInv
BY InitAnswers, AnswersStep, PTL DEF Spec

(* However requests with one key overlap, they report one body's effect,   *)
(* and it happened once (prisma-change-password-unit-of-work.adapter.ts,   *)
(* prisma-update-profile-unit-of-work.adapter.ts).                         *)
THEOREM KeysHaveOneEffect == Spec => []OneEffectPerKey
<1>1. AnswersInv => OneEffectPerKey
  <2> SUFFICES ASSUME AnswersInv, NEW a \in Requests, NEW b \in Requests, Effective(req[a]), Effective(req[b]),
                      req[a].op = req[b].op, req[a].email = req[b].email, req[a].key = req[b].key
               PROVE  /\ req[a].body = req[b].body
                      /\ req[a].answer = "CHANGED" /\ req[b].answer = "CHANGED" => a = b
    BY DEF OneEffectPerKey
  <2>1. PICK x \in RecordOf(req[a], records) : x.body = req[a].body
    BY DEF AnswersInv, Tells, Reports
  <2>2. PICK y \in RecordOf(req[b], records) : y.body = req[b].body
    BY DEF AnswersInv, Tells, Reports
  <2>3. x.body = y.body
    BY DEF RecordOf, AnswersInv, OneRecordPerKey
  <2>4. req[a].answer = "CHANGED" /\ req[b].answer = "CHANGED" => a = b
    BY DEF AnswersInv, ChangedOnce, Changed
  <2> QED BY <2>1, <2>2, <2>3, <2>4
<1> QED BY <1>1, AnswersInvariant, PTL

(* Logins that race with one guest's cookie leave the guest's cart with an *)
(* account or closed, never in the session they revoked                    *)
(* (login.use-case.ts).                                                    *)
THEOREM GuestCartsAreNotLost == Spec => []PromotedCartIsNotLost
<1>1. AnswersInv => PromotedCartIsNotLost
  BY DEF AnswersInv, Tells, Promotes, Kept, PromotedCartIsNotLost
<1> QED BY <1>1, AnswersInvariant, PTL

(* No race between registrations, starting replicas, changes and resets    *)
(* replaces a password, or a role, without a record or a token used up.    *)
THEOREM PasswordsAreAccounted == Spec => PasswordChangesAreAccounted
<1>1. AnswersInv /\ [Next]_vars => [\A e \in Emails : Accounted(e)]_vars
  BY UsersStep
<1> QED BY <1>1, AnswersInvariant, PTL DEF Spec, PasswordChangesAreAccounted, Accounted
=============================================================================

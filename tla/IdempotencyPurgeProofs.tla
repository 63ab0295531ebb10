----------------------- MODULE IdempotencyPurgeProofs -----------------------
(***************************************************************************)
(* Theorems about AdminProvisioning and IdempotencyPurge, for any number   *)
(* of requests, addresses, keys, tokens and replicas: activation refines   *)
(* OneTimeToken, a key appoints one administrator, a token is used up by   *)
(* setting one password and by nothing else, and the purge deletes nothing *)
(* that is still needed.                                                   *)
(***************************************************************************)
EXTENDS IdempotencyPurge, FiniteSetTheorems, TLAPS

TokenRow == [owner: Emails, state: {"UNISSUED", "UNUSED", "USED"}, expired: BOOLEAN]
ReqStates == {Idle} \union Provision \union Activation \union Answer
CreatedAnswer == [at: {"done"}, answer: {"CREATED"}, actor: Emails, key: Keys, email: Emails]

Unused(t) == tokens[t].state = "UNUSED"

(* What the unique index on the address and the transaction of activation  *)
(* keep between accounts and tokens.                                       *)
UnusedHasAccount == \A t \in Tokens : Unused(t) => admins[tokens[t].owner] # "absent"
OneUnusedEach == \A t, u \in Tokens : Unused(t) /\ Unused(u) /\ tokens[t].owner = tokens[u].owner => t = u

(* The two halves of ActivationIsWhole.                                    *)
PendingHasToken == \A e \in Emails :
    admins[e] = "pending" => \E t \in Tokens : tokens[t].owner = e /\ tokens[t].state = "UNUSED"
UsedUpByWorking == \A t \in Tokens : worked[t] = IF tokens[t].state = "USED" THEN 1 ELSE 0

(* UNIQUE(scope, key).                                                     *)
OneRecordPerKey == \A x, y \in records :
    x.actor \in Emails /\ x.actor = y.actor /\ x.key = y.key => x = y

(* An account is created once, and stays.                                  *)
CreatedExists == \A a \in Requests :
    Created(req[a]) => req[a] \in CreatedAnswer /\ admins[req[a].email] # "absent"
CreatedOnce == \A a, b \in Requests :
    Created(req[a]) /\ Created(req[b]) /\ req[a].email = req[b].email => a = b

AppointmentInv ==
    /\ TypeOK
    /\ UnusedHasAccount /\ OneUnusedEach /\ PendingHasToken /\ UsedUpByWorking
    /\ OneRecordPerKey
    /\ CreatedExists /\ CreatedOnce

(* The advisory lock.                                                      *)
OneBatch == \A i, j \in Replicas : job[i].at = "batch" /\ job[j].at = "batch" => i = j
JobStates == {Asleep} \union Run \union Batch
JobTypes ==
    /\ job \in [Replicas -> JobStates]
    /\ foreign \in 0..ForeignRecords /\ failures \in 0..MaxFailures

PurgeInv == AppointmentInv /\ JobTypes /\ OneBatch

-----------------------------------------------------------------------------
LEMMA InitPurge == PurgeInit => PurgeInv
<1> SUFFICES ASSUME PurgeInit PROVE PurgeInv
  OBVIOUS
<1> USE DEF PurgeInit, Init
<1>1. TypeOK
  <2>1. tokens \in [Tokens -> TokenRow]
    BY RootAssumption DEF TokenRow
  <2> QED BY <2>1 DEF TypeOK, TokenRow
<1>2. UnusedHasAccount /\ OneUnusedEach
  BY RootAssumption DEF UnusedHasAccount, OneUnusedEach, Unused
<1>3. PendingHasToken /\ UsedUpByWorking
  BY TokensAssumption DEF PendingHasToken, UsedUpByWorking
<1>4. OneRecordPerKey /\ CreatedExists /\ CreatedOnce
  BY DEF OneRecordPerKey, CreatedExists, CreatedOnce, Created, Idle
<1>5. JobTypes
  BY BoundsAssumption DEF JobTypes, JobStates
<1>6. OneBatch
  BY DEF OneBatch, Asleep
<1> QED BY <1>1, <1>2, <1>3, <1>4, <1>5, <1>6 DEF PurgeInv, AppointmentInv

-----------------------------------------------------------------------------
(* The kinds of request states.                                            *)
LEMMA ReqKinds ==
    ASSUME NEW q \in ReqStates
    PROVE  /\ q.at \in {"checked", "provisioning"} => q \in Provision
           /\ q.at = "activating" => q \in Activation
           /\ q.at = "idle" => q = Idle
           /\ q.at \in {"idle", "checked", "provisioning", "activating", "done"}
BY DEF ReqStates, Idle, Provision, Activation, Answer

LEMMA ReqType ==
    ASSUME TypeOK, NEW r \in Requests, NEW q \in ReqStates, Goes(r, q)
    PROVE  req' \in [Requests -> ReqStates] /\ \A p \in Requests : req'[p] = IF p = r THEN q ELSE req[p]
BY DEF TypeOK, Goes, ReqStates

LEMMA AnswerState ==
    ASSUME NEW code \in Codes
    PROVE  [at |-> "done", answer |-> code] \in ReqStates
BY DEF ReqStates, Answer

(* A request that goes on, and changes no table, without creating.         *)
LEMMA GoesOnly ==
    ASSUME AppointmentInv, NEW r \in Requests, NEW q \in ReqStates, ~Created(q), Goes(r, q),
           UNCHANGED tables
    PROVE  AppointmentInv'
<1>1. req' \in [Requests -> ReqStates] /\ \A p \in Requests : req'[p] = IF p = r THEN q ELSE req[p]
  BY ReqType DEF AppointmentInv
<1>2. TypeOK'
  BY <1>1 DEF AppointmentInv, TypeOK, ReqStates, tables
<1>3. UnusedHasAccount' /\ OneUnusedEach' /\ PendingHasToken' /\ UsedUpByWorking' /\ OneRecordPerKey'
  BY DEF AppointmentInv, UnusedHasAccount, OneUnusedEach, PendingHasToken, UsedUpByWorking, OneRecordPerKey, Unused, tables
<1>4. \A p \in Requests : Created(req'[p]) => Created(req[p]) /\ req'[p] = req[p]
  BY <1>1
<1>5. CreatedExists' /\ CreatedOnce'
  BY <1>4 DEF AppointmentInv, CreatedExists, CreatedOnce, tables
<1> QED BY <1>2, <1>3, <1>5 DEF AppointmentInv

LEMMA AnswersOnly ==
    ASSUME AppointmentInv, NEW r \in Requests, NEW code \in Codes \ {"CREATED"}, Answers(r, code),
           UNCHANGED tables
    PROVE  AppointmentInv'
<1>1. ~Created([at |-> "done", answer |-> code])
  BY DEF Created
<1> QED BY <1>1, AnswerState, GoesOnly DEF Answers

(* A transaction that is tried again, or was tried often enough.           *)
LEMMA RetriedOnly ==
    ASSUME AppointmentInv, NEW r \in Requests, req[r].at = "provisioning", Retried(r),
           UNCHANGED tables
    PROVE  AppointmentInv'
<1>1. CASE req[r].attempt < MaxAttempts
  <2>1. PICK q \in Provision : q = req[r]
    BY ReqKinds DEF AppointmentInv, TypeOK, ReqStates
  <2> DEFINE first == [q EXCEPT !.at = "checked"]
             second == [first EXCEPT !.attempt = q.attempt + 1]
             third == [second EXCEPT !.known = {}]
             again == [third EXCEPT !.kept = {}]
  <2>2. first \in Provision /\ first.at = "checked"
    BY DEF Provision
  <2>3. q.attempt + 1 \in 1..MaxAttempts
    BY <1>1, <2>1, AttemptsAssumption DEF Provision
  <2>4. Goes(r, again)
    BY <1>1, <2>1 DEF Retried
  <2> HIDE DEF first
  <2>5. second \in Provision /\ second.at = "checked"
    BY <2>2, <2>3 DEF Provision
  <2> HIDE DEF second
  <2>6. third \in Provision /\ third.at = "checked"
    BY <2>5 DEF Provision
  <2> HIDE DEF third
  <2>7. again \in Provision /\ again.at = "checked"
    BY <2>6 DEF Provision
  <2>8. ~Created(again)
    BY <2>7 DEF Created
  <2> HIDE DEF again
  <2> QED BY <2>4, <2>7, <2>8, GoesOnly DEF ReqStates
<1>2. CASE ~(req[r].attempt < MaxAttempts)
  BY <1>2, AnswersOnly DEF Retried, Codes
<1> QED BY <1>1, <1>2

-----------------------------------------------------------------------------
LEMMA RecordKinds ==
    ASSUME NEW x \in Record
    PROVE  /\ x.actor \in Emails => x.key \in Keys /\ x.email \in Emails
           /\ x.actor \in Emails <=> ~Pending(x)
           /\ x.age \in Ages /\ x.replay \in BOOLEAN
BY ForeignAssumption DEF Record, Pending

LEMMA CheckActorStep ==
    ASSUME AppointmentInv, NEW r \in Requests, CheckActor(r) \/ RefuseActor(r)
    PROVE  AppointmentInv'
<1>1. CASE CheckActor(r)
  <2>1. PICK actor \in Emails, e \in Emails, k \in Keys :
            \/ Answers(r, "INITIAL_PASSWORD_CHANGE_REQUIRED")
            \/ Answers(r, "EMAIL_ALREADY_REGISTERED")
            \/ Goes(r, [at |-> "checked", actor |-> actor, email |-> e, key |-> k,
                        attempt |-> 1, known |-> {}, kept |-> {}])
    BY <1>1, Zenon DEF CheckActor
  <2>2. UNCHANGED tables
    BY <1>1 DEF CheckActor
  <2> DEFINE q == [at |-> "checked", actor |-> actor, email |-> e, key |-> k,
                   attempt |-> 1, known |-> {}, kept |-> {}]
  <2>3. q \in ReqStates /\ ~Created(q)
    BY AttemptsAssumption DEF ReqStates, Provision, Created
  <2>4. CASE Goes(r, q)
    BY <2>2, <2>3, <2>4, GoesOnly
  <2>5. CASE Answers(r, "INITIAL_PASSWORD_CHANGE_REQUIRED") \/ Answers(r, "EMAIL_ALREADY_REGISTERED")
    BY <2>2, <2>5, AnswersOnly DEF Codes
  <2> QED BY <2>1, <2>4, <2>5
<1>2. CASE RefuseActor(r)
  BY <1>2, AnswersOnly DEF RefuseActor, Codes
<1> QED BY <1>1, <1>2

LEMMA BeginProvisionStep ==
    ASSUME AppointmentInv, NEW r \in Requests, BeginProvision(r)
    PROVE  AppointmentInv'
<1>1. PICK q \in Provision : q = req[r]
  BY ReqKinds DEF AppointmentInv, TypeOK, ReqStates, BeginProvision
<1>2. PICK K \in SUBSET Emails : K = {e \in Emails : admins[e] # "absent"}
  OBVIOUS
<1>3. {x.email : x \in Recorded(q.actor, q.key)} \in SUBSET Emails
  BY RecordKinds DEF Recorded, AppointmentInv, TypeOK, Provision
<1>4. PICK S \in SUBSET Emails : S = {x.email : x \in Recorded(q.actor, q.key)}
  BY <1>3
<1> DEFINE first == [q EXCEPT !.at = "provisioning"]
           second == [first EXCEPT !.known = K]
           begun == [second EXCEPT !.kept = S]
<1>5. first \in Provision /\ first.at = "provisioning"
  BY DEF Provision
<1>6. Goes(r, begun)
  BY <1>1, <1>2, <1>4 DEF BeginProvision
<1> HIDE DEF first
<1>7. second \in Provision /\ second.at = "provisioning"
  BY <1>5 DEF Provision
<1> HIDE DEF second
<1>8. begun \in Provision /\ begun.at = "provisioning"
  BY <1>7 DEF Provision
<1>9. begun \in ReqStates /\ ~Created(begun)
  BY <1>8 DEF Created, ReqStates
<1>10. UNCHANGED tables
  BY DEF BeginProvision
<1> HIDE DEF begun
<1> QED BY <1>6, <1>9, <1>10, GoesOnly

(* The commit that creates an account.                                     *)
Creates(r, q, t) ==
    /\ admins[q.email] = "absent"
    /\ Recorded(q.actor, q.key) = {}
    /\ tokens[t].state = "UNISSUED"
    /\ admins' = [admins EXCEPT ![q.email] = "pending"]
    /\ tokens' = NewToken(t, q.email) /\ UNCHANGED worked
    /\ records' = records \union {[actor |-> q.actor, key |-> q.key,
                                   email |-> q.email, age |-> "young", replay |-> TRUE]}
    /\ Goes(r, [at |-> "done", answer |-> "CREATED", actor |-> q.actor, key |-> q.key, email |-> q.email])

LEMMA Committed ==
    ASSUME AppointmentInv, NEW r \in Requests, CommitProvision(r)
    PROVE  \/ UNCHANGED tables /\ AppointmentInv'
           \/ \E q \in Provision, t \in Tokens : q = req[r] /\ Creates(r, q, t)
<1>1. PICK q \in Provision : q = req[r]
  BY ReqKinds DEF AppointmentInv, TypeOK, ReqStates, CommitProvision
<1>2. q.at = "provisioning" /\ UNCHANGED worked
  BY <1>1 DEF CommitProvision
<1>3. CASE ~AddressTaken(q) /\ ~KeyTaken(q) /\ q.email \notin q.known /\ q.kept = {}
  <2>1. Goes(r, [at |-> "done", answer |-> "CREATED", actor |-> q.actor, key |-> q.key, email |-> q.email])
    BY <1>1, <1>3, Zenon DEF CommitProvision
  <2>2. PICK t \in Tokens :
            /\ tokens[t].state = "UNISSUED"
            /\ admins' = [admins EXCEPT ![q.email] = "pending"]
            /\ tokens' = NewToken(t, q.email)
            /\ records' = records \union {[actor |-> q.actor, key |-> q.key,
                                           email |-> q.email, age |-> "young", replay |-> TRUE]}
    BY <1>1, <1>3, Zenon DEF CommitProvision
  <2>3. Creates(r, q, t)
    BY <1>2, <1>3, <2>1, <2>2 DEF Creates, AddressTaken, KeyTaken
  <2> QED BY <1>1, <2>3
<1>4. CASE ~(~AddressTaken(q) /\ ~KeyTaken(q) /\ q.email \notin q.known /\ q.kept = {})
  <2>0. UNCHANGED <<admins, tokens, records>>
    BY <1>1, <1>4, Zenon DEF CommitProvision
  <2>1. UNCHANGED tables
    BY <1>2, <2>0 DEF tables
  <2>2. \/ Answers(r, "EMAIL_ALREADY_REGISTERED") \/ Answers(r, "IDEMPOTENCY_KEY_REUSED")
        \/ Answers(r, "TECHNICAL_DEPENDENCY_FAILURE") \/ Retried(r)
    <3>1. CASE q.email \in q.known
      BY <1>1, <3>1, Zenon DEF CommitProvision
    <3>2. CASE q.email \notin q.known /\ q.kept # {}
      BY <1>1, <3>2, Zenon DEF CommitProvision
    <3>3. CASE q.email \notin q.known /\ q.kept = {} /\ AddressTaken(q)
      BY <1>1, <3>3, Zenon DEF CommitProvision
    <3>4. CASE q.email \notin q.known /\ q.kept = {} /\ ~AddressTaken(q) /\ KeyTaken(q)
      BY <1>1, <3>4, Zenon DEF CommitProvision
    <3> QED BY <1>4, <3>1, <3>2, <3>3, <3>4
  <2>3. AppointmentInv'
    BY <1>1, <1>2, <2>1, <2>2, AnswersOnly, RetriedOnly DEF Codes
  <2> QED BY <2>1, <2>3
<1> QED BY <1>3, <1>4

LEMMA NewTokenRows ==
    ASSUME TypeOK, NEW t \in Tokens, NEW e \in Emails, tokens' = NewToken(t, e)
    PROVE  /\ tokens' \in [Tokens -> TokenRow]
           /\ tokens'[t].owner = e /\ tokens'[t].state = "UNUSED"
           /\ \A u \in Tokens \ {t} : tokens'[u] = tokens[u]
<1> DEFINE fresh == [owner |-> e, state |-> "UNUSED", expired |-> FALSE]
<1>1. fresh \in TokenRow /\ fresh.owner = e /\ fresh.state = "UNUSED"
  BY DEF TokenRow
<1>2. tokens' = [tokens EXCEPT ![t] = fresh]
  BY DEF NewToken
<1> HIDE DEF fresh
<1> QED BY <1>1, <1>2 DEF TypeOK, TokenRow

LEMMA CreateStep ==
    ASSUME AppointmentInv, NEW r \in Requests, NEW q \in Provision, NEW t \in Tokens, q = req[r], Creates(r, q, t)
    PROVE  AppointmentInv'
<1> DEFINE created == [at |-> "done", answer |-> "CREATED", actor |-> q.actor, key |-> q.key, email |-> q.email]
           row == [actor |-> q.actor, key |-> q.key, email |-> q.email, age |-> "young", replay |-> TRUE]
<1>1. q.email \in Emails /\ q.actor \in Emails /\ q.key \in Keys
  BY DEF Provision
<1>2. created \in CreatedAnswer /\ created \in ReqStates /\ created.email = q.email
  BY <1>1 DEF CreatedAnswer, ReqStates, Answer
<1>3. row \in Record /\ row.actor = q.actor /\ row.key = q.key
  BY <1>1 DEF Record, Ages
<1>4. records' = records \union {row} /\ Goes(r, created)
  BY DEF Creates
<1> HIDE DEF created, row
<1>5. req' \in [Requests -> ReqStates] /\ \A p \in Requests : req'[p] = IF p = r THEN created ELSE req[p]
  BY <1>2, <1>4, ReqType DEF AppointmentInv
<1>6. /\ tokens' \in [Tokens -> TokenRow]
      /\ tokens'[t].owner = q.email /\ tokens'[t].state = "UNUSED"
      /\ \A u \in Tokens \ {t} : tokens'[u] = tokens[u]
  BY <1>1, NewTokenRows DEF Creates, AppointmentInv
<1>7. /\ admins' \in [Emails -> {"absent", "pending", "active"}]
      /\ admins[q.email] = "absent" /\ admins'[q.email] = "pending"
      /\ \A e \in Emails \ {q.email} : admins'[e] = admins[e]
  BY <1>1 DEF Creates, AppointmentInv, TypeOK
<1>8. TypeOK'
  BY <1>3, <1>4, <1>5, <1>6, <1>7 DEF TypeOK, AppointmentInv, ReqStates, TokenRow, Creates
<1>9. \A u \in Tokens \ {t} : Unused(u)' => Unused(u) /\ tokens'[u].owner = tokens[u].owner /\ tokens[u].owner # q.email
  BY <1>6, <1>7 DEF Unused, UnusedHasAccount, AppointmentInv
<1>10. UnusedHasAccount' /\ OneUnusedEach'
  <2>1. \A u \in Tokens : tokens'[u].owner \in Emails
    BY <1>6 DEF TokenRow
  <2> QED BY <1>6, <1>7, <1>9, <2>1 DEF UnusedHasAccount, OneUnusedEach, Unused, AppointmentInv
<1>11. PendingHasToken'
  <2> SUFFICES ASSUME NEW e \in Emails, admins'[e] = "pending"
               PROVE  \E u \in Tokens : tokens'[u].owner = e /\ tokens'[u].state = "UNUSED"
    BY DEF PendingHasToken
  <2>1. CASE e = q.email
    BY <1>6, <2>1
  <2>2. CASE e # q.email
    <3>1. PICK u \in Tokens : tokens[u].owner = e /\ tokens[u].state = "UNUSED"
      BY <1>7, <2>2 DEF PendingHasToken, AppointmentInv
    <3> QED BY <1>6, <3>1 DEF Creates
  <2> QED BY <2>1, <2>2
<1>12. OneRecordPerKey'
  BY <1>3, <1>4 DEF OneRecordPerKey, AppointmentInv, Creates, Recorded
<1>13. \A p \in Requests \ {r} : Created(req'[p]) => Created(req[p]) /\ req[p].email # q.email
  BY <1>5, <1>7 DEF AppointmentInv, CreatedExists
<1>14. CreatedExists'
  <2>1. \A p \in Requests : Created(req[p]) => req[p].email \in Emails
    BY DEF AppointmentInv, CreatedExists, CreatedAnswer
  <2> QED BY <1>2, <1>5, <1>7, <1>13, <2>1 DEF AppointmentInv, CreatedExists
<1>15. CreatedOnce'
  BY <1>2, <1>5, <1>13 DEF AppointmentInv, CreatedOnce
<1>16. UsedUpByWorking'
  BY <1>6 DEF UsedUpByWorking, AppointmentInv, Creates
<1> QED BY <1>8, <1>10, <1>11, <1>12, <1>14, <1>15, <1>16 DEF AppointmentInv

LEMMA FindTokenStep ==
    ASSUME AppointmentInv, NEW r \in Requests, FindActivationToken(r)
    PROVE  AppointmentInv'
<1>1. PICK t \in Tokens :
          \/ Goes(r, [at |-> "activating", token |-> t])
          \/ Answers(r, "ACTIVATION_TOKEN_INVALID_OR_EXPIRED")
  BY DEF FindActivationToken
<1>2. UNCHANGED tables
  BY DEF FindActivationToken
<1>3. [at |-> "activating", token |-> t] \in ReqStates /\ ~Created([at |-> "activating", token |-> t])
  BY DEF ReqStates, Activation, Created
<1> QED BY <1>1, <1>2, <1>3, GoesOnly, AnswersOnly DEF Codes

(* A used token's owner is active, and had no other token.                 *)
LEMMA ActivateStep ==
    ASSUME AppointmentInv, NEW r \in Requests, Activate(r)
    PROVE  AppointmentInv'
<1>1. PICK t \in Tokens : t = req[r].token
  BY ReqKinds DEF Activate, AppointmentInv, TypeOK, ReqStates, Activation
<1>2. PICK code \in {"ACTIVATED", "ACTIVATION_TOKEN_INVALID_OR_EXPIRED"} : Answers(r, code)
  BY DEF Activate
<1>3. CASE UNCHANGED <<admins, tokens, worked>>
  BY <1>2, <1>3, AnswersOnly DEF Activate, Codes, tables
<1>4. CASE ~UNCHANGED <<admins, tokens, worked>>
  <2> DEFINE answered == [at |-> "done", answer |-> code]
             used == [tokens[t] EXCEPT !.state = "USED"]
  <2>1. tokens[t].state = "UNUSED" /\ Activated(t) /\ UNCHANGED records
    BY <1>1, <1>4 DEF Activate, Consumable
  <2>2. answered \in ReqStates /\ ~Created(answered) /\ Goes(r, answered)
    BY <1>2, AnswerState DEF Answers, Created, Codes
  <2>3. used \in TokenRow /\ used.owner = tokens[t].owner /\ used.state = "USED"
    BY DEF AppointmentInv, TypeOK, TokenRow
  <2>4. tokens' = [tokens EXCEPT ![t] = used]
    BY <2>1 DEF Activated
  <2> HIDE DEF answered, used
  <2>5. req' \in [Requests -> ReqStates] /\ \A p \in Requests : req'[p] = IF p = r THEN answered ELSE req[p]
    BY <2>2, ReqType DEF AppointmentInv
  <2>6. /\ tokens' \in [Tokens -> TokenRow]
        /\ tokens'[t].owner = tokens[t].owner /\ tokens'[t].state = "USED"
        /\ \A u \in Tokens \ {t} : tokens'[u] = tokens[u]
    BY <2>3, <2>4 DEF AppointmentInv, TypeOK, TokenRow
  <2>7. PICK o \in Emails : o = tokens[t].owner
    BY DEF AppointmentInv, TypeOK
  <2>8. /\ admins' \in [Emails -> {"absent", "pending", "active"}]
        /\ admins'[o] = "active"
        /\ \A e \in Emails \ {o} : admins'[e] = admins[e]
    BY <2>1, <2>7 DEF Activated, AppointmentInv, TypeOK
  <2>8a. /\ worked' \in [Tokens -> Nat] /\ worked'[t] = 1
         /\ \A u \in Tokens \ {t} : worked'[u] = worked[u]
    BY <2>1 DEF Activated, AppointmentInv, TypeOK, UsedUpByWorking
  <2>8b. UsedUpByWorking'
    BY <2>6, <2>8a DEF UsedUpByWorking, AppointmentInv
  <2>9. TypeOK'
    BY <2>1, <2>5, <2>6, <2>8, <2>8a DEF TypeOK, AppointmentInv, ReqStates, TokenRow
  <2>10. \A u \in Tokens : Unused(u)' => u # t /\ Unused(u) /\ tokens'[u] = tokens[u] /\ tokens[u].owner # o
    BY <2>1, <2>6, <2>7 DEF Unused, OneUnusedEach, AppointmentInv
  <2>11. UnusedHasAccount' /\ OneUnusedEach'
    <3>1. \A u \in Tokens : tokens[u].owner \in Emails
      BY DEF AppointmentInv, TypeOK
    <3> QED BY <2>8, <2>10, <3>1 DEF UnusedHasAccount, OneUnusedEach, AppointmentInv
  <2>12. PendingHasToken'
    BY <2>6, <2>7, <2>8 DEF PendingHasToken, AppointmentInv
  <2>13. \A p \in Requests : Created(req'[p]) => Created(req[p]) /\ req'[p] = req[p]
    BY <2>2, <2>5
  <2>14. CreatedExists' /\ CreatedOnce'
    <3>1. \A p \in Requests : Created(req[p]) => req[p].email \in Emails
      BY DEF AppointmentInv, CreatedExists, CreatedAnswer
    <3> QED BY <2>8, <2>13, <3>1 DEF AppointmentInv, CreatedExists, CreatedOnce
  <2>15. OneRecordPerKey'
    BY <2>1 DEF AppointmentInv, OneRecordPerKey
  <2> QED BY <2>9, <2>11, <2>12, <2>14, <2>15, <2>8b DEF AppointmentInv
<1> QED BY <1>3, <1>4

(* A reset leaves the activation token alone, unused as it may be.         *)
LEMMA ResetPasswordStep ==
    ASSUME AppointmentInv, NEW r \in Requests, ResetPassword(r)
    PROVE  AppointmentInv'
<1> DEFINE answered == [at |-> "done", answer |-> "RESET"]
<1>1. PICK e \in Emails : admins[e] # "absent" /\ admins' = [admins EXCEPT ![e] = "active"]
  BY DEF ResetPassword
<1>2. answered \in ReqStates /\ ~Created(answered) /\ Goes(r, answered) /\ UNCHANGED <<tokens, worked, records>>
  BY AnswerState DEF ResetPassword, Answers, Created, Codes
<1> HIDE DEF answered
<1>3. req' \in [Requests -> ReqStates] /\ \A p \in Requests : req'[p] = IF p = r THEN answered ELSE req[p]
  BY <1>2, ReqType DEF AppointmentInv
<1>4. /\ admins' \in [Emails -> {"absent", "pending", "active"}]
      /\ \A a \in Emails : /\ admins[a] # "absent" => admins'[a] # "absent"
                           /\ admins'[a] = "pending" => admins[a] = "pending"
  BY <1>1 DEF AppointmentInv, TypeOK
<1>5. TypeOK'
  BY <1>2, <1>3, <1>4 DEF TypeOK, AppointmentInv, ReqStates
<1>6. UnusedHasAccount' /\ OneUnusedEach' /\ PendingHasToken' /\ UsedUpByWorking' /\ OneRecordPerKey'
  <2>1. \A t \in Tokens : tokens[t].owner \in Emails
    BY DEF AppointmentInv, TypeOK
  <2> QED BY <1>2, <1>4, <2>1 DEF AppointmentInv, UnusedHasAccount, OneUnusedEach, PendingHasToken, UsedUpByWorking,
                 OneRecordPerKey, Unused
<1>7. \A p \in Requests : Created(req'[p]) => Created(req[p]) /\ req'[p] = req[p]
  BY <1>2, <1>3
<1>8. CreatedExists' /\ CreatedOnce'
  <2>1. \A p \in Requests : Created(req[p]) => req[p].email \in Emails
    BY DEF AppointmentInv, CreatedExists, CreatedAnswer
  <2> QED BY <1>4, <1>7, <2>1 DEF AppointmentInv, CreatedExists, CreatedOnce
<1> QED BY <1>5, <1>6, <1>8 DEF AppointmentInv

LEMMA TokenExpiresStep == AppointmentInv /\ TokenExpires => AppointmentInv'
<1> SUFFICES ASSUME AppointmentInv, TokenExpires PROVE AppointmentInv'
  OBVIOUS
<1>1. PICK t \in Tokens : tokens' = [tokens EXCEPT ![t].expired = TRUE] /\ UNCHANGED <<admins, worked, records, req>>
  BY DEF TokenExpires
<1> DEFINE late == [tokens[t] EXCEPT !.expired = TRUE]
<1>2. late \in TokenRow /\ late.owner = tokens[t].owner /\ late.state = tokens[t].state
  BY DEF AppointmentInv, TypeOK, TokenRow
<1>3. tokens' = [tokens EXCEPT ![t] = late]
  BY <1>1
<1> HIDE DEF late
<1>4. /\ tokens' \in [Tokens -> TokenRow]
      /\ \A u \in Tokens : tokens'[u].owner = tokens[u].owner /\ tokens'[u].state = tokens[u].state
  BY <1>2, <1>3 DEF AppointmentInv, TypeOK, TokenRow
<1>5. TypeOK'
  BY <1>1, <1>4 DEF AppointmentInv, TypeOK, TokenRow
<1>6. UnusedHasAccount' /\ OneUnusedEach' /\ PendingHasToken' /\ UsedUpByWorking'
  BY <1>1, <1>4 DEF AppointmentInv, UnusedHasAccount, OneUnusedEach, PendingHasToken, UsedUpByWorking, Unused
<1>7. OneRecordPerKey' /\ CreatedExists' /\ CreatedOnce'
  BY <1>1 DEF AppointmentInv, OneRecordPerKey, CreatedExists, CreatedOnce
<1> QED BY <1>5, <1>6, <1>7 DEF AppointmentInv

LEMMA ProvisionStep == AppointmentInv /\ ProvisionNext => AppointmentInv'
<1> SUFFICES ASSUME AppointmentInv, ProvisionNext PROVE AppointmentInv'
  OBVIOUS
<1>1. ASSUME NEW r \in Requests, SerializationFails(r) PROVE AppointmentInv'
  BY <1>1, RetriedOnly DEF SerializationFails
<1>2. ASSUME NEW r \in Requests, RequestFails(r) PROVE AppointmentInv'
  BY <1>2, AnswersOnly DEF RequestFails, Codes
<1>3. ASSUME NEW r \in Requests, CommitProvision(r) PROVE AppointmentInv'
  BY <1>3, Committed, CreateStep
<1> QED BY <1>1, <1>2, <1>3, CheckActorStep, BeginProvisionStep, FindTokenStep, ActivateStep,
          ResetPasswordStep, TokenExpiresStep
          DEF ProvisionNext

-----------------------------------------------------------------------------
(* Steps of the purge and of other operations, which touch only records.   *)
LEMMA RecordsOnly ==
    ASSUME AppointmentInv, UNCHANGED provision, records' \subseteq Record, OneRecordPerKey'
    PROVE  AppointmentInv'
<1>1. TypeOK'
  BY DEF AppointmentInv, TypeOK, provision
<1>2. UnusedHasAccount' /\ OneUnusedEach' /\ PendingHasToken' /\ UsedUpByWorking'
  BY DEF AppointmentInv, UnusedHasAccount, OneUnusedEach, PendingHasToken, UsedUpByWorking, Unused, provision
<1>3. CreatedExists' /\ CreatedOnce'
  BY DEF AppointmentInv, CreatedExists, CreatedOnce, provision
<1> QED BY <1>1, <1>2, <1>3 DEF AppointmentInv

LEMMA FewerRecords ==
    ASSUME AppointmentInv, UNCHANGED provision, records' \subseteq records
    PROVE  AppointmentInv'
<1>1. records' \subseteq Record /\ OneRecordPerKey'
  BY DEF AppointmentInv, TypeOK, OneRecordPerKey
<1> QED BY <1>1, RecordsOnly

(* What becomes of a record when time passes.                              *)
LEMMA Aged ==
    ASSUME NEW x \in Record, x.age # "old"
    PROVE  \E y \in Record :
               /\ y = [x EXCEPT !.age = AgeOf(x), !.replay = Pending(x)]
               /\ <<y.actor, y.key, y.email>> = <<x.actor, x.key, x.email>>
               /\ Older(y, x)
<1>1. AgeOf(x) \in Ages /\ Pending(x) \in BOOLEAN
  BY DEF AgeOf, Ages, Pending
<1>2. PICK age \in Ages : age = AgeOf(x)
  BY <1>1
<1>3. PICK p \in BOOLEAN : p = Pending(x)
  BY <1>1
<1> DEFINE first == [x EXCEPT !.age = age]
           y == [first EXCEPT !.replay = p]
<1>4. y = [x EXCEPT !.age = AgeOf(x), !.replay = Pending(x)]
  BY <1>2, <1>3
<1>5. first \in Record /\ first.age = age /\ <<first.actor, first.key, first.email>> = <<x.actor, x.key, x.email>>
  BY DEF Record
<1> HIDE DEF first
<1>6. y \in Record /\ y.age = age /\ <<y.actor, y.key, y.email>> = <<x.actor, x.key, x.email>>
  BY <1>5 DEF Record
<1> HIDE DEF y
<1>7. Older(y, x)
  BY <1>2, <1>6, RecordKinds DEF Older, AgeOf, Ages
<1> QED BY <1>4, <1>6, <1>7

LEMMA TimePassesStep == AppointmentInv /\ TimePasses => AppointmentInv'
<1> SUFFICES ASSUME AppointmentInv, TimePasses PROVE AppointmentInv'
  OBVIOUS
<1>1. PICK x \in records :
          /\ x.age # "old"
          /\ records' = (records \ {x}) \union {[x EXCEPT !.age = AgeOf(x), !.replay = Pending(x)]}
          /\ UNCHANGED provision
  BY DEF TimePasses
<1>2. PICK y \in Record : records' = (records \ {x}) \union {y} /\ y.actor = x.actor /\ y.key = x.key
  BY <1>1, Aged DEF AppointmentInv, TypeOK
<1>3. records' \subseteq Record
  BY <1>2 DEF AppointmentInv, TypeOK
<1>4. OneRecordPerKey'
  BY <1>2 DEF AppointmentInv, OneRecordPerKey
<1> QED BY <1>1, <1>3, <1>4, RecordsOnly

LEMMA ForeignSaveStep == PurgeInv /\ ForeignSave => AppointmentInv'
<1> SUFFICES ASSUME PurgeInv, ForeignSave PROVE AppointmentInv'
  OBVIOUS
<1> DEFINE row == [actor |-> "foreign", key |-> foreign', email |-> "any", age |-> "young", replay |-> TRUE]
<1>1. records' = records \union {row} /\ UNCHANGED provision
  BY DEF ForeignSave, provision
<1>2. row \in Record /\ row.actor = "foreign"
  BY BoundsAssumption DEF ForeignSave, PurgeInv, JobTypes, Record, Ages
<1> HIDE DEF row
<1>3. records' \subseteq Record
  BY <1>1, <1>2 DEF PurgeInv, AppointmentInv, TypeOK
<1>4. OneRecordPerKey'
  BY <1>1, <1>2, ForeignAssumption DEF PurgeInv, AppointmentInv, OneRecordPerKey
<1> QED BY <1>1, <1>3, <1>4, RecordsOnly DEF PurgeInv

(* A run's steps: one batch at a time, and counted attempts.               *)
LEMMA WakesTypes ==
    ASSUME JobTypes, OneBatch, NEW j \in Replicas, NEW q \in JobStates, Wakes(j, q),
           q.at # "batch" \/ LockFree
    PROVE  job' \in [Replicas -> JobStates] /\ OneBatch'
BY DEF JobTypes, OneBatch, Wakes, LockFree

LEMMA JobKinds ==
    ASSUME NEW q \in JobStates
    PROVE  /\ q.at = "running" => q \in Run
           /\ q.at = "batch" => q \in Batch
BY DEF JobStates, Asleep, Run, Batch

LEMMA JobStep == PurgeInv /\ [PurgeNext]_allvars => JobTypes' /\ OneBatch'
<1> SUFFICES ASSUME PurgeInv, [PurgeNext]_allvars PROVE JobTypes' /\ OneBatch'
  OBVIOUS
<1>0. JobTypes /\ OneBatch /\ \A j \in Replicas : job[j] \in JobStates
  BY DEF PurgeInv, JobTypes
<1>a. Asleep \in JobStates /\ Asleep.at # "batch"
  BY DEF JobStates, Asleep
<1>b. [at |-> "running", attempt |-> 1] \in JobStates
  BY BatchAssumption DEF JobStates, Run
<1>1. ASSUME UNCHANGED purge PROVE JobTypes' /\ OneBatch'
  BY <1>0, <1>1 DEF JobTypes, OneBatch, purge
<1>2. ASSUME NEW j \in Replicas, Fire(j) PROVE JobTypes' /\ OneBatch'
  BY <1>0, <1>b, <1>2, WakesTypes DEF Fire, JobTypes
<1>3. ASSUME NEW j \in Replicas, SelectBatch(j) PROVE JobTypes' /\ OneBatch'
  <2>1. PICK S \in SUBSET records :
            Wakes(j, [at |-> "batch", attempt |-> job[j].attempt, rows |-> S]) /\ LockFree
    BY <1>3 DEF SelectBatch
  <2>2. job[j] \in Run /\ S \in SUBSET Record
    BY <1>0, <1>3, JobKinds DEF SelectBatch, PurgeInv, AppointmentInv, TypeOK
  <2>3. [at |-> "batch", attempt |-> job[j].attempt, rows |-> S] \in JobStates
    BY <2>2 DEF Run, Batch, JobStates
  <2> QED BY <1>0, <1>3, <2>1, <2>3, WakesTypes DEF SelectBatch, JobTypes
<1>4. ASSUME NEW j \in Replicas, DeleteBatch(j) PROVE JobTypes' /\ OneBatch'
  <2>1. Wakes(j, [at |-> "running", attempt |-> 1]) \/ Wakes(j, Asleep)
    BY <1>4 DEF DeleteBatch
  <2> QED BY <1>0, <1>a, <1>b, <1>4, <2>1, WakesTypes DEF DeleteBatch, JobTypes
<1>5. ASSUME NEW j \in Replicas, BatchFails(j) PROVE JobTypes' /\ OneBatch'
  <2>1. failures' \in 0..MaxFailures /\ UNCHANGED foreign
    BY <1>0, <1>5, BoundsAssumption DEF BatchFails, JobTypes
  <2>2. CASE AttemptsLeft(job[j])
    <3>1. job[j].attempt \in 1..BatchAttempts
      BY <1>0, <1>5, JobKinds DEF BatchFails, Run, Batch
    <3>2. [at |-> "running", attempt |-> job[j].attempt + 1] \in JobStates
      BY <2>2, <3>1, BatchAssumption DEF AttemptsLeft, JobStates, Run
    <3> QED BY <1>0, <1>5, <2>1, <2>2, <3>2, WakesTypes DEF BatchFails, JobTypes
  <2>3. CASE ~AttemptsLeft(job[j])
    BY <1>0, <1>a, <1>5, <2>1, <2>3, WakesTypes DEF BatchFails, JobTypes
  <2> QED BY <2>2, <2>3
<1>6. ASSUME NEW j \in Replicas, ReplicaRestarts(j) PROVE JobTypes' /\ OneBatch'
  <2>1. failures' \in 0..MaxFailures /\ UNCHANGED foreign
    BY <1>0, <1>6, BoundsAssumption DEF ReplicaRestarts, JobTypes
  <2> QED BY <1>0, <1>a, <1>6, <2>1, WakesTypes DEF ReplicaRestarts, JobTypes
<1>7. CASE TimePasses
  BY <1>1, <1>7 DEF TimePasses
<1>8. CASE ForeignSave
  BY <1>0, <1>8, BoundsAssumption DEF ForeignSave, JobTypes, OneBatch
<1>9. CASE UNCHANGED allvars
  BY <1>1, <1>9 DEF allvars
<1> QED BY <1>1, <1>2, <1>3, <1>4, <1>5, <1>6, <1>7, <1>8, <1>9 DEF PurgeNext

LEMMA PurgeStep == PurgeInv /\ [PurgeNext]_allvars => PurgeInv'
<1> SUFFICES ASSUME PurgeInv, [PurgeNext]_allvars PROVE PurgeInv'
  OBVIOUS
<1>1. ASSUME UNCHANGED vars PROVE AppointmentInv'
  BY <1>1, FewerRecords DEF vars, tables, provision, PurgeInv
<1>2. ASSUME NEW j \in Replicas, Fire(j) \/ SelectBatch(j) \/ BatchFails(j) \/ ReplicaRestarts(j) PROVE UNCHANGED vars
  BY <1>2 DEF Fire, SelectBatch, BatchFails, ReplicaRestarts
<1>3. ASSUME NEW j \in Replicas, DeleteBatch(j) PROVE AppointmentInv'
  BY <1>3, FewerRecords DEF DeleteBatch, PurgeInv
<1>4. UNCHANGED allvars => UNCHANGED vars
  BY DEF allvars
<1> QED BY <1>1, <1>2, <1>3, <1>4, JobStep, ProvisionStep, TimePassesStep, ForeignSaveStep DEF PurgeNext, PurgeInv

-----------------------------------------------------------------------------
(* Activation.  How a token's row reads in OneTimeToken.                   *)
StatusOf(row) ==
    CASE row.state = "UNISSUED" -> "unissued"
      [] row.state = "UNUSED" -> "live"
      [] row.state = "USED" -> "dead"

LEMMA Statuses ==
    ASSUME NEW row \in TokenRow
    PROVE  /\ StatusOf(row) = "unissued" <=> row.state = "UNISSUED"
           /\ StatusOf(row) = "live" <=> row.state = "UNUSED"
           /\ StatusOf(row) = "dead" <=> row.state = "USED"
           /\ StatusOf(row) \in {"unissued", "live", "dead"}
<1>1. row.state \in {"UNISSUED", "UNUSED", "USED"}
  BY DEF TokenRow
<1> QED BY <1>1 DEF StatusOf

LEMMA LiveAreUnused ==
    ASSUME TypeOK, NEW h
    PROVE  ActivationTokens!Live(h) = {t \in Tokens : Unused(t) /\ tokens[t].owner = h}
<1>1. \A t \in Tokens : tokens[t] \in TokenRow
  BY DEF TypeOK, TokenRow
<1>2. ActivationTokens!Live(h) = {t \in Tokens : StatusOf(tokens[t]) = "live" /\ tokens[t].owner = h}
  BY DEF ActivationTokens!Live, StatusOf
<1> QED BY <1>1, <1>2, Statuses DEF Unused

LEMMA InitTokens == PurgeInit => ActivationTokens!Init
<1> SUFFICES ASSUME PurgeInit PROVE ActivationTokens!Init
  OBVIOUS
<1>1. AppointmentInv
  BY InitPurge DEF PurgeInv
<1>2. \A t \in Tokens : tokens[t] \in TokenRow
  BY <1>1 DEF AppointmentInv, TypeOK, TokenRow
<1>3. [t \in Tokens |-> StatusOf(tokens[t])] \in [Tokens -> {"unissued", "live", "dead"}]
  BY <1>2, Statuses
<1>4. [t \in Tokens |-> tokens[t].owner] \in [Tokens -> Emails]
  BY <1>2 DEF TokenRow
<1>5. \A h \in Emails : \A t, u \in ActivationTokens!Live(h) : t = u
  BY <1>1, LiveAreUnused DEF AppointmentInv, OneUnusedEach
<1>6. worked = [t \in Tokens |-> 0]
  BY DEF PurgeInit, Init
<1> QED BY <1>3, <1>4, <1>5, <1>6 DEF ActivationTokens!Init, StatusOf

(* A step that leaves owners and states alone is no step of a token.       *)
LEMMA TokensStutter ==
    ASSUME TypeOK, TypeOK', UNCHANGED worked,
           \A t \in Tokens : tokens'[t].owner = tokens[t].owner /\ tokens'[t].state = tokens[t].state
    PROVE  UNCHANGED ActivationTokens!TokenVars
<1>1. \A t \in Tokens : tokens[t] \in TokenRow /\ tokens'[t] \in TokenRow
  BY DEF TypeOK, TokenRow
<1>2. \A t \in Tokens : StatusOf(tokens'[t]) = StatusOf(tokens[t])
  BY <1>1, Statuses
<1>3. [t \in Tokens |-> StatusOf(tokens'[t])] = [t \in Tokens |-> StatusOf(tokens[t])]
  BY <1>2
<1>4. [t \in Tokens |-> tokens'[t].owner] = [t \in Tokens |-> tokens[t].owner]
  OBVIOUS
<1> QED BY <1>3, <1>4 DEF ActivationTokens!TokenVars, StatusOf

(* A token is issued to an address that had none, so none is replaced.     *)
LEMMA CreateIssues ==
    ASSUME AppointmentInv, NEW r \in Requests, NEW q \in Provision, NEW t \in Tokens, Creates(r, q, t)
    PROVE  ActivationTokens!Next
<1>1. PICK e \in Emails : e = q.email
  BY DEF Provision
<1>2. /\ tokens' \in [Tokens -> TokenRow]
      /\ tokens'[t].owner = e /\ tokens'[t].state = "UNUSED"
      /\ \A u \in Tokens \ {t} : tokens'[u] = tokens[u]
  BY <1>1, NewTokenRows DEF Creates, AppointmentInv
<1>3. \A u \in Tokens : tokens[u] \in TokenRow
  BY DEF AppointmentInv, TypeOK, TokenRow
<1>4. ActivationTokens!Live(e) = {}
  BY <1>1, LiveAreUnused DEF Creates, AppointmentInv, UnusedHasAccount
<1>5. StatusOf(tokens[t]) = "unissued" /\ StatusOf(tokens'[t]) = "live"
  BY <1>2, <1>3, Statuses DEF Creates
<1>6. [u \in Tokens |-> StatusOf(tokens'[u])] =
          [u \in Tokens |-> IF u = t THEN "live" ELSE IF u \in ActivationTokens!Live(e) THEN "dead"
                            ELSE [v \in Tokens |-> StatusOf(tokens[v])][u]]
  BY <1>2, <1>4, <1>5
<1>7. [u \in Tokens |-> tokens'[u].owner] = [[u \in Tokens |-> tokens[u].owner] EXCEPT ![t] = e]
  BY <1>2
<1>8. ActivationTokens!Issue(t, e)
  BY <1>5, <1>6, <1>7 DEF ActivationTokens!Issue, StatusOf, Creates
<1> QED BY <1>1, <1>8 DEF ActivationTokens!Next

LEMMA ActivateSpends ==
    ASSUME AppointmentInv, NEW r \in Requests, Activate(r), ~UNCHANGED <<tokens, worked>>
    PROVE  ActivationTokens!Next
<1>1. PICK t \in Tokens : t = req[r].token
  BY ReqKinds DEF Activate, AppointmentInv, TypeOK, ReqStates, Activation
<1> DEFINE used == [tokens[t] EXCEPT !.state = "USED"]
<1>2. tokens[t].state = "UNUSED" /\ Activated(t)
  BY <1>1 DEF Activate, Consumable
<1>3. \A u \in Tokens : tokens[u] \in TokenRow
  BY DEF AppointmentInv, TypeOK, TokenRow
<1>4. used \in TokenRow /\ used.owner = tokens[t].owner /\ used.state = "USED"
  BY <1>3 DEF TokenRow
<1>5. tokens' = [tokens EXCEPT ![t] = used]
  BY <1>2 DEF Activated
<1> HIDE DEF used
<1>6. /\ tokens'[t] \in TokenRow /\ tokens'[t].state = "USED" /\ tokens'[t].owner = tokens[t].owner
      /\ \A u \in Tokens \ {t} : tokens'[u] = tokens[u]
  BY <1>4, <1>5 DEF AppointmentInv, TypeOK
<1>7. StatusOf(tokens[t]) = "live" /\ StatusOf(tokens'[t]) = "dead"
  BY <1>2, <1>3, <1>6, Statuses
<1>8. [u \in Tokens |-> StatusOf(tokens'[u])] = [[u \in Tokens |-> StatusOf(tokens[u])] EXCEPT ![t] = "dead"]
  BY <1>6, <1>7
<1>9. [u \in Tokens |-> tokens'[u].owner] = [u \in Tokens |-> tokens[u].owner]
  BY <1>6
<1>10. ActivationTokens!Spend(t)
  BY <1>2, <1>7, <1>8, <1>9 DEF ActivationTokens!Spend, StatusOf, Activated
<1> QED BY <1>10 DEF ActivationTokens!Next

LEMMA TokensStep ==
    PurgeInv /\ PurgeInv' /\ [PurgeNext]_allvars => [ActivationTokens!Next]_(ActivationTokens!TokenVars)
<1> SUFFICES ASSUME PurgeInv, PurgeInv', [PurgeNext]_allvars
             PROVE  [ActivationTokens!Next]_(ActivationTokens!TokenVars)
  OBVIOUS
<1> DEFINE Steps == [ActivationTokens!Next]_(ActivationTokens!TokenVars)
<1> HIDE DEF Steps
<1>0. AppointmentInv /\ TypeOK /\ TypeOK'
  BY DEF PurgeInv, AppointmentInv
<1>1. ASSUME UNCHANGED <<tokens, worked>> PROVE Steps
  BY <1>0, <1>1, TokensStutter DEF Steps
<1>2. ASSUME NEW r \in Requests, CommitProvision(r) PROVE Steps
  BY <1>0, <1>1, <1>2, Committed, CreateIssues DEF Steps, tables
<1>3. ASSUME NEW r \in Requests, Activate(r) PROVE Steps
  <2>1. CASE ~UNCHANGED <<tokens, worked>>
    BY <1>0, <1>3, <2>1, ActivateSpends DEF Steps
  <2> QED BY <1>1, <2>1
<1>4. CASE TokenExpires
  <2>1. PICK t \in Tokens : tokens' = [tokens EXCEPT ![t].expired = TRUE] /\ UNCHANGED worked
    BY <1>4 DEF TokenExpires
  <2>2. \A u \in Tokens : tokens'[u].owner = tokens[u].owner /\ tokens'[u].state = tokens[u].state
    BY <1>0, <2>1 DEF TypeOK, TokenRow
  <2> QED BY <1>0, <2>1, <2>2, TokensStutter DEF Steps
<1>5. ASSUME NEW r \in Requests,
             \/ CheckActor(r) \/ RefuseActor(r) \/ BeginProvision(r)
             \/ SerializationFails(r) \/ FindActivationToken(r) \/ ResetPassword(r) \/ RequestFails(r)
      PROVE  UNCHANGED <<tokens, worked>>
  BY <1>5 DEF CheckActor, RefuseActor, BeginProvision, SerializationFails, FindActivationToken, ResetPassword,
       RequestFails, tables
<1>6. ASSUME NEW j \in Replicas,
             Fire(j) \/ SelectBatch(j) \/ DeleteBatch(j) \/ BatchFails(j) \/ ReplicaRestarts(j)
      PROVE  UNCHANGED <<tokens, worked>>
  BY <1>6 DEF Fire, SelectBatch, DeleteBatch, BatchFails, ReplicaRestarts, vars, provision, tables
<1>7. TimePasses \/ ForeignSave \/ UNCHANGED allvars => UNCHANGED <<tokens, worked>>
  BY DEF TimePasses, ForeignSave, allvars, vars, provision, tables
<1> QED BY <1>1, <1>2, <1>3, <1>4, <1>5, <1>6, <1>7 DEF PurgeNext, ProvisionNext, Steps

-----------------------------------------------------------------------------
(* What the purge deletes, and what time does to the rest.                 *)
Kept(x) ==
    \/ x.age = "old" /\ x.actor # "foreign"
    \/ \E y \in records' : Older(y, x) /\ <<y.actor, y.key, y.email>> = <<x.actor, x.key, x.email>>

LEMMA OnlyEligibleAreOld ==
    ASSUME NEW x \in Record, Evaluate(x) = "eligible"
    PROVE  x.age = "old" /\ x.actor # "foreign"
<1>1. x.age \in {"young", "kept", "old"} /\ x.replay \in BOOLEAN
  BY RecordKinds DEF Ages
<1>2. CASE x.age = "young"
  BY <1>2 DEF Evaluate
<1>3. CASE x.age = "kept"
  BY <1>1, <1>3, Zenon DEF Evaluate
<1>4. CASE x.age = "old" /\ Pending(x)
  BY <1>4 DEF Evaluate
<1> QED BY <1>1, <1>2, <1>3, <1>4 DEF Pending

LEMMA RetentionStep == PurgeInv /\ [PurgeNext]_allvars => \A x \in records \ records' : Kept(x)
<1> SUFFICES ASSUME PurgeInv, [PurgeNext]_allvars, NEW x \in records, x \notin records' PROVE Kept(x)
  OBVIOUS
<1>0. records \subseteq Record
  BY DEF PurgeInv, AppointmentInv, TypeOK
<1>1. ASSUME records \subseteq records' PROVE FALSE
  BY <1>1
<1>2. ASSUME NEW j \in Replicas, DeleteBatch(j) PROVE Kept(x)
  BY <1>0, <1>2, OnlyEligibleAreOld DEF DeleteBatch, Kept
<1>3. CASE TimePasses
  <2>1. /\ x.age # "old"
        /\ records' = (records \ {x}) \union {[x EXCEPT !.age = AgeOf(x), !.replay = Pending(x)]}
    BY <1>3 DEF TimePasses
  <2> QED BY <1>0, <2>1, Aged DEF Kept
<1>4. ASSUME NEW r \in Requests, CommitProvision(r) PROVE records \subseteq records'
  BY <1>4, Committed DEF Creates, PurgeInv, tables
<1>5. ASSUME NEW r \in Requests,
             \/ CheckActor(r) \/ RefuseActor(r) \/ BeginProvision(r) \/ SerializationFails(r)
             \/ FindActivationToken(r) \/ Activate(r) \/ ResetPassword(r) \/ RequestFails(r)
      PROVE  records \subseteq records'
  BY <1>5 DEF CheckActor, RefuseActor, BeginProvision, SerializationFails, FindActivationToken, Activate, ResetPassword,
       RequestFails, tables
<1>6. ASSUME NEW j \in Replicas, Fire(j) \/ SelectBatch(j) \/ BatchFails(j) \/ ReplicaRestarts(j)
      PROVE  records \subseteq records'
  BY <1>6 DEF Fire, SelectBatch, BatchFails, ReplicaRestarts, vars, tables
<1>7. TokenExpires \/ ForeignSave \/ UNCHANGED allvars => records \subseteq records'
  BY DEF TokenExpires, ForeignSave, allvars, vars, tables
<1> QED BY <1>1, <1>2, <1>3, <1>4, <1>5, <1>6, <1>7 DEF PurgeNext, ProvisionNext

-----------------------------------------------------------------------------
(* The inductive invariant: an unused token belongs to an account, which   *)
(* has no other; what was used has worked once; a key has one record; an   *)
(* address is created once.                                                *)
THEOREM PurgeInvariant == PurgeSpec => []PurgeInv
BY InitPurge, PurgeStep, PTL DEF PurgeSpec

(* Accounts, tokens, records, requests and runs keep their types, and the  *)
(* advisory lock lets one replica at a time purge a batch.                 *)
THEOREM PurgeTyped == PurgeSpec => []PurgeTypeOK
<1>1. PurgeInv => PurgeTypeOK
  <2> SUFFICES ASSUME PurgeInv PROVE PurgeTypeOK
    OBVIOUS
  <2> DEFINE B == {j \in Replicas : job[j].at = "batch"}
  <2>1. Cardinality(B) <= 1
    <3>1. CASE B = {}
      BY <3>1, FS_EmptySet
    <3>2. CASE B # {}
      <4>1. PICK j \in B : TRUE
        BY <3>2
      <4>2. B = {j}
        BY <4>1 DEF PurgeInv, OneBatch
      <4>3. Cardinality({j}) = 1
        BY FS_Singleton
      <4> HIDE DEF B
      <4> QED BY <4>2, <4>3
    <3> QED BY <3>1, <3>2
  <2> QED BY <2>1 DEF PurgeInv, AppointmentInv, JobTypes, JobStates, PurgeTypeOK
<1> QED BY <1>1, PurgeInvariant, PTL

(* An administrator whose password was never set has a token that was      *)
(* never used, and a token is used up by setting one password and by       *)
(* nothing else: the account and its token are created, and the token and  *)
(* the password are written, in one transaction each                       *)
(* (prisma-provision-unit-of-work.adapter.ts, activate-admin.use-case.ts). *)
THEOREM ActivationsAreWhole == PurgeSpec => []ActivationIsWhole
<1>1. PurgeInv => ActivationIsWhole
  BY DEF PurgeInv, AppointmentInv, PendingHasToken, UsedUpByWorking, ActivationIsWhole
<1> QED BY <1>1, PurgeInvariant, PTL

(* However requests with one key overlap, retry or time out, and whatever  *)
(* the purge deletes beside them, a key whose record is kept has appointed *)
(* one administrator.                                                      *)
THEOREM KeysAppointOnce == PurgeSpec => []OneAppointmentPerKey
<1>1. PurgeInv => OneAppointmentPerKey
  <2> SUFFICES ASSUME PurgeInv, NEW a \in Requests, NEW b \in Requests,
                      Created(req[a]), Created(req[b]), req[a].actor = req[b].actor, req[a].key = req[b].key,
                      NEW x \in Recorded(req[a].actor, req[a].key), x.email = req[a].email,
                      NEW y \in Recorded(req[b].actor, req[b].key), y.email = req[b].email
               PROVE  a = b
    BY DEF OneAppointmentPerKey
  <2>1. req[a].actor \in Emails
    BY DEF PurgeInv, AppointmentInv, CreatedExists, CreatedAnswer
  <2>2. x = y
    BY <2>1 DEF PurgeInv, AppointmentInv, OneRecordPerKey, Recorded
  <2> QED BY <2>2 DEF PurgeInv, AppointmentInv, CreatedOnce
<1> QED BY <1>1, PurgeInvariant, PTL

(* The purge deletes only records that are over their 30 days and of a     *)
(* scope it knows; no other step deletes one                               *)
(* (purge-idempotency-records.use-case.ts).                                *)
THEOREM RecordsAreKeptForRetention == PurgeSpec => KeptForRetention
<1>1. PurgeInv /\ [PurgeNext]_allvars => [\A x \in records \ records' : Kept(x)]_allvars
  BY RetentionStep
<1> QED BY <1>1, PurgeInvariant, PTL DEF PurgeSpec, KeptForRetention, Kept

(* Appointments, activations and resets, interleaved and retried in any    *)
(* way beside the purge, implement OneTimeToken: of the activations that   *)
(* found one token unused, one at most sets a password (consumeUnused).    *)
THEOREM ActivationTokensRefine == PurgeSpec => ActivationTokensAreOneTime
<1>1. PurgeInv /\ PurgeInv' /\ [PurgeNext]_allvars => [ActivationTokens!Next]_(ActivationTokens!TokenVars)
  BY TokensStep
<1> QED BY <1>1, InitTokens, PurgeInvariant, PTL
        DEF PurgeSpec, ActivationTokensAreOneTime, ActivationTokens!Spec
=============================================================================

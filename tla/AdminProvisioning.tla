------------------------- MODULE AdminProvisioning -------------------------
(***************************************************************************)
(* How an administrator appoints another (src/modules/identity): a keyed   *)
(* request creates the account and its activation token in one             *)
(* SERIALIZABLE transaction that is tried three times, and the token sets  *)
(* the first password.                                                     *)
(*                                                                         *)
(* The transaction's first statement waits for the advisory lock of the    *)
(* key, so its snapshot is older than the lock: what the previous holder   *)
(* has committed is not in it, and the unique indexes decide.              *)
(***************************************************************************)
EXTENDS Integers, FiniteSets

CONSTANTS
    Requests,       \* each served once
    Emails,         \* addresses
    Root,           \* the administrator who exists at the start
    Appointed,      \* the one who has been appointed and holds token 1
    Keys,           \* idempotency keys
    Tokens,         \* activation tokens, numbers given out in order
    MaxAttempts     \* MAX_RETRIES

ASSUME RootAssumption == Root \in Emails /\ Appointed \in Emails \ {Root}
ASSUME TokensAssumption == Tokens \subseteq Nat /\ IsFiniteSet(Tokens) /\ 1 \in Tokens
ASSUME AttemptsAssumption == MaxAttempts \in Nat \ {0}
ASSUME ForeignAssumption == "foreign" \notin Emails     \* the owner of other scopes' records

VARIABLES
    admins,         \* [Emails -> absent, pending (must_change_password) or active]
    tokens,         \* [Tokens -> admin_activation_tokens row]
    worked,         \* history: how many passwords each token has set
    records,        \* idempotency_records
    req

provision == <<admins, tokens, worked, req>>
tables == <<admins, tokens, worked, records>>
vars == <<tables, req>>

-----------------------------------------------------------------------------
Idle == [at |-> "idle"]
Codes == {"CREATED", "ACTIVATED", "RESET", "ACTOR_NOT_AUTHORIZED",
    "INITIAL_PASSWORD_CHANGE_REQUIRED", "EMAIL_ALREADY_REGISTERED", "IDEMPOTENCY_KEY_REUSED",
    "ACTIVATION_TOKEN_INVALID_OR_EXPIRED", "TECHNICAL_DEPENDENCY_FAILURE"}

(* age: within 24 hours, within 30 days, or older.  replay: whether        *)
(* activation_expires_at may lie ahead.  Records of other scopes belong to *)
(* "foreign".                                                              *)
Ages == {"young", "kept", "old"}
Record == [actor: Emails, key: Keys, email: Emails, age: Ages, replay: BOOLEAN]
    \union [actor: {"foreign"}, key: Nat, email: {"any"}, age: Ages, replay: BOOLEAN]
Recorded(actor, k) == {x \in records : x.actor = actor /\ x.key = k}

Provision == [at: {"checked", "provisioning"}, actor: Emails, email: Emails, key: Keys,
              attempt: 1..MaxAttempts, known: SUBSET Emails, kept: SUBSET Emails]
Activation == [at: {"activating"}, token: Tokens]
Answer == [at: {"done"}, answer: Codes]
    \union [at: {"done"}, answer: {"CREATED"}, actor: Emails, key: Keys, email: Emails]

TypeOK ==
    /\ admins \in [Emails -> {"absent", "pending", "active"}]
    /\ tokens \in [Tokens -> [owner: Emails, state: {"UNISSUED", "UNUSED", "USED"}, expired: BOOLEAN]]
    /\ worked \in [Tokens -> Nat]
    /\ records \subseteq Record
    /\ req \in [Requests -> {Idle} \union Provision \union Activation \union Answer]

Goes(r, state) == req' = [req EXCEPT ![r] = state]
Answers(r, code) == Goes(r, [at |-> "done", answer |-> code])

Init ==
    /\ admins = [e \in Emails |->
          IF e = Root THEN "active" ELSE IF e = Appointed THEN "pending" ELSE "absent"]
    /\ tokens = [t \in Tokens |-> [owner |-> Appointed, expired |-> FALSE,
                                   state |-> IF t = 1 THEN "UNUSED" ELSE "UNISSUED"]]
    /\ worked = [t \in Tokens |-> 0]
    /\ records = {}
    /\ req = [r \in Requests |-> Idle]

-----------------------------------------------------------------------------
(* The actor and the address are looked at before the transaction.         *)
CheckActor(r) == \E actor \in Emails, e \in Emails, k \in Keys :
    /\ req[r] = Idle
    /\ admins[actor] # "absent"
    /\ CASE admins[actor] = "pending" -> Answers(r, "INITIAL_PASSWORD_CHANGE_REQUIRED")
         [] admins[actor] = "active" /\ admins[e] # "absent" ->
                Answers(r, "EMAIL_ALREADY_REGISTERED")
         [] OTHER -> Goes(r, [at |-> "checked", actor |-> actor, email |-> e, key |-> k,
                              attempt |-> 1, known |-> {}, kept |-> {}])
    /\ UNCHANGED tables

(* A customer's or nobody's session is turned away.                        *)
RefuseActor(r) ==
    /\ req[r] = Idle
    /\ Answers(r, "ACTOR_NOT_AUTHORIZED")
    /\ UNCHANGED tables

(* The snapshot: the addresses taken, and those this key has provisioned.  *)
BeginProvision(r) ==
    /\ req[r].at = "checked"
    /\ Goes(r, [req[r] EXCEPT !.at = "provisioning",
                !.known = {e \in Emails : admins[e] # "absent"},
                !.kept = {x.email : x \in Recorded(req[r].actor, req[r].key)}])
    /\ UNCHANGED tables

(* UNIQUE(lower(email)): the violation comes back as a value and is not    *)
(* tried again.                                                            *)
AddressTaken(q) == admins[q.email] # "absent"

(* UNIQUE(scope, key): a violation, like a serialization failure, is       *)
(* thrown, and the transaction is tried again.                             *)
KeyFree(q) == FALSE             \* mutant: the record is upserted
KeyTaken(q) == Recorded(q.actor, q.key) # {}

Retried(r) ==
    IF req[r].attempt < MaxAttempts
    THEN Goes(r, [req[r] EXCEPT !.at = "checked", !.attempt = @ + 1, !.known = {}, !.kept = {}])
    ELSE Answers(r, "TECHNICAL_DEPENDENCY_FAILURE")

NewToken(t, e) == [tokens EXCEPT ![t] = [owner |-> e, state |-> "UNUSED", expired |-> FALSE]]

(* The address is looked for before the key, so a retry of a request that  *)
(* succeeded is told that the address is taken; a replay cannot happen.    *)
CommitProvision(r) ==
    LET q == req[r]
        changes == ~AddressTaken(q) /\ ~KeyTaken(q) /\ q.email \notin q.known /\ q.kept = {}
    IN
    /\ q.at = "provisioning"
    /\ CASE q.email \in q.known -> Answers(r, "EMAIL_ALREADY_REGISTERED")
         [] q.email \notin q.known /\ q.kept # {} -> Answers(r, "IDEMPOTENCY_KEY_REUSED")
         [] q.email \notin q.known /\ q.kept = {} /\ AddressTaken(q) ->
                Answers(r, "TECHNICAL_DEPENDENCY_FAILURE")
         [] q.email \notin q.known /\ q.kept = {} /\ ~AddressTaken(q) /\ KeyTaken(q) -> Retried(r)
         [] OTHER -> Goes(r, [at |-> "done", answer |-> "CREATED", actor |-> q.actor,
                              key |-> q.key, email |-> q.email])
    /\ IF changes
       THEN \E t \in Tokens :
              /\ tokens[t].state = "UNISSUED"
              /\ \A u \in Tokens : tokens[u].state = "UNISSUED" => t <= u
              /\ admins' = [admins EXCEPT ![q.email] = "pending"]
              /\ tokens' = NewToken(t, q.email)
              /\ records' = records \union {[actor |-> q.actor, key |-> q.key,
                                             email |-> q.email, age |-> "young", replay |-> TRUE]}
       ELSE UNCHANGED <<admins, tokens, records>>
    /\ UNCHANGED worked

SerializationFails(r) ==
    /\ req[r].at = "provisioning"
    /\ Retried(r)
    /\ UNCHANGED tables

-----------------------------------------------------------------------------
(* Nothing in the repository delivers the token; whoever holds it may      *)
(* present it, and present it again.                                       *)
FindActivationToken(r) == \E t \in Tokens :
    /\ req[r] = Idle
    /\ tokens[t].state # "UNISSUED"
    /\ IF tokens[t].state = "UNUSED" /\ ~tokens[t].expired
       THEN Goes(r, [at |-> "activating", token |-> t])
       ELSE Answers(r, "ACTIVATION_TOKEN_INVALID_OR_EXPIRED")
    /\ UNCHANGED tables

(* UPDATE ... WHERE used_at IS NULL, then the password and the sessions.   *)
(* (The expiry is compared with the time the request began, when it had    *)
(* not come.)  When one of those fails, its error is dropped and the       *)
(* transaction that PostgreSQL has aborted is "committed": nothing         *)
(* changes, the answer is the same.                                        *)
ConsumableAgain(t) == TRUE      \* mutant: UPDATE ... WHERE id, without used_at IS NULL
Consumable(t) == tokens[t].state = "UNUSED"

ActivatedInParts(t) ==          \* mutant: the password is written by a statement of its own
    /\ tokens' = [tokens EXCEPT ![t].state = "USED"]
    /\ \/ /\ admins' = [admins EXCEPT ![tokens[t].owner] = "active"]
          /\ worked' = [worked EXCEPT ![t] = @ + 1]
       \/ UNCHANGED <<admins, worked>>
Activated(t) ==
    /\ admins' = [admins EXCEPT ![tokens[t].owner] = "active"]
    /\ tokens' = [tokens EXCEPT ![t].state = "USED"]
    /\ worked' = [worked EXCEPT ![t] = @ + 1]

Activate(r) == \E written \in BOOLEAN :
    LET t == req[r].token IN
    /\ req[r].at = "activating"
    /\ IF Consumable(t)
       THEN Answers(r, "ACTIVATED")
       ELSE Answers(r, "ACTIVATION_TOKEN_INVALID_OR_EXPIRED")
    /\ IF Consumable(t) /\ written
       THEN Activated(t)
       ELSE UNCHANGED <<admins, tokens, worked>>
    /\ UNCHANGED records

(* A mailed reset (Accounts has it step by step) is open to any account,   *)
(* and updatePassword clears must_change_password whoever calls it: a      *)
(* pending administrator is active then, the activation token unused.      *)
ResetPassword(r) == \E e \in Emails :
    /\ req[r] = Idle
    /\ admins[e] # "absent"
    /\ admins' = [admins EXCEPT ![e] = "active"]
    /\ Answers(r, "RESET")
    /\ UNCHANGED <<tokens, worked, records>>

RequestFails(r) ==
    /\ req[r].at \notin {"idle", "done"}
    /\ Answers(r, "TECHNICAL_DEPENDENCY_FAILURE")
    /\ UNCHANGED tables

TokenExpires == \E t \in Tokens :
    /\ tokens[t].state = "UNUSED" /\ ~tokens[t].expired
    /\ tokens' = [tokens EXCEPT ![t].expired = TRUE]
    /\ UNCHANGED <<admins, worked, records, req>>

ProvisionNext ==
    \/ \E r \in Requests :
          \/ CheckActor(r) \/ RefuseActor(r) \/ BeginProvision(r) \/ CommitProvision(r)
          \/ SerializationFails(r) \/ FindActivationToken(r) \/ Activate(r) \/ ResetPassword(r)
          \/ RequestFails(r)
    \/ TokenExpires

-----------------------------------------------------------------------------
(* An administrator's activation token sets one password at most, however  *)
(* activations with it overlap, and the account has no other token.        *)
ActivationTokens == INSTANCE OneTimeToken WITH
    Holders <- Emails,
    status <- [t \in Tokens |->
        CASE tokens[t].state = "UNISSUED" -> "unissued"
          [] tokens[t].state = "UNUSED" -> "live"
          [] tokens[t].state = "USED" -> "dead"],
    holder <- [t \in Tokens |-> tokens[t].owner],
    uses <- worked

ActivationTokensAreOneTime == ActivationTokens!Spec

(* A key appoints one administrator at most while its record is kept,      *)
(* whatever bodies it is sent with and however they overlap.               *)
Created(q) == q.at = "done" /\ q.answer = "CREATED"
OneAppointmentPerKey == \A a, b \in Requests :
    /\ Created(req[a]) /\ Created(req[b])
    /\ req[a].actor = req[b].actor /\ req[a].key = req[b].key
    /\ \E x \in Recorded(req[a].actor, req[a].key) : x.email = req[a].email
    /\ \E x \in Recorded(req[b].actor, req[b].key) : x.email = req[b].email
    => a = b

(* An appointment creates the account and its token together, and an       *)
(* activation uses the token up if it sets the password and not otherwise, *)
(* whatever fails, is dropped or overlaps: an administrator whose password *)
(* was never set has a token that has not been used, and a token is used   *)
(* up when it has set one password.  (The token may have expired: there is *)
(* no other to be had, and a reset, which leaves the token unused, is the  *)
(* only way left.)                                                         *)
ActivationIsWhole ==
    /\ \A e \in Emails : admins[e] = "pending" =>
          \E t \in Tokens : tokens[t].owner = e /\ tokens[t].state = "UNUSED"
    /\ \A t \in Tokens : worked[t] = IF tokens[t].state = "USED" THEN 1 ELSE 0
=============================================================================

-------------------------- MODULE IdempotencyPurge --------------------------
(***************************************************************************)
(* The daily purge of idempotency_records (src/modules/identity), on every *)
(* replica, beside the appointments of AdminProvisioning whose records it  *)
(* deletes.                                                                *)
(*                                                                         *)
(* A run deletes in batches, one transaction each: the oldest BatchSize    *)
(* records are read and each is judged by the time the run began.  It goes *)
(* on while batches are full and delete something.  Records of any other   *)
(* scope are never deleted.                                                *)
(***************************************************************************)
EXTENDS AdminProvisioning

CONSTANTS
    Replicas,
    BatchSize,          \* BATCH_SIZE
    BatchAttempts,      \* MAX_BATCH_ATTEMPTS
    ForeignRecords,     \* bound: records that other operations save
    MaxFailures         \* bound: batches that fail

ASSUME BatchAssumption == BatchSize \in Nat \ {0} /\ BatchAttempts \in Nat \ {0}
ASSUME BoundsAssumption == ForeignRecords \in Nat /\ MaxFailures \in Nat

VARIABLES
    job,                \* [Replicas -> where its run stands]
    foreign,            \* records of other scopes saved so far
    failures

purge == <<job, foreign, failures>>
allvars == <<vars, purge>>

-----------------------------------------------------------------------------
Asleep == [at |-> "asleep"]
Run == [at: {"running"}, attempt: 1..BatchAttempts]
Batch == [at: {"batch"}, attempt: 1..BatchAttempts, rows: SUBSET Record]

PurgeTypeOK ==
    /\ TypeOK
    /\ job \in [Replicas -> {Asleep} \union Run \union Batch]
    /\ foreign \in 0..ForeignRecords /\ failures \in 0..MaxFailures
    /\ Cardinality({j \in Replicas : job[j].at = "batch"}) <= 1

PurgeInit ==
    /\ Init
    /\ job = [j \in Replicas |-> Asleep]
    /\ foreign = 0 /\ failures = 0

Wakes(j, state) == job' = [job EXCEPT ![j] = state]

(* hasPendingOperation: only admin-provision scopes are known to be over.  *)
PendingAll(x) == TRUE           \* mutant: the prefix is mistyped
Pending(x) == x.actor = "foreign"

(* What a batch concludes of a record.                                     *)
EvaluateMinimumAge(x) ==        \* mutant: only the first day is waited for
    IF x.age = "young" THEN "minimum_age_not_elapsed"
    ELSE IF Pending(x) THEN "operation_pending" ELSE "eligible"
Evaluate(x) ==
    CASE x.age = "young" -> "minimum_age_not_elapsed"
      [] x.age = "kept" /\ x.replay -> "replay_active"
      [] x.age = "kept" /\ ~x.replay -> "retention_not_elapsed"
      [] x.age = "old" /\ Pending(x) -> "operation_pending"
      [] x.age = "old" /\ ~Pending(x) -> "eligible"

Older(x, y) == <<x.age, y.age>> \in {<<"old", "kept">>, <<"old", "young">>, <<"kept", "young">>}

(* FOR UPDATE SKIP LOCKED: a transaction that looked its key up and found  *)
(* it holds the record until it ends.                                      *)
Locked == {x \in records : \E r \in Requests :
    /\ req[r].at = "provisioning" /\ req[r].email \notin req[r].known
    /\ req[r].actor = x.actor /\ req[r].key = x.key}

(* ORDER BY created_at LIMIT BatchSize; ages tell only part of the order,  *)
(* so any choice that respects it may be the oldest.  A young record may   *)
(* have been saved since the run began, and is then left out.              *)
Oldest(S) == \E skipped \in SUBSET Locked :
    LET rest == records \ skipped IN
    /\ S \subseteq rest /\ Cardinality(S) <= BatchSize
    /\ \A x \in S, y \in rest \ S : ~Older(y, x)
    /\ Cardinality(S) < BatchSize => \A y \in rest \ S : y.age = "young"

-----------------------------------------------------------------------------
(* The timer fires; the run takes its "now".                               *)
Fire(j) ==
    /\ job[j] = Asleep
    /\ Wakes(j, [at |-> "running", attempt |-> 1])
    /\ UNCHANGED <<vars, foreign, failures>>

(* The advisory lock admits one batch at a time in the cluster.            *)
LockFree == \A i \in Replicas : job[i].at # "batch"

SelectBatch(j) == \E S \in SUBSET records :
    /\ job[j].at = "running"
    /\ LockFree
    /\ Oldest(S)
    /\ Wakes(j, [at |-> "batch", attempt |-> job[j].attempt, rows |-> S])
    /\ UNCHANGED <<vars, foreign, failures>>

(* hasMore.                                                                *)
GoesOnWhileFull(rows, deleted) == Cardinality(rows) >= BatchSize
                                \* mutant: a full batch is enough to go on
GoesOn(rows, deleted) == Cardinality(rows) >= BatchSize /\ deleted # {}

DeleteBatch(j) ==
    LET rows == job[j].rows
        deleted == {x \in rows : Evaluate(x) = "eligible"}
    IN
    /\ job[j].at = "batch"
    /\ records' = records \ deleted
    /\ Wakes(j, IF GoesOn(rows, deleted) THEN [at |-> "running", attempt |-> 1] ELSE Asleep)
    /\ UNCHANGED <<provision, foreign, failures>>

(* The batch rolls back (a lock not had within 5 s, too); after the last   *)
(* attempt the run fails, and the next timer tries again.                  *)
AttemptsLeft(q) == q.attempt < BatchAttempts

BatchFails(j) ==
    /\ job[j].at \in {"running", "batch"}
    /\ failures < MaxFailures
    /\ failures' = failures + 1
    /\ Wakes(j, IF AttemptsLeft(job[j])
                THEN [at |-> "running", attempt |-> job[j].attempt + 1] ELSE Asleep)
    /\ UNCHANGED <<vars, foreign>>

(* A run dies with its process.                                            *)
ReplicaRestarts(j) ==
    /\ job[j] # Asleep
    /\ failures < MaxFailures
    /\ failures' = failures + 1
    /\ Wakes(j, Asleep)
    /\ UNCHANGED <<vars, foreign>>

-----------------------------------------------------------------------------
(* A run judges by the time it began: for it no record grows older.        *)
AgeOf(x) == IF x.age = "young" THEN "kept" ELSE "old"
TimePasses == \E x \in records :
    /\ x.age # "old"
    /\ \A j \in Replicas : job[j] = Asleep
    /\ records' = (records \ {x})
           \union {[x EXCEPT !.age = AgeOf(x), !.replay = Pending(x)]}
    /\ UNCHANGED <<provision, purge>>

(* Another operation saves a record of its own scope; it has no            *)
(* activation_expires_at, so its replay does not end.                      *)
ForeignSave ==
    /\ foreign < ForeignRecords
    /\ foreign' = foreign + 1
    /\ records' = records \union
          {[actor |-> "foreign", key |-> foreign', email |-> "any", age |-> "young", replay |-> TRUE]}
    /\ UNCHANGED <<provision, job, failures>>

PurgeNext ==
    \/ ProvisionNext /\ UNCHANGED purge
    \/ \E j \in Replicas :
          \/ Fire(j) \/ SelectBatch(j) \/ DeleteBatch(j) \/ BatchFails(j) \/ ReplicaRestarts(j)
    \/ TimePasses \/ ForeignSave

(* The timer fires every day, a run's steps do not stop, and the lock,     *)
(* which is given in turn, is had in the end; a transaction ends, by its   *)
(* timeout if nothing else; batches fail and replicas restart MaxFailures  *)
(* times at most.                                                          *)
TransactionEnds(r) == (CommitProvision(r) \/ SerializationFails(r) \/ RequestFails(r)) /\ UNCHANGED purge
Fairness ==
    /\ \A j \in Replicas :
          WF_allvars(Fire(j)) /\ SF_allvars(SelectBatch(j)) /\ WF_allvars(DeleteBatch(j))
    /\ \A r \in Requests : WF_allvars(TransactionEnds(r))

PurgeSpec == PurgeInit /\ [][PurgeNext]_allvars /\ Fairness

-----------------------------------------------------------------------------
(* A record stays for the 30 days in which its key may be sent again, and  *)
(* one of an operation the purge does not know stays for good; until then  *)
(* it only grows older.                                                    *)
KeptForRetention ==
    [][\A x \in records \ records' :
          \/ x.age = "old" /\ x.actor # "foreign"
          \/ \E y \in records' : Older(y, x) /\ <<y.actor, y.key, y.email>> = <<x.actor, x.key, x.email>>
      ]_allvars

(* The appointments' records that are old are purged in the end, as long   *)
(* as those that cannot be purged do not fill a batch.                     *)
Overdue == {x \in records : x.age = "old" /\ x.actor # "foreign"}
OldRecordsGo == Overdue # {} ~> Overdue = {}

(* A run ends, though batches full of records that must stay follow one    *)
(* another for ever.                                                       *)
RunEnds == \A j \in Replicas : (job[j] # Asleep) ~> (job[j] = Asleep)
=============================================================================

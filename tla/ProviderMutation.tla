-------------------------- MODULE ProviderMutation --------------------------
(***************************************************************************)
(* One write to a mail, calendar or contacts provider under the operation  *)
(* journal: runProviderMutation of services/providerMutationService.ts     *)
(* over the statements of services/providerOperations.ts.                  *)
(*                                                                         *)
(* A call is ONE run of runProviderMutation with an idempotency key.  Its  *)
(* identity stands for the claim token it draws (randomUUID).  A request   *)
(* is on the wire from its dispatch until the provider applies it or it is *)
(* lost, which may be after the caller has given up or has died.           *)
(*                                                                         *)
(* Keys differ in their adapter: how it classifies a 5xx answer and        *)
(* whether running it twice converges.                                     *)
(***************************************************************************)
EXTENDS Naturals

CONSTANTS
  Calls,       \* runs of the service (and the claim tokens they draw)
  Keys,        \* idempotency keys, each one logical intent
  Hashes,      \* fingerprints of the payload
  Idempotent,  \* keys whose adapter may be run again without harm
  Strict,      \* keys whose adapter takes a 5xx answer for "unknown"
  Deletions,   \* keys whose unknown outcome is looked up in the provider's list
  Flags,       \* keys of message flag writes, which the flag worker may close
  Splits,      \* keys of the series split, whose adapter records its stages
  NoCall,      \* nobody: the token of a row without a claim
  NoKey,       \* the key of a call that has not begun
  NoHash       \* the fingerprint of an absent row

ASSUME KeyAssumption ==
  /\ Idempotent \subseteq Keys
  /\ Strict \subseteq Keys \ (Idempotent \cup Flags \cup Splits)
  /\ Deletions \subseteq Strict
  /\ Flags \subseteq Keys
  /\ Splits \subseteq Keys \ (Idempotent \cup Flags)
ASSUME NobodyAssumption == NoCall \notin Calls

VARIABLES
  op,       \* op[k]: the provider_operations row of key k
  pc,       \* pc[c]: where the call stands
  key,      \* key[c]: its idempotency key
  hash,     \* hash[c]: the fingerprint of its payload
  gen,      \* gen[c]: the generation it claimed
  seen,     \* seen[c]: the stages the row had recorded when it was claimed
  outcome,  \* outcome[c]: what its adapter reported
  reply,    \* reply[c]: what the service answered
  wire,     \* the calls whose request is on its way to the provider
  effects   \* history: <<k, c>> when the provider applied c's request for k

callVars == <<pc, key, hash, gen, seen, outcome, reply>>
journalVars == <<op, pc, key, hash, gen, seen, outcome, reply, wire, effects>>

Unresolved == {"outcome_unknown", "conflict", "failed", "cancelled"}
Replayable == {"committed", "accepted_pending"}
Statuses == {"none", "pending", "in_flight"} \cup Replayable \cup Unresolved

\* The stages of a series split.
SplitStages == {"split_prepared", "master_truncated", "remainder_create_dispatched",
                "remainder_created"}

Outcomes == {"none", "committed", "accepted_pending", "conflict", "retryable", "permanent",
             "outcome_unknown"}
Replies == {"none", "confirmed", "accepted", "pending", "retryable", "conflict", "permanent",
            "outcome_unknown", "reused"}

Rows == [status : Statuses, hash : Hashes \cup {NoHash}, token : Calls \cup {NoCall},
         generation : Nat, lease : {"none", "live", "expired"},
         retry : {"none", "later", "due"}, proof : Nat, stages : SUBSET SplitStages]

Absent == [status |-> "none", hash |-> NoHash, token |-> NoCall, generation |-> 0,
           lease |-> "none", retry |-> "none", proof |-> 0, stages |-> {}]

\* A retry scheduled before the journal wrote a proof that it is safe.
Unmarked(h) == [status |-> "pending", hash |-> h, token |-> NoCall, generation |-> 1,
                lease |-> "none", retry |-> "due", proof |-> 0, stages |-> {}]

TypeOK ==
  /\ op \in [Keys -> Rows]
  /\ pc \in [Calls -> {"idle", "perform", "await", "record", "park", "reconcile", "done", "dead"}]
  /\ key \in [Calls -> Keys \cup {NoKey}]
  /\ \A c \in Calls : pc[c] # "idle" => key[c] \in Keys
  /\ hash \in [Calls -> Hashes \cup {NoHash}]
  /\ gen \in [Calls -> Nat]
  /\ seen \in [Calls -> SUBSET SplitStages]
  /\ outcome \in [Calls -> Outcomes]
  /\ reply \in [Calls -> Replies]
  /\ wire \subseteq Calls
  /\ effects \subseteq Keys \X (Calls \cup {NoCall})

\* The effect of an unmarked row's earlier run may have been applied.
Init ==
  /\ op \in [Keys -> {Absent} \cup {Unmarked(h) : h \in Hashes}]
  /\ pc = [c \in Calls |-> "idle"]
  /\ key = [c \in Calls |-> NoKey]
  /\ hash = [c \in Calls |-> NoHash]
  /\ gen = [c \in Calls |-> 0]
  /\ seen = [c \in Calls |-> {}]
  /\ outcome = [c \in Calls |-> "none"]
  /\ reply = [c \in Calls |-> "none"]
  /\ wire = {}
  /\ effects \in SUBSET {<<k, NoCall>> : k \in {j \in Keys : op[j] # Absent}}

-----------------------------------------------------------------------------
(* The journal: what its statements make of a row.                         *)

InFlight(c, h, g, stages) ==
  [status |-> "in_flight", hash |-> h, token |-> c, generation |-> g, lease |-> "live",
   retry |-> "none", proof |-> 0, stages |-> stages]

\* completeOperation: upstream_ref, and the stages in it, are overwritten.
Finished(row, status) ==
  [status |-> status, hash |-> row.hash, token |-> NoCall, generation |-> row.generation,
   lease |-> "none", retry |-> row.retry, proof |-> 0, stages |-> {}]

\* scheduleOperationRetry: the proof names the generation that was not applied.
Scheduled(row) ==
  [status |-> "pending", hash |-> row.hash, token |-> NoCall, generation |-> row.generation,
   lease |-> "none", retry |-> "later", proof |-> row.generation, stages |-> row.stages]

\* recordOperationProgress: one more stage of the operation.
Progressed(row, stage) == [row EXCEPT !.stages = @ \cup {stage}]

\* Bug: the statements name the operation and not the claim.
OwnsAnything(c) == op[key[c]].status # "none"

\* The claim token and generation that fence every write to the row.
Owns(c) == op[key[c]].token = c /\ op[key[c]].generation = gen[c]

\* Bug: a pending row is taken for a safe retry without its proof.
SafeRetryUnproved(row) == row.status = "pending" /\ row.retry = "due"

SafeRetry(row) == row.status = "pending" /\ row.retry = "due" /\ row.proof = row.generation

\* resumeFrom: the split's adapter can continue from the stages it recorded.
Resumable(k, stages) == k \in Splits /\ {"master_truncated", "split_prepared"} \subseteq stages

\* Bug: every reclaimed operation is run again.
MayRunAlways(k, row) == TRUE

\* reclaimDecision: an operation that may have been dispatched before runs only if
\* that is harmless.
MayRun(k, row) == SafeRetry(row) \/ k \in Idempotent \/ Resumable(k, row.stages)

-----------------------------------------------------------------------------
(* The claim: beginOperation, one transaction.                             *)

Enter(c, k, h) == /\ pc[c] = "idle"
                  /\ key' = [key EXCEPT ![c] = k]
                  /\ hash' = [hash EXCEPT ![c] = h]

Goto(c, stage) == pc' = [pc EXCEPT ![c] = stage]

Answer(c, r) == /\ Goto(c, "done")
                /\ reply' = [reply EXCEPT ![c] = r]

\* The row is new.
BeginFresh(c, k, h) ==
  /\ Enter(c, k, h)
  /\ op[k].status = "none"
  /\ op' = [op EXCEPT ![k] = InFlight(c, h, 1, {})]
  /\ gen' = [gen EXCEPT ![c] = 1]
  /\ Goto(c, "perform")
  /\ UNCHANGED <<seen, outcome, reply, wire, effects>>

\* Bug: only the key is compared.
AnotherPayloadNever(k, h) == FALSE

AnotherPayload(k, h) == op[k].status # "none" /\ op[k].hash # h

BeginReused(c, k, h) ==
  /\ Enter(c, k, h)
  /\ AnotherPayload(k, h)
  /\ Answer(c, "reused")
  /\ UNCHANGED <<op, gen, seen, outcome, wire, effects>>

ReplayStatus(status) ==
  CASE status = "committed" -> "confirmed"
    [] status = "accepted_pending" -> "accepted"
    [] status \in {"failed", "cancelled"} -> "permanent"
    [] OTHER -> status

\* The operation has ended or is parked: the journal answers, except that the unknown
\* outcome of a deletion is looked up first.
BeginReplay(c, k, h) ==
  /\ Enter(c, k, h)
  /\ ~AnotherPayload(k, h)
  /\ op[k].status \in Replayable \cup Unresolved
  /\ IF op[k].status = "outcome_unknown" /\ k \in Deletions
     THEN Goto(c, "reconcile") /\ UNCHANGED reply
     ELSE Answer(c, ReplayStatus(op[k].status))
  /\ UNCHANGED <<op, gen, seen, outcome, wire, effects>>

\* Somebody works on it, or its retry is not due.
BeginBusy(c, k, h) ==
  /\ Enter(c, k, h)
  /\ ~AnotherPayload(k, h)
  /\ \/ op[k].status = "in_flight" /\ op[k].lease = "live"
     \/ op[k].status = "pending" /\ op[k].retry = "later"
  /\ Answer(c, "pending")
  /\ UNCHANGED <<op, gen, seen, outcome, wire, effects>>

\* A due retry or an abandoned claim is taken over with the next generation; the
\* proof is consumed.
BeginReclaim(c, k, h) ==
  /\ Enter(c, k, h)
  /\ ~AnotherPayload(k, h)
  /\ \/ op[k].status = "in_flight" /\ op[k].lease # "live"
     \/ op[k].status = "pending" /\ op[k].retry # "later"
  /\ op' = [op EXCEPT ![k] = InFlight(c, op[k].hash, op[k].generation + 1, op[k].stages)]
  /\ gen' = [gen EXCEPT ![c] = op[k].generation + 1]
  /\ seen' = [seen EXCEPT ![c] = op[k].stages]
  /\ Goto(c, IF MayRun(k, op[k]) THEN "perform" ELSE "park")
  /\ UNCHANGED <<outcome, reply, wire, effects>>

Begin(c, k, h) ==
  \/ BeginFresh(c, k, h) \/ BeginReused(c, k, h) \/ BeginReplay(c, k, h)
  \/ BeginBusy(c, k, h) \/ BeginReclaim(c, k, h)

\* The reclaimed operation is parked; whether the statement found its row is not looked at.
Park(c) ==
  /\ pc[c] = "park"
  /\ op' = IF Owns(c)
           THEN [op EXCEPT ![key[c]] = Finished(op[key[c]], "outcome_unknown")]
           ELSE op
  /\ IF key[c] \in Deletions
     THEN Goto(c, "reconcile") /\ UNCHANGED reply
     ELSE Answer(c, "outcome_unknown")
  /\ UNCHANGED <<key, hash, gen, seen, outcome, wire, effects>>

-----------------------------------------------------------------------------
(* The provider call, of an adapter with one write.                        *)

\* The adapter has reported o.
Report(c, o) == /\ Goto(c, "record")
                /\ outcome' = [outcome EXCEPT ![c] = o]

Dispatch(c) ==
  /\ pc[c] = "perform" /\ key[c] \notin Splits
  /\ Goto(c, "await")
  /\ wire' = wire \cup {c}
  /\ UNCHANGED <<op, key, hash, gen, seen, outcome, reply, effects>>

\* The adapter's own checks, or its access token, stop it before anything is sent.
RefuseUnsent(c, o) ==
  /\ pc[c] = "perform" /\ key[c] \notin Splits
  /\ o \in {"permanent", "conflict", "retryable", "outcome_unknown"}
  /\ Report(c, o)
  /\ UNCHANGED <<op, key, hash, gen, seen, reply, wire, effects>>

\* The provider applies a request, whether or not anybody still waits for it.
Apply(c) ==
  /\ c \in wire
  /\ wire' = wire \ {c}
  /\ effects' = effects \cup {<<key[c], c>>}
  /\ UNCHANGED <<op, callVars>>

\* The request is refused or lost on its way.
Drop(c) ==
  /\ c \in wire
  /\ wire' = wire \ {c}
  /\ UNCHANGED <<op, callVars, effects>>

Landed(c) == <<key[c], c>> \in effects
Unapplied(c) == ~Landed(c) /\ c \notin wire

\* Bug: the collection adapters trust the client's retryable flag, as the others do.
ServerErrorTrusted(k) == "retryable"

\* What an adapter makes of a 5xx answer.
ServerError(k) == IF k \in Strict THEN "outcome_unknown" ELSE "retryable"

\* The provider's answer, or none, and what the adapter reports of it.  A success is
\* true, a 4xx or 429 answer was given instead of applying the request, a 5xx answer
\* and silence say nothing about it.
HearAnswer(c, o) ==
  /\ pc[c] = "await"
  /\ \/ o = "committed" /\ Landed(c)
     \/ o = "accepted_pending" /\ ~Unapplied(c)
     \/ o \in {"permanent", "conflict", "retryable"} /\ Unapplied(c)
     \/ o = ServerError(key[c])
     \/ o = "outcome_unknown"
  /\ Report(c, o)
  /\ UNCHANGED <<op, key, hash, gen, seen, reply, wire, effects>>

-----------------------------------------------------------------------------
(* The terminal state, recorded under the same claim.                      *)

JournalStatus(o) == IF o = "permanent" THEN "failed" ELSE o

Verdict(o) == ReplayStatus(JournalStatus(o))

RecordRetry(c) ==
  /\ pc[c] = "record" /\ outcome[c] = "retryable"
  /\ IF Owns(c) /\ op[key[c]].status = "in_flight"
     THEN /\ op' = [op EXCEPT ![key[c]] = Scheduled(op[key[c]])]
          /\ Answer(c, "retryable")
     ELSE /\ UNCHANGED op
          /\ Answer(c, "outcome_unknown")
  /\ UNCHANGED <<key, hash, gen, seen, outcome, wire, effects>>

\* Bug: a result that could not be recorded is answered all the same.
RecordOutcomeAnyway(c) ==
  /\ pc[c] = "record" /\ outcome[c] # "retryable"
  /\ op' = IF Owns(c)
           THEN [op EXCEPT ![key[c]] = Finished(op[key[c]], JournalStatus(outcome[c]))]
           ELSE op
  /\ Answer(c, Verdict(outcome[c]))
  /\ UNCHANGED <<key, hash, gen, seen, outcome, wire, effects>>

\* A call that lost its claim does not report its result.
RecordOutcome(c) ==
  /\ pc[c] = "record" /\ outcome[c] # "retryable"
  /\ IF Owns(c)
     THEN /\ op' = [op EXCEPT ![key[c]] = Finished(op[key[c]], JournalStatus(outcome[c]))]
          /\ Answer(c, Verdict(outcome[c]))
     ELSE /\ UNCHANGED op
          /\ Answer(c, "outcome_unknown")
  /\ UNCHANGED <<key, hash, gen, seen, outcome, wire, effects>>

-----------------------------------------------------------------------------
(* Around the calls.                                                       *)

\* Bug: the list is not read, or not completely.
ReconcileUnread(c) ==
  /\ pc[c] = "reconcile"
  /\ op[key[c]].status = "outcome_unknown"
  /\ op' = [op EXCEPT ![key[c]].status = "committed"]
  /\ Answer(c, "confirmed")
  /\ UNCHANGED <<key, hash, gen, seen, outcome, wire, effects>>

\* A complete list without the collection proves the deletion.
ProveDeleted(k) ==
  /\ \E who \in Calls \cup {NoCall} : <<k, who>> \in effects
  /\ op[k].status = "outcome_unknown"
  /\ op' = [op EXCEPT ![k].status = "committed"]

\* A row somebody else has settled, a list that still has it or a failed read leave the
\* outcome unknown.
Reconcile(c) ==
  /\ pc[c] = "reconcile"
  /\ \/ ProveDeleted(key[c]) /\ Answer(c, "confirmed")
     \/ UNCHANGED op /\ Answer(c, "outcome_unknown")
  /\ UNCHANGED <<key, hash, gen, seen, outcome, wire, effects>>

\* A repeated request for a collection that is gone locally looks it up as well.
RecoverDeletion(k) ==
  /\ k \in Deletions
  /\ ProveDeleted(k)
  /\ UNCHANGED <<callVars, wire, effects>>

\* The flag worker has read the message back and closes what nobody works on.
CloseFlagWrite(k) ==
  /\ k \in Flags
  /\ op[k].status \in {"pending", "outcome_unknown", "in_flight"}
  /\ op[k].lease # "live"
  /\ op' = [op EXCEPT ![k].status = "cancelled"]
  /\ UNCHANGED <<callVars, wire, effects>>

LeaseExpires(k) ==
  /\ op[k].lease = "live"
  /\ op' = [op EXCEPT ![k].lease = "expired"]
  /\ UNCHANGED <<callVars, wire, effects>>

RetryDue(k) ==
  /\ op[k].retry = "later"
  /\ op' = [op EXCEPT ![k].retry = "due"]
  /\ UNCHANGED <<callVars, wire, effects>>

\* The process dies or a statement fails: the call ends without an answer.
Crash(c) ==
  /\ pc[c] \notin {"idle", "done", "dead"}
  /\ Goto(c, "dead")
  /\ UNCHANGED <<op, key, hash, gen, seen, outcome, reply, wire, effects>>

\* The steps common to every adapter.
JournalStep ==
  \/ \E c \in Calls :
       \/ \E k \in Keys, h \in Hashes : Begin(c, k, h)
       \/ Park(c) \/ RecordRetry(c) \/ RecordOutcome(c) \/ Reconcile(c)
  \/ \E k \in Keys : RecoverDeletion(k) \/ CloseFlagWrite(k) \/ LeaseExpires(k) \/ RetryDue(k)

\* The provider call of an adapter with one write.
WriteStep ==
  \E c \in Calls :
    \/ Dispatch(c) \/ Apply(c) \/ Drop(c)
    \/ \E o \in Outcomes : RefuseUnsent(c, o) \/ HearAnswer(c, o)

Next == JournalStep \/ WriteStep \/ \E c \in Calls : Crash(c)

Spec == Init /\ [][Next]_journalVars

-----------------------------------------------------------------------------
(* Properties.                                                             *)

\* The requests made or applied for key k by this journal's calls.
RequestsOf(k) == {c \in Calls : key[c] = k /\ (c \in wire \/ Landed(c))}

\* A write that must not be repeated is applied at most once, and no second request is
\* on its way: the module comment's "a failure between the provider and PostgreSQL
\* cannot cause an automatic double execution", for the adapters that take a 5xx
\* answer for unknown.
OneEffect ==
  \A k \in Strict : \A c, d \in RequestsOf(k) : c = d

\* A journal that says "failed", "conflict" or "safe to retry" is right: nothing was
\* applied and nothing is on its way, so the user's next attempt cannot double it.
FailureMeansUnapplied ==
  \A k \in Strict :
    op[k].status \in {"failed", "conflict"} \/ SafeRetry(op[k]) => RequestsOf(k) = {}

\* A success is answered only if the journal holds it, for the payload the caller sent,
\* and the provider did apply a request of that key: a call that lost its claim, a
\* recovery and a replay cannot make one up.
TruthfulReplies ==
  \A c \in Calls :
    /\ reply[c] = "confirmed" =>
         /\ op[key[c]].status = "committed"
         /\ op[key[c]].hash = hash[c]
         /\ \E who \in Calls \cup {NoCall} : <<key[c], who>> \in effects
    /\ reply[c] = "accepted" => op[key[c]].status = "accepted_pending"

\* One key is one payload: whatever is applied or on its way for a key was sent with
\* the fingerprint the journal recorded.
OneFingerprint ==
  \A k \in Keys : \A c \in RequestsOf(k) : op[k].hash = hash[c]

\* A result that has been recorded is never changed, by a superseded owner, by a late
\* recovery or by the flag worker; an unknown outcome is never run again.
ResultsAreFinal ==
  [][\A k \in Keys :
       /\ op[k].status \in Replayable \cup {"failed", "conflict"} => op'[k].status = op[k].status
       /\ op[k].status = "outcome_unknown" =>
            op'[k].status \in {"outcome_unknown", "committed", "cancelled"}]_journalVars

\* Seen by the holder of a key: the requests applied, and the definite answers given.
Applied == [k \in Keys |-> {r \in Calls \cup {NoCall} : <<k, r>> \in effects}]
Told == [k \in Keys |->
           {IF reply[c] = "confirmed" THEN "confirmed" ELSE "failed" :
              c \in {d \in Calls : key[d] = k /\ reply[d] \in {"confirmed", "conflict", "permanent"}}}]

Promise == INSTANCE ProviderPromise
             WITH Once <- Strict, Requests <- Calls, Before <- NoCall, applied <- Applied, told <- Told

\* The journal keeps its promise: a write that must not happen twice happens once, never
\* after its failure was told, and no success is told before it happened.
KeepsWriteOnce == Promise!Spec

\* providerMutationService.ts, "a retry must not duplicate a mutation whose outcome is
\* unknown", for every adapter that is not idempotent.
NoDoubleExecution ==
  \A k \in Keys \ Idempotent : \A c, d \in RequestsOf(k) : c = d
=============================================================================

---------------------------- MODULE ScheduledMail ----------------------------
(***************************************************************************)
(* The undo-send / scheduled-mail queue: services/scheduledMail.ts (the    *)
(* scheduled_mail rows and their optimistic, revisioned operations) and    *)
(* services/scheduledMailWorker.ts (claim, heartbeat, dispatch gate,       *)
(* completion, recovery), composed with the pipeline of SendMail.          *)
(*                                                                         *)
(* An item is a row; its identity stands for the client's enqueue key, so  *)
(* a repeated enqueue finds the row and changes nothing.  One attempt is   *)
(* one claim: its lease token, one run of deliver(row) and the one call of *)
(* executeSend it makes with the key scheduled:<item>:<revision>.  Any     *)
(* number of workers may run, in any number of processes.                  *)
(*                                                                         *)
(* Time is a choice: the scheduled time of a pending row may have come     *)
(* whenever a worker looks, and a lease may expire at any moment, however  *)
(* slow or dead its holder is.  Scheduled times and the heartbeat's        *)
(* successful renewals therefore need no state here.                       *)
(***************************************************************************)
EXTENDS SendMail, Naturals

CONSTANTS
  Items,             \* queue rows
  LastRevision,      \* bound on a row's revision
  LastUserRevision,  \* bound on the revision a user's operation starts from
  MaxActive          \* MAX_ACTIVE: unfinished rows a user may have

Revisions == 1 .. LastRevision

ASSUME RevisionAssumption == LastRevision \in Nat \ {0} /\ LastUserRevision \in 0 .. LastRevision
ASSUME KeysAssumption == Keys = Items \X Revisions
ASSUME NoKeyAssumption == NoKey \notin Keys
ASSUME ActiveAssumption == IsFiniteSet(Items) /\ MaxActive \in Nat

VARIABLES
  row,         \* row[i]: the scheduled_mail row
  run,         \* run[a]: where deliver(row) stands around executeSend
  may,         \* may[a]: ownsLease /\ ~stopped, the worker's local permission
  dispatched,  \* dispatched[a]: deliver's local variable of that name
  owed         \* history: owed[i] is the set of recipients the user has asked for
               \* with the current payload and the transport has not accepted yet

queueVars == <<row, run, may, dispatched, owed>>
vars == <<sendVars, queueVars>>

States == {"absent", "pending", "preparing", "sending", "editing", "failed",
           "partial", "sent", "uncertain", "cancelled", "dismissed"}
Finished == {"sent", "cancelled", "dismissed"}
Leased == {"preparing", "sending"}

Rows == [state : States, revision : Revisions, payload : SUBSET Recipients,
         lease : Attempts \cup {NoAttempt}, live : BOOLEAN]

\* A row nobody holds: outside the leased states the lease columns are null.
Free(state, revision, payload) ==
  [state |-> state, revision |-> revision, payload |-> payload,
   lease |-> NoAttempt, live |-> FALSE]

NoRow == Free("absent", 1, {})

\* The lease columns are set exactly in the leased states (the CHECK of 0152_scheduled_mail.sql).
QueueTypeOK ==
  /\ row \in [Items -> Rows]
  /\ \A i \in Items : row[i].lease \in Attempts <=> row[i].state \in Leased
  /\ \A i \in Items : row[i].live => row[i].state \in Leased
  /\ run \in [Attempts -> {"none", "executing", "again", "over"}]
  /\ may \in [Attempts -> BOOLEAN]
  /\ dispatched \in [Attempts -> BOOLEAN]
  /\ owed \in [Items -> SUBSET Recipients]

TypeOK == SendTypeOK /\ QueueTypeOK

Init ==
  /\ SendInit
  /\ row = [i \in Items |-> NoRow]
  /\ run = [a \in Attempts |-> "none"]
  /\ may = [a \in Attempts |-> TRUE]
  /\ dispatched = [a \in Attempts |-> FALSE]
  /\ owed = [i \in Items |-> {}]

-----------------------------------------------------------------------------
(* The user's operations.                                                  *)

Active == {i \in Items : row[i].state \notin Finished \cup {"absent"}}

NewRow(m) == Free("pending", 1, m)

\* enqueueScheduledMail: checked against the active limit under the advisory lock.
Enqueue(i, m) ==
  /\ row[i].state = "absent"
  /\ Cardinality(Active) < MaxActive
  /\ row' = [row EXCEPT ![i] = NewRow(m)]
  /\ owed' = [owed EXCEPT ![i] = m]
  /\ UNCHANGED <<sendVars, run, may, dispatched>>

\* Bug: the limit is tested as for a single message.
EnqueueMergeUnchecked(to) ==
  LET batch == DOMAIN to
  IN /\ \A i \in batch : row[i].state = "absent"
     /\ Cardinality(Active) < MaxActive
     /\ row' = [i \in Items |-> IF i \in batch THEN NewRow({to[i]}) ELSE row[i]]
     /\ owed' = [i \in Items |-> IF i \in batch THEN {to[i]} ELSE owed[i]]
     /\ UNCHANGED <<sendVars, run, may, dispatched>>

\* Bug: every copy goes to all the recipients of the merge.
EnqueueMergeToAll(to) ==
  LET batch == DOMAIN to
      everybody == {to[i] : i \in batch}
  IN /\ \A i \in batch : row[i].state = "absent"
     /\ Cardinality(Active) + Cardinality(batch) <= MaxActive
     /\ row' = [i \in Items |-> IF i \in batch THEN NewRow(everybody) ELSE row[i]]
     /\ owed' = [i \in Items |-> IF i \in batch THEN {to[i]} ELSE owed[i]]
     /\ UNCHANGED <<sendVars, run, may, dispatched>>

\* enqueueMailMerge: one row for every recipient, all of them or none.
EnqueueMerge(to) ==
  LET batch == DOMAIN to
  IN /\ \A i \in batch : row[i].state = "absent"
     /\ Cardinality(Active) + Cardinality(batch) <= MaxActive
     /\ row' = [i \in Items |-> IF i \in batch THEN NewRow({to[i]}) ELSE row[i]]
     /\ owed' = [i \in Items |-> IF i \in batch THEN {to[i]} ELSE owed[i]]
     /\ UNCHANGED <<sendVars, run, may, dispatched>>

\* Every operation names the revision it saw and changes nothing at another one.
Sees(i, r, states) ==
  /\ row[i].revision = r
  /\ row[i].state \in states
  /\ r < LastUserRevision

\* editScheduledMail pauses the row; it does not take a new revision.
Edit(i, r) ==
  /\ Sees(i, r, {"pending", "editing", "failed", "partial"})
  /\ row' = [row EXCEPT ![i] = Free("editing", r, @.payload)]
  /\ UNCHANGED <<sendVars, run, may, dispatched, owed>>

\* updateScheduledMail saves the paused editor (keep) or queues its replacement; a
\* repeated request carries the old revision and is answered without a change.
Update(i, r, m, keep) ==
  /\ Sees(i, r, {"editing"})
  /\ row' = [row EXCEPT ![i] = Free(IF keep THEN "editing" ELSE "pending", r + 1, m)]
  /\ owed' = [owed EXCEPT ![i] = m]
  /\ UNCHANGED <<sendVars, run, may, dispatched>>

\* rescheduleMail keeps the payload.
Reschedule(i, r) ==
  /\ Sees(i, r, {"pending", "editing"})
  /\ row' = [row EXCEPT ![i] = Free("pending", r + 1, @.payload)]
  /\ UNCHANGED <<sendVars, run, may, dispatched, owed>>

\* Bug: a message under way can be cancelled.
CancelAnytime(i, r) ==
  /\ Sees(i, r, States \ (Finished \cup {"absent"}))
  /\ row' = [row EXCEPT ![i] = Free("cancelled", r + 1, {})]
  /\ owed' = [owed EXCEPT ![i] = {}]
  /\ UNCHANGED <<sendVars, run, may, dispatched>>

\* cancelScheduledMail: from now on the user expects nothing to leave.
Cancel(i, r) ==
  /\ Sees(i, r, {"pending", "editing", "failed", "partial"})
  /\ row' = [row EXCEPT ![i] = Free("cancelled", r + 1, {})]
  /\ owed' = [owed EXCEPT ![i] = {}]
  /\ UNCHANGED <<sendVars, run, may, dispatched>>

\* Bug: dismissing the item purges its ledger row as well.
DismissAndPurge(i, r) ==
  /\ Sees(i, r, {"uncertain"})
  /\ row' = [row EXCEPT ![i] = Free("dismissed", r + 1, {})]
  /\ intent' = [intent EXCEPT ![<<i, r>>] = NoIntent]
  /\ UNCHANGED <<callVars, cache, accepted, run, may, dispatched, owed>>

\* dismissScheduledMail acknowledges an unknown outcome; it recalls nothing.
Dismiss(i, r) ==
  /\ Sees(i, r, {"uncertain"})
  /\ row' = [row EXCEPT ![i] = Free("dismissed", r + 1, {})]
  /\ UNCHANGED <<sendVars, run, may, dispatched, owed>>

UserStep ==
  \E i \in Items :
    \/ \E m \in Messages : Enqueue(i, m)
    \/ \E r \in Revisions :
         \/ Edit(i, r) \/ Reschedule(i, r) \/ Cancel(i, r) \/ Dismiss(i, r)
         \/ \E m \in Messages, keep \in BOOLEAN : Update(i, r, m, keep)

MergeStep ==
  \E batch \in SUBSET Items : \E to \in [batch -> Recipients] :
    /\ batch # {}
    /\ \A i, j \in batch : i # j => to[i] # to[j]
    /\ EnqueueMerge(to)

-----------------------------------------------------------------------------
(* The worker.                                                             *)

Item(a) == key[a][1]

\* claimScheduledMail, then deliver(row) calls executeSend.
Claim(i, a) ==
  /\ row[i].state = "pending"
  /\ Start(a, <<i, row[i].revision>>, row[i].payload)
  /\ row' = [row EXCEPT ![i] = [state |-> "preparing", revision |-> @.revision,
                                payload |-> @.payload, lease |-> a, live |-> TRUE]]
  /\ run' = [run EXCEPT ![a] = "executing"]
  /\ UNCHANGED <<may, dispatched, owed>>

\* The statements a claim may still execute: WHERE lease_token=$2 AND state IN (...).
Holding(a, states) == row[Item(a)].lease = a /\ row[Item(a)].state \in states

\* A step of executeSend.
Execute(a) ==
  /\ CallStep(a) \/ Environment(a)
  /\ owed' = [owed EXCEPT ![Item(a)] = @ \ {r \in Recipients : <<a, r>> \in accepted' \ accepted}]
  /\ UNCHANGED <<row, run, may, dispatched>>

\* beforeDispatch, first half: the local test, then beginScheduledDispatch.
BeginDispatch(a) ==
  /\ pc[a] = "gate" /\ ~dispatched[a]
  /\ LET granted == Holding(a, {"preparing"}) /\ row[Item(a)].live
         sending == [row EXCEPT ![Item(a)].state = "sending"]
     IN \/ ~may[a] /\ CloseGate(a, "prevented") /\ UNCHANGED <<row, dispatched>>
        \/ may[a] /\ ~granted /\ CloseGate(a, "prevented") /\ UNCHANGED <<row, dispatched>>
        \/ /\ may[a] /\ granted
           /\ row' = sending
           /\ dispatched' = [dispatched EXCEPT ![a] = TRUE]
           /\ UNCHANGED sendVars
        \/ /\ may[a]                                   \* the statement's answer is an error
           /\ row' \in {row, IF granted THEN sending ELSE row}
           /\ CloseGate(a, "refused")
           /\ UNCHANGED dispatched
  /\ UNCHANGED <<run, may, owed>>

\* beforeDispatch, second half: the permission is tested again after the statement.
RecheckGate(a) ==
  /\ dispatched[a]
  /\ IF may[a] THEN PassGate(a) ELSE CloseGate(a, "prevented")
  /\ UNCHANGED queueVars

\* The heartbeat fails or finds the lease gone, or the worker is stopped.  Only the
\* gate reads this, so a permission lost earlier is lost on arrival at the gate.
LosePermission(a) ==
  /\ pc[a] = "gate" /\ may[a]
  /\ may' = [may EXCEPT ![a] = FALSE]
  /\ UNCHANGED <<sendVars, row, run, dispatched, owed>>

\* Bug: every reported recipient becomes a retry target.
OutcomeTrusting(m, R) ==
  IF R = {} THEN [state |-> "sent", payload |-> {}]
            ELSE [state |-> "partial", payload |-> R]

\* completion: an evidence that contradicts the message never creates a retry target.
Outcome(m, R) ==
  CASE R = {}                         -> [state |-> "sent", payload |-> {}]
    [] R # {} /\ R \subseteq m        -> [state |-> "partial", payload |-> R]
    [] R # {} /\ ~(R \subseteq m)     -> [state |-> "uncertain", payload |-> m]

ReplyOutcome(a) ==
  CASE reply[a] = "ok"                -> Outcome(msg[a], rejected[a])
    [] reply[a] = "unknown"           -> [state |-> "uncertain", payload |-> msg[a]]
    [] reply[a] \notin {"ok", "unknown"} -> [state |-> "failed", payload |-> msg[a]]

\* completeScheduledMail's statement.
Complete(a, outcome) ==
  IF Holding(a, Leased)
  THEN [row EXCEPT ![Item(a)] = Free(outcome.state, @.revision, outcome.payload)]
  ELSE row

\* executeSend returned a prevented dispatch: releaseScheduledClaim, failures swallowed.
ReleaseClaim(a) ==
  /\ run[a] = "executing" /\ pc[a] = "done" /\ reply[a] = "prevented"
  /\ run' = [run EXCEPT ![a] = "over"]
  /\ \/ UNCHANGED row
     \/ /\ Holding(a, Leased) /\ row[Item(a)].revision < LastRevision
        /\ row' = [row EXCEPT ![Item(a)] = Free("pending", @.revision + 1, @.payload)]
  /\ UNCHANGED <<sendVars, may, dispatched, owed>>

\* executeSend returned anything else: record it; an error leads to the catch block.
RecordOutcome(a) ==
  /\ run[a] = "executing" /\ pc[a] = "done" /\ reply[a] # "prevented"
  /\ \E result \in Results :
       /\ row' = IF Applied(result) THEN Complete(a, ReplyOutcome(a)) ELSE row
       /\ run' = [run EXCEPT ![a] = IF result = "done" THEN "over" ELSE "again"]
  /\ UNCHANGED <<sendVars, may, dispatched, owed>>

\* Bug: the catch block forgets that the dispatch had begun.
RecordExceptionAsFailed(a) ==
  /\ run[a] = "again"
  /\ row' \in {row, Complete(a, [state |-> "failed", payload |-> msg[a]])}
  /\ run' = [run EXCEPT ![a] = "over"]
  /\ UNCHANGED <<sendVars, may, dispatched, owed>>

\* The catch block of deliver: unknown once dispatched, a failed preparation before.
RecordException(a) ==
  /\ run[a] = "again"
  /\ LET state == IF dispatched[a] THEN "uncertain" ELSE "failed"
     IN row' \in {row, Complete(a, [state |-> state, payload |-> msg[a]])}
  /\ run' = [run EXCEPT ![a] = "over"]
  /\ UNCHANGED <<sendVars, may, dispatched, owed>>

\* The worker's process dies between any two awaits.
WorkerCrash(a) ==
  /\ run[a] \in {"executing", "again"}
  /\ Crash(a) \/ (pc[a] = "done" /\ UNCHANGED sendVars)
  /\ run' = [run EXCEPT ![a] = "over"]
  /\ UNCHANGED <<row, may, dispatched, owed>>

-----------------------------------------------------------------------------
(* Time and recovery.                                                      *)

LeaseExpires(i) ==
  /\ row[i].live
  /\ row' = [row EXCEPT ![i].live = FALSE]
  /\ UNCHANGED <<sendVars, run, may, dispatched, owed>>

\* Bug: the retry keeps the revision, and with it the ledger key.
RecoverPreparingInPlace(i) ==
  /\ row[i].state = "preparing" /\ ~row[i].live
  /\ row' = [row EXCEPT ![i] = Free("pending", @.revision, @.payload)]
  /\ UNCHANGED <<sendVars, run, may, dispatched, owed>>

\* recoverScheduledMail, one statement each: an expired preparation is retried under a
\* new revision, ...
RecoverPreparing(i) ==
  /\ row[i].state = "preparing" /\ ~row[i].live
  /\ row[i].revision < LastRevision
  /\ row' = [row EXCEPT ![i] = Free("pending", @.revision + 1, @.payload)]
  /\ UNCHANGED <<sendVars, run, may, dispatched, owed>>

\* Bug: an expired submission is retried like an expired preparation.
RecoverSendingByRetry(i) ==
  /\ row[i].state = "sending" /\ ~row[i].live
  /\ row[i].revision < LastRevision
  /\ row' = [row EXCEPT ![i] = Free("pending", @.revision + 1, @.payload)]
  /\ UNCHANGED <<sendVars, run, may, dispatched, owed>>

\* Bug: only a submission with a ledger receipt is taken from a dead worker.
RecoverSendingWithReceipt(i) ==
  /\ row[i].state = "sending" /\ ~row[i].live
  /\ intent[<<i, row[i].revision>>].status = "completed"
  /\ row' = [row EXCEPT ![i] = Free("uncertain", @.revision, @.payload)]
  /\ UNCHANGED <<sendVars, run, may, dispatched, owed>>

\* ... an expired submission is parked, ...
RecoverSending(i) ==
  /\ row[i].state = "sending" /\ ~row[i].live
  /\ row' = [row EXCEPT ![i] = Free("uncertain", @.revision, @.payload)]
  /\ UNCHANGED <<sendVars, run, may, dispatched, owed>>

\* Bug: any ledger row of the revision counts as a receipt.
RecoverReceiptUnfinished(i) ==
  LET receipt == intent[<<i, row[i].revision>>]
      outcome == Outcome(row[i].payload, receipt.rejected)
  IN /\ row[i].state = "uncertain"
     /\ receipt.status # "none"
     /\ outcome.state # "uncertain"
     /\ row' = [row EXCEPT ![i] = Free(outcome.state, @.revision, outcome.payload)]
     /\ UNCHANGED <<sendVars, run, may, dispatched, owed>>

\* Bug: a receipt that names rejected recipients is skipped.
RecoverReceiptComplete(i) ==
  LET receipt == intent[<<i, row[i].revision>>]
  IN /\ row[i].state = "uncertain"
     /\ receipt.status = "completed" /\ receipt.rejected = {}
     /\ row' = [row EXCEPT ![i] = Free("sent", @.revision, {})]
     /\ UNCHANGED <<sendVars, run, may, dispatched, owed>>

\* ... and a parked row takes the outcome of its revision's completed receipt.
RecoverReceipt(i) ==
  LET receipt == intent[<<i, row[i].revision>>]
      outcome == Outcome(row[i].payload, receipt.rejected)
  IN /\ row[i].state = "uncertain"
     /\ receipt.status = "completed"
     /\ outcome.state # "uncertain"
     /\ row' = [row EXCEPT ![i] = Free(outcome.state, @.revision, outcome.payload)]
     /\ UNCHANGED <<sendVars, run, may, dispatched, owed>>

Recover(i) == RecoverPreparing(i) \/ RecoverSending(i) \/ RecoverReceipt(i)

\* Redis loses an entry.
QueueCacheLost(k) == CacheLost(k) /\ UNCHANGED queueVars

WorkerStep(a) ==
  \/ Execute(a) \/ BeginDispatch(a) \/ RecheckGate(a)
  \/ ReleaseClaim(a) \/ RecordOutcome(a) \/ RecordException(a)

Next ==
  \/ UserStep \/ MergeStep
  \/ \E i \in Items :
       \/ LeaseExpires(i) \/ Recover(i)
       \/ \E a \in Attempts : Claim(i, a)
  \/ \E a \in Attempts : WorkerStep(a) \/ LosePermission(a) \/ WorkerCrash(a)
  \/ \E k \in Keys : QueueCacheLost(k)

Spec == Init /\ [][Next]_vars

-----------------------------------------------------------------------------
(* Properties.                                                             *)

\* Whatever the transport accepts, for any row, was asked for by the user with the
\* row's current payload and had not been accepted before: nothing leaves after a
\* cancellation or an edit, and no retry reaches a recipient a second time.
OnlySolicited ==
  [][\A a \in Attempts, r \in Recipients :
        <<a, r>> \in accepted' \ accepted => r \in owed[Item(a)]]_vars

\* What the queue shows is what happened: a sent row has reached everybody, a row that
\* can be edited, cancelled or claimed again has reached nobody of its payload.
OutcomeTruth ==
  \A i \in Items :
    /\ row[i].state = "sent" => owed[i] = {}
    /\ row[i].state \in {"pending", "preparing", "editing", "failed", "partial"} =>
         owed[i] = row[i].payload

\* Past the dispatch gate nobody can take the row back: while a claim may still reach
\* the transport its row is sending under this claim, or parked, or dismissed.
SubmissionIsVisible ==
  \A a \in Attempts : pc[a] \in {"mark", "submit"} =>
    \/ Holding(a, {"sending"})
    \/ row[Item(a)].state = "uncertain" /\ row[Item(a)].revision = key[a][2]
    \/ row[Item(a)].state = "dismissed" /\ row[Item(a)].revision = key[a][2] + 1

\* A revision is claimed at most once, so its ledger key belongs to one claim.
OneClaimPerRevision ==
  \A a, b \in Attempts : run[a] # "none" /\ key[a] = key[b] => a = b

\* MAX_ACTIVE bounds the unfinished rows whatever the mix of enqueues and merges.
ActiveBound == Cardinality(Active) <= MaxActive

\* The queue implements its promise to the user ...
Phase(state) ==
  CASE state \in {"absent", "pending", "editing", "failed", "partial"} -> "mine"
    [] state \in {"preparing", "sending", "uncertain"}                -> "out"
    [] state \in {"sent", "cancelled"}                                -> "closed"
    [] state = "dismissed"                                            -> "waived"

UserPromise == INSTANCE QueuePromise WITH
  phase <- [i \in Items |-> Phase(row[i].state)],
  shown <- [i \in Items |-> row[i].payload]

KeepsPromise == UserPromise!Spec

\* ... and, seen from the ledger, is a use of the pipeline it calls.
UsesPipeline == SendSpec

\* A row leaves the uncertain state only by dismissal or on the evidence of a completed
\* receipt of that very revision; nothing rearms it.
UncertainIsSticky ==
  [][\A i \in Items : row[i].state = "uncertain" /\ row'[i] # row[i] =>
       \/ row'[i].state = "dismissed"
       \/ /\ row'[i].state \in {"sent", "partial"}
          /\ intent[<<i, row[i].revision>>].status = "completed"]_vars

-----------------------------------------------------------------------------
(* Liveness.  A worker that has not crashed keeps executing, and the poll  *)
(* loop claims due rows and runs the recovery every 30 seconds.  A lease   *)
(* expires for certain only once nobody is left to renew it.               *)

AbandonedLeaseExpires(i) ==
  LeaseExpires(i) /\ run[row[i].lease] = "over"

Fairness ==
  /\ \A a \in Attempts : WF_vars(WorkerStep(a) /\ pc'[a] # pc[a])
                         /\ WF_vars(BeginDispatch(a))
                         /\ WF_vars(ReleaseClaim(a) \/ RecordOutcome(a) \/ RecordException(a))
  /\ \A i \in Items : /\ WF_vars(AbandonedLeaseExpires(i))
                      /\ WF_vars(RecoverPreparing(i)) /\ WF_vars(RecoverSending(i))
                      /\ WF_vars(RecoverReceipt(i))
                      /\ WF_vars(\E a \in Attempts : Claim(i, a))

FairSpec == Spec /\ Fairness

\* No claim is held for ever: the worker reports, or its lease expires and is recovered.
ClaimsEnd == \A i \in Items, a \in Attempts : row[i].lease = a ~> row[i].lease # a

\* A parked row whose revision has a consistent completed receipt is resolved.
ReceiptsResolve ==
  \A i \in Items :
    (/\ row[i].state = "uncertain"
     /\ intent[<<i, row[i].revision>>].status = "completed"
     /\ intent[<<i, row[i].revision>>].rejected \subseteq row[i].payload)
    ~> row[i].state \in {"sent", "partial", "dismissed"}
=============================================================================

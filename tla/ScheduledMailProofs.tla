------------------------ MODULE ScheduledMailProofs ------------------------
(***************************************************************************)
(* Proofs about ScheduledMail, for every set of items, claims and          *)
(* recipients and every bound on revisions and active rows.                *)
(***************************************************************************)
EXTENDS ScheduledMail, SendMailProofs, FiniteSetTheorems

-----------------------------------------------------------------------------
(* The inductive invariant.                                                *)

Claimed(a) == run[a] # "none"

\* The row of claim a is sending under it, or parked at its revision, or dismissed.
Visible(a) ==
  \/ Holding(a, {"sending"})
  \/ row[Item(a)].state = "uncertain" /\ row[Item(a)].revision = key[a][2]
  \/ row[Item(a)].state = "dismissed" /\ row[Item(a)].revision = key[a][2] + 1

AtTransport == {"gate", "mark", "submit", "finalize"}
BeforeAcceptance == {"gate", "mark", "submit"}

\* A claim has begun its call; it passes the gate only after BeginDispatch, and from
\* there to the end of its submission its row stays visible and its message is owed.
ClaimInv(a) ==
  /\ Claimed(a) <=> pc[a] # "idle"
  /\ Claimed(a) => msg[a] \in Messages /\ key[a][2] <= row[Item(a)].revision
  /\ ~Claimed(a) => ~dispatched[a] /\ key[a] = NoKey
  /\ run[a] \in {"again", "over"} => pc[a] \in {"done", "dead"}
  /\ pc[a] = "done" => reply[a] # "none"
  /\ pc[a] \in {"mark", "submit", "finalize"} \/ AcceptedBy(a) # {} => dispatched[a]
  /\ dispatched[a] => pc[a] \in AtTransport \cup {"release", "done", "dead"}
  /\ dispatched[a] /\ pc[a] \in AtTransport => Visible(a)
  /\ dispatched[a] /\ pc[a] \in BeforeAcceptance => msg[a] \subseteq owed[Item(a)]

\* a is the claim of row i's revision, and the row waits for exactly what a has not sent.
OutWith(i, a) ==
  /\ Claimed(a) /\ key[a] = <<i, row[i].revision>>
  /\ row[i].payload = msg[a] /\ owed[i] = msg[a] \ AcceptedBy(a)
  /\ row[i].state \in Leased => row[i].lease = a
  /\ row[i].state = "preparing" => ~dispatched[a]

Mine == {"pending", "preparing", "editing", "failed", "partial"}

ItemInv(i) ==
  /\ row[i].state = "absent" => row[i].revision = 1
  /\ row[i].state \in {"absent", "pending"} =>
       \A a \in Attempts : Claimed(a) => key[a] # <<i, row[i].revision>>
  /\ row[i].state \in {"preparing", "sending", "uncertain"} => \E a \in Attempts : OutWith(i, a)
  /\ row[i].state \notin Finished \cup {"absent"} => row[i].payload # {}
  /\ row[i].state = "sent" => owed[i] = {}
  /\ row[i].state \in Mine => owed[i] = row[i].payload

QueueInv ==
  /\ SendInv /\ QueueTypeOK
  /\ \A a \in Attempts : ClaimInv(a)
  /\ \A i \in Items : ItemInv(i)
  /\ OneClaimPerRevision

-----------------------------------------------------------------------------
(* Keys, and the pipeline below the queue.                                 *)

\* The key of a call names an item and a revision.
LEMMA KeyOfCall ==
  ASSUME SendTypeOK, NEW a \in Attempts, pc[a] # "idle"
  PROVE  /\ key[a] \in Keys /\ Item(a) \in Items /\ key[a][2] \in Revisions
         /\ key[a] = <<Item(a), key[a][2]>>
BY KeysAssumption DEF SendTypeOK, Item

\* A step of a call preserves the pipeline's invariant and leaves other calls alone.
LEMMA CallFrame ==
  ASSUME SendInv, NEW a \in Attempts,
         \/ CallStep(a) \/ Environment(a) \/ Crash(a) \/ PassGate(a)
         \/ \E r \in {"prevented", "refused"} : CloseGate(a, r)
         \/ \E k \in Keys, m \in Messages : Start(a, k, m)
  PROVE  SendInv' /\ Frame(a)
<1>1. SendNext
  BY DEF SendNext
<1>2. SendTypeOK'
  BY <1>1, SendTypeStep DEF SendInv
<1> QED
  BY <1>2, StartStep, LookUpStep, PrepareStep, ClaimIntentStep, ObserveStep, ReserveStep,
     UndoClaimStep, PassGateStep, CloseGateStep, MarkUncertainStep, AcceptsStep, RefusesStep,
     UnknownStep, FinalizeStep, ReleaseIntentStep, PublishStep, SuspectStep, CrashStep
     DEF CallStep, Environment

\* How a call moves between its beginning, its gate and its end.
LEMMA CallMoves ==
  ASSUME SendTypeOK, NEW a \in Attempts, CallStep(a) \/ Environment(a)
  PROVE  /\ pc[a] # "idle" /\ pc'[a] # "idle"
         /\ key'[a] = key[a] /\ msg'[a] = msg[a]
         /\ pc[a] \in {"done", "dead"} => pc'[a] = pc[a]
         /\ pc'[a] \in {"mark", "submit"} => pc[a] \in {"mark", "submit"}
         /\ pc'[a] = "finalize" => pc[a] \in {"submit", "finalize"}
         /\ pc'[a] = "gate" => pc[a] \in {"gate", "reserve"}
         /\ pc[a] \in AtTransport =>
              pc'[a] \in AtTransport \cup {"release", "done", "dead"}
         /\ pc[a] \in {"release", "done", "dead"} => pc'[a] \in {"release", "done", "dead"}
         /\ AcceptedBy(a)' # AcceptedBy(a) => pc[a] = "submit" /\ pc'[a] \in {"finalize", "done"}
<1> USE DEF Goto, Return, GiveUp, SendTypeOK, AtTransport, callVars
<1>1. CASE LookUp(a) \/ Prepare(a) \/ ClaimIntent(a) \/ Observe(a)
  BY <1>1 DEF LookUp, Prepare, ClaimIntent, Observe, Replay, AcceptedBy
<1>2. CASE Reserve(a) \/ UndoClaim(a) \/ MarkUncertain(a) \/ TransportRefuses(a)
  BY <1>2 DEF Reserve, UndoClaim, MarkUncertain, TransportRefuses, AcceptedBy
<1>3. CASE \E A, R \in SUBSET Recipients : TransportAccepts(a, A, R)
  BY <1>3 DEF TransportAccepts
<1>4. CASE \E A \in SUBSET Recipients : TransportUnknown(a, A)
  BY <1>4 DEF TransportUnknown
<1>5. CASE Finalize(a) \/ ReleaseIntent(a)
  BY <1>5 DEF Finalize, ReleaseIntent, AcceptedBy
<1>6. CASE Environment(a)
  BY <1>6 DEF Environment, PublishReceipt, LeaseSuspect, AcceptedBy
<1> QED
  BY <1>1, <1>2, <1>3, <1>4, <1>5, <1>6 DEF CallStep

\* A call ends with an answer.
LEMMA CallAnswers ==
  ASSUME SendInv, NEW a \in Attempts, CallStep(a) \/ Environment(a),
         pc[a] = "done" => reply[a] # "none", pc'[a] = "done"
  PROVE  reply'[a] # "none"
<1> USE DEF Goto, Return, GiveUp, SendInv, SendTypeOK, callVars
<1>1. CASE LookUp(a) \/ Prepare(a) \/ ClaimIntent(a) \/ Observe(a)
  BY <1>1 DEF LookUp, Prepare, ClaimIntent, Observe, Replay
<1>2. CASE Reserve(a) \/ MarkUncertain(a) \/ TransportRefuses(a)
  BY <1>2 DEF Reserve, MarkUncertain, TransportRefuses
<1>3. CASE UndoClaim(a) \/ ReleaseIntent(a)
  BY <1>3 DEF UndoClaim, ReleaseIntent, CallInv
<1>4. CASE \E A, R \in SUBSET Recipients : TransportAccepts(a, A, R)
  BY <1>4 DEF TransportAccepts
<1>5. CASE Finalize(a) \/ \E A \in SUBSET Recipients : TransportUnknown(a, A)
  BY <1>5 DEF TransportUnknown, Finalize
<1>6. CASE Environment(a)
  BY <1>6 DEF Environment, PublishReceipt, LeaseSuspect
<1> QED
  BY <1>1, <1>2, <1>3, <1>4, <1>5, <1>6 DEF CallStep

\* Only the recipients of a call's own message are newly accepted by its step.
LEMMA CallAccepts ==
  ASSUME SendTypeOK, NEW a \in Attempts, CallStep(a) \/ Environment(a)
  PROVE  /\ AcceptedBy(a) \subseteq AcceptedBy(a)'
         /\ AcceptedBy(a)' \subseteq AcceptedBy(a) \cup msg[a]
         /\ {r \in Recipients : <<a, r>> \in accepted' \ accepted} = AcceptedBy(a)' \ AcceptedBy(a)
<1> USE DEF Goto, Return, GiveUp, SendTypeOK, AcceptedBy, callVars
<1>1. CASE UNCHANGED accepted
  BY <1>1
<1>2. CASE \E A, R \in SUBSET Recipients : TransportAccepts(a, A, R)
  BY <1>2 DEF TransportAccepts
<1>3. CASE \E A \in SUBSET Recipients : TransportUnknown(a, A)
  BY <1>3 DEF TransportUnknown
<1> QED
  BY <1>1, <1>2, <1>3 DEF CallStep, Environment, LookUp, Prepare, ClaimIntent, Observe, Replay,
     Reserve, UndoClaim, MarkUncertain, TransportRefuses, Finalize, ReleaseIntent,
     PublishReceipt, LeaseSuspect

-----------------------------------------------------------------------------
(* Types.                                                                  *)

\* What an answer records in the row: its states and the recipients it keeps.
LEMMA OutcomeTypes ==
  ASSUME NEW m \in SUBSET Recipients, NEW R \in SUBSET Recipients
  PROVE  /\ Outcome(m, R).state \in {"sent", "partial", "uncertain"}
         /\ Outcome(m, R).payload \in SUBSET Recipients
BY DEF Outcome

\* The same for a whole answer.
LEMMA ReplyOutcomeTypes ==
  ASSUME SendTypeOK, NEW a \in Attempts
  PROVE  /\ ReplyOutcome(a).state \in {"sent", "partial", "uncertain", "failed"}
         /\ ReplyOutcome(a).payload \in SUBSET Recipients
<1>1. CASE reply[a] = "ok"
  <2>1. ReplyOutcome(a) = Outcome(msg[a], rejected[a])
    BY <1>1 DEF ReplyOutcome
  <2>2. msg[a] \in SUBSET Recipients /\ rejected[a] \in SUBSET Recipients
    BY DEF SendTypeOK
  <2> QED
    BY <2>1, <2>2, OutcomeTypes
<1>2. CASE reply[a] # "ok"
  BY <1>2 DEF ReplyOutcome, SendTypeOK
<1> QED
  BY <1>1, <1>2

RowsTyped ==
  /\ row \in [Items -> Rows]
  /\ \A i \in Items : row[i].lease \in Attempts <=> row[i].state \in Leased
  /\ \A i \in Items : row[i].live => row[i].state \in Leased

\* A typed row nobody holds may be written anywhere.
LEMMA FreeRowTypes ==
  ASSUME RowsTyped, NEW i, NEW s \in States \ Leased, NEW v \in Revisions,
         NEW p \in SUBSET Recipients, row' = [row EXCEPT ![i] = Free(s, v, p)]
  PROVE  RowsTyped'
BY NoAttemptAssumption DEF RowsTyped, Free, Rows

\* Recording an outcome keeps the table typed.
LEMMA CompleteTypes ==
  ASSUME RowsTyped, NEW a \in Attempts, NEW o,
         o.state \in {"sent", "partial", "uncertain", "failed"}, o.payload \in SUBSET Recipients,
         row' = Complete(a, o)
  PROVE  RowsTyped'
<1>1. CASE row' = row
  BY <1>1 DEF RowsTyped
<1>2. CASE Item(a) \in Items /\ row' = [row EXCEPT ![Item(a)] = Free(o.state, @.revision, o.payload)]
  <2>1. row' = [row EXCEPT ![Item(a)] = Free(o.state, row[Item(a)].revision, o.payload)]
    BY <1>2
  <2>2. row[Item(a)].revision \in Revisions /\ o.state \in States \ Leased
    BY <1>2 DEF RowsTyped, Rows, States, Leased
  <2> DEFINE s == o.state
             p == o.payload
  <2>3. s \in States \ Leased /\ p \in SUBSET Recipients
    BY <2>2
  <2>4. row' = [row EXCEPT ![Item(a)] = Free(s, row[Item(a)].revision, p)]
    BY <2>1
  <2> HIDE DEF s, p
  <2> QED
    BY <2>2, <2>3, <2>4, FreeRowTypes
<1> QED
  BY <1>1, <1>2 DEF Complete, RowsTyped

\* Every step of the queue keeps the table typed.
LEMMA RowsTypeStep == SendTypeOK /\ RowsTyped /\ [Next]_vars => RowsTyped'
<1> SUFFICES ASSUME SendTypeOK, RowsTyped, [Next]_vars PROVE RowsTyped'
  OBVIOUS
<1>1. ASSUME NEW i \in Items
      PROVE  row[i].revision \in Revisions /\ row[i].payload \in SUBSET Recipients
  BY DEF RowsTyped, Rows
<1>2. {"pending", "editing", "cancelled", "dismissed", "uncertain", "sent", "partial", "failed"}
        \subseteq States \ Leased
  BY DEF States, Leased
<1>3. 1 \in Revisions /\ \A r \in Revisions : r < LastUserRevision => r + 1 \in Revisions
  BY RevisionAssumption DEF Revisions
<1>4. ASSUME UNCHANGED row PROVE RowsTyped'
  BY <1>4 DEF RowsTyped
<1>5. ASSUME NEW i \in Items, NEW m \in Messages, Enqueue(i, m) PROVE RowsTyped'
  BY <1>2, <1>3, <1>5, FreeRowTypes DEF Enqueue, NewRow, Messages
<1>6. ASSUME NEW i \in Items, NEW r \in Revisions, Edit(i, r) PROVE RowsTyped'
  <2>1. row' = [row EXCEPT ![i] = Free("editing", r, row[i].payload)]
    BY <1>6 DEF Edit
  <2> QED
    BY <1>1, <1>2, <2>1, FreeRowTypes
<1>7. ASSUME NEW i \in Items, NEW r \in Revisions, Reschedule(i, r) PROVE RowsTyped'
  <2>1. row' = [row EXCEPT ![i] = Free("pending", r + 1, row[i].payload)] /\ r + 1 \in Revisions
    BY <1>3, <1>7 DEF Reschedule, Sees
  <2> QED
    BY <1>1, <1>2, <2>1, FreeRowTypes
<1>8. ASSUME NEW i \in Items, NEW r \in Revisions, Cancel(i, r) \/ Dismiss(i, r) PROVE RowsTyped'
  <2>1. r + 1 \in Revisions
    BY <1>3, <1>8 DEF Cancel, Dismiss, Sees
  <2>2. PICK s \in {"cancelled", "dismissed"} : row' = [row EXCEPT ![i] = Free(s, r + 1, {})]
    BY <1>8 DEF Cancel, Dismiss
  <2>3. {} \in SUBSET Recipients /\ s \in States \ Leased
    BY <1>2
  <2> QED
    BY <2>1, <2>2, <2>3, FreeRowTypes
<1>9. ASSUME NEW i \in Items, NEW r \in Revisions, NEW m \in Messages, NEW keep \in BOOLEAN,
             Update(i, r, m, keep)
      PROVE  RowsTyped'
  <2>1. r + 1 \in Revisions /\ m \in SUBSET Recipients
    BY <1>3, <1>9 DEF Update, Sees, Messages
  <2>2. PICK s \in {"editing", "pending"} : row' = [row EXCEPT ![i] = Free(s, r + 1, m)]
    BY <1>9 DEF Update
  <2> QED
    BY <1>2, <2>1, <2>2, FreeRowTypes
<1>10. CASE MergeStep
  <2>1. PICK batch \in SUBSET Items : \E to \in [batch -> Recipients] : EnqueueMerge(to)
    BY <1>10 DEF MergeStep
  <2>2. PICK to \in [batch -> Recipients] : EnqueueMerge(to)
    BY <2>1
  <2>3. row' = [i \in Items |-> IF i \in batch THEN Free("pending", 1, {to[i]}) ELSE row[i]]
    BY <2>2 DEF EnqueueMerge, NewRow
  <2>4. ASSUME NEW i \in Items
        PROVE  /\ row'[i] \in Rows
               /\ row'[i].lease \in Attempts <=> row'[i].state \in Leased
               /\ row'[i].live => row'[i].state \in Leased
    <3>1. CASE i \in batch
      <4>1. row'[i] = Free("pending", 1, {to[i]}) /\ to[i] \in Recipients
        BY <2>3, <3>1
      <4> QED
        BY <4>1, <1>3, NoAttemptAssumption DEF Free, Rows, States, Leased
    <3>2. CASE i \notin batch
      BY <2>3, <3>2 DEF RowsTyped
    <3> QED
      BY <3>1, <3>2
  <2> QED
    BY <2>3, <2>4 DEF RowsTyped
<1>11. ASSUME NEW i \in Items, NEW a \in Attempts, Claim(i, a) PROVE RowsTyped'
  BY <1>1, <1>11 DEF Claim, RowsTyped, Rows, States, Leased
<1>12. ASSUME NEW a \in Attempts, BeginDispatch(a) PROVE RowsTyped'
  <2>1. CASE Holding(a, {"preparing"}) /\ row' = [row EXCEPT ![Item(a)].state = "sending"]
    <3>1. row[Item(a)].state \in Leased /\ "sending" \in Leased /\ Leased \subseteq States
      BY <2>1 DEF Holding, States, Leased
    <3>2. row' \in [Items -> Rows]
      BY <2>1, <3>1 DEF RowsTyped, Rows
    <3>3. ASSUME NEW i \in Items
          PROVE  /\ row'[i].lease = row[i].lease /\ row'[i].live = row[i].live
                 /\ row'[i].state \in Leased <=> row[i].state \in Leased
      BY <2>1, <3>1 DEF RowsTyped, Rows
    <3> QED BY <3>2, <3>3 DEF RowsTyped
  <2> QED
    BY <1>4, <1>12, <2>1 DEF BeginDispatch
<1>13. ASSUME NEW a \in Attempts, ReleaseClaim(a) PROVE RowsTyped'
  <2>1. Item(a) \in Items
    BY <1>13, KeyOfCall DEF ReleaseClaim
  <2>2. CASE row[Item(a)].revision < LastRevision
    <3>1. row[Item(a)].revision + 1 \in Revisions
      BY <1>1, <2>1, <2>2, RevisionAssumption DEF Revisions
    <3>2. row' = row \/ row' = [row EXCEPT ![Item(a)] =
                                Free("pending", row[Item(a)].revision + 1, row[Item(a)].payload)]
      BY <1>13 DEF ReleaseClaim
    <3> QED
      BY <1>1, <1>2, <1>4, <2>1, <3>1, <3>2, FreeRowTypes
  <2> QED
    BY <1>4, <1>13, <2>2 DEF ReleaseClaim
<1>14. ASSUME NEW a \in Attempts, RecordOutcome(a) PROVE RowsTyped'
  <2>1. row' = row \/ row' = Complete(a, ReplyOutcome(a))
    BY <1>14 DEF RecordOutcome
  <2> QED
    BY <1>4, <2>1, ReplyOutcomeTypes, CompleteTypes
<1>15. ASSUME NEW a \in Attempts, RecordException(a) PROVE RowsTyped'
  <2>1. PICK s \in {"uncertain", "failed"} :
          row' = row \/ row' = Complete(a, [state |-> s, payload |-> msg[a]])
    BY <1>15 DEF RecordException
  <2>2. msg[a] \in SUBSET Recipients
    BY DEF SendTypeOK
  <2> DEFINE o == [state |-> s, payload |-> msg[a]]
  <2>3. o.state \in {"sent", "partial", "uncertain", "failed"} /\ o.payload \in SUBSET Recipients
    BY <2>2
  <2> HIDE DEF o
  <2> QED
    BY <1>4, <2>1, <2>3, CompleteTypes DEF o
<1>16. ASSUME NEW i \in Items, LeaseExpires(i) PROVE RowsTyped'
  BY <1>16 DEF LeaseExpires, RowsTyped, Rows
<1>17. ASSUME NEW i \in Items, RecoverPreparing(i) PROVE RowsTyped'
  <2>1. row' = [row EXCEPT ![i] = Free("pending", row[i].revision + 1, row[i].payload)]
    BY <1>17 DEF RecoverPreparing
  <2>2. row[i].revision + 1 \in Revisions
    BY <1>1, <1>17, RevisionAssumption DEF RecoverPreparing, Revisions
  <2> QED
    BY <1>1, <1>2, <2>1, <2>2, FreeRowTypes
<1>18. ASSUME NEW i \in Items, RecoverSending(i) PROVE RowsTyped'
  <2>1. row' = [row EXCEPT ![i] = Free("uncertain", row[i].revision, row[i].payload)]
    BY <1>18 DEF RecoverSending
  <2> QED
    BY <1>1, <1>2, <2>1, FreeRowTypes
<1>19. ASSUME NEW i \in Items, RecoverReceipt(i) PROVE RowsTyped'
  <2> DEFINE o == Outcome(row[i].payload, intent[<<i, row[i].revision>>].rejected)
  <2>1. <<i, row[i].revision>> \in Keys
    BY <1>1, KeysAssumption
  <2>2. intent[<<i, row[i].revision>>].rejected \in SUBSET Recipients
    BY <2>1 DEF SendTypeOK, Intents
  <2>3. o.state \in {"sent", "partial", "uncertain"} /\ o.payload \in SUBSET Recipients
    BY <1>1, <2>2, OutcomeTypes
  <2>4. row' = [row EXCEPT ![i] = Free(o.state, row[i].revision, o.payload)]
    BY <1>19 DEF RecoverReceipt
  <2> HIDE DEF o
  <2> QED
    BY <1>1, <1>2, <2>3, <2>4, FreeRowTypes
<1>20. CASE UNCHANGED vars
  BY <1>4, <1>20 DEF vars, queueVars
<1>21. ASSUME NEW a \in Attempts,
              Execute(a) \/ RecheckGate(a) \/ LosePermission(a) \/ WorkerCrash(a)
       PROVE  RowsTyped'
  BY <1>4, <1>21 DEF Execute, RecheckGate, LosePermission, WorkerCrash, queueVars
<1>22. ASSUME NEW k \in Keys, QueueCacheLost(k) PROVE RowsTyped'
  BY <1>4, <1>22 DEF QueueCacheLost, queueVars
<1> QED
  BY <1>5, <1>6, <1>7, <1>8, <1>9, <1>10, <1>11, <1>12, <1>13, <1>14, <1>15, <1>16, <1>17,
     <1>18, <1>19, <1>20, <1>21, <1>22 DEF Next, UserStep, WorkerStep, Recover

\* The worker's locals and the history of what is owed stay typed too.
LEMMA QueueTypeStep == SendTypeOK /\ QueueTypeOK /\ [Next]_vars => QueueTypeOK'
<1> SUFFICES ASSUME SendTypeOK, QueueTypeOK, [Next]_vars PROVE QueueTypeOK'
  OBVIOUS
<1>1. RowsTyped /\ RowsTyped'
  BY RowsTypeStep DEF QueueTypeOK, RowsTyped
<1> DEFINE Locals == /\ run \in [Attempts -> {"none", "executing", "again", "over"}]
                     /\ may \in [Attempts -> BOOLEAN]
                     /\ dispatched \in [Attempts -> BOOLEAN]
<1>2. Locals
  BY DEF QueueTypeOK
<1>3. owed \in [Items -> SUBSET Recipients]
  BY DEF QueueTypeOK
<1>4. CASE UNCHANGED <<run, may, dispatched>> /\ owed' = owed
  BY <1>1, <1>2, <1>3, <1>4 DEF QueueTypeOK, RowsTyped
<1>5. ASSUME NEW i \in Items, NEW o \in SUBSET Recipients, UNCHANGED <<run, may, dispatched>>,
             owed' = [owed EXCEPT ![i] = o]
      PROVE  QueueTypeOK'
  BY <1>1, <1>2, <1>3, <1>5 DEF QueueTypeOK, RowsTyped
<1>6. ASSUME Locals', owed' = owed PROVE QueueTypeOK'
  BY <1>1, <1>3, <1>6 DEF QueueTypeOK, RowsTyped
<1>7. CASE UserStep
  <2>1. ASSUME NEW i \in Items, NEW m \in Messages, Enqueue(i, m) PROVE QueueTypeOK'
    BY <1>5, <2>1 DEF Enqueue, Messages
  <2>2. ASSUME NEW i \in Items, NEW r \in Revisions, Cancel(i, r) PROVE QueueTypeOK'
    <3>1. {} \in SUBSET Recipients
      OBVIOUS
    <3> QED
      BY <1>5, <2>2, <3>1 DEF Cancel
  <2>3. ASSUME NEW i \in Items, NEW r \in Revisions, NEW m \in Messages, NEW keep \in BOOLEAN,
               Update(i, r, m, keep)
        PROVE  QueueTypeOK'
    BY <1>5, <2>3 DEF Update, Messages
  <2>4. ASSUME NEW i \in Items, NEW r \in Revisions, Edit(i, r) \/ Reschedule(i, r) \/ Dismiss(i, r)
        PROVE  QueueTypeOK'
    BY <1>4, <2>4 DEF Edit, Reschedule, Dismiss
  <2> QED
    BY <1>7, <2>1, <2>2, <2>3, <2>4 DEF UserStep
<1>8. CASE MergeStep
  <2>1. PICK batch \in SUBSET Items : \E to \in [batch -> Recipients] : EnqueueMerge(to)
    BY <1>8 DEF MergeStep
  <2>2. PICK to \in [batch -> Recipients] : EnqueueMerge(to)
    BY <2>1
  <2>3. owed' = [i \in Items |-> IF i \in batch THEN {to[i]} ELSE owed[i]]
    BY <2>2 DEF EnqueueMerge
  <2>4. owed' \in [Items -> SUBSET Recipients]
    BY <1>3, <2>3
  <2> QED
    BY <1>1, <1>2, <2>2, <2>4 DEF EnqueueMerge, QueueTypeOK, RowsTyped
<1>9. ASSUME NEW a \in Attempts, Execute(a) PROVE QueueTypeOK'
  <2>1. owed' \in [Items -> SUBSET Recipients]
    BY <1>3, <1>9 DEF Execute
  <2> QED
    BY <1>1, <1>2, <1>9, <2>1 DEF Execute, QueueTypeOK, RowsTyped
<1>10. ASSUME NEW a \in Attempts,
              BeginDispatch(a) \/ RecheckGate(a) \/ LosePermission(a) \/ ReleaseClaim(a)
              \/ RecordOutcome(a) \/ RecordException(a) \/ WorkerCrash(a)
              \/ \E i \in Items : Claim(i, a)
       PROVE  QueueTypeOK'
  <2>1. Locals' /\ owed' = owed
    BY <1>2, <1>10 DEF BeginDispatch, RecheckGate, LosePermission, ReleaseClaim, RecordOutcome,
       RecordException, WorkerCrash, Claim, queueVars
  <2> QED
    BY <1>6, <2>1
<1>11. ASSUME NEW i \in Items, LeaseExpires(i) \/ Recover(i) PROVE QueueTypeOK'
  BY <1>4, <1>11 DEF LeaseExpires, Recover, RecoverPreparing, RecoverSending, RecoverReceipt
<1>12. ASSUME NEW k \in Keys, QueueCacheLost(k) PROVE QueueTypeOK'
  BY <1>4, <1>12 DEF QueueCacheLost, queueVars
<1>13. CASE UNCHANGED vars
  BY <1>4, <1>13 DEF vars, queueVars
<1> QED
  BY <1>7, <1>8, <1>9, <1>10, <1>11, <1>12, <1>13 DEF Next, WorkerStep

-----------------------------------------------------------------------------
(* The queue uses the pipeline as it is meant to be used.                  *)

\* Whatever the queue does is, for the pipeline, a step of its own or nothing.
LEMMA PipelineStep == QueueInv /\ [Next]_vars => [SendNext]_sendVars
<1> SUFFICES ASSUME QueueInv, [Next]_vars PROVE [SendNext]_sendVars
  OBVIOUS
<1>1. ASSUME NEW i \in Items, NEW a \in Attempts, Claim(i, a) PROVE SendNext
  <2>1. <<i, row[i].revision>> \in Keys /\ row[i].payload \in SUBSET Recipients
    BY KeysAssumption DEF QueueInv, QueueTypeOK, Rows
  <2>2. row[i].payload # {}
    BY <1>1 DEF QueueInv, ItemInv, Claim, Finished
  <2>3. row[i].payload \in Messages /\ Start(a, <<i, row[i].revision>>, row[i].payload)
    BY <1>1, <2>1, <2>2 DEF Messages, Claim
  <2> QED
    BY <2>1, <2>3 DEF SendNext
<1>2. ASSUME NEW a \in Attempts, Execute(a) PROVE SendNext
  BY <1>2 DEF Execute, SendNext
<1>3. ASSUME NEW a \in Attempts, BeginDispatch(a) PROVE [SendNext]_sendVars
  BY <1>3 DEF BeginDispatch, SendNext
<1>4. ASSUME NEW a \in Attempts, RecheckGate(a) PROVE SendNext
  BY <1>4 DEF RecheckGate, SendNext
<1>5. ASSUME NEW a \in Attempts, WorkerCrash(a) PROVE [SendNext]_sendVars
  BY <1>5 DEF WorkerCrash, SendNext
<1>6. ASSUME NEW k \in Keys, QueueCacheLost(k) PROVE SendNext
  BY <1>6 DEF QueueCacheLost, SendNext
<1>7. CASE UserStep
  BY <1>7 DEF UserStep, Enqueue, Edit, Reschedule, Cancel, Dismiss, Update
<1>8. CASE MergeStep
  BY <1>8 DEF MergeStep, EnqueueMerge
<1>9. ASSUME NEW a \in Attempts,
             LosePermission(a) \/ ReleaseClaim(a) \/ RecordOutcome(a) \/ RecordException(a)
      PROVE  UNCHANGED sendVars
  BY <1>9 DEF LosePermission, ReleaseClaim, RecordOutcome, RecordException
<1>10. ASSUME NEW i \in Items, LeaseExpires(i) \/ Recover(i) PROVE UNCHANGED sendVars
  BY <1>10 DEF LeaseExpires, Recover, RecoverPreparing, RecoverSending, RecoverReceipt
<1>11. CASE UNCHANGED vars
  BY <1>11 DEF vars
<1> QED
  BY <1>1, <1>2, <1>3, <1>4, <1>5, <1>6, <1>7, <1>8, <1>9, <1>10, <1>11 DEF Next, WorkerStep

-----------------------------------------------------------------------------
(* Steps that move rows while the pipeline stands still.                   *)

\* What such a step has to show for the invariant to hold after it.
LEMMA RowsMove ==
  ASSUME QueueInv, QueueTypeOK', UNCHANGED sendVars, UNCHANGED dispatched,
         \A a \in Attempts : \/ run'[a] = run[a]
                             \/ Claimed(a) /\ Claimed(a)' /\ pc[a] \in {"done", "dead"},
         \A i \in Items : row'[i].revision >= row[i].revision,
         \A i \in Items : (row'[i] = row[i] /\ owed'[i] = owed[i]) \/ ItemInv(i)',
         \A a \in Attempts : dispatched[a] /\ pc[a] \in AtTransport =>
                               /\ row'[Item(a)] = row[Item(a)] \/ Visible(a)'
                               /\ owed'[Item(a)] = owed[Item(a)]
  PROVE  QueueInv'
<1>1. SendTypeOK /\ SendInv' /\ UNCHANGED <<pc, key, msg, reply, rejected, intent, cache, accepted>>
  BY SendInvStep DEF QueueInv, SendInv, sendVars
<1>2. \A a \in Attempts : Claimed(a)' <=> Claimed(a)
  BY DEF Claimed
<1>3. \A a \in Attempts : AcceptedBy(a)' = AcceptedBy(a) /\ Item(a)' = Item(a)
  BY <1>1 DEF AcceptedBy, Item
<1>4. ASSUME NEW a \in Attempts PROVE ClaimInv(a)'
  <2>1. ClaimInv(a)
    BY DEF QueueInv
  <2>2. dispatched[a] /\ pc[a] \in AtTransport => Visible(a)'
    BY <1>1, <1>3, <2>1 DEF ClaimInv, Visible, Holding
  <2>3. Claimed(a) => key[a][2] <= row'[Item(a)].revision
    <3> SUFFICES ASSUME Claimed(a) PROVE key[a][2] <= row'[Item(a)].revision
      OBVIOUS
    <3>1. pc[a] # "idle" /\ Item(a) \in Items /\ key[a][2] \in Revisions
      BY <1>1, <2>1, KeyOfCall DEF ClaimInv
    <3>2. row[Item(a)].revision \in Nat /\ row'[Item(a)].revision \in Nat
      BY <3>1 DEF QueueInv, QueueTypeOK, Rows, Revisions
    <3> QED
      BY <2>1, <3>1, <3>2 DEF ClaimInv, Revisions
  <2>4. run'[a] \in {"again", "over"} => pc[a] \in {"done", "dead"}
    BY <2>1 DEF ClaimInv
  <2>5. dispatched[a] /\ pc[a] \in BeforeAcceptance => msg[a] \subseteq owed'[Item(a)]
    BY <2>1 DEF ClaimInv, AtTransport, BeforeAcceptance
  <2> QED
    BY <1>1, <1>2, <1>3, <2>1, <2>2, <2>3, <2>4, <2>5 DEF ClaimInv
<1>5. ASSUME NEW i \in Items PROVE ItemInv(i)'
  <2>1. CASE row'[i] = row[i] /\ owed'[i] = owed[i]
    BY <1>1, <1>2, <1>3, <2>1 DEF QueueInv, ItemInv, OutWith
  <2> QED
    BY <2>1
<1>6. OneClaimPerRevision'
  BY <1>1, <1>2 DEF QueueInv, OneClaimPerRevision, Claimed
<1> QED
  BY <1>1, <1>4, <1>5, <1>6 DEF QueueInv

\* A claim that may still deliver keeps its row out of the user's hands.
LEMMA NotMine ==
  ASSUME QueueInv, NEW a \in Attempts, dispatched[a], pc[a] \in AtTransport
  PROVE  row[Item(a)].state \in {"sending", "uncertain", "dismissed"}
BY DEF QueueInv, ClaimInv, Visible, Holding

\* A new revision has not been claimed.
LEMMA FreshRevision ==
  ASSUME QueueInv, NEW i \in Items, NEW a \in Attempts, Claimed(a)
  PROVE  key[a] # <<i, row[i].revision + 1>>
<1>1. ClaimInv(a) /\ SendTypeOK
  BY DEF QueueInv, SendInv
<1>2. Item(a) \in Items /\ key[a][2] \in Nat
  BY <1>1, KeyOfCall DEF ClaimInv, Revisions
<1>3. row[i].revision \in Nat
  BY DEF QueueInv, QueueTypeOK, Rows, Revisions
<1> QED
  BY <1>1, <1>2, <1>3 DEF ClaimInv, Item

\* The user's operations on a row of theirs preserve the invariant.
LEMMA UserOperation ==
  ASSUME QueueInv, QueueTypeOK', NEW i \in Items,
         row[i].state \in Mine \cup {"absent"},
         \A j \in Items : j # i => row'[j] = row[j] /\ owed'[j] = owed[j],
         UNCHANGED <<sendVars, run, dispatched>>,
         row'[i].state \in {"pending", "editing", "cancelled"},
         \/ row'[i].revision = row[i].revision + 1
         \/ /\ row'[i].revision = row[i].revision
            /\ row'[i].state = "pending" => row[i].state = "absent",
         row'[i].state # "cancelled" => row'[i].payload # {} /\ owed'[i] = row'[i].payload
  PROVE  QueueInv'
<1>1. row[i].revision \in Nat
  BY DEF QueueInv, QueueTypeOK, Rows, Revisions
<1>2. row'[i].state = "pending" =>
        \A a \in Attempts : Claimed(a) => key[a] # <<i, row'[i].revision>>
  BY FreshRevision DEF QueueInv, ItemInv
<1>3. ItemInv(i)'
  BY <1>2 DEF ItemInv, Claimed, Mine, Finished, sendVars
<1>4. \A j \in Items : row'[j].revision >= row[j].revision
  BY <1>1 DEF QueueInv, QueueTypeOK, Rows, Revisions
<1>5. ASSUME NEW a \in Attempts, dispatched[a], pc[a] \in AtTransport
      PROVE  row'[Item(a)] = row[Item(a)] /\ owed'[Item(a)] = owed[Item(a)]
  <2>1. Item(a) \in Items /\ Item(a) # i
    BY <1>5, KeyOfCall, NotMine DEF QueueInv, SendInv, AtTransport, Mine
  <2> QED
    BY <2>1
<1> QED
  BY <1>3, <1>4, <1>5, RowsMove

\* Enqueueing, editing, saving, rescheduling and cancelling preserve the invariant.
LEMMA UserStepInv ==
  ASSUME QueueInv, QueueTypeOK', UserStep PROVE QueueInv'
<1> USE DEF Free
<1>0. row \in [Items -> Rows] /\ owed \in [Items -> SUBSET Recipients]
  BY DEF QueueInv, QueueTypeOK
<1>1. ASSUME NEW i \in Items, NEW m \in Messages, Enqueue(i, m) PROVE QueueInv'
  <2>1. /\ row[i].state = "absent" /\ m # {} /\ row[i].revision = 1
        /\ row' = [row EXCEPT ![i] = Free("pending", 1, m)]
        /\ owed' = [owed EXCEPT ![i] = m]
        /\ UNCHANGED <<sendVars, run, dispatched>>
    BY <1>1 DEF Enqueue, NewRow, Messages, QueueInv, ItemInv
  <2>2. /\ row'[i] = Free("pending", 1, m) /\ owed'[i] = m
        /\ \A j \in Items : j # i => row'[j] = row[j] /\ owed'[j] = owed[j]
    BY <1>0, <2>1
  <2> QED
    BY <2>1, <2>2, UserOperation
<1>2. ASSUME NEW i \in Items, NEW r \in Revisions, Edit(i, r) \/ Reschedule(i, r) PROVE QueueInv'
  <2>1. /\ row[i].state \in Mine /\ row[i].revision = r
        /\ UNCHANGED <<sendVars, run, dispatched, owed>>
        /\ \/ row' = [row EXCEPT ![i] = Free("editing", r, row[i].payload)]
           \/ row' = [row EXCEPT ![i] = Free("pending", r + 1, row[i].payload)]
    BY <1>2 DEF Edit, Reschedule, Sees, Mine
  <2>2. row[i].payload # {} /\ owed[i] = row[i].payload
    BY <2>1 DEF QueueInv, ItemInv, Mine, Finished
  <2>3. /\ row'[i] = Free("editing", r, row[i].payload) \/ row'[i] = Free("pending", r + 1, row[i].payload)
        /\ \A j \in Items : j # i => row'[j] = row[j] /\ owed'[j] = owed[j]
    BY <1>0, <2>1
  <2> QED
    BY <2>1, <2>2, <2>3, UserOperation
<1>4. ASSUME NEW i \in Items, NEW r \in Revisions, Cancel(i, r) PROVE QueueInv'
  <2>1. /\ row[i].state \in Mine /\ row[i].revision = r
        /\ row' = [row EXCEPT ![i] = Free("cancelled", r + 1, {})]
        /\ owed' = [owed EXCEPT ![i] = {}]
        /\ UNCHANGED <<sendVars, run, dispatched>>
    BY <1>4 DEF Cancel, Sees, Mine
  <2>2. /\ row'[i] = Free("cancelled", r + 1, {})
        /\ \A j \in Items : j # i => row'[j] = row[j] /\ owed'[j] = owed[j]
    BY <1>0, <2>1
  <2> QED
    BY <2>1, <2>2, UserOperation
<1>5. ASSUME NEW i \in Items, NEW r \in Revisions, NEW m \in Messages, NEW keep \in BOOLEAN,
             Update(i, r, m, keep)
      PROVE  QueueInv'
  <2>1. /\ row[i].state \in Mine /\ m # {} /\ row[i].revision = r
        /\ owed' = [owed EXCEPT ![i] = m]
        /\ UNCHANGED <<sendVars, run, dispatched>>
    BY <1>5 DEF Update, Sees, Mine, Messages
  <2>2. PICK s \in {"pending", "editing"} : row' = [row EXCEPT ![i] = Free(s, r + 1, m)]
    BY <1>5 DEF Update
  <2>3. /\ row'[i] = Free(s, r + 1, m) /\ owed'[i] = m
        /\ \A j \in Items : j # i => row'[j] = row[j] /\ owed'[j] = owed[j]
    BY <1>0, <2>1, <2>2
  <2> QED
    BY <2>1, <2>2, <2>3, UserOperation
<1>6. ASSUME NEW i \in Items, NEW r \in Revisions, Dismiss(i, r) PROVE QueueInv'
  <2>1. /\ row[i].state = "uncertain" /\ row[i].revision = r
        /\ row' = [row EXCEPT ![i] = Free("dismissed", r + 1, {})]
        /\ UNCHANGED <<sendVars, run, dispatched, owed>>
    BY <1>6 DEF Dismiss, Sees
  <2>2. row'[i] = Free("dismissed", r + 1, {}) /\ \A j \in Items : j # i => row'[j] = row[j]
    BY <2>1 DEF QueueInv, QueueTypeOK
  <2>3. ItemInv(i)'
    BY <2>2 DEF ItemInv, Free, Mine, Finished
  <2>4. ASSUME NEW a \in Attempts, dispatched[a], pc[a] \in AtTransport
        PROVE  row'[Item(a)] = row[Item(a)] \/ Visible(a)'
    <3>1. Item(a) \in Items /\ Visible(a) /\ Item(a)' = Item(a) /\ key'[a] = key[a]
      BY <2>1, <2>4, KeyOfCall DEF QueueInv, SendInv, ClaimInv, AtTransport, Item, sendVars
    <3> QED
      BY <2>1, <2>2, <3>1 DEF Visible, Holding, Free
  <2>5. \A j \in Items : row'[j].revision >= row[j].revision
    BY <2>1, <2>2 DEF Free, QueueInv, QueueTypeOK, Rows, Revisions
  <2> QED
    BY <2>1, <2>2, <2>3, <2>4, <2>5, RowsMove
<1> QED
  BY <1>1, <1>2, <1>4, <1>5, <1>6 DEF UserStep

\* A merge enqueues fresh rows only.
LEMMA MergeStepInv ==
  ASSUME QueueInv, QueueTypeOK', MergeStep PROVE QueueInv'
<1>1. PICK batch \in SUBSET Items : \E to \in [batch -> Recipients] : EnqueueMerge(to)
  BY DEF MergeStep
<1>2. PICK to \in [batch -> Recipients] : EnqueueMerge(to)
  BY <1>1
<1>3. /\ \A i \in batch : row[i].state = "absent"
      /\ row' = [i \in Items |-> IF i \in batch THEN Free("pending", 1, {to[i]}) ELSE row[i]]
      /\ owed' = [i \in Items |-> IF i \in batch THEN {to[i]} ELSE owed[i]]
      /\ UNCHANGED <<sendVars, run, dispatched>>
  BY <1>2 DEF EnqueueMerge, NewRow
<1>4. ASSUME NEW i \in Items, i \in batch PROVE ItemInv(i)' /\ row'[i].revision >= row[i].revision
  <2>1. row'[i] = Free("pending", 1, {to[i]}) /\ owed'[i] = {to[i]}
    BY <1>3, <1>4
  <2>2. row[i].revision = 1 /\ \A a \in Attempts : Claimed(a) => key[a] # <<i, 1>>
    BY <1>3, <1>4 DEF QueueInv, ItemInv
  <2>3. /\ row'[i].state = "pending" /\ row'[i].revision = 1
        /\ row'[i].payload = {to[i]} /\ owed'[i] = {to[i]}
    BY <2>1 DEF Free
  <2>4. \A a \in Attempts : Claimed(a)' => key'[a] # <<i, row'[i].revision>>
    BY <1>3, <2>2, <2>3 DEF Claimed, sendVars
  <2>5. ItemInv(i)'
    BY <2>3, <2>4 DEF ItemInv, Mine, Finished
  <2> QED
    BY <2>2, <2>3, <2>5
<1>5. ASSUME NEW i \in Items, i \notin batch
      PROVE  row'[i] = row[i] /\ owed'[i] = owed[i] /\ row'[i].revision >= row[i].revision
  BY <1>3, <1>5 DEF QueueInv, QueueTypeOK, Rows, Revisions
<1>6. ASSUME NEW a \in Attempts, dispatched[a], pc[a] \in AtTransport
      PROVE  row'[Item(a)] = row[Item(a)] /\ owed'[Item(a)] = owed[Item(a)]
  <2>1. Item(a) \in Items /\ Item(a) \notin batch
    BY <1>3, <1>6, KeyOfCall, NotMine DEF QueueInv, SendInv, AtTransport
  <2> QED
    BY <1>5, <2>1
<1> QED
  BY <1>3, <1>4, <1>5, <1>6, RowsMove

-----------------------------------------------------------------------------
(* Recovery.                                                               *)

\* A statement that rewrites one row, for the claims that may still deliver.
LEMMA OneRowMoves ==
  ASSUME QueueInv, QueueTypeOK', NEW i \in Items,
         \A j \in Items : j # i => row'[j] = row[j],
         UNCHANGED <<sendVars, dispatched, owed>>,
         \A a \in Attempts : \/ run'[a] = run[a]
                             \/ Claimed(a) /\ Claimed(a)' /\ pc[a] \in {"done", "dead"},
         row'[i].revision >= row[i].revision,
         ItemInv(i)',
         \A a \in Attempts : dispatched[a] /\ pc[a] \in AtTransport /\ Item(a) = i => Visible(a)'
  PROVE  QueueInv'
<1>1. \A j \in Items : j # i => row'[j].revision >= row[j].revision
  BY DEF QueueInv, QueueTypeOK, Rows, Revisions
<1>2. ASSUME NEW a \in Attempts, dispatched[a], pc[a] \in AtTransport
      PROVE  row'[Item(a)] = row[Item(a)] \/ Visible(a)'
  BY <1>2, KeyOfCall DEF QueueInv, SendInv, AtTransport
<1> QED
  BY <1>1, <1>2, RowsMove

\* While a row is out, its claim and what is left of its message are determined.
LEMMA ClaimOfRow ==
  ASSUME QueueInv, NEW i \in Items, row[i].state \in {"preparing", "sending", "uncertain"},
         NEW b \in Attempts, Claimed(b), key[b] = <<i, row[i].revision>>
  PROVE  OutWith(i, b)
<1>1. PICK a \in Attempts : OutWith(i, a)
  BY DEF QueueInv, ItemInv
<1>2. a = b
  BY <1>1 DEF QueueInv, OneClaimPerRevision, OutWith, Claimed
<1> QED
  BY <1>1, <1>2

\* A row that changed hands lets go of its submitting claim.
LEMMA TransportOfRow ==
  ASSUME QueueInv, NEW i \in Items, NEW a \in Attempts,
         dispatched[a], pc[a] \in AtTransport, Item(a) = i, row[i].state # "dismissed"
  PROVE  key[a] = <<i, row[i].revision>> /\ row[i].state \in {"sending", "uncertain"} /\ OutWith(i, a)
<1>1. Visible(a) /\ Claimed(a) /\ key[a] = <<i, key[a][2]>>
  BY KeyOfCall DEF QueueInv, SendInv, ClaimInv, AtTransport
<1>2. CASE Holding(a, {"sending"})
  <2>1. row[i].state = "sending" /\ row[i].lease = a
    BY <1>2 DEF Holding
  <2>2. PICK b \in Attempts : OutWith(i, b)
    BY <2>1 DEF QueueInv, ItemInv
  <2>3. a = b
    BY <2>1, <2>2 DEF OutWith, Leased
  <2> QED
    BY <2>1, <2>2, <2>3 DEF OutWith
<1>3. CASE row[i].state = "uncertain" /\ row[i].revision = key[a][2]
  BY <1>1, <1>3, ClaimOfRow
<1> QED
  BY <1>1, <1>2, <1>3 DEF Visible

\* An expired lease is only a mark; an expired preparation goes back under a new
\* revision, an expired submission is parked.
LEMMA ExpiryInv ==
  ASSUME QueueInv, QueueTypeOK', NEW i \in Items,
         LeaseExpires(i) \/ RecoverPreparing(i) \/ RecoverSending(i)
  PROVE  QueueInv'
<1>0. QueueTypeOK /\ ItemInv(i) /\ row[i].revision \in Nat
  BY DEF QueueInv, QueueTypeOK, Rows, Revisions
<1>1. ASSUME NEW a \in Attempts, dispatched[a], pc[a] \in AtTransport, Item(a) = i,
             UNCHANGED sendVars
      PROVE  Visible(a) /\ key'[a] = key[a] /\ Item(a)' = i
  BY <1>1 DEF QueueInv, ClaimInv, sendVars, Item
<1>2. CASE LeaseExpires(i)
  <2>1. /\ \A j \in Items : j # i => row'[j] = row[j]
        /\ row'[i].state = row[i].state /\ row'[i].revision = row[i].revision
        /\ row'[i].payload = row[i].payload /\ row'[i].lease = row[i].lease
        /\ UNCHANGED <<sendVars, run, dispatched, owed>>
    BY <1>0, <1>2 DEF LeaseExpires, QueueTypeOK, Rows
  <2>2. ItemInv(i)'
    BY <1>0, <2>1 DEF ItemInv, OutWith, Claimed, sendVars, AcceptedBy
  <2>3. \A a \in Attempts : dispatched[a] /\ pc[a] \in AtTransport /\ Item(a) = i => Visible(a)'
    BY <1>1, <2>1 DEF Visible, Holding
  <2> QED
    BY <1>0, <2>1, <2>2, <2>3, OneRowMoves
<1>3. CASE RecoverPreparing(i)
  <2>1. /\ row' = [row EXCEPT ![i] = Free("pending", row[i].revision + 1, row[i].payload)]
        /\ row[i].state = "preparing"
        /\ UNCHANGED <<sendVars, run, dispatched, owed>>
    BY <1>3 DEF RecoverPreparing
  <2>2. /\ row'[i] = Free("pending", row[i].revision + 1, row[i].payload)
        /\ \A j \in Items : j # i => row'[j] = row[j]
    BY <1>0, <2>1 DEF QueueTypeOK
  <2>3. ItemInv(i)'
    BY <1>0, <2>1, <2>2, FreshRevision DEF ItemInv, Free, Claimed, Mine, Finished, sendVars
  <2>4. \A a \in Attempts : dispatched[a] /\ pc[a] \in AtTransport => Item(a) # i
    BY <2>1, NotMine
  <2> QED
    BY <1>0, <2>1, <2>2, <2>3, <2>4, OneRowMoves DEF Free
<1>4. CASE RecoverSending(i)
  <2>1. /\ row' = [row EXCEPT ![i] = Free("uncertain", row[i].revision, row[i].payload)]
        /\ row[i].state = "sending"
        /\ UNCHANGED <<sendVars, run, dispatched, owed>>
    BY <1>4 DEF RecoverSending
  <2>2. /\ row'[i] = Free("uncertain", row[i].revision, row[i].payload)
        /\ \A j \in Items : j # i => row'[j] = row[j]
    BY <1>0, <2>1 DEF QueueTypeOK
  <2>3. PICK a \in Attempts : OutWith(i, a)
    BY <1>0, <2>1 DEF ItemInv
  <2>4. OutWith(i, a)'
    BY <2>1, <2>2, <2>3 DEF OutWith, Free, Claimed, Leased, AcceptedBy, sendVars
  <2>5. ItemInv(i)'
    BY <1>0, <2>1, <2>2, <2>4 DEF ItemInv, Free, Mine, Finished
  <2>6. ASSUME NEW b \in Attempts, dispatched[b], pc[b] \in AtTransport, Item(b) = i
        PROVE  Visible(b)'
    <3>1. key[b] = <<i, row[i].revision>>
      BY <2>1, <2>6, TransportOfRow
    <3> QED
      BY <2>1, <2>2, <2>6, <3>1, <1>1 DEF Visible, Free
  <2> QED
    BY <1>0, <2>1, <2>2, <2>5, <2>6, OneRowMoves DEF Free
<1> QED
  BY <1>2, <1>3, <1>4

-----------------------------------------------------------------------------
(* Rows and the promise to the user.                                       *)

Shows(i) == Phase(row[i].state)

\* A step on one item is a step of the promise when its phase, what it shows and what
\* it is owed move together.
LEMMA PromiseMove ==
  ASSUME QueueTypeOK, QueueTypeOK', NEW i \in Items,
         \A j \in Items : j # i => row'[j] = row[j] /\ owed'[j] = owed[j],
         \/ Shows(i) = "mine" /\ Shows(i)' = "mine" /\ row'[i].payload = owed'[i]
         \/ Shows(i) = "mine" /\ Shows(i)' = "closed" /\ row'[i].payload = {} /\ owed'[i] = {}
         \/ /\ Shows(i) = "mine" /\ Shows(i)' = "out" /\ row'[i].payload = row[i].payload
            /\ owed[i] # {} /\ owed'[i] = owed[i]
         \/ /\ Shows(i) \in {"out", "waived"} /\ Shows(i)' = Shows(i)
            /\ row'[i].payload = row[i].payload /\ owed'[i] \subseteq owed[i]
         \/ /\ Shows(i) = "out" /\ Shows(i)' = "mine"
            /\ row'[i].payload = owed[i] /\ owed'[i] = owed[i]
         \/ /\ Shows(i) = "out" /\ Shows(i)' = "closed" /\ row'[i].payload = {}
            /\ owed[i] = {} /\ owed'[i] = owed[i]
         \/ /\ Shows(i) = "out" /\ Shows(i)' = "waived"
            /\ row'[i].payload = {} /\ owed'[i] = owed[i]
  PROVE  UserPromise!Next
<1> DEFINE ph == [j \in Items |-> Phase(row[j].state)]
           sh == [j \in Items |-> row[j].payload]
<1>1. /\ ph' = [ph EXCEPT ![i] = Shows(i)'] /\ ph[i] = Shows(i)
      /\ sh' = [sh EXCEPT ![i] = row'[i].payload] /\ sh[i] = row[i].payload
  BY DEF Shows
<1>2. /\ owed \in [Items -> SUBSET Recipients] /\ owed' \in [Items -> SUBSET Recipients]
      /\ owed' = [owed EXCEPT ![i] = owed'[i]]
  BY DEF QueueTypeOK
<1>3. ph = [j \in Items |-> ph[j]] /\ sh = [j \in Items |-> sh[j]]
  OBVIOUS
<1>4. Shows(i)' = Shows(i) => ph' = ph
  BY <1>1
<1>5. row'[i].payload = row[i].payload => sh' = sh
  BY <1>1
<1>6. owed'[i] = owed[i] => owed' = owed
  BY <1>2
<1>7. owed'[i] \in SUBSET Recipients
  BY <1>2
<1>8. CASE Shows(i) = "mine" /\ Shows(i)' = "mine" /\ row'[i].payload = owed'[i]
  <2>1. PICK m \in SUBSET Recipients : m = owed'[i]
    BY <1>7
  <2>2. UserPromise!Ask(i, m)
    BY <1>1, <1>2, <1>4, <1>8, <2>1 DEF UserPromise!Ask
  <2> QED
    BY <2>2 DEF UserPromise!Next
<1>9. CASE Shows(i) = "mine" /\ Shows(i)' = "closed" /\ row'[i].payload = {} /\ owed'[i] = {}
  <2>1. UserPromise!Withdraw(i)
    BY <1>1, <1>2, <1>9 DEF UserPromise!Withdraw
  <2> QED
    BY <2>1 DEF UserPromise!Next
<1>10. CASE /\ Shows(i) = "mine" /\ Shows(i)' = "out" /\ row'[i].payload = row[i].payload
            /\ owed[i] # {} /\ owed'[i] = owed[i]
  <2>1. UserPromise!HandOver(i)
    BY <1>1, <1>5, <1>6, <1>10 DEF UserPromise!HandOver
  <2> QED
    BY <2>1 DEF UserPromise!Next
<1>11. CASE /\ Shows(i) \in {"out", "waived"} /\ Shows(i)' = Shows(i)
            /\ row'[i].payload = row[i].payload /\ owed'[i] \subseteq owed[i]
  <2> DEFINE A == owed[i] \ owed'[i]
  <2>1. A \in SUBSET Recipients /\ owed'[i] = owed[i] \ A
    BY <1>2, <1>11
  <2>2. UserPromise!Deliver(i, A)
    BY <1>1, <1>2, <1>4, <1>5, <1>11, <2>1 DEF UserPromise!Deliver
  <2> QED
    BY <2>1, <2>2 DEF UserPromise!Next
<1>12. CASE /\ Shows(i) = "out" /\ Shows(i)' = "mine"
            /\ row'[i].payload = owed[i] /\ owed'[i] = owed[i]
  <2>1. UserPromise!GiveBack(i)
    BY <1>1, <1>6, <1>12 DEF UserPromise!GiveBack
  <2> QED
    BY <2>1 DEF UserPromise!Next
<1>13. CASE /\ Shows(i) = "out" /\ Shows(i)' = "closed" /\ row'[i].payload = {}
            /\ owed[i] = {} /\ owed'[i] = owed[i]
  <2>1. UserPromise!Close(i)
    BY <1>1, <1>6, <1>13 DEF UserPromise!Close
  <2> QED
    BY <2>1 DEF UserPromise!Next
<1>14. CASE /\ Shows(i) = "out" /\ Shows(i)' = "waived"
            /\ row'[i].payload = {} /\ owed'[i] = owed[i]
  <2>1. UserPromise!Waive(i)
    BY <1>1, <1>6, <1>14 DEF UserPromise!Waive
  <2> QED
    BY <2>1 DEF UserPromise!Next
<1> QED
  BY <1>8, <1>9, <1>10, <1>11, <1>12, <1>13, <1>14

\* A step that leaves rows and debts alone says nothing to the user.
LEMMA PromiseStutter ==
  ASSUME UNCHANGED <<row, owed>> PROVE UNCHANGED UserPromise!promise
BY DEF UserPromise!promise

-----------------------------------------------------------------------------
(* What becomes of a row whose claim has left the transport.               *)

\* The claim's row is settled by what the claim has and has not delivered, or parked.
LEMMA SettleInv ==
  ASSUME QueueInv, QueueTypeOK', NEW i \in Items, NEW a \in Attempts,
         row[i].state \in {"preparing", "sending", "uncertain"}, OutWith(i, a),
         pc[a] \notin AtTransport,
         \A j \in Items : j # i => row'[j] = row[j],
         UNCHANGED <<sendVars, dispatched, owed>>,
         \A b \in Attempts : \/ run'[b] = run[b]
                             \/ Claimed(b) /\ Claimed(b)' /\ pc[b] \in {"done", "dead"},
         \/ /\ row'[i].revision = row[i].revision
            /\ \/ row'[i].state = "sent" /\ row'[i].payload = {} /\ owed[i] = {}
               \/ row'[i].state \in {"partial", "failed"} /\ row'[i].payload = owed[i] /\ owed[i] # {}
               \/ row'[i].state = "uncertain" /\ row'[i].payload = msg[a]
         \/ /\ row'[i].revision = row[i].revision + 1
            /\ row'[i].state = "pending" /\ row'[i].payload = owed[i] /\ owed[i] # {}
  PROVE  QueueInv' /\ UserPromise!Next
<1>1. row[i].revision \in Nat
  BY DEF QueueInv, QueueTypeOK, Rows, Revisions
<1>2. msg[a] # {} /\ \A b \in Attempts : Claimed(b)' <=> Claimed(b)
  BY DEF QueueInv, ClaimInv, OutWith, Messages, Claimed
<1>3. row'[i].state = "pending" => \A b \in Attempts : Claimed(b)' => key'[b] # <<i, row'[i].revision>>
  BY <1>2, FreshRevision DEF sendVars
<1>4. row'[i].state = "uncertain" => OutWith(i, a)'
  BY <1>2 DEF OutWith, AcceptedBy, sendVars, Leased
<1>5. ItemInv(i)'
  BY <1>2, <1>3, <1>4 DEF ItemInv, Mine, Finished
<1>6. \A b \in Attempts : dispatched[b] /\ pc[b] \in AtTransport => Item(b) # i
  <2> SUFFICES ASSUME NEW b \in Attempts, dispatched[b], pc[b] \in AtTransport, Item(b) = i
               PROVE  FALSE
    OBVIOUS
  <2>1. OutWith(i, b)
    BY TransportOfRow
  <2> QED
    BY <2>1 DEF OutWith, QueueInv, OneClaimPerRevision, Claimed
<1>7. UserPromise!Next
  <2>1. QueueTypeOK /\ row[i].payload = msg[a] /\ Shows(i) = "out"
    BY DEF QueueInv, OutWith, Shows, Phase
  <2>2. \/ Shows(i)' = "closed" /\ row'[i].payload = {} /\ owed[i] = {}
        \/ Shows(i)' = "mine" /\ row'[i].payload = owed[i]
        \/ Shows(i)' = "out" /\ row'[i].payload = msg[a]
    BY DEF Shows, Phase
  <2> QED
    BY <2>1, <2>2, PromiseMove
<1> QED
  BY <1>1, <1>5, <1>6, <1>7, OneRowMoves

\* A claim that holds its row is the claim of the row's revision.
LEMMA HolderIsOut ==
  ASSUME QueueInv, NEW a \in Attempts, Item(a) \in Items, Holding(a, Leased)
  PROVE  OutWith(Item(a), a)
<1>1. row[Item(a)].state \in {"preparing", "sending"} /\ row[Item(a)].lease = a
  BY DEF Holding, Leased
<1>2. PICK b \in Attempts : OutWith(Item(a), b)
  BY <1>1 DEF QueueInv, ItemInv
<1> QED
  BY <1>1, <1>2 DEF OutWith, Leased

\* A success answer of the claim itself tells what is still owed.
LEMMA AnswerIsOwn ==
  ASSUME QueueInv, NEW a \in Attempts, Claimed(a), NEW b \in Attempts,
         Witness(b, key[a], msg[a], rejected[a])
  PROVE  b = a /\ Truth(a)
<1>1. pc[b] = "done"
  BY DEF Witness, QueueInv, SendInv, CallInv
<1>2. Claimed(b)
  BY <1>1 DEF QueueInv, ClaimInv
<1>3. b = a
  BY <1>2 DEF Witness, QueueInv, OneClaimPerRevision, Claimed
<1> QED
  BY <1>3 DEF Witness

\* The outcome of an answer agrees with what is owed.
LEMMA AnswerSettles ==
  ASSUME QueueInv, NEW a \in Attempts, Item(a) \in Items, OutWith(Item(a), a),
         pc[a] = "done", reply[a] # "prevented"
  PROVE  LET o == ReplyOutcome(a)
         IN \/ o.state = "sent" /\ o.payload = {} /\ owed[Item(a)] = {}
            \/ o.state \in {"partial", "failed"} /\ o.payload = owed[Item(a)] /\ owed[Item(a)] # {}
            \/ o.state = "uncertain" /\ o.payload = msg[a]
<1>1. /\ owed[Item(a)] = msg[a] \ AcceptedBy(a) /\ msg[a] # {} /\ Claimed(a)
      /\ msg[a] \subseteq Recipients /\ CallInv(a) /\ reply[a] \in Replies /\ reply[a] # "none"
  BY DEF OutWith, QueueInv, ClaimInv, Messages, SendInv, SendTypeOK
<1>2. CASE reply[a] = "ok"
  <2>1. PICK b \in Attempts : Witness(b, key[a], msg[a], rejected[a])
    BY <1>1, <1>2 DEF CallInv
  <2>2. Truth(a)
    BY <1>1, <2>1, AnswerIsOwn
  <2>3. rejected[a] \subseteq msg[a] => owed[Item(a)] = rejected[a]
    BY <1>1, <2>2 DEF Truth
  <2>4. ReplyOutcome(a) = Outcome(msg[a], rejected[a])
    BY <1>2 DEF ReplyOutcome
  <2>5. CASE rejected[a] = {}
    BY <2>3, <2>4, <2>5 DEF Outcome
  <2>6. CASE rejected[a] # {} /\ rejected[a] \subseteq msg[a]
    BY <2>3, <2>4, <2>6 DEF Outcome
  <2>7. CASE rejected[a] # {} /\ ~(rejected[a] \subseteq msg[a])
    BY <2>4, <2>7 DEF Outcome
  <2> QED
    BY <2>5, <2>6, <2>7
<1>3. CASE reply[a] = "unknown"
  BY <1>3 DEF ReplyOutcome
<1>4. CASE reply[a] \notin {"ok", "unknown"}
  <2>1. AcceptedBy(a) = {}
    BY <1>1, <1>4 DEF CallInv, Replies
  <2>2. ReplyOutcome(a) = [state |-> "failed", payload |-> msg[a]]
    BY <1>4 DEF ReplyOutcome
  <2> QED
    BY <1>1, <2>1, <2>2
<1> QED
  BY <1>2, <1>3, <1>4

\* deliver's last statements, done or not, preserve the invariant.
LEMMA RecordInv ==
  ASSUME QueueInv, QueueTypeOK', NEW a \in Attempts,
         ReleaseClaim(a) \/ RecordOutcome(a) \/ RecordException(a)
  PROVE  QueueInv' /\ [UserPromise!Next]_(UserPromise!promise)
<1> DEFINE i == Item(a)
<1>1. /\ pc[a] \in {"done", "dead"} /\ UNCHANGED <<sendVars, dispatched, owed>>
      /\ run[a] \in {"executing", "again"}
      /\ run' = [run EXCEPT ![a] = "over"] \/ run' = [run EXCEPT ![a] = "again"]
  BY DEF ReleaseClaim, RecordOutcome, RecordException, QueueInv, ClaimInv
<1>2. /\ i \in Items /\ Claimed(a) /\ ClaimInv(a) /\ CallInv(a) /\ pc[a] \notin AtTransport
      /\ row \in [Items -> Rows]
  BY <1>1, KeyOfCall DEF QueueInv, QueueTypeOK, SendInv, Claimed, AtTransport
<1>3. \A b \in Attempts : \/ run'[b] = run[b]
                          \/ Claimed(b) /\ Claimed(b)' /\ pc[b] \in {"done", "dead"}
  BY <1>1 DEF Claimed, QueueInv, QueueTypeOK
<1>4. CASE row' = row
  <2>1. QueueInv'
    BY <1>1, <1>3, <1>4, RowsMove DEF QueueInv, QueueTypeOK, Rows, Revisions
  <2> QED
    BY <1>1, <1>4, <2>1, PromiseStutter
<1> HIDE DEF i
<1>5. ASSUME Holding(a, Leased)
      PROVE  /\ OutWith(i, a) /\ row[i].state \in {"preparing", "sending", "uncertain"}
             /\ owed[i] = msg[a] \ AcceptedBy(a) /\ row[i].payload = msg[a]
             /\ msg[a] # {} /\ msg[a] \subseteq Recipients
  BY <1>2, <1>5, HolderIsOut DEF i, Holding, Leased, OutWith, ClaimInv, Messages
<1>6. CASE ReleaseClaim(a) /\ row' # row
  <2>1. /\ Holding(a, Leased) /\ reply[a] = "prevented"
        /\ row' = [row EXCEPT ![i] = Free("pending", row[i].revision + 1, row[i].payload)]
    BY <1>6 DEF ReleaseClaim, i
  <2>2. owed[i] = row[i].payload /\ owed[i] # {}
    BY <1>2, <1>5, <2>1 DEF CallInv
  <2>3. /\ row'[i].state = "pending" /\ row'[i].revision = row[i].revision + 1
        /\ row'[i].payload = row[i].payload /\ \A j \in Items : j # i => row'[j] = row[j]
    BY <1>2, <2>1 DEF Free
  <2> QED
    BY <1>1, <1>2, <1>3, <1>5, <2>1, <2>2, <2>3, SettleInv
<1>7. ASSUME NEW o, row' = Complete(a, o), row' # row,
             Holding(a, Leased) => \/ o.state = "sent" /\ o.payload = {} /\ owed[i] = {}
                                   \/ o.state \in {"partial", "failed"} /\ o.payload = owed[i] /\ owed[i] # {}
                                   \/ o.state = "uncertain" /\ o.payload = msg[a]
      PROVE  QueueInv' /\ UserPromise!Next
  <2>1. Holding(a, Leased) /\ row' = [row EXCEPT ![i] = Free(o.state, row[i].revision, o.payload)]
    BY <1>7 DEF Complete, i
  <2>2. /\ row'[i].state = o.state /\ row'[i].revision = row[i].revision
        /\ row'[i].payload = o.payload /\ \A j \in Items : j # i => row'[j] = row[j]
    BY <1>2, <2>1 DEF Free
  <2> QED
    BY <1>1, <1>2, <1>3, <1>5, <1>7, <2>1, <2>2, SettleInv
<1>8. CASE RecordOutcome(a) /\ row' # row
  <2>1. pc[a] = "done" /\ reply[a] # "prevented" /\ row' = Complete(a, ReplyOutcome(a))
    BY <1>8 DEF RecordOutcome
  <2> DEFINE o == ReplyOutcome(a)
  <2>2. Holding(a, Leased) => \/ o.state = "sent" /\ o.payload = {} /\ owed[i] = {}
                              \/ o.state \in {"partial", "failed"} /\ o.payload = owed[i] /\ owed[i] # {}
                              \/ o.state = "uncertain" /\ o.payload = msg[a]
    BY <1>2, <1>5, <2>1, AnswerSettles DEF i
  <2> HIDE DEF o
  <2>3. row' = Complete(a, o)
    BY <2>1 DEF o
  <2> QED
    BY <1>7, <1>8, <2>2, <2>3
<1>9. CASE RecordException(a) /\ row' # row
  <2> DEFINE o == [state |-> IF dispatched[a] THEN "uncertain" ELSE "failed", payload |-> msg[a]]
  <2>1. row' = Complete(a, o)
    BY <1>9 DEF RecordException
  <2>2. Holding(a, Leased) => \/ o.state = "failed" /\ o.payload = owed[i] /\ owed[i] # {}
                              \/ o.state = "uncertain" /\ o.payload = msg[a]
    BY <1>2, <1>5 DEF ClaimInv
  <2> HIDE DEF o
  <2> QED
    BY <1>7, <1>9, <2>1, <2>2
<1> QED
  BY <1>4, <1>6, <1>8, <1>9

\* A receipt of the parked revision is the receipt of its claim.
LEMMA RecoverReceiptInv ==
  ASSUME QueueInv, QueueTypeOK', NEW i \in Items, RecoverReceipt(i)
  PROVE  QueueInv' /\ UserPromise!Next
<1> DEFINE k == <<i, row[i].revision>>
           R == intent[k].rejected
           o == Outcome(row[i].payload, R)
<1>1. /\ row[i].state = "uncertain" /\ intent[k].status = "completed" /\ o.state # "uncertain"
      /\ row' = [row EXCEPT ![i] = Free(o.state, row[i].revision, o.payload)]
      /\ UNCHANGED <<sendVars, run, dispatched, owed>>
  BY DEF RecoverReceipt
<1>2. k \in Keys /\ row \in [Items -> Rows]
  BY KeysAssumption DEF QueueInv, QueueTypeOK, Rows
<1>3. PICK a \in Attempts : OutWith(i, a)
  BY <1>1 DEF QueueInv, ItemInv
<1>4. RowInv(k) /\ intent[k].token \in Attempts
  BY <1>1, <1>2 DEF QueueInv, SendInv, SendTypeOK, RowInv, Intents
<1>5. Witness(intent[k].token, k, intent[k].msg, R)
  BY <1>1, <1>4 DEF RowInv
<1>6. PICK b \in Attempts : Witness(b, k, intent[k].msg, R)
  BY <1>4, <1>5
<1>7. pc[b] = "done" /\ Claimed(b) /\ key[b] = k
  BY <1>6 DEF Witness, QueueInv, SendInv, CallInv, ClaimInv
<1>8. a = b
  BY <1>3, <1>7 DEF OutWith, QueueInv, OneClaimPerRevision, Claimed
<1>9. /\ R \subseteq msg[a] => AcceptedBy(a) = msg[a] \ R
      /\ row[i].payload = msg[a] /\ owed[i] = msg[a] \ AcceptedBy(a) /\ pc[a] \notin AtTransport
  BY <1>3, <1>6, <1>7, <1>8 DEF Witness, Truth, OutWith, AtTransport
<1>10. \/ o.state = "sent" /\ o.payload = {} /\ owed[i] = {}
       \/ o.state \in {"partial", "failed"} /\ o.payload = owed[i] /\ owed[i] # {}
  <2>1. CASE R = {}
    BY <1>9, <2>1 DEF Outcome
  <2>2. CASE R # {} /\ R \subseteq msg[a]
    BY <1>9, <2>2 DEF Outcome
  <2>3. CASE R # {} /\ ~(R \subseteq msg[a])
    BY <1>1, <1>9, <2>3 DEF Outcome
  <2> QED
    BY <2>1, <2>2, <2>3
<1> HIDE DEF o, k
<1>11. /\ row'[i].state = o.state /\ row'[i].revision = row[i].revision
       /\ row'[i].payload = o.payload /\ \A j \in Items : j # i => row'[j] = row[j]
  BY <1>1, <1>2 DEF Free
<1> QED
  BY <1>1, <1>3, <1>9, <1>10, <1>11, SettleInv

-----------------------------------------------------------------------------
(* Steps of one claim.                                                     *)

\* At most one claim of an item stands at the transport.
LEMMA OneAtTransport ==
  ASSUME QueueInv, NEW a \in Attempts, NEW b \in Attempts, Item(a) = Item(b),
         dispatched[a], pc[a] \in AtTransport, dispatched[b], pc[b] \in AtTransport
  PROVE  a = b
<1>1. /\ Visible(a) /\ Visible(b) /\ Claimed(a) /\ Claimed(b)
      /\ key[a] = <<Item(a), key[a][2]>> /\ key[b] = <<Item(b), key[b][2]>>
      /\ key[a][2] \in Nat /\ key[b][2] \in Nat
  BY KeyOfCall DEF QueueInv, SendInv, ClaimInv, AtTransport, Revisions
<1>2. \/ Holding(a, {"sending"}) /\ Holding(b, {"sending"})
      \/ key[a][2] = key[b][2]
  BY <1>1 DEF Visible, Holding
<1> QED
  BY <1>1, <1>2 DEF Holding, QueueInv, OneClaimPerRevision, Claimed

\* What a step of claim a on item i has to show for the invariant to hold after it.
LEMMA ClaimFramed ==
  ASSUME QueueInv, SendInv', QueueTypeOK', NEW a \in Attempts, Frame(a),
         NEW i \in Items, i = key'[a][1],
         \A b \in Attempts : b # a => run'[b] = run[b] /\ dispatched'[b] = dispatched[b],
         \A j \in Items : row'[j].revision = row[j].revision,
         \A j \in Items : j # i => row'[j] = row[j] /\ owed'[j] = owed[j],
         \A b \in Attempts : dispatched[b] /\ pc[b] \in AtTransport /\ Item(b) = i /\ b # a =>
                               row'[i] = row[i] /\ owed'[i] = owed[i],
         Claimed(a) => Claimed(a)',
         Claimed(a) \/ \A b \in Attempts : Claimed(b) => key[b] # key'[a],
         ClaimInv(a)', ItemInv(i)'
  PROVE  QueueInv'
<1>1. \A b \in Attempts : b # a => Same(b) /\ (Claimed(b)' <=> Claimed(b)) /\ Item(b)' = Item(b)
  BY DEF Frame, Same, Claimed, Item
<1>2. Claimed(a) => key'[a] = key[a]
  BY DEF Frame, QueueInv, ClaimInv
<1>3. ASSUME NEW b \in Attempts, b # a PROVE ClaimInv(b)'
  <2>1. ClaimInv(b) /\ Same(b) /\ (Claimed(b)' <=> Claimed(b)) /\ Item(b)' = Item(b)
    BY <1>1, <1>3 DEF QueueInv
  <2>2. Claimed(b) => Item(b) \in Items
    BY <2>1, KeyOfCall DEF QueueInv, SendInv, ClaimInv
  <2>3. dispatched[b] /\ pc[b] \in AtTransport =>
          row'[Item(b)] = row[Item(b)] /\ owed'[Item(b)] = owed[Item(b)]
    BY <1>3, <2>1, <2>2 DEF ClaimInv, AtTransport
  <2>4. dispatched[b] /\ pc[b] \in AtTransport => Visible(b)'
    BY <2>1, <2>3 DEF ClaimInv, Visible, Holding, Same
  <2>5. dispatched[b] /\ pc[b] \in BeforeAcceptance => msg[b] \subseteq owed'[Item(b)]
    BY <2>1, <2>3 DEF ClaimInv, AtTransport, BeforeAcceptance
  <2> QED
    BY <1>3, <2>1, <2>2, <2>4, <2>5 DEF ClaimInv, Same
<1>4. ASSUME NEW j \in Items, j # i PROVE ItemInv(j)'
  <2>1. row'[j] = row[j] /\ owed'[j] = owed[j] /\ ItemInv(j)
    BY <1>4 DEF QueueInv
  <2>2. \A b \in Attempts : Claimed(b)' /\ key'[b] = <<j, row[j].revision>> =>
                              b # a /\ Claimed(b) /\ key[b] = key'[b]
    BY <1>1, <1>4 DEF Same
  <2>3. \A b \in Attempts : OutWith(j, b) => b # a
    BY <1>2, <1>4 DEF OutWith
  <2>4. \A b \in Attempts : OutWith(j, b) => OutWith(j, b)'
    BY <1>1, <2>1, <2>3 DEF OutWith, Same
  <2> QED
    BY <2>1, <2>2, <2>4 DEF ItemInv
<1>5. OneClaimPerRevision'
  <2> SUFFICES ASSUME NEW b \in Attempts, NEW c \in Attempts, Claimed(b)', key'[b] = key'[c]
               PROVE  b = c
    BY DEF OneClaimPerRevision, Claimed
  <2>1. \A d \in Attempts : ClaimInv(d)'
    BY <1>3
  <2>2. key'[b] # NoKey
    BY <2>1, NoKeyAssumption DEF ClaimInv, SendInv, SendTypeOK
  <2>3. Claimed(c)'
    BY <2>1, <2>2 DEF ClaimInv
  <2>4. \A d \in Attempts : d # a /\ Claimed(d)' => Claimed(d) /\ key'[d] = key[d]
    BY <1>1 DEF Same
  <2> QED
    BY <1>2, <2>3, <2>4 DEF QueueInv, OneClaimPerRevision, Claimed
<1> QED
  BY <1>3, <1>4, <1>5 DEF QueueInv

\* A step that leaves rows, debts and deliveries alone leaves the rows' invariant alone.
LEMMA QuietRows ==
  ASSUME QueueInv, NEW a \in Attempts, Frame(a), Claimed(a), NEW i \in Items,
         AcceptedBy(a)' = AcceptedBy(a), msg'[a] = msg[a], UNCHANGED <<row, owed, dispatched>>,
         \A b \in Attempts : b # a => run'[b] = run[b], Claimed(a)'
  PROVE  ItemInv(i)'
<1>1. \A b \in Attempts : /\ key'[b] = key[b] /\ msg'[b] = msg[b] /\ AcceptedBy(b)' = AcceptedBy(b)
                          /\ Claimed(b)' <=> Claimed(b)
  BY DEF Frame, Same, Claimed, QueueInv, ClaimInv
<1>2. \A b \in Attempts : OutWith(i, b) => OutWith(i, b)'
  BY <1>1 DEF OutWith
<1> QED
  BY <1>1, <1>2 DEF QueueInv, ItemInv

\* The same for the whole invariant.
LEMMA QuietStep ==
  ASSUME QueueInv, SendInv', QueueTypeOK', NEW a \in Attempts, Frame(a), Claimed(a), Claimed(a)',
         AcceptedBy(a)' = AcceptedBy(a), msg'[a] = msg[a], UNCHANGED <<row, owed, dispatched>>,
         \A b \in Attempts : b # a => run'[b] = run[b],
         ClaimInv(a)'
  PROVE  QueueInv'
<1>1. Item(a) \in Items /\ key'[a] = key[a]
  BY KeyOfCall DEF QueueInv, SendInv, ClaimInv, Frame
<1>2. PICK i \in Items : i = key'[a][1]
  BY <1>1 DEF Item
<1>3. ItemInv(i)'
  BY QuietRows
<1> QED
  BY <1>2, <1>3, ClaimFramed

\* A step of executeSend keeps the claim's own invariant.
LEMMA ExecuteClaim ==
  ASSUME QueueInv, SendInv', NEW a \in Attempts, Frame(a), CallStep(a) \/ Environment(a),
         UNCHANGED <<row, run, dispatched>>,
         AcceptedBy(a)' = AcceptedBy(a) => owed'[Item(a)] = owed[Item(a)]
  PROVE  ClaimInv(a)' /\ Claimed(a) /\ Claimed(a)' /\ msg'[a] = msg[a] /\ key'[a] = key[a]
<1>0. SendInv /\ SendTypeOK /\ ClaimInv(a)
  BY DEF QueueInv, SendInv
<1>1. /\ pc[a] # "idle" /\ pc'[a] # "idle"
      /\ key'[a] = key[a] /\ msg'[a] = msg[a]
      /\ pc[a] \in {"done", "dead"} => pc'[a] = pc[a]
      /\ pc'[a] \in {"mark", "submit"} => pc[a] \in {"mark", "submit"}
      /\ pc'[a] = "finalize" => pc[a] \in {"submit", "finalize"}
      /\ pc'[a] = "gate" => pc[a] \in {"gate", "reserve"}
      /\ pc[a] \in AtTransport => pc'[a] \in AtTransport \cup {"release", "done", "dead"}
      /\ pc[a] \in {"release", "done", "dead"} => pc'[a] \in {"release", "done", "dead"}
      /\ AcceptedBy(a)' # AcceptedBy(a) => pc[a] = "submit" /\ pc'[a] \in {"finalize", "done"}
  BY <1>0, CallMoves
<1>2. pc'[a] = "done" => reply'[a] # "none"
  BY <1>0, CallAnswers DEF ClaimInv
<1>3. Claimed(a) /\ Claimed(a)' /\ Item(a)' = Item(a)
  BY <1>0, <1>1 DEF ClaimInv, Claimed, Item
<1>4. pc'[a] \in {"mark", "submit", "finalize"} \/ AcceptedBy(a)' # {} => dispatched[a]
  BY <1>0, <1>1 DEF ClaimInv
<1>5. dispatched[a] /\ pc'[a] \in AtTransport => Visible(a)'
  <2> SUFFICES ASSUME dispatched[a], pc'[a] \in AtTransport PROVE Visible(a)'
    OBVIOUS
  <2>1. pc[a] \in AtTransport
    BY <1>0, <1>1 DEF ClaimInv, AtTransport
  <2>2. Visible(a)
    BY <1>0, <2>1 DEF ClaimInv
  <2> QED
    BY <1>1, <1>3, <2>2 DEF Visible, Holding
<1>6. dispatched[a] /\ pc'[a] \in BeforeAcceptance => msg[a] \subseteq owed'[Item(a)]
  <2> SUFFICES ASSUME dispatched[a], pc'[a] \in BeforeAcceptance PROVE msg[a] \subseteq owed'[Item(a)]
    OBVIOUS
  <2>1. pc[a] \in BeforeAcceptance /\ AcceptedBy(a)' = AcceptedBy(a)
    BY <1>0, <1>1 DEF ClaimInv, AtTransport, BeforeAcceptance
  <2> QED
    BY <1>0, <2>1 DEF ClaimInv
<1>7. dispatched[a] => pc'[a] \in AtTransport \cup {"release", "done", "dead"}
  BY <1>0, <1>1 DEF ClaimInv
<1>8. run[a] \in {"again", "over"} => pc'[a] \in {"done", "dead"}
  BY <1>0, <1>1 DEF ClaimInv
<1> QED
  BY <1>0, <1>1, <1>2, <1>3, <1>4, <1>5, <1>6, <1>7, <1>8 DEF ClaimInv

\* executeSend's own steps preserve the invariant: what the transport accepts is struck
\* from what the claim's row is owed.
LEMMA ExecuteInv ==
  ASSUME QueueInv, QueueTypeOK', NEW a \in Attempts, Execute(a)
  PROVE  QueueInv'
<1>1. SendInv' /\ Frame(a)
  BY CallFrame DEF Execute, QueueInv
<1>2. /\ CallStep(a) \/ Environment(a)
      /\ UNCHANGED <<row, run, dispatched>>
      /\ owed' = [owed EXCEPT ![Item(a)] = owed[Item(a)] \ {r \in Recipients : <<a, r>> \in accepted' \ accepted}]
  BY DEF Execute
<1>3. /\ AcceptedBy(a) \subseteq AcceptedBy(a)'
      /\ {r \in Recipients : <<a, r>> \in accepted' \ accepted} = AcceptedBy(a)' \ AcceptedBy(a)
      /\ pc[a] # "idle" /\ (AcceptedBy(a)' # AcceptedBy(a) => pc[a] = "submit")
  BY <1>2, CallAccepts, CallMoves DEF QueueInv, SendInv
<1>4. /\ Item(a) \in Items /\ owed \in [Items -> SUBSET Recipients]
      /\ owed' = [owed EXCEPT ![Item(a)] = owed[Item(a)] \ (AcceptedBy(a)' \ AcceptedBy(a))]
  BY <1>2, <1>3, KeyOfCall DEF QueueInv, QueueTypeOK, SendInv
<1>5. AcceptedBy(a)' = AcceptedBy(a) => owed' = owed
  BY <1>4
<1>6. ClaimInv(a)' /\ Claimed(a) /\ Claimed(a)' /\ msg'[a] = msg[a] /\ key'[a] = key[a]
  BY <1>1, <1>2, <1>5, ExecuteClaim
<1>7. CASE AcceptedBy(a)' = AcceptedBy(a)
  BY <1>1, <1>2, <1>5, <1>6, <1>7, QuietStep
<1>8. CASE AcceptedBy(a)' # AcceptedBy(a)
  <2>0. PICK i \in Items : i = Item(a)
    BY <1>4
  <2>1. dispatched[a] /\ pc[a] \in AtTransport
    BY <1>3, <1>8 DEF QueueInv, ClaimInv, AtTransport
  <2>2. i = key'[a][1] /\ (\A j \in Items : j # i => owed'[j] = owed[j])
        /\ owed'[i] = owed[i] \ (AcceptedBy(a)' \ AcceptedBy(a))
    BY <1>4, <1>6, <2>0 DEF Item
  <2>3. \A b \in Attempts : dispatched[b] /\ pc[b] \in AtTransport /\ Item(b) = i => b = a
    BY <2>0, <2>1, OneAtTransport
  <2>4. ItemInv(i)'
    <3>1. CASE row[i].state = "dismissed"
      BY <1>2, <3>1 DEF ItemInv, Mine, Finished
    <3>2. CASE row[i].state # "dismissed"
      <4>1. OutWith(i, a) /\ row[i].state \in {"sending", "uncertain"}
        BY <2>0, <2>1, <3>2, TransportOfRow
      <4>2. owed'[i] = msg[a] \ AcceptedBy(a)'
        BY <1>3, <2>2, <4>1 DEF OutWith
      <4>3. OutWith(i, a)'
        BY <1>2, <1>6, <4>1, <4>2 DEF OutWith
      <4> QED
        BY <1>2, <2>2, <4>1, <4>3 DEF QueueInv, ItemInv, Mine
    <3> QED
      BY <3>1, <3>2
  <2> QED
    BY <1>1, <1>2, <1>6, <2>2, <2>3, <2>4, ClaimFramed
<1> QED
  BY <1>7, <1>8

\* Claiming a pending row takes a revision no claim has had.
LEMMA ClaimStepInv ==
  ASSUME QueueInv, QueueTypeOK', NEW i \in Items, NEW a \in Attempts, Claim(i, a)
  PROVE  QueueInv'
<1>0. QueueTypeOK /\ SendTypeOK /\ ItemInv(i) /\ ClaimInv(a)
  BY DEF QueueInv, SendInv
<1>1. /\ row[i].state = "pending" /\ Start(a, <<i, row[i].revision>>, row[i].payload)
      /\ row' = [row EXCEPT ![i] = [state |-> "preparing", revision |-> row[i].revision,
                                    payload |-> row[i].payload, lease |-> a, live |-> TRUE]]
      /\ run' = [run EXCEPT ![a] = "executing"]
      /\ UNCHANGED <<dispatched, owed>>
  BY DEF Claim
<1>2. <<i, row[i].revision>> \in Keys /\ row[i].payload \in Messages /\ row[i].revision \in Nat
  BY <1>0, <1>1, KeysAssumption DEF QueueTypeOK, Rows, ItemInv, Finished, Messages, Revisions
<1>3. SendInv' /\ Frame(a)
  BY <1>1, <1>2, CallFrame DEF QueueInv
<1>4. /\ pc[a] = "idle" /\ pc'[a] = "lookup" /\ key'[a] = <<i, row[i].revision>>
      /\ msg'[a] = row[i].payload /\ AcceptedBy(a)' = AcceptedBy(a)
  BY <1>0, <1>1 DEF Start, Goto, SendTypeOK, AcceptedBy
<1>5. ~Claimed(a) /\ ~dispatched[a] /\ AcceptedBy(a) = {} /\ Claimed(a)'
  BY <1>0, <1>1, <1>4 DEF ClaimInv, Claimed, QueueTypeOK
<1>6. /\ row'[i].state = "preparing" /\ row'[i].revision = row[i].revision
      /\ row'[i].payload = row[i].payload /\ row'[i].lease = a
      /\ \A j \in Items : j # i => row'[j] = row[j]
  BY <1>0, <1>1 DEF QueueTypeOK
<1>7. ClaimInv(a)'
  <2>1. Item(a)' = i
    BY <1>4 DEF Item
  <2>2. key'[a][2] <= row'[i].revision
    BY <1>2, <1>4, <1>6
  <2> QED
    BY <1>1, <1>2, <1>4, <1>5, <2>1, <2>2 DEF ClaimInv, AtTransport, BeforeAcceptance, Claimed, QueueInv, QueueTypeOK
<1>8. ItemInv(i)'
  <2>1. owed[i] = row[i].payload
    BY <1>0, <1>1 DEF ItemInv, Mine
  <2>2. OutWith(i, a)'
    BY <1>1, <1>4, <1>5, <1>6, <2>1 DEF OutWith
  <2> QED
    BY <1>1, <1>2, <1>6, <2>1, <2>2 DEF ItemInv, Mine, Finished, Messages
<1>9. \A b \in Attempts : Claimed(b) => key[b] # key'[a]
  BY <1>0, <1>1, <1>4 DEF ItemInv
<1>10. \A b \in Attempts : dispatched[b] /\ pc[b] \in AtTransport => Item(b) # i
  BY <1>1, NotMine
<1>11. \A b \in Attempts : b # a => run'[b] = run[b] /\ dispatched'[b] = dispatched[b]
  BY <1>0, <1>1 DEF QueueTypeOK
<1>12. \A j \in Items : row'[j].revision = row[j].revision
  BY <1>6
<1> QED
  BY <1>1, <1>3, <1>4, <1>5, <1>6, <1>7, <1>8, <1>9, <1>10, <1>11, <1>12, ClaimFramed

\* A call that is closed at its gate.
LEMMA CloseGateInv ==
  ASSUME QueueInv, NEW a \in Attempts, NEW r \in {"prevented", "refused"}, CloseGate(a, r),
         UNCHANGED <<run, dispatched, owed>>,
         Item(a) \in Items => row'[Item(a)].revision = row[Item(a)].revision
  PROVE  /\ SendInv' /\ Frame(a) /\ ClaimInv(a)' /\ Claimed(a) /\ Claimed(a)'
         /\ AcceptedBy(a)' = AcceptedBy(a) /\ msg'[a] = msg[a] /\ key'[a] = key[a]
<1>1. SendInv' /\ Frame(a)
  BY CallFrame DEF QueueInv
<1>2. /\ pc[a] = "gate" /\ pc'[a] = "release" /\ UNCHANGED <<key, msg, accepted>>
      /\ ClaimInv(a)
  BY DEF CloseGate, GiveUp, Goto, QueueInv, SendInv, SendTypeOK
<1>3. AcceptedBy(a)' = AcceptedBy(a) /\ Item(a)' = Item(a) /\ Item(a) \in Items
  BY <1>2, KeyOfCall DEF AcceptedBy, Item, QueueInv, SendInv
<1>4. run[a] \notin {"again", "over"} /\ Claimed(a) /\ Claimed(a)' /\ UNCHANGED <<key, msg>>
  BY <1>2 DEF ClaimInv, Claimed
<1>5. ClaimInv(a)'
  BY <1>2, <1>3, <1>4 DEF ClaimInv, AtTransport, BeforeAcceptance
<1> QED
  BY <1>1, <1>2, <1>3, <1>4, <1>5

\* The gate moves the row to sending before the call may pass.
LEMMA BeginDispatchInv ==
  ASSUME QueueInv, QueueTypeOK', NEW a \in Attempts, BeginDispatch(a)
  PROVE  QueueInv'
<1>0. /\ pc[a] = "gate" /\ ~dispatched[a] /\ UNCHANGED <<run, owed>>
      /\ ClaimInv(a) /\ Claimed(a) /\ QueueTypeOK /\ AcceptedBy(a) = {}
  BY DEF BeginDispatch, QueueInv, ClaimInv
<1>1. PICK i \in Items : i = Item(a)
  BY <1>0, KeyOfCall DEF QueueInv, SendInv
<1>2. ASSUME Holding(a, {"preparing"})
      PROVE  row[i].state = "preparing" /\ OutWith(i, a)
  BY <1>1, <1>2, HolderIsOut DEF Holding, Leased
<1>3. ASSUME row' = [row EXCEPT ![Item(a)].state = "sending"], Holding(a, {"preparing"})
      PROVE  /\ row'[i].state = "sending" /\ row'[i].revision = row[i].revision
             /\ row'[i].payload = row[i].payload /\ row'[i].lease = a
             /\ \A j \in Items : j # i => row'[j] = row[j]
             /\ \A j \in Items : row'[j].revision = row[j].revision
             /\ \A b \in Attempts : dispatched[b] /\ pc[b] \in AtTransport => Item(b) # i
  <2>1. row[i].lease = a /\ row[i].state = "preparing"
    BY <1>1, <1>3 DEF Holding
  <2>2. \A b \in Attempts : dispatched[b] /\ pc[b] \in AtTransport => Item(b) # i
    BY <2>1, NotMine
  <2> QED
    BY <1>0, <1>1, <1>3, <2>1, <2>2 DEF QueueTypeOK, Rows
<1>4. CASE /\ \E r \in {"prevented", "refused"} : CloseGate(a, r)
           /\ UNCHANGED <<row, dispatched>>
  <2>1. PICK r \in {"prevented", "refused"} : CloseGate(a, r)
    BY <1>4
  <2>2. /\ SendInv' /\ Frame(a) /\ ClaimInv(a)' /\ Claimed(a) /\ Claimed(a)'
        /\ AcceptedBy(a)' = AcceptedBy(a) /\ msg'[a] = msg[a] /\ key'[a] = key[a]
    BY <1>0, <1>4, <2>1, CloseGateInv
  <2> QED
    BY <1>0, <1>4, <2>2, QuietStep
<1>5. CASE /\ Holding(a, {"preparing"}) /\ row' = [row EXCEPT ![Item(a)].state = "sending"]
           /\ CloseGate(a, "refused") /\ UNCHANGED dispatched
  <2>1. /\ SendInv' /\ Frame(a) /\ ClaimInv(a)' /\ Claimed(a) /\ Claimed(a)'
        /\ AcceptedBy(a)' = AcceptedBy(a) /\ msg'[a] = msg[a] /\ key'[a] = key[a]
    BY <1>0, <1>1, <1>3, <1>5, CloseGateInv
  <2>2. OutWith(i, a)'
    BY <1>0, <1>2, <1>3, <1>5, <2>1 DEF OutWith, Leased
  <2>3. ItemInv(i)'
    BY <1>0, <1>2, <1>3, <1>5, <2>2 DEF QueueInv, ItemInv, Mine, Finished
  <2>4. i = key'[a][1]
    BY <1>1, <2>1 DEF Item
  <2> QED
    BY <1>0, <1>3, <1>5, <2>1, <2>3, <2>4, ClaimFramed
<1>6. CASE /\ Holding(a, {"preparing"}) /\ row' = [row EXCEPT ![Item(a)].state = "sending"]
           /\ dispatched' = [dispatched EXCEPT ![a] = TRUE] /\ UNCHANGED sendVars
  <2>1. SendInv' /\ Frame(a)
    BY <1>0, <1>6, SendInvStep DEF QueueInv, sendVars, Frame, Same, AcceptedBy
  <2>2. /\ dispatched'[a] /\ \A b \in Attempts : b # a => dispatched'[b] = dispatched[b]
    BY <1>0, <1>6 DEF QueueTypeOK
  <2>3. /\ UNCHANGED <<pc, key, msg, reply>> /\ AcceptedBy(a)' = AcceptedBy(a)
        /\ Item(a)' = i /\ (Claimed(a)' <=> Claimed(a)) /\ i = key'[a][1]
    BY <1>0, <1>1, <1>6 DEF sendVars, AcceptedBy, Item, Claimed
  <2>4. OutWith(i, a)'
    BY <1>0, <1>2, <1>3, <1>6, <2>3 DEF OutWith
  <2>5. ItemInv(i)'
    BY <1>0, <1>2, <1>3, <1>6, <2>4 DEF QueueInv, ItemInv, Mine, Finished
  <2>6. Visible(a)'
    BY <1>3, <1>6, <2>3 DEF Visible, Holding
  <2>7. msg[a] \subseteq owed'[i]
    BY <1>0, <1>2, <1>6 DEF OutWith
  <2>8. ClaimInv(a)'
    BY <1>0, <1>1, <1>3, <1>6, <2>2, <2>3, <2>6, <2>7 DEF ClaimInv, AtTransport
  <2> QED
    BY <1>0, <1>3, <1>6, <2>1, <2>2, <2>3, <2>5, <2>8, ClaimFramed
<1> QED
  BY <1>4, <1>5, <1>6 DEF BeginDispatch

\* Passing the gate, or dying, moves nothing but the call.
LEMMA GateAndCrashInv ==
  ASSUME QueueInv, QueueTypeOK', NEW a \in Attempts, RecheckGate(a) \/ WorkerCrash(a)
  PROVE  QueueInv'
<1>0. ClaimInv(a) /\ QueueTypeOK /\ SendInv /\ SendTypeOK /\ UNCHANGED <<row, owed, dispatched>>
  BY DEF QueueInv, SendInv, RecheckGate, WorkerCrash, queueVars
<1>1. CASE \E r \in {"prevented", "refused"} : CloseGate(a, r) /\ UNCHANGED queueVars
  <2>1. PICK r \in {"prevented", "refused"} : CloseGate(a, r) /\ UNCHANGED <<run, dispatched, owed, row>>
    BY <1>1 DEF queueVars
  <2>2. /\ SendInv' /\ Frame(a) /\ ClaimInv(a)' /\ Claimed(a) /\ Claimed(a)'
        /\ AcceptedBy(a)' = AcceptedBy(a) /\ msg'[a] = msg[a] /\ key'[a] = key[a]
    BY <2>1, CloseGateInv
  <2> QED
    BY <2>1, <2>2, QuietStep
<1>2. CASE \/ PassGate(a) /\ dispatched[a] /\ UNCHANGED queueVars
           \/ Crash(a) /\ run[a] \in {"executing", "again"} /\ run' = [run EXCEPT ![a] = "over"]
  <2>1. SendInv' /\ Frame(a)
    BY <1>0, <1>2, CallFrame
  <2>2. /\ \/ pc[a] = "gate" /\ pc'[a] = "mark" /\ dispatched[a] /\ run'[a] = run[a]
           \/ pc'[a] = "dead" /\ run'[a] = "over"
        /\ \A b \in Attempts : b # a => run'[b] = run[b]
        /\ UNCHANGED <<key, msg, accepted>> /\ pc[a] # "idle"
    BY <1>0, <1>2 DEF PassGate, Crash, Goto, SendTypeOK, QueueTypeOK, queueVars
  <2>3. /\ AcceptedBy(a)' = AcceptedBy(a) /\ Item(a)' = Item(a) /\ msg'[a] = msg[a]
        /\ Claimed(a) /\ Claimed(a)' /\ (pc[a] = "gate" => run[a] \notin {"again", "over"})
    BY <1>0, <2>2 DEF AcceptedBy, Item, Claimed, ClaimInv
  <2>4. dispatched[a] /\ pc'[a] \in AtTransport => Visible(a)' /\ msg[a] \subseteq owed[Item(a)]
    BY <1>0, <2>2, <2>3 DEF ClaimInv, AtTransport, BeforeAcceptance, Visible, Holding
  <2>5. ClaimInv(a)'
    BY <1>0, <2>2, <2>3, <2>4 DEF ClaimInv, AtTransport, BeforeAcceptance
  <2> QED
    BY <1>0, <2>1, <2>2, <2>3, <2>5, QuietStep
<1>3. CASE WorkerCrash(a) /\ pc[a] = "done" /\ UNCHANGED sendVars
  <2>1. \A b \in Attempts : \/ run'[b] = run[b]
                            \/ Claimed(b) /\ Claimed(b)' /\ pc[b] \in {"done", "dead"}
    BY <1>0, <1>3 DEF WorkerCrash, Claimed, QueueTypeOK
  <2>2. \A i \in Items : row'[i].revision >= row[i].revision
    BY <1>0 DEF QueueTypeOK, Rows, Revisions
  <2> QED
    BY <1>0, <1>3, <2>1, <2>2, RowsMove
<1> QED
  BY <1>1, <1>2, <1>3 DEF RecheckGate, WorkerCrash

\* Losing the local permission, or a Redis entry, touches nothing the invariant reads.
LEMMA LossInv ==
  ASSUME QueueInv, QueueTypeOK',
         \/ \E a \in Attempts : LosePermission(a)
         \/ \E k \in Keys : QueueCacheLost(k)
  PROVE  QueueInv'
<1>1. /\ UNCHANGED <<pc, key, msg, reply, accepted, row, run, dispatched, owed>>
      /\ [SendNext]_sendVars
  BY DEF LosePermission, QueueCacheLost, CacheLost, callVars, queueVars, sendVars, SendNext
<1>2. SendInv'
  BY <1>1, SendInvStep DEF QueueInv
<1>3. \A a \in Attempts : ClaimInv(a) => ClaimInv(a)'
  BY <1>1 DEF ClaimInv, Claimed, Visible, Holding, Item, AcceptedBy
<1>4. \A i \in Items : ItemInv(i) => ItemInv(i)'
  BY <1>1 DEF ItemInv, OutWith, Claimed, AcceptedBy
<1>5. OneClaimPerRevision'
  BY <1>1 DEF QueueInv, OneClaimPerRevision
<1> QED
  BY <1>2, <1>3, <1>4, <1>5 DEF QueueInv

-----------------------------------------------------------------------------
(* The invariant, and what follows from it.                                *)

\* Every step of the queue preserves the invariant.
LEMMA QueueInvStep == QueueInv /\ [Next]_vars => QueueInv'
<1> SUFFICES ASSUME QueueInv, [Next]_vars PROVE QueueInv'
  OBVIOUS
<1>1. QueueTypeOK'
  BY QueueTypeStep DEF QueueInv, SendInv
<1>2. CASE UNCHANGED vars
  <2>1. UNCHANGED <<sendVars, row, run, dispatched, owed>>
    BY <1>2 DEF vars, queueVars
  <2>2. \A i \in Items : row'[i].revision >= row[i].revision
    BY <2>1 DEF QueueInv, QueueTypeOK, Rows, Revisions
  <2> QED
    BY <1>1, <2>1, <2>2, RowsMove
<1>3. CASE UserStep \/ MergeStep
  BY <1>1, <1>3, UserStepInv, MergeStepInv
<1>4. CASE \E i \in Items : LeaseExpires(i) \/ Recover(i) \/ \E a \in Attempts : Claim(i, a)
  BY <1>1, <1>4, ExpiryInv, RecoverReceiptInv, ClaimStepInv DEF Recover
<1>5. CASE \E a \in Attempts : WorkerStep(a) \/ WorkerCrash(a)
  BY <1>1, <1>5, ExecuteInv, BeginDispatchInv, GateAndCrashInv, RecordInv DEF WorkerStep
<1>6. CASE (\E a \in Attempts : LosePermission(a)) \/ (\E k \in Keys : QueueCacheLost(k))
  BY <1>1, <1>6, LossInv
<1> QED
  BY <1>2, <1>3, <1>4, <1>5, <1>6 DEF Next

\* The empty queue satisfies the invariant.
LEMMA QueueInvInit == Init => QueueInv
<1> SUFFICES ASSUME Init PROVE QueueInv
  OBVIOUS
<1>1. SendInv
  BY SendInvInit DEF Init
<1>2. 1 \in Revisions
  BY RevisionAssumption DEF Revisions
<1>3. QueueTypeOK
  BY <1>2, NoAttemptAssumption DEF Init, QueueTypeOK, NoRow, Free, Rows, States, Leased
<1>4. \A a \in Attempts : ClaimInv(a)
  BY DEF Init, SendInit, ClaimInv, Claimed, AcceptedBy, AtTransport, BeforeAcceptance
<1>5. \A i \in Items : ItemInv(i)
  BY DEF Init, NoRow, Free, ItemInv, Claimed, Mine, Finished
<1>6. OneClaimPerRevision
  BY DEF Init, OneClaimPerRevision
<1> QED
  BY <1>1, <1>3, <1>4, <1>5, <1>6 DEF QueueInv

\* The invariant implies the properties of states.
LEMMA QueueInvImplies ==
  QueueInv => TypeOK /\ OutcomeTruth /\ SubmissionIsVisible /\ OneClaimPerRevision
<1> SUFFICES ASSUME QueueInv PROVE TypeOK /\ OutcomeTruth /\ SubmissionIsVisible
  BY DEF QueueInv
<1>1. TypeOK
  BY DEF QueueInv, SendInv, TypeOK
<1>2. OutcomeTruth
  BY DEF QueueInv, ItemInv, Mine, OutcomeTruth
<1>3. SubmissionIsVisible
  BY DEF QueueInv, ClaimInv, AtTransport, Visible, SubmissionIsVisible
<1> QED
  BY <1>1, <1>2, <1>3

\* The inductive invariant holds in every state of the queue.
THEOREM QueueInvariant == Spec => []QueueInv
BY QueueInvInit, QueueInvStep, PTL DEF Spec

\* Every state of the queue and of the pipeline under it is typed; a row is leased
\* exactly while it is being prepared or sent.
THEOREM QueueTypeCorrect == Spec => []TypeOK
BY QueueInvariant, QueueInvImplies, PTL

\* The states users see agree with what the transport has accepted.
THEOREM QueueOutcomeTruth == Spec => []OutcomeTruth
BY QueueInvariant, QueueInvImplies, PTL

\* Past the gate of deliver, the row shows the submission until it is over.
THEOREM QueueSubmissionIsVisible == Spec => []SubmissionIsVisible
BY QueueInvariant, QueueInvImplies, PTL

\* claimScheduledMail gives each revision, and so each ledger key, to one claim.
THEOREM QueueOneClaim == Spec => []OneClaimPerRevision
BY QueueInvariant, QueueInvImplies, PTL

\* The queue's steps are steps of executeSend as SendMail models it, so everything
\* proved of the pipeline holds under the queue.
THEOREM QueueUsesPipeline == Spec => UsesPipeline
<1>1. Init => SendInit
  BY DEF Init
<1> QED
  BY <1>1, QueueInvariant, PipelineStep, PTL DEF Spec, UsesPipeline, SendSpec

\* A step's new deliveries go to recipients the item is owed for.
LEMMA SolicitedStep ==
  ASSUME QueueInv, [Next]_vars, NEW a \in Attempts, NEW r \in Recipients,
         <<a, r>> \in accepted' \ accepted
  PROVE  r \in owed[Item(a)]
<1>1. PICK b \in Attempts : CallStep(b) \/ Environment(b)
  <2>1. CASE \E b \in Attempts : Execute(b)
    BY <2>1 DEF Execute
  <2>2. CASE accepted' = accepted
    BY <2>2
  <2> QED
    BY <2>1, <2>2 DEF Next, UserStep, Enqueue, Edit, Reschedule, Cancel, Dismiss, Update, MergeStep,
       EnqueueMerge, LeaseExpires, Recover, RecoverPreparing, RecoverSending, RecoverReceipt,
       Claim, Start, WorkerStep, BeginDispatch, CloseGate, RecheckGate, PassGate, ReleaseClaim,
       RecordOutcome, RecordException, LosePermission, WorkerCrash, Crash, QueueCacheLost,
       CacheLost, vars, sendVars
<1>2. SendInv /\ SendTypeOK /\ Frame(b)
  BY <1>1, CallFrame DEF QueueInv, SendInv
<1>3. r \in AcceptedBy(a)' /\ r \notin AcceptedBy(a)
  BY DEF AcceptedBy
<1>4. a = b
  BY <1>2, <1>3 DEF Frame, Same
<1>5. pc[a] = "submit" /\ r \in msg[a]
  BY <1>1, <1>2, <1>3, <1>4, CallMoves, CallAccepts
<1> QED
  BY <1>5 DEF QueueInv, ClaimInv, BeforeAcceptance

\* Nothing leaves that the user has not asked for, or that has left before.
THEOREM QueueOnlySolicited == Spec => OnlySolicited
<1>1. QueueInv /\ [Next]_vars =>
        [\A a \in Attempts, r \in Recipients : <<a, r>> \in accepted' \ accepted => r \in owed[Item(a)]]_vars
  BY SolicitedStep
<1> QED
  BY <1>1, QueueInvariant, PTL DEF Spec, OnlySolicited

\* Nothing but a dismissal or a completed receipt moves a parked row.
LEMMA StickyStep ==
  ASSUME QueueInv, [Next]_vars, NEW i \in Items, row[i].state = "uncertain", row'[i] # row[i]
  PROVE  \/ row'[i].state = "dismissed"
         \/ /\ row'[i].state \in {"sent", "partial"}
            /\ intent[<<i, row[i].revision>>].status = "completed"
<1>0. row \in [Items -> Rows]
  BY DEF QueueInv, QueueTypeOK
<1>1. CASE UserStep
  BY <1>0, <1>1 DEF UserStep, Enqueue, Edit, Update, Reschedule, Cancel, Dismiss, Sees, Free
<1>2. CASE MergeStep
  BY <1>0, <1>2 DEF MergeStep, EnqueueMerge
<1>3. ASSUME NEW j \in Items,
             LeaseExpires(j) \/ RecoverPreparing(j) \/ RecoverSending(j)
             \/ \E a \in Attempts : Claim(j, a)
      PROVE  FALSE
  <2>1. row[j].live => row[j].state \in Leased
    BY DEF QueueInv, QueueTypeOK
  <2> QED
    BY <1>0, <1>3, <2>1 DEF LeaseExpires, RecoverPreparing, RecoverSending, Claim, Leased
<1>4. ASSUME NEW j \in Items, RecoverReceipt(j)
      PROVE  row'[i].state \in {"sent", "partial"} /\ intent[<<i, row[i].revision>>].status = "completed"
  <2> DEFINE o == Outcome(row[j].payload, intent[<<j, row[j].revision>>].rejected)
  <2>1. o.state \in {"sent", "partial", "uncertain"}
    BY DEF Outcome
  <2>2. /\ intent[<<j, row[j].revision>>].status = "completed" /\ o.state # "uncertain"
        /\ row' = [row EXCEPT ![j] = Free(o.state, row[j].revision, o.payload)]
    BY <1>4 DEF RecoverReceipt
  <2> HIDE DEF o
  <2> QED
    BY <1>0, <2>1, <2>2 DEF Free
<1>5. ASSUME NEW a \in Attempts, Holding(a, Leased), \A j \in Items : j # Item(a) => row'[j] = row[j]
      PROVE  FALSE
  BY <1>5 DEF Holding, Leased
<1>6. ASSUME NEW a \in Attempts, WorkerStep(a) \/ LosePermission(a) \/ WorkerCrash(a) PROVE FALSE
  <2>1. row' # row
    OBVIOUS
  <2>2. CASE BeginDispatch(a)
    BY <1>0, <2>1, <2>2 DEF BeginDispatch, Holding
  <2>3. CASE ReleaseClaim(a)
    BY <1>0, <1>5, <2>1, <2>3 DEF ReleaseClaim
  <2>4. CASE RecordOutcome(a) \/ RecordException(a)
    BY <1>0, <1>5, <2>1, <2>4 DEF RecordOutcome, RecordException, Complete
  <2>5. CASE Execute(a) \/ RecheckGate(a) \/ LosePermission(a) \/ WorkerCrash(a)
    BY <2>1, <2>5 DEF Execute, RecheckGate, LosePermission, WorkerCrash, queueVars
  <2> QED
    BY <1>6, <2>2, <2>3, <2>4, <2>5 DEF WorkerStep
<1>7. ASSUME NEW k \in Keys, QueueCacheLost(k) PROVE FALSE
  BY <1>7 DEF QueueCacheLost, queueVars
<1> QED
  BY <1>1, <1>2, <1>3, <1>4, <1>6, <1>7 DEF Next, Recover, vars, queueVars

\* A parked row stays parked until its user dismisses it or its receipt is found.
THEOREM QueueUncertainIsSticky == Spec => UncertainIsSticky
<1>1. QueueInv /\ [Next]_vars =>
        [\A i \in Items : row[i].state = "uncertain" /\ row'[i] # row[i] =>
           \/ row'[i].state = "dismissed"
           \/ /\ row'[i].state \in {"sent", "partial"}
              /\ intent[<<i, row[i].revision>>].status = "completed"]_vars
  BY StickyStep
<1> QED
  BY <1>1, QueueInvariant, PTL DEF Spec, UncertainIsSticky

-----------------------------------------------------------------------------
(* The limit of unfinished rows.                                           *)

Inactive(state) == state \in Finished \cup {"absent"}

\* Recording an outcome wakes no row: whoever may record it holds an active one.
LEMMA RecordsWakeNothing ==
  ASSUME RowsTyped, NEW a \in Attempts, NEW o, row' \in {row, Complete(a, o)},
         NEW i \in Items, Inactive(row[i].state)
  PROVE  row'[i] = row[i]
<1>1. CASE row' = row
  BY <1>1
<1>2. CASE row' # row
  <2>1. Holding(a, Leased) /\ \E r : row' = [row EXCEPT ![Item(a)] = r]
    BY <1>2 DEF Complete
  <2>2. Item(a) # i
    BY <2>1 DEF Holding, Leased, Inactive, Finished
  <2> QED
    BY <2>1, <2>2 DEF RowsTyped
<1> QED
  BY <1>1, <1>2

\* No statement brings a finished row back; only the two enqueues make one active.
LEMMA NothingWakes ==
  ASSUME QueueInv, [Next]_vars, NEW i \in Items, Inactive(row[i].state), ~Inactive(row'[i].state)
  PROVE  (\E m \in Messages : Enqueue(i, m)) \/ MergeStep
<1>0. RowsTyped
  BY DEF QueueInv, QueueTypeOK, RowsTyped
<1>1. row \in [Items -> Rows] /\ row'[i] # row[i]
  BY <1>0 DEF RowsTyped
<1>2. CASE UserStep
  BY <1>1, <1>2 DEF UserStep, Enqueue, Edit, Update, Reschedule, Cancel, Dismiss, Sees, Inactive,
     Finished
<1>3. ASSUME NEW j \in Items,
             LeaseExpires(j) \/ Recover(j) \/ \E a \in Attempts : Claim(j, a)
      PROVE  FALSE
  <2>1. row[j].live => row[j].state \in Leased
    BY <1>0 DEF RowsTyped
  <2>2. ~Inactive(row[j].state)
    BY <1>3, <2>1 DEF LeaseExpires, Recover, RecoverPreparing, RecoverSending, RecoverReceipt,
       Claim, Leased, Inactive, Finished
  <2>3. \E r : row' = [row EXCEPT ![j] = r]
    BY <1>3 DEF LeaseExpires, Recover, RecoverPreparing, RecoverSending, RecoverReceipt, Claim
  <2> QED
    BY <1>1, <2>2, <2>3
<1>4. ASSUME NEW a \in Attempts, WorkerStep(a) \/ LosePermission(a) \/ WorkerCrash(a) PROVE FALSE
  <2>1. CASE BeginDispatch(a)
    <3>1. Holding(a, {"preparing"}) /\ \E r : row' = [row EXCEPT ![Item(a)] = r]
      BY <1>1, <2>1 DEF BeginDispatch
    <3> QED
      BY <1>1, <3>1 DEF Holding, Inactive, Finished
  <2>2. CASE ReleaseClaim(a)
    <3>1. Holding(a, Leased) /\ \E r : row' = [row EXCEPT ![Item(a)] = r]
      BY <1>1, <2>2 DEF ReleaseClaim
    <3> QED
      BY <1>1, <3>1 DEF Holding, Inactive, Finished, Leased
  <2>3. CASE RecordOutcome(a)
    <3>1. row' \in {row, Complete(a, ReplyOutcome(a))}
      BY <2>3 DEF RecordOutcome
    <3> QED
      BY <1>0, <1>1, <3>1, RecordsWakeNothing
  <2>4. CASE RecordException(a)
    <3>1. PICK o : row' \in {row, Complete(a, o)}
      BY <2>4 DEF RecordException
    <3> QED
      BY <1>0, <1>1, <3>1, RecordsWakeNothing
  <2>5. CASE Execute(a) \/ RecheckGate(a) \/ LosePermission(a) \/ WorkerCrash(a)
    BY <1>1, <2>5 DEF Execute, RecheckGate, LosePermission, WorkerCrash, queueVars
  <2> QED
    BY <1>4, <2>1, <2>2, <2>3, <2>4, <2>5 DEF WorkerStep
<1>5. ASSUME NEW k \in Keys, QueueCacheLost(k) PROVE FALSE
  BY <1>1, <1>5 DEF QueueCacheLost, queueVars
<1> QED
  BY <1>1, <1>2, <1>3, <1>4, <1>5 DEF Next, vars, queueVars

\* Both enqueues count the rows they add.
LEMMA ActiveBoundStep ==
  ASSUME QueueInv, ActiveBound, [Next]_vars
  PROVE  ActiveBound'
<1>1. /\ Active \subseteq Items /\ IsFiniteSet(Active) /\ Cardinality(Active) \in Nat
      /\ MaxActive \in Nat
  BY ActiveAssumption, FS_Subset, FS_CardinalityType DEF Active
<1>2. ASSUME NEW batch \in SUBSET Items, Active' \subseteq Active \cup batch,
             Cardinality(Active) + Cardinality(batch) <= MaxActive
      PROVE  ActiveBound'
  <2>1. IsFiniteSet(batch) /\ Cardinality(batch) \in Nat
    BY ActiveAssumption, FS_Subset, FS_CardinalityType
  <2>2. /\ IsFiniteSet(Active \cap batch) /\ Cardinality(Active \cap batch) \in Nat
    <3>1. Active \cap batch \in SUBSET batch
      OBVIOUS
    <3> QED
      BY <2>1, <3>1, FS_Subset, FS_CardinalityType
  <2>3. /\ IsFiniteSet(Active \cup batch) /\ Cardinality(Active \cup batch) \in Nat
        /\ Cardinality(Active \cup batch)
             = Cardinality(Active) + Cardinality(batch) - Cardinality(Active \cap batch)
    BY <1>1, <2>1, FS_Union, FS_CardinalityType
  <2>4. /\ Cardinality(Active') \in Nat
        /\ Cardinality(Active') <= Cardinality(Active \cup batch)
    BY <1>2, <2>3, FS_Subset, FS_CardinalityType
  <2> QED
    BY <1>1, <1>2, <2>1, <2>2, <2>3, <2>4 DEF ActiveBound
<1>3. CASE \E i \in Items, m \in Messages : Enqueue(i, m)
  <2>1. PICK i \in Items, m \in Messages : Enqueue(i, m)
    BY <1>3
  <2>2. Active' \subseteq Active \cup {i}
    BY <2>1 DEF QueueInv, QueueTypeOK, Enqueue, Active
  <2>3. Cardinality({i}) = 1
    <3>1. Cardinality({} \cup {i}) = Cardinality({}) + 1
      BY FS_EmptySet, FS_AddElement
    <3>2. {} \cup {i} = {i}
      OBVIOUS
    <3> QED
      BY <3>1, <3>2, FS_EmptySet
  <2>4. Cardinality(Active) + Cardinality({i}) <= MaxActive
    BY <1>1, <2>1, <2>3 DEF Enqueue
  <2> QED
    BY <1>2, <2>2, <2>4
<1>4. CASE MergeStep
  <2>1. PICK batch \in SUBSET Items : \E to \in [batch -> Recipients] : EnqueueMerge(to)
    BY <1>4 DEF MergeStep
  <2>2. PICK to \in [batch -> Recipients] : EnqueueMerge(to)
    BY <2>1
  <2>3. DOMAIN to = batch
    OBVIOUS
  <2>4. /\ Active' \subseteq Active \cup batch
        /\ Cardinality(Active) + Cardinality(batch) <= MaxActive
    BY <2>2, <2>3 DEF EnqueueMerge, Active
  <2> QED
    BY <1>2, <2>4
<1>5. CASE /\ ~\E i \in Items, m \in Messages : Enqueue(i, m)
           /\ ~MergeStep
  <2>1. Active' \subseteq Active
    <3>1. \A i \in Items : Inactive(row[i].state) => Inactive(row'[i].state)
      BY <1>5, NothingWakes
    <3> QED
      BY <3>1 DEF Active, Inactive
  <2>2. Cardinality(Active') \in Nat /\ Cardinality(Active') <= Cardinality(Active)
    BY <1>1, <2>1, FS_Subset, FS_CardinalityType
  <2> QED
    BY <1>1, <2>2 DEF ActiveBound
<1> QED
  BY <1>3, <1>4, <1>5

\* MAX_ACTIVE holds whatever the mix of single messages, merges, retries and recoveries:
\* nothing but an enqueue makes a row active, and both enqueues count what they add.
THEOREM QueueActiveBound == Spec => []ActiveBound
<1>1. Init => ActiveBound
  <2> SUFFICES ASSUME Init PROVE ActiveBound
    OBVIOUS
  <2>1. Active = {}
    BY DEF Init, NoRow, Free, Active
  <2> QED
    BY <2>1, ActiveAssumption, FS_EmptySet DEF ActiveBound
<1>2. QueueInv /\ ActiveBound /\ [Next]_vars => ActiveBound'
  BY ActiveBoundStep
<1> QED
  BY <1>1, <1>2, QueueInvariant, PTL DEF Spec

-----------------------------------------------------------------------------
(* The queue implements its promise.                                       *)

\* The user's operations are the user's steps of the promise.
LEMMA PromiseOfUser ==
  ASSUME QueueInv, QueueTypeOK', UserStep \/ MergeStep
  PROVE  [UserPromise!Next]_(UserPromise!promise)
<1>0. /\ QueueTypeOK /\ row \in [Items -> Rows] /\ owed \in [Items -> SUBSET Recipients]
      /\ \A i \in Items : row[i].state \in Mine => owed[i] = row[i].payload
  BY DEF QueueInv, QueueTypeOK, ItemInv
<1>1. ASSUME NEW i \in Items, NEW m \in Messages, Enqueue(i, m) PROVE UserPromise!Next
  <2>1. /\ row'[i] = Free("pending", 1, m) /\ owed'[i] = m /\ row[i].state = "absent"
        /\ \A j \in Items : j # i => row'[j] = row[j] /\ owed'[j] = owed[j]
    BY <1>0, <1>1 DEF Enqueue, NewRow
  <2>2. Shows(i) = "mine" /\ Shows(i)' = "mine" /\ row'[i].payload = owed'[i]
    BY <2>1 DEF Shows, Phase, Free
  <2> QED
    BY <1>0, <2>1, <2>2, PromiseMove
<1>2. ASSUME NEW i \in Items, NEW r \in Revisions, Edit(i, r) \/ Reschedule(i, r)
      PROVE  UserPromise!Next
  <2>1. /\ row[i].state \in Mine /\ row[i].state # "preparing"
        /\ row'[i].state \in {"editing", "pending"} /\ row'[i].payload = row[i].payload
        /\ \A j \in Items : j # i => row'[j] = row[j] /\ owed'[j] = owed[j]
        /\ owed'[i] = owed[i]
    BY <1>0, <1>2 DEF Edit, Reschedule, Sees, Free, Mine
  <2>2. Shows(i) = "mine" /\ Shows(i)' = "mine" /\ row'[i].payload = owed'[i]
    BY <1>0, <2>1 DEF Shows, Phase, Mine
  <2> QED
    BY <1>0, <2>1, <2>2, PromiseMove
<1>3. ASSUME NEW i \in Items, NEW r \in Revisions, Cancel(i, r) PROVE UserPromise!Next
  <2>1. /\ row[i].state \in {"pending", "editing", "failed", "partial"}
        /\ row'[i] = Free("cancelled", r + 1, {}) /\ owed'[i] = {}
        /\ \A j \in Items : j # i => row'[j] = row[j] /\ owed'[j] = owed[j]
    BY <1>0, <1>3 DEF Cancel, Sees
  <2>2. Shows(i) = "mine" /\ Shows(i)' = "closed" /\ row'[i].payload = {} /\ owed'[i] = {}
    BY <2>1 DEF Shows, Phase, Free
  <2> QED
    BY <1>0, <2>1, <2>2, PromiseMove
<1>4. ASSUME NEW i \in Items, NEW r \in Revisions, NEW m \in Messages, NEW keep \in BOOLEAN,
             Update(i, r, m, keep)
      PROVE  UserPromise!Next
  <2>1. /\ row[i].state = "editing" /\ owed'[i] = m
        /\ \A j \in Items : j # i => row'[j] = row[j] /\ owed'[j] = owed[j]
    BY <1>0, <1>4 DEF Update, Sees
  <2>2. PICK s \in {"editing", "pending"} : row'[i] = Free(s, r + 1, m)
    BY <1>0, <1>4 DEF Update
  <2>3. Shows(i) = "mine" /\ Shows(i)' = "mine" /\ row'[i].payload = owed'[i]
    BY <2>1, <2>2 DEF Shows, Phase, Free
  <2> QED
    BY <1>0, <2>1, <2>3, PromiseMove
<1>5. ASSUME NEW i \in Items, NEW r \in Revisions, Dismiss(i, r) PROVE UserPromise!Next
  <2>1. /\ row[i].state = "uncertain" /\ row'[i] = Free("dismissed", r + 1, {}) /\ owed'[i] = owed[i]
        /\ \A j \in Items : j # i => row'[j] = row[j] /\ owed'[j] = owed[j]
    BY <1>0, <1>5 DEF Dismiss, Sees
  <2>2. Shows(i) = "out" /\ Shows(i)' = "waived" /\ row'[i].payload = {}
    BY <2>1 DEF Shows, Phase, Free
  <2> QED
    BY <1>0, <2>1, <2>2, PromiseMove
<1>6. CASE MergeStep
  <2>1. PICK batch \in SUBSET Items : \E to \in [batch -> Recipients] : EnqueueMerge(to)
    BY <1>6 DEF MergeStep
  <2>2. PICK to \in [batch -> Recipients] : EnqueueMerge(to)
    BY <2>1
  <2>3. /\ \A i \in batch : row[i].state = "absent"
        /\ row' = [i \in Items |-> IF i \in batch THEN Free("pending", 1, {to[i]}) ELSE row[i]]
        /\ owed' = [i \in Items |-> IF i \in batch THEN {to[i]} ELSE owed[i]]
    BY <2>2 DEF EnqueueMerge, NewRow
  <2>4. ASSUME NEW i \in Items
        PROVE  /\ Shows(i)' = Shows(i) /\ (i \in batch => Shows(i) = "mine")
               /\ row'[i].payload = IF i \in batch THEN {to[i]} ELSE row[i].payload
    <3>1. CASE i \in batch
      BY <2>3, <3>1 DEF Shows, Phase, Free
    <3>2. CASE i \notin batch
      BY <2>3, <3>2 DEF Shows, Phase
    <3> QED
      BY <3>1, <3>2
  <2>5. UserPromise!AskAll(batch, to)
    BY <2>3, <2>4 DEF UserPromise!AskAll, Shows
  <2> QED
    BY <2>5 DEF UserPromise!Next
<1> QED
  BY <1>1, <1>2, <1>3, <1>4, <1>5, <1>6 DEF UserStep

\* Handing over, delivering, giving back and parking are the promise's other steps.
LEMMA PromiseOfWorker ==
  ASSUME QueueInv, QueueTypeOK', [Next]_vars, ~UserStep, ~MergeStep
  PROVE  [UserPromise!Next]_(UserPromise!promise)
<1>0. QueueTypeOK /\ row \in [Items -> Rows] /\ owed \in [Items -> SUBSET Recipients]
  BY DEF QueueInv, QueueTypeOK
<1>1. ASSUME NEW i \in Items, NEW a \in Attempts, Claim(i, a) PROVE UserPromise!Next
  <2>1. /\ row[i].state = "pending" /\ owed' = owed
        /\ row'[i].state = "preparing" /\ row'[i].payload = row[i].payload
        /\ \A j \in Items : j # i => row'[j] = row[j]
    BY <1>0, <1>1 DEF Claim
  <2>2. owed[i] # {}
    BY <2>1 DEF QueueInv, ItemInv, Mine, Finished
  <2>3. Shows(i) = "mine" /\ Shows(i)' = "out"
    BY <2>1 DEF Shows, Phase
  <2> QED
    BY <1>0, <2>1, <2>2, <2>3, PromiseMove
<1>2. ASSUME NEW i \in Items, LeaseExpires(i) PROVE [UserPromise!Next]_(UserPromise!promise)
  <2>1. /\ owed' = owed /\ \A j \in Items : row'[j].state = row[j].state /\ row'[j].payload = row[j].payload
    BY <1>0, <1>2 DEF LeaseExpires, Rows
  <2> QED
    BY <2>1 DEF UserPromise!promise
<1>3. ASSUME NEW i \in Items, RecoverPreparing(i) \/ RecoverSending(i) PROVE UserPromise!Next
  <2>1. /\ owed' = owed /\ row'[i].payload = row[i].payload
        /\ \/ row[i].state = "preparing" /\ row'[i].state = "pending"
           \/ row[i].state = "sending" /\ row'[i].state = "uncertain"
        /\ \A j \in Items : j # i => row'[j] = row[j]
    BY <1>0, <1>3 DEF RecoverPreparing, RecoverSending, Free
  <2>2. row[i].state = "preparing" => owed[i] = row[i].payload
    BY DEF QueueInv, ItemInv, Mine
  <2>3. \/ Shows(i) = "out" /\ Shows(i)' = "mine" /\ row'[i].payload = owed[i]
        \/ Shows(i) = "out" /\ Shows(i)' = "out"
    BY <2>1, <2>2 DEF Shows, Phase
  <2> QED
    BY <1>0, <2>1, <2>3, PromiseMove
<1>4. ASSUME NEW a \in Attempts, BeginDispatch(a) PROVE [UserPromise!Next]_(UserPromise!promise)
  <2>1. owed' = owed /\ \A j \in Items : /\ row'[j].payload = row[j].payload
                                         /\ Phase(row'[j].state) = Phase(row[j].state)
    <3>1. CASE row' = row
      BY <1>4, <3>1 DEF BeginDispatch
    <3>2. CASE row' # row
      <4>1. /\ row[Item(a)].state = "preparing" /\ owed' = owed
            /\ row' = [row EXCEPT ![Item(a)].state = "sending"]
        BY <1>4, <3>2 DEF BeginDispatch, Holding
      <4>2. \A j \in Items : /\ row'[j].payload = row[j].payload
                             /\ \/ row'[j].state = row[j].state
                                \/ row[j].state = "preparing" /\ row'[j].state = "sending"
        <5>1. pc[a] = "gate"
          BY <1>4 DEF BeginDispatch
        <5>2. PICK i \in Items : i = Item(a)
          BY <5>1, KeyOfCall DEF QueueInv, SendInv
        <5>3. /\ row'[i].payload = row[i].payload /\ row'[i].state = "sending"
              /\ \A j \in Items : j # i => row'[j] = row[j]
          BY <1>0, <4>1, <5>2 DEF Rows
        <5>4. row[i].state = "preparing"
          BY <4>1, <5>2
        <5> QED
          BY <5>3, <5>4
      <4> QED
        BY <4>1, <4>2 DEF Phase
    <3> QED
      BY <3>1, <3>2
  <2> QED
    BY <2>1 DEF UserPromise!promise
<1>5. ASSUME NEW a \in Attempts, Execute(a) PROVE [UserPromise!Next]_(UserPromise!promise)
  <2>1. /\ CallStep(a) \/ Environment(a)
        /\ UNCHANGED row
        /\ owed' = [owed EXCEPT ![Item(a)] = owed[Item(a)] \ {r \in Recipients : <<a, r>> \in accepted' \ accepted}]
    BY <1>5 DEF Execute
  <2>2. /\ {r \in Recipients : <<a, r>> \in accepted' \ accepted} = AcceptedBy(a)' \ AcceptedBy(a)
        /\ pc[a] # "idle" /\ (AcceptedBy(a)' # AcceptedBy(a) => pc[a] = "submit")
    BY <2>1, CallAccepts, CallMoves DEF QueueInv, SendInv
  <2>3. PICK i \in Items : i = Item(a)
    BY <2>2, KeyOfCall DEF QueueInv, SendInv
  <2>4. /\ \A j \in Items : j # i => owed'[j] = owed[j]
        /\ owed'[i] = owed[i] \ (AcceptedBy(a)' \ AcceptedBy(a))
    BY <1>0, <2>1, <2>2, <2>3
  <2>5. CASE AcceptedBy(a)' = AcceptedBy(a)
    <3>1. owed' = owed
      BY <1>0, <2>1, <2>2, <2>5
    <3> QED
      BY <2>1, <3>1, PromiseStutter
  <2>6. CASE AcceptedBy(a)' # AcceptedBy(a)
    <3>1. dispatched[a] /\ pc[a] \in AtTransport
      BY <2>2, <2>6 DEF QueueInv, ClaimInv, AtTransport
    <3>2. Shows(i) \in {"out", "waived"} /\ Shows(i)' = Shows(i)
      BY <2>1, <2>3, <3>1, NotMine DEF Shows, Phase
    <3> QED
      BY <1>0, <2>1, <2>4, <3>2, PromiseMove
  <2> QED
    BY <2>5, <2>6
<1>6. ASSUME NEW a \in Attempts, ReleaseClaim(a) \/ RecordOutcome(a) \/ RecordException(a)
      PROVE  [UserPromise!Next]_(UserPromise!promise)
  BY <1>6, RecordInv
<1>7. ASSUME NEW i \in Items, RecoverReceipt(i) PROVE UserPromise!Next
  BY <1>7, RecoverReceiptInv
<1>8. ASSUME UNCHANGED <<row, owed>> PROVE UNCHANGED UserPromise!promise
  BY <1>8, PromiseStutter
<1>9. ASSUME NEW a \in Attempts, RecheckGate(a) \/ LosePermission(a) \/ WorkerCrash(a)
      PROVE  UNCHANGED <<row, owed>>
  BY <1>9 DEF RecheckGate, LosePermission, WorkerCrash, queueVars
<1>10. ASSUME NEW k \in Keys, QueueCacheLost(k) PROVE UNCHANGED <<row, owed>>
  BY <1>10 DEF QueueCacheLost, queueVars
<1>11. ASSUME UNCHANGED vars PROVE UNCHANGED <<row, owed>>
  BY <1>11 DEF vars, queueVars
<1> QED
  BY <1>1, <1>2, <1>3, <1>4, <1>5, <1>6, <1>7, <1>8, <1>9, <1>10, <1>11
     DEF Next, Recover, WorkerStep

\* The queue, with its leases, crashes and recoveries, keeps QueuePromise: nothing
\* leaves after a withdrawal, nobody is reached twice, an item comes back showing
\* exactly the people not reached.
THEOREM QueueRefinesPromise == Spec => KeepsPromise
<1>1. Init => UserPromise!Init
  BY DEF Init, NoRow, Free, Phase, UserPromise!Init
<1>2. QueueInv /\ QueueInv' /\ [Next]_vars => [UserPromise!Next]_(UserPromise!promise)
  BY PromiseOfUser, PromiseOfWorker DEF QueueInv
<1> QED
  BY <1>1, <1>2, QueueInvariant, PTL DEF Spec, KeepsPromise, UserPromise!Spec
=============================================================================

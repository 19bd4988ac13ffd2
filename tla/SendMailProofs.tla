--------------------------- MODULE SendMailProofs ---------------------------
(***************************************************************************)
(* Proofs about SendMail, for every set of calls, keys and recipients.     *)
(***************************************************************************)
EXTENDS SendMail, TLAPS

USE NoAttemptAssumption

-----------------------------------------------------------------------------
(* The ledger's statements touch the row of the caller's key only.         *)

\* What parking an intent does to the ledger.
LEMMA ParkedRows ==
  ASSUME SendTypeOK, NEW a \in Attempts, key[a] \in Keys
  PROVE  /\ Parked(a) \in [Keys -> Intents]
         /\ \A k \in Keys : Parked(a)[k] # intent[k] =>
              /\ k = key[a] /\ intent[k].token = a /\ intent[k].status = "pending"
              /\ Parked(a)[k] = [status |-> "uncertain", token |-> a,
                                msg |-> intent[k].msg, rejected |-> intent[k].rejected]
         /\ Parked(a)[key[a]].token = a => Parked(a)[key[a]].status # "pending"
BY DEF SendTypeOK, Parked, Owns, Intents

\* What recording the final result does to the ledger.
LEMMA CompletedRows ==
  ASSUME SendTypeOK, NEW a \in Attempts, key[a] \in Keys
  PROVE  /\ Completed(a) \in [Keys -> Intents]
         /\ \A k \in Keys : Completed(a)[k] # intent[k] =>
              /\ k = key[a] /\ intent[k].token = a
              /\ intent[k].status \in {"pending", "uncertain"}
              /\ Completed(a)[k] = [status |-> "completed", token |-> a,
                                   msg |-> intent[k].msg, rejected |-> rejected[a]]
BY DEF SendTypeOK, Completed, Owns, Intents

\* What deleting an intent does to the ledger.
LEMMA ReleasedRows ==
  ASSUME SendTypeOK, NEW a \in Attempts, key[a] \in Keys
  PROVE  /\ Released(a) \in [Keys -> Intents]
         /\ \A k \in Keys : Released(a)[k] # intent[k] =>
              k = key[a] /\ intent[k].token = a /\ Released(a)[k] = NoIntent
         /\ Released(a)[key[a]].token # a
BY DEF SendTypeOK, Released, Owns, Intents, NoIntent

-----------------------------------------------------------------------------
(* Types.                                                                  *)

\* Every step of the pipeline keeps the types.
LEMMA SendTypeStep == SendTypeOK /\ [SendNext]_sendVars => SendTypeOK'
<1> SUFFICES ASSUME SendTypeOK, [SendNext]_sendVars PROVE SendTypeOK'
  OBVIOUS
<1> USE DEF SendTypeOK, Goto, Return, GiveUp
<1>1. ASSUME NEW a \in Attempts, NEW k \in Keys, NEW m \in Messages, Start(a, k, m)
      PROVE SendTypeOK'
  BY <1>1 DEF Start, Stages, Messages
<1>2. ASSUME NEW a \in Attempts, LookUp(a) PROVE SendTypeOK'
  BY <1>2 DEF LookUp, Replay, Stages, Replies, Entries
<1>3. ASSUME NEW a \in Attempts, Prepare(a) PROVE SendTypeOK'
  BY <1>3 DEF Prepare, Stages, Replies
<1>4. ASSUME NEW a \in Attempts, ClaimIntent(a) PROVE SendTypeOK'
  BY <1>4 DEF ClaimIntent, Stages, Replies, Intents
<1>5. ASSUME NEW a \in Attempts, Observe(a) PROVE SendTypeOK'
  BY <1>5 DEF Observe, Replay, Stages, Replies, Intents
<1>6. ASSUME NEW a \in Attempts, Reserve(a) PROVE SendTypeOK'
  BY <1>6 DEF Reserve, Stages, Replies, Entries
<1>7. ASSUME NEW a \in Attempts, UndoClaim(a) PROVE SendTypeOK'
  BY <1>7, ReleasedRows DEF UndoClaim, Stages
<1>8. ASSUME NEW a \in Attempts, PassGate(a) PROVE SendTypeOK'
  BY <1>8 DEF PassGate, Stages
<1>9. ASSUME NEW a \in Attempts, NEW r \in {"prevented", "refused"}, CloseGate(a, r)
      PROVE SendTypeOK'
  BY <1>9 DEF CloseGate, Stages, Replies
<1>10. ASSUME NEW a \in Attempts, MarkUncertain(a) PROVE SendTypeOK'
  BY <1>10, ParkedRows DEF MarkUncertain, Stages, Replies
<1>11. ASSUME NEW a \in Attempts, NEW A \in SUBSET Recipients, NEW R \in SUBSET Recipients,
              TransportAccepts(a, A, R)
       PROVE SendTypeOK'
  BY <1>11 DEF TransportAccepts, Stages
<1>12. ASSUME NEW a \in Attempts, TransportRefuses(a) PROVE SendTypeOK'
  BY <1>12 DEF TransportRefuses, Stages, Replies
<1>13. ASSUME NEW a \in Attempts, NEW A \in SUBSET Recipients, TransportUnknown(a, A)
       PROVE SendTypeOK'
  BY <1>13, ParkedRows DEF TransportUnknown, Stages, Replies
<1>14. ASSUME NEW a \in Attempts, Finalize(a) PROVE SendTypeOK'
  BY <1>14, ParkedRows, CompletedRows DEF Finalize, Stages, Replies
<1>15. ASSUME NEW a \in Attempts, ReleaseIntent(a) PROVE SendTypeOK'
  BY <1>15, ParkedRows, ReleasedRows DEF ReleaseIntent, NoEntry, Stages, Entries
<1>16. ASSUME NEW a \in Attempts, PublishReceipt(a) PROVE SendTypeOK'
  BY <1>16 DEF PublishReceipt, callVars, Entries
<1>17. ASSUME NEW a \in Attempts, LeaseSuspect(a) PROVE SendTypeOK'
  BY <1>17, ParkedRows DEF LeaseSuspect, callVars, Stages
<1>18. ASSUME NEW a \in Attempts, Crash(a) PROVE SendTypeOK'
  BY <1>18 DEF Crash, Stages
<1>19. ASSUME NEW k \in Keys, CacheLost(k) PROVE SendTypeOK'
  BY <1>19 DEF CacheLost, callVars, NoEntry, Entries
<1>20. CASE UNCHANGED sendVars
  BY <1>20 DEF sendVars
<1> HIDE DEF SendTypeOK, Goto, Return, GiveUp
<1>21. ASSUME NEW a \in Attempts, CallStep(a) \/ Environment(a) PROVE SendTypeOK'
  BY <1>2, <1>3, <1>4, <1>5, <1>6, <1>7, <1>10, <1>11, <1>12, <1>13, <1>14, <1>15, <1>16, <1>17,
     <1>21 DEF CallStep, Environment
<1>22. ASSUME SendNext PROVE SendTypeOK'
  BY <1>1, <1>8, <1>9, <1>18, <1>19, <1>21, <1>22 DEF SendNext
<1>23. QED
  BY <1>20, <1>22

\* The types hold in every state of the pipeline.
THEOREM SendTypeCorrect == SendSpec => []SendTypeOK
<1>1. SendInit => SendTypeOK
  BY DEF SendInit, SendTypeOK, Stages, Replies, Intents, Entries, NoIntent, NoEntry
<1>2. QED
  BY <1>1, SendTypeStep, PTL DEF SendSpec

-----------------------------------------------------------------------------
(* The inductive invariant.                                                *)

OwningStages == {"reserve", "undo", "gate", "mark", "submit", "finalize", "release"}

\* The report of b's submission says who got the message.
Truth(b) == rejected[b] \subseteq msg[b] => AcceptedBy(b) = msg[b] \ rejected[b]

\* b is the finished call whose submission answers for key k.
Witness(b, k, m, R) ==
  /\ key[b] = k /\ msg[b] = m /\ rejected[b] = R
  /\ intent[k].token = b /\ reply[b] = "ok" /\ Truth(b)

\* Where a call stands tells what it answered, what it can have delivered, and that it
\* holds the unfinished row of its key from its claim to its last statement.
CallInv(a) ==
  /\ AcceptedBy(a) # {} => pc[a] \in {"finalize", "done", "dead"}
  /\ reply[a] # "none" => pc[a] \in {"undo", "release", "done", "dead"}
  /\ reply[a] \in {"ok", "unknown"} => pc[a] = "done"
  /\ reply[a] \in {"refused", "prevented", "busy", "mismatch"} => AcceptedBy(a) = {}
  /\ pc[a] \in {"undo", "release"} => reply[a] \in {"refused", "prevented", "busy"}
  /\ pc[a] = "finalize" => Truth(a)
  /\ pc[a] \in OwningStages =>
       intent[key[a]].token = a /\ intent[key[a]].status \in {"pending", "uncertain"}
  /\ AcceptedBy(a) # {} \/ pc[a] \in {"submit", "finalize"} =>
       intent[key[a]].token = a /\ intent[key[a]].status \in {"uncertain", "completed"}
  /\ reply[a] = "ok" => \E b \in Attempts : Witness(b, key[a], msg[a], rejected[a])

\* A row describes the call whose token it carries, a receipt its reported outcome.
RowInv(k) ==
  /\ intent[k].status = "none" <=> intent[k].token = NoAttempt
  /\ \A b \in Attempts : intent[k].token = b =>
       /\ key[b] = k /\ msg[b] = intent[k].msg
       /\ pc[b] \in OwningStages \cup {"done", "dead"}
       /\ intent[k].status = "completed" => Witness(b, k, intent[k].msg, intent[k].rejected)

EntryInv(k) ==
  cache[k].kind = "receipt" => \E b \in Attempts : Witness(b, k, cache[k].msg, cache[k].rejected)

SendInv ==
  /\ SendTypeOK
  /\ \A a \in Attempts : CallInv(a)
  /\ \A k \in Keys : RowInv(k) /\ EntryInv(k)

-----------------------------------------------------------------------------
(* A step of call a leaves the other calls and their rows alone.           *)

Same(b) ==
  /\ pc'[b] = pc[b] /\ key'[b] = key[b] /\ msg'[b] = msg[b] /\ reply'[b] = reply[b]
  /\ rejected'[b] = rejected[b] /\ AcceptedBy(b)' = AcceptedBy(b)

Frame(a) ==
  /\ pc[a] # "idle" => key'[a] = key[a]
  /\ AcceptedBy(a)' = AcceptedBy(a) \/ (AcceptedBy(a) = {} /\ reply'[a] # "ok")
  /\ pc[a] = "idle" => reply'[a] # "ok"
  /\ \A b \in Attempts : b # a \/ pc[a] = "done" => Same(b)
  /\ \A k \in Keys : intent'[k] # intent[k] =>
       /\ k = key'[a] /\ intent[k].token \in {a, NoAttempt}
       /\ intent'[k].token \in {a, NoAttempt}
       /\ pc[a] \in {"done", "dead"} => intent'[k].token = a /\ intent[k].status # "completed"

\* A finished submission keeps answering for its key.
LEMMA WitnessStays ==
  ASSUME SendInv, NEW a \in Attempts, Frame(a),
         NEW b \in Attempts, NEW k \in Keys, NEW m, NEW R, Witness(b, k, m, R)
  PROVE  Witness(b, k, m, R)'
<1>1. pc[b] = "done"
  BY DEF SendInv, CallInv, Witness
<1>2. Same(b)
  BY <1>1 DEF Frame
<1>3. intent'[k].token = b
  BY <1>1 DEF Frame, Witness
<1> QED
  BY <1>2, <1>3 DEF Witness, Same, Truth

\* What a step of call a has to show for the invariant to hold after it.
LEMMA Framed ==
  ASSUME SendInv, SendTypeOK', NEW a \in Attempts, Frame(a),
         CallInv(a)',
         \A k \in Keys : intent'[k] # intent[k] \/ intent[k].token = a => RowInv(k)',
         \A k \in Keys : cache'[k].kind = "receipt" => cache'[k] = cache[k] \/ EntryInv(k)'
  PROVE  SendInv'
<1>1. ASSUME NEW b \in Attempts, b # a PROVE CallInv(b)'
  <2>1. Same(b) /\ CallInv(b) /\ b # NoAttempt
    BY <1>1 DEF Frame, SendInv
  <2>2. pc[b] # "idle" => key[b] \in Keys
    BY DEF SendInv, SendTypeOK
  <2>3. key[b] \in Keys /\ intent[key[b]].token = b => intent'[key[b]] = intent[key[b]]
    BY <1>1, <2>1 DEF Frame
  <2>4. reply[b] = "ok" => (\E c \in Attempts : Witness(c, key[b], msg[b], rejected[b]))'
    <3> SUFFICES ASSUME reply[b] = "ok" PROVE (\E c \in Attempts : Witness(c, key[b], msg[b], rejected[b]))'
      OBVIOUS
    <3>1. PICK c \in Attempts : Witness(c, key[b], msg[b], rejected[b])
      BY <2>1 DEF CallInv
    <3>2. key[b] \in Keys
      BY <2>1, <2>2 DEF CallInv
    <3>3. Witness(c, key[b], msg[b], rejected[b])'
      BY <3>1, <3>2, <2>1, WitnessStays DEF Same, Witness, Truth
    <3> QED
      BY <3>3
  <2> QED
    BY <2>1, <2>2, <2>3, <2>4 DEF CallInv, Same, Truth, OwningStages
<1>2. ASSUME NEW k \in Keys PROVE RowInv(k)'
  <2>1. CASE intent'[k] # intent[k] \/ intent[k].token = a
    BY <2>1
  <2>2. CASE intent'[k] = intent[k] /\ intent[k].token # a
    <3>1. RowInv(k)
      BY DEF SendInv
    <3>2. ASSUME NEW b \in Attempts, intent[k].token = b PROVE Same(b)
      BY <3>2, <2>2 DEF Frame
    <3> QED
      BY <3>1, <3>2, <2>2 DEF RowInv, Same, Witness, Truth
  <2> QED
    BY <2>1, <2>2
<1>3. ASSUME NEW k \in Keys PROVE EntryInv(k)'
  <2> SUFFICES ASSUME cache'[k].kind = "receipt", cache'[k] = cache[k]
               PROVE  (\E b \in Attempts : Witness(b, k, cache[k].msg, cache[k].rejected))'
    BY DEF EntryInv
  <2>1. PICK b \in Attempts : Witness(b, k, cache[k].msg, cache[k].rejected)
    BY DEF SendInv, EntryInv
  <2>2. Witness(b, k, cache[k].msg, cache[k].rejected)'
    BY <2>1, WitnessStays DEF Witness, Truth
  <2> QED
    BY <2>2
<1> QED
  BY <1>1, <1>2, <1>3 DEF SendInv

-----------------------------------------------------------------------------
(* The steps, one lemma each.                                              *)

\* Beginning a call preserves the invariant.
LEMMA StartStep ==
  ASSUME SendInv, SendTypeOK', NEW a \in Attempts, NEW k \in Keys, NEW m \in Messages, Start(a, k, m)
  PROVE  SendInv' /\ Frame(a)
<1> USE DEF Goto, Return, GiveUp
<1>1. SendTypeOK /\ CallInv(a)
  BY DEF SendInv
<1>2. key'[a] = k /\ reply'[a] = reply[a]
  BY <1>1 DEF Start, SendTypeOK
<1>3. AcceptedBy(a)' = AcceptedBy(a)
  BY DEF Start, AcceptedBy
<1>4. Frame(a)
  BY <1>1, <1>2, <1>3 DEF Start, Frame, Same, AcceptedBy, CallInv, RowInv, OwningStages, SendTypeOK, Intents
<1>5. reply'[a] = "ok" => (\E b \in Attempts : Witness(b, key[a], msg[a], rejected[a]))'
  BY <1>1, <1>2 DEF Start, CallInv, SendTypeOK
<1>6. CallInv(a)'
  BY <1>1, <1>2, <1>3, <1>5 DEF Start, CallInv, RowInv, Truth, OwningStages, SendTypeOK, Intents
<1>7. ASSUME NEW k2 \in Keys, intent'[k2] # intent[k2] \/ intent[k2].token = a PROVE RowInv(k2)'
  BY <1>1, <1>7 DEF SendInv, Start, CallInv, RowInv, Witness, Truth, AcceptedBy, OwningStages, SendTypeOK, Intents
<1>8. ASSUME NEW k2 \in Keys, cache'[k2].kind = "receipt" PROVE cache'[k2] = cache[k2] \/ EntryInv(k2)'
  BY <1>1, <1>8 DEF Start, CallInv, EntryInv, Witness, Truth, AcceptedBy, SendTypeOK, Entries
<1> QED
  BY <1>4, <1>6, <1>7, <1>8, Framed

\* The Redis lookup preserves the invariant.
LEMMA LookUpStep ==
  ASSUME SendInv, SendTypeOK', NEW a \in Attempts, LookUp(a)
  PROVE  SendInv' /\ Frame(a)
<1> USE DEF Goto, Return, GiveUp
<1>1. SendTypeOK /\ CallInv(a)
  BY DEF SendInv
<1>2. key[a] \in Keys /\ key'[a] = key[a] /\ msg'[a] = msg[a] /\ RowInv(key[a]) /\ EntryInv(key[a])
  BY <1>1 DEF LookUp, Replay, SendInv, SendTypeOK
<1>3. AcceptedBy(a)' = AcceptedBy(a)
  BY DEF LookUp, Replay, AcceptedBy
<1>4. Frame(a)
  BY <1>1, <1>2, <1>3 DEF LookUp, Replay, Frame, Same, AcceptedBy, CallInv, RowInv, OwningStages, SendTypeOK, Intents
<1>5. reply'[a] = "ok" => (\E b \in Attempts : Witness(b, key[a], msg[a], rejected[a]))'
  <2> SUFFICES ASSUME reply'[a] = "ok"
               PROVE  (\E b \in Attempts : Witness(b, key[a], msg[a], rejected[a]))'
    OBVIOUS
  <2>0. /\ cache[key[a]].kind = "receipt"
        /\ cache[key[a]].msg = msg[a] /\ cache[key[a]].rejected = rejected'[a]
    BY <1>1 DEF LookUp, Replay, CallInv, SendTypeOK
  <2>1. PICK b \in Attempts : Witness(b, key[a], cache[key[a]].msg, cache[key[a]].rejected)
    BY <1>1, <1>2, <2>0 DEF EntryInv
  <2>2. Witness(b, key[a], cache[key[a]].msg, cache[key[a]].rejected)'
    BY <1>2, <1>4, <2>1, WitnessStays DEF LookUp, Replay, Witness, Truth
  <2>4. intent' = intent /\ cache' = cache
    BY DEF LookUp
  <2>3. Witness(b, key[a], msg[a], rejected[a])'
    BY <1>2, <2>0, <2>2, <2>4 DEF Witness, Truth, AcceptedBy
  <2> QED
    BY <2>3
<1>6. CallInv(a)'
  BY <1>1, <1>2, <1>3, <1>5 DEF LookUp, Replay, CallInv, RowInv, Truth, OwningStages, SendTypeOK, Intents
<1>7. ASSUME NEW k2 \in Keys, intent'[k2] # intent[k2] \/ intent[k2].token = a PROVE RowInv(k2)'
  BY <1>1, <1>7 DEF SendInv, LookUp, Replay, CallInv, RowInv, Witness, Truth, AcceptedBy, OwningStages, SendTypeOK, Intents
<1>8. ASSUME NEW k2 \in Keys, cache'[k2].kind = "receipt" PROVE cache'[k2] = cache[k2] \/ EntryInv(k2)'
  BY <1>1, <1>8 DEF LookUp, Replay, CallInv, EntryInv, Witness, Truth, AcceptedBy, SendTypeOK, Entries
<1> QED
  BY <1>4, <1>6, <1>7, <1>8, Framed

\* Preparation preserves the invariant.
LEMMA PrepareStep ==
  ASSUME SendInv, SendTypeOK', NEW a \in Attempts, Prepare(a)
  PROVE  SendInv' /\ Frame(a)
<1> USE DEF Goto, Return, GiveUp
<1>1. SendTypeOK /\ CallInv(a)
  BY DEF SendInv
<1>2. key[a] \in Keys /\ key'[a] = key[a] /\ msg'[a] = msg[a] /\ RowInv(key[a]) /\ EntryInv(key[a])
  BY <1>1 DEF Prepare, SendInv, SendTypeOK
<1>3. AcceptedBy(a)' = AcceptedBy(a)
  BY DEF Prepare, AcceptedBy
<1>4. Frame(a)
  BY <1>1, <1>2, <1>3 DEF Prepare, Frame, Same, AcceptedBy, CallInv, RowInv, OwningStages, SendTypeOK, Intents
<1>5. reply'[a] = "ok" => (\E b \in Attempts : Witness(b, key[a], msg[a], rejected[a]))'
  BY <1>1, <1>2 DEF Prepare, CallInv, SendTypeOK
<1>6. CallInv(a)'
  BY <1>1, <1>2, <1>3, <1>5 DEF Prepare, CallInv, RowInv, Truth, OwningStages, SendTypeOK, Intents
<1>7. ASSUME NEW k2 \in Keys, intent'[k2] # intent[k2] \/ intent[k2].token = a PROVE RowInv(k2)'
  BY <1>1, <1>7 DEF SendInv, Prepare, CallInv, RowInv, Witness, Truth, AcceptedBy, OwningStages, SendTypeOK, Intents
<1>8. ASSUME NEW k2 \in Keys, cache'[k2].kind = "receipt" PROVE cache'[k2] = cache[k2] \/ EntryInv(k2)'
  BY <1>1, <1>8 DEF Prepare, CallInv, EntryInv, Witness, Truth, AcceptedBy, SendTypeOK, Entries
<1> QED
  BY <1>4, <1>6, <1>7, <1>8, Framed

\* Claiming the intent preserves the invariant.
LEMMA ClaimIntentStep ==
  ASSUME SendInv, SendTypeOK', NEW a \in Attempts, ClaimIntent(a)
  PROVE  SendInv' /\ Frame(a)
<1> USE DEF Goto, Return, GiveUp
<1>1. SendTypeOK /\ CallInv(a)
  BY DEF SendInv
<1>2. key[a] \in Keys /\ key'[a] = key[a] /\ msg'[a] = msg[a] /\ RowInv(key[a]) /\ EntryInv(key[a])
  BY <1>1 DEF ClaimIntent, Results, Applied, SendInv, SendTypeOK
<1>3. AcceptedBy(a)' = AcceptedBy(a)
  BY DEF ClaimIntent, Results, Applied, AcceptedBy
<1>4. Frame(a)
  BY <1>1, <1>2, <1>3 DEF ClaimIntent, Results, Applied, Frame, Same, AcceptedBy, CallInv, RowInv, OwningStages, SendTypeOK, Intents
<1>5. reply'[a] = "ok" => (\E b \in Attempts : Witness(b, key[a], msg[a], rejected[a]))'
  BY <1>1, <1>2 DEF ClaimIntent, Results, Applied, CallInv, SendTypeOK
<1>6. CallInv(a)'
  BY <1>1, <1>2, <1>3, <1>5 DEF ClaimIntent, Results, Applied, CallInv, RowInv, Truth, OwningStages, SendTypeOK, Intents
<1>7. ASSUME NEW k2 \in Keys, intent'[k2] # intent[k2] \/ intent[k2].token = a PROVE RowInv(k2)'
  BY <1>1, <1>7 DEF SendInv, ClaimIntent, Results, Applied, CallInv, RowInv, Witness, Truth, AcceptedBy, OwningStages, SendTypeOK, Intents
<1>8. ASSUME NEW k2 \in Keys, cache'[k2].kind = "receipt" PROVE cache'[k2] = cache[k2] \/ EntryInv(k2)'
  BY <1>1, <1>8 DEF ClaimIntent, Results, Applied, CallInv, EntryInv, Witness, Truth, AcceptedBy, SendTypeOK, Entries
<1> QED
  BY <1>4, <1>6, <1>7, <1>8, Framed

\* Reading the conflicting intent preserves the invariant.
LEMMA ObserveStep ==
  ASSUME SendInv, SendTypeOK', NEW a \in Attempts, Observe(a)
  PROVE  SendInv' /\ Frame(a)
<1> USE DEF Goto, Return, GiveUp
<1>1. SendTypeOK /\ CallInv(a)
  BY DEF SendInv
<1>2. key[a] \in Keys /\ key'[a] = key[a] /\ msg'[a] = msg[a] /\ RowInv(key[a]) /\ EntryInv(key[a])
  BY <1>1 DEF Observe, Replay, SendInv, SendTypeOK
<1>3. AcceptedBy(a)' = AcceptedBy(a)
  BY DEF Observe, Replay, AcceptedBy
<1>4. Frame(a)
  BY <1>1, <1>2, <1>3 DEF Observe, Replay, Frame, Same, AcceptedBy, CallInv, RowInv, OwningStages, SendTypeOK, Intents
<1>5. reply'[a] = "ok" => (\E b \in Attempts : Witness(b, key[a], msg[a], rejected[a]))'
  <2> SUFFICES ASSUME reply'[a] = "ok"
               PROVE  (\E b \in Attempts : Witness(b, key[a], msg[a], rejected[a]))'
    OBVIOUS
  <2>0. /\ intent[key[a]].status = "completed"
        /\ intent[key[a]].msg = msg[a] /\ intent[key[a]].rejected = rejected'[a]
    BY <1>1 DEF Observe, Replay, CallInv, SendTypeOK
  <2>1. PICK b \in Attempts : Witness(b, key[a], intent[key[a]].msg, intent[key[a]].rejected)
    BY <1>1, <1>2, <2>0 DEF RowInv, SendTypeOK, Intents
  <2>2. Witness(b, key[a], intent[key[a]].msg, intent[key[a]].rejected)'
    BY <1>2, <1>4, <2>1, WitnessStays DEF Observe, Replay, Witness, Truth
  <2>4. intent' = intent /\ cache' = cache
    BY DEF Observe
  <2>3. Witness(b, key[a], msg[a], rejected[a])'
    BY <1>2, <2>0, <2>2, <2>4 DEF Witness, Truth, AcceptedBy
  <2> QED
    BY <2>3
<1>6. CallInv(a)'
  BY <1>1, <1>2, <1>3, <1>5 DEF Observe, Replay, CallInv, RowInv, Truth, OwningStages, SendTypeOK, Intents
<1>7. ASSUME NEW k2 \in Keys, intent'[k2] # intent[k2] \/ intent[k2].token = a PROVE RowInv(k2)'
  BY <1>1, <1>7 DEF SendInv, Observe, Replay, CallInv, RowInv, Witness, Truth, AcceptedBy, OwningStages, SendTypeOK, Intents
<1>8. ASSUME NEW k2 \in Keys, cache'[k2].kind = "receipt" PROVE cache'[k2] = cache[k2] \/ EntryInv(k2)'
  BY <1>1, <1>8 DEF Observe, Replay, CallInv, EntryInv, Witness, Truth, AcceptedBy, SendTypeOK, Entries
<1> QED
  BY <1>4, <1>6, <1>7, <1>8, Framed

\* The Redis reservation preserves the invariant.
LEMMA ReserveStep ==
  ASSUME SendInv, SendTypeOK', NEW a \in Attempts, Reserve(a)
  PROVE  SendInv' /\ Frame(a)
<1> USE DEF Goto, Return, GiveUp
<1>1. SendTypeOK /\ CallInv(a)
  BY DEF SendInv
<1>2. key[a] \in Keys /\ key'[a] = key[a] /\ msg'[a] = msg[a] /\ RowInv(key[a]) /\ EntryInv(key[a])
  BY <1>1 DEF Reserve, Results, Applied, SendInv, SendTypeOK
<1>3. AcceptedBy(a)' = AcceptedBy(a)
  BY DEF Reserve, Results, Applied, AcceptedBy
<1>4. Frame(a)
  BY <1>1, <1>2, <1>3 DEF Reserve, Results, Applied, Frame, Same, AcceptedBy, CallInv, RowInv, OwningStages, SendTypeOK, Intents
<1>5. reply'[a] = "ok" => (\E b \in Attempts : Witness(b, key[a], msg[a], rejected[a]))'
  BY <1>1, <1>2 DEF Reserve, Results, Applied, CallInv, SendTypeOK
<1>6. CallInv(a)'
  BY <1>1, <1>2, <1>3, <1>5 DEF Reserve, Results, Applied, CallInv, RowInv, Truth, OwningStages, SendTypeOK, Intents
<1>7. ASSUME NEW k2 \in Keys, intent'[k2] # intent[k2] \/ intent[k2].token = a PROVE RowInv(k2)'
  BY <1>1, <1>7 DEF SendInv, Reserve, Results, Applied, CallInv, RowInv, Witness, Truth, AcceptedBy, OwningStages, SendTypeOK, Intents
<1>8. ASSUME NEW k2 \in Keys, cache'[k2].kind = "receipt" PROVE cache'[k2] = cache[k2] \/ EntryInv(k2)'
  BY <1>1, <1>8 DEF Reserve, Results, Applied, CallInv, EntryInv, Witness, Truth, AcceptedBy, SendTypeOK, Entries
<1> QED
  BY <1>4, <1>6, <1>7, <1>8, Framed

\* Giving back an intent whose reservation failed preserves the invariant.
LEMMA UndoClaimStep ==
  ASSUME SendInv, SendTypeOK', NEW a \in Attempts, UndoClaim(a)
  PROVE  SendInv' /\ Frame(a)
<1> USE DEF Goto, Return, GiveUp
<1>1. SendTypeOK /\ CallInv(a)
  BY DEF SendInv
<1>2. key[a] \in Keys /\ key'[a] = key[a] /\ msg'[a] = msg[a] /\ RowInv(key[a]) /\ EntryInv(key[a])
  BY <1>1 DEF UndoClaim, NoIntent, SendInv, SendTypeOK
<1>3. AcceptedBy(a)' = AcceptedBy(a)
  BY DEF UndoClaim, NoIntent, AcceptedBy
<1>4. \A k2 \in Keys : intent'[k2] # intent[k2] => k2 = key[a] /\ intent[k2].token = a
  BY <1>1, <1>2, ReleasedRows DEF UndoClaim, NoIntent
<1>5. Frame(a)
  BY <1>1, <1>2, <1>3, <1>4, ReleasedRows DEF UndoClaim, NoIntent, Frame, Same, AcceptedBy, CallInv, RowInv, OwningStages, SendTypeOK, Intents
<1>6. reply'[a] = "ok" => (\E b \in Attempts : Witness(b, key[a], msg[a], rejected[a]))'
  BY <1>1, <1>2 DEF UndoClaim, NoIntent, CallInv, SendTypeOK
<1>7. CallInv(a)'
  BY <1>1, <1>2, <1>3, <1>6, <1>4, ReleasedRows DEF UndoClaim, NoIntent, CallInv, RowInv, Truth, OwningStages, SendTypeOK, Intents
<1>8. ASSUME NEW k2 \in Keys, intent'[k2] # intent[k2] \/ intent[k2].token = a PROVE RowInv(k2)'
  BY <1>1, <1>8, <1>4, ReleasedRows DEF SendInv, UndoClaim, NoIntent, CallInv, RowInv, Witness, Truth, AcceptedBy, OwningStages, SendTypeOK, Intents
<1>9. ASSUME NEW k2 \in Keys, cache'[k2].kind = "receipt" PROVE cache'[k2] = cache[k2] \/ EntryInv(k2)'
  BY <1>1, <1>9 DEF UndoClaim, NoIntent, CallInv, EntryInv, Witness, Truth, AcceptedBy, SendTypeOK, Entries
<1> QED
  BY <1>5, <1>7, <1>8, <1>9, Framed

\* The passed gate preserves the invariant.
LEMMA PassGateStep ==
  ASSUME SendInv, SendTypeOK', NEW a \in Attempts, PassGate(a)
  PROVE  SendInv' /\ Frame(a)
<1> USE DEF Goto, Return, GiveUp
<1>1. SendTypeOK /\ CallInv(a)
  BY DEF SendInv
<1>2. key[a] \in Keys /\ key'[a] = key[a] /\ msg'[a] = msg[a] /\ RowInv(key[a]) /\ EntryInv(key[a])
  BY <1>1 DEF PassGate, SendInv, SendTypeOK
<1>3. AcceptedBy(a)' = AcceptedBy(a)
  BY DEF PassGate, AcceptedBy
<1>4. Frame(a)
  BY <1>1, <1>2, <1>3 DEF PassGate, Frame, Same, AcceptedBy, CallInv, RowInv, OwningStages, SendTypeOK, Intents
<1>5. reply'[a] = "ok" => (\E b \in Attempts : Witness(b, key[a], msg[a], rejected[a]))'
  BY <1>1, <1>2 DEF PassGate, CallInv, SendTypeOK
<1>6. CallInv(a)'
  BY <1>1, <1>2, <1>3, <1>5 DEF PassGate, CallInv, RowInv, Truth, OwningStages, SendTypeOK, Intents
<1>7. ASSUME NEW k2 \in Keys, intent'[k2] # intent[k2] \/ intent[k2].token = a PROVE RowInv(k2)'
  BY <1>1, <1>7 DEF SendInv, PassGate, CallInv, RowInv, Witness, Truth, AcceptedBy, OwningStages, SendTypeOK, Intents
<1>8. ASSUME NEW k2 \in Keys, cache'[k2].kind = "receipt" PROVE cache'[k2] = cache[k2] \/ EntryInv(k2)'
  BY <1>1, <1>8 DEF PassGate, CallInv, EntryInv, Witness, Truth, AcceptedBy, SendTypeOK, Entries
<1> QED
  BY <1>4, <1>6, <1>7, <1>8, Framed

\* The closed gate preserves the invariant.
LEMMA CloseGateStep ==
  ASSUME SendInv, SendTypeOK', NEW a \in Attempts, NEW r \in {"prevented", "refused"}, CloseGate(a, r)
  PROVE  SendInv' /\ Frame(a)
<1> USE DEF Goto, Return, GiveUp
<1>1. SendTypeOK /\ CallInv(a)
  BY DEF SendInv
<1>2. key[a] \in Keys /\ key'[a] = key[a] /\ msg'[a] = msg[a] /\ RowInv(key[a]) /\ EntryInv(key[a])
  BY <1>1 DEF CloseGate, SendInv, SendTypeOK
<1>3. AcceptedBy(a)' = AcceptedBy(a)
  BY DEF CloseGate, AcceptedBy
<1>4. Frame(a)
  BY <1>1, <1>2, <1>3 DEF CloseGate, Frame, Same, AcceptedBy, CallInv, RowInv, OwningStages, SendTypeOK, Intents
<1>5. reply'[a] = "ok" => (\E b \in Attempts : Witness(b, key[a], msg[a], rejected[a]))'
  BY <1>1, <1>2 DEF CloseGate, CallInv, SendTypeOK
<1>6. CallInv(a)'
  BY <1>1, <1>2, <1>3, <1>5 DEF CloseGate, CallInv, RowInv, Truth, OwningStages, SendTypeOK, Intents
<1>7. ASSUME NEW k2 \in Keys, intent'[k2] # intent[k2] \/ intent[k2].token = a PROVE RowInv(k2)'
  BY <1>1, <1>7 DEF SendInv, CloseGate, CallInv, RowInv, Witness, Truth, AcceptedBy, OwningStages, SendTypeOK, Intents
<1>8. ASSUME NEW k2 \in Keys, cache'[k2].kind = "receipt" PROVE cache'[k2] = cache[k2] \/ EntryInv(k2)'
  BY <1>1, <1>8 DEF CloseGate, CallInv, EntryInv, Witness, Truth, AcceptedBy, SendTypeOK, Entries
<1> QED
  BY <1>4, <1>6, <1>7, <1>8, Framed

\* Parking the intent before submission preserves the invariant.
LEMMA MarkUncertainStep ==
  ASSUME SendInv, SendTypeOK', NEW a \in Attempts, MarkUncertain(a)
  PROVE  SendInv' /\ Frame(a)
<1> USE DEF Goto, Return, GiveUp
<1>1. SendTypeOK /\ CallInv(a)
  BY DEF SendInv
<1>2. key[a] \in Keys /\ key'[a] = key[a] /\ msg'[a] = msg[a] /\ RowInv(key[a]) /\ EntryInv(key[a])
  BY <1>1 DEF MarkUncertain, Results, Applied, SendInv, SendTypeOK
<1>3. AcceptedBy(a)' = AcceptedBy(a)
  BY DEF MarkUncertain, Results, Applied, AcceptedBy
<1>4. \A k2 \in Keys : intent'[k2] # intent[k2] =>
        /\ k2 = key[a] /\ intent[k2].token = a /\ intent[k2].status = "pending"
        /\ intent'[k2] = [status |-> "uncertain", token |-> a,
                         msg |-> intent[k2].msg, rejected |-> intent[k2].rejected]
  BY <1>1, <1>2 DEF MarkUncertain, Results, Applied, Parked, Owns, SendTypeOK, Intents
<1>5. pc'[a] = "submit" /\ intent[key[a]].token = a => intent'[key[a]].status # "pending"
  BY <1>1, <1>2 DEF MarkUncertain, Results, Applied, Parked, Owns, SendTypeOK, Intents
<1>6. /\ pc[a] = "mark" /\ UNCHANGED <<key, msg, rejected, cache, accepted>>
      /\ (Goto(a, "submit") /\ UNCHANGED reply) \/ GiveUp(a, "release", "refused")
  BY DEF MarkUncertain
<1>7. Frame(a)
  BY <1>6, <1>1, <1>2, <1>3, <1>4 DEF Frame, Same, AcceptedBy, CallInv, RowInv, OwningStages, SendTypeOK, Intents
<1>8. reply'[a] = "ok" => (\E b \in Attempts : Witness(b, key[a], msg[a], rejected[a]))'
  BY <1>6, <1>1, <1>2 DEF CallInv, SendTypeOK
<1>9. CallInv(a)'
  BY <1>5, <1>6, <1>1, <1>2, <1>3, <1>8, <1>4 DEF CallInv, RowInv, Truth, OwningStages, SendTypeOK, Intents
<1>10. ASSUME NEW k2 \in Keys, intent'[k2] # intent[k2] \/ intent[k2].token = a PROVE RowInv(k2)'
  BY <1>6, <1>1, <1>10, <1>4 DEF SendInv, CallInv, RowInv, Witness, Truth, AcceptedBy, OwningStages, SendTypeOK, Intents
<1>11. ASSUME NEW k2 \in Keys, cache'[k2].kind = "receipt" PROVE cache'[k2] = cache[k2] \/ EntryInv(k2)'
  BY <1>6, <1>1, <1>11 DEF CallInv, EntryInv, Witness, Truth, AcceptedBy, SendTypeOK, Entries
<1> QED
  BY <1>7, <1>9, <1>10, <1>11, Framed

\* An accepted submission preserves the invariant.
LEMMA AcceptsStep ==
  ASSUME SendInv, SendTypeOK', NEW a \in Attempts, NEW A \in SUBSET Recipients, NEW R \in SUBSET Recipients, TransportAccepts(a, A, R)
  PROVE  SendInv' /\ Frame(a)
<1> USE DEF Goto, Return, GiveUp
<1>1. SendTypeOK /\ CallInv(a)
  BY DEF SendInv
<1>2. key[a] \in Keys /\ key'[a] = key[a] /\ msg'[a] = msg[a] /\ RowInv(key[a]) /\ EntryInv(key[a])
  BY <1>1 DEF TransportAccepts, SendInv, SendTypeOK
<1>3. AcceptedBy(a)' = AcceptedBy(a) \cup A
  BY DEF TransportAccepts, AcceptedBy
<1>4. Frame(a)
  BY <1>1, <1>2, <1>3 DEF TransportAccepts, Frame, Same, AcceptedBy, CallInv, RowInv, OwningStages, SendTypeOK, Intents
<1>5. reply'[a] = "ok" => (\E b \in Attempts : Witness(b, key[a], msg[a], rejected[a]))'
  BY <1>1, <1>2 DEF TransportAccepts, CallInv, SendTypeOK
<1>6. CallInv(a)'
  BY <1>1, <1>2, <1>3, <1>5 DEF TransportAccepts, CallInv, RowInv, Truth, OwningStages, SendTypeOK, Intents
<1>7. ASSUME NEW k2 \in Keys, intent'[k2] # intent[k2] \/ intent[k2].token = a PROVE RowInv(k2)'
  BY <1>1, <1>7 DEF SendInv, TransportAccepts, CallInv, RowInv, Witness, Truth, AcceptedBy, OwningStages, SendTypeOK, Intents
<1>8. ASSUME NEW k2 \in Keys, cache'[k2].kind = "receipt" PROVE cache'[k2] = cache[k2] \/ EntryInv(k2)'
  BY <1>1, <1>8 DEF TransportAccepts, CallInv, EntryInv, Witness, Truth, AcceptedBy, SendTypeOK, Entries
<1> QED
  BY <1>4, <1>6, <1>7, <1>8, Framed

\* A refused submission preserves the invariant.
LEMMA RefusesStep ==
  ASSUME SendInv, SendTypeOK', NEW a \in Attempts, TransportRefuses(a)
  PROVE  SendInv' /\ Frame(a)
<1> USE DEF Goto, Return, GiveUp
<1>1. SendTypeOK /\ CallInv(a)
  BY DEF SendInv
<1>2. key[a] \in Keys /\ key'[a] = key[a] /\ msg'[a] = msg[a] /\ RowInv(key[a]) /\ EntryInv(key[a])
  BY <1>1 DEF TransportRefuses, SendInv, SendTypeOK
<1>3. AcceptedBy(a)' = AcceptedBy(a)
  BY DEF TransportRefuses, AcceptedBy
<1>4. Frame(a)
  BY <1>1, <1>2, <1>3 DEF TransportRefuses, Frame, Same, AcceptedBy, CallInv, RowInv, OwningStages, SendTypeOK, Intents
<1>5. reply'[a] = "ok" => (\E b \in Attempts : Witness(b, key[a], msg[a], rejected[a]))'
  BY <1>1, <1>2 DEF TransportRefuses, CallInv, SendTypeOK
<1>6. CallInv(a)'
  BY <1>1, <1>2, <1>3, <1>5 DEF TransportRefuses, CallInv, RowInv, Truth, OwningStages, SendTypeOK, Intents
<1>7. ASSUME NEW k2 \in Keys, intent'[k2] # intent[k2] \/ intent[k2].token = a PROVE RowInv(k2)'
  BY <1>1, <1>7 DEF SendInv, TransportRefuses, CallInv, RowInv, Witness, Truth, AcceptedBy, OwningStages, SendTypeOK, Intents
<1>8. ASSUME NEW k2 \in Keys, cache'[k2].kind = "receipt" PROVE cache'[k2] = cache[k2] \/ EntryInv(k2)'
  BY <1>1, <1>8 DEF TransportRefuses, CallInv, EntryInv, Witness, Truth, AcceptedBy, SendTypeOK, Entries
<1> QED
  BY <1>4, <1>6, <1>7, <1>8, Framed

\* A submission whose answer is lost preserves the invariant.
LEMMA UnknownStep ==
  ASSUME SendInv, SendTypeOK', NEW a \in Attempts, NEW A \in SUBSET Recipients, TransportUnknown(a, A)
  PROVE  SendInv' /\ Frame(a)
<1> USE DEF Goto, Return, GiveUp
<1>1. SendTypeOK /\ CallInv(a)
  BY DEF SendInv
<1>2. key[a] \in Keys /\ key'[a] = key[a] /\ msg'[a] = msg[a] /\ RowInv(key[a]) /\ EntryInv(key[a])
  BY <1>1 DEF TransportUnknown, SendInv, SendTypeOK
<1>3. AcceptedBy(a)' = AcceptedBy(a) \cup A
  BY DEF TransportUnknown, AcceptedBy
<1>4. \A k2 \in Keys : intent'[k2] # intent[k2] =>
        /\ k2 = key[a] /\ intent[k2].token = a /\ intent[k2].status = "pending"
        /\ intent'[k2] = [status |-> "uncertain", token |-> a,
                         msg |-> intent[k2].msg, rejected |-> intent[k2].rejected]
  BY <1>1, <1>2 DEF TransportUnknown, Parked, Owns, SendTypeOK, Intents
<1>5. Frame(a)
  BY <1>1, <1>2, <1>3, <1>4 DEF TransportUnknown, Frame, Same, AcceptedBy, CallInv, RowInv, OwningStages, SendTypeOK, Intents
<1>6. reply'[a] = "ok" => (\E b \in Attempts : Witness(b, key[a], msg[a], rejected[a]))'
  BY <1>1, <1>2 DEF TransportUnknown, CallInv, SendTypeOK
<1>7. CallInv(a)'
  BY <1>1, <1>2, <1>3, <1>6, <1>4 DEF TransportUnknown, CallInv, RowInv, Truth, OwningStages, SendTypeOK, Intents
<1>8. ASSUME NEW k2 \in Keys, intent'[k2] # intent[k2] \/ intent[k2].token = a PROVE RowInv(k2)'
  BY <1>1, <1>8, <1>4 DEF SendInv, TransportUnknown, CallInv, RowInv, Witness, Truth, AcceptedBy, OwningStages, SendTypeOK, Intents
<1>9. ASSUME NEW k2 \in Keys, cache'[k2].kind = "receipt" PROVE cache'[k2] = cache[k2] \/ EntryInv(k2)'
  BY <1>1, <1>9 DEF TransportUnknown, CallInv, EntryInv, Witness, Truth, AcceptedBy, SendTypeOK, Entries
<1> QED
  BY <1>5, <1>7, <1>8, <1>9, Framed

\* Recording the receipt preserves the invariant.
LEMMA FinalizeStep ==
  ASSUME SendInv, SendTypeOK', NEW a \in Attempts, Finalize(a)
  PROVE  SendInv' /\ Frame(a)
<1> USE DEF Goto, Return, GiveUp
<1>1. SendTypeOK /\ CallInv(a)
  BY DEF SendInv
<1>2. key[a] \in Keys /\ key'[a] = key[a] /\ msg'[a] = msg[a] /\ RowInv(key[a]) /\ EntryInv(key[a])
  BY <1>1 DEF Finalize, SendInv, SendTypeOK
<1>3. AcceptedBy(a)' = AcceptedBy(a)
  BY DEF Finalize, AcceptedBy
<1>4. \A k2 \in Keys : intent'[k2] # intent[k2] =>
        /\ k2 = key[a] /\ intent[k2].token = a
        /\ intent[k2].status \in {"pending", "uncertain"}
        /\ \/ intent'[k2] = [status |-> "completed", token |-> a,
                            msg |-> intent[k2].msg, rejected |-> rejected[a]]
           \/ /\ intent[k2].status = "pending"
              /\ intent'[k2] = [status |-> "uncertain", token |-> a,
                               msg |-> intent[k2].msg, rejected |-> intent[k2].rejected]
  BY <1>1, <1>2 DEF Finalize, Completed, Parked, Owns, SendTypeOK, Intents
<1>5. Frame(a)
  BY <1>1, <1>2, <1>3, <1>4 DEF Finalize, Frame, Same, AcceptedBy, CallInv, RowInv, OwningStages, SendTypeOK, Intents
<1>6. reply'[a] = "ok" => (\E b \in Attempts : Witness(b, key[a], msg[a], rejected[a]))'
  BY <1>1, <1>2, <1>3, <1>4 DEF Finalize, CallInv, Witness, Truth, OwningStages, SendTypeOK, Intents
<1>7. CallInv(a)'
  BY <1>1, <1>2, <1>3, <1>6, <1>4 DEF Finalize, CallInv, RowInv, Truth, OwningStages, SendTypeOK, Intents
<1>8. ASSUME NEW k2 \in Keys, intent'[k2] # intent[k2] \/ intent[k2].token = a PROVE RowInv(k2)'
  BY <1>1, <1>8, <1>4 DEF SendInv, Finalize, CallInv, RowInv, Witness, Truth, AcceptedBy, OwningStages, SendTypeOK, Intents
<1>9. ASSUME NEW k2 \in Keys, cache'[k2].kind = "receipt" PROVE cache'[k2] = cache[k2] \/ EntryInv(k2)'
  BY <1>1, <1>9 DEF Finalize, CallInv, EntryInv, Witness, Truth, AcceptedBy, SendTypeOK, Entries
<1> QED
  BY <1>5, <1>7, <1>8, <1>9, Framed

\* Releasing the intent of a message that did not leave preserves the invariant.
LEMMA ReleaseIntentStep ==
  ASSUME SendInv, SendTypeOK', NEW a \in Attempts, ReleaseIntent(a)
  PROVE  SendInv' /\ Frame(a)
<1> USE DEF Goto, Return, GiveUp
<1>1. SendTypeOK /\ CallInv(a)
  BY DEF SendInv
<1>2. key[a] \in Keys /\ key'[a] = key[a] /\ msg'[a] = msg[a] /\ RowInv(key[a]) /\ EntryInv(key[a])
  BY <1>1 DEF ReleaseIntent, NoIntent, NoEntry, SendInv, SendTypeOK
<1>3. AcceptedBy(a)' = AcceptedBy(a)
  BY DEF ReleaseIntent, NoIntent, NoEntry, AcceptedBy
<1>4. \A k2 \in Keys : intent'[k2] # intent[k2] =>
        /\ k2 = key[a] /\ intent[k2].token = a
        /\ \/ intent'[k2] = NoIntent
           \/ /\ intent[k2].status = "pending"
              /\ intent'[k2] = [status |-> "uncertain", token |-> a,
                               msg |-> intent[k2].msg, rejected |-> intent[k2].rejected]
  BY <1>1, <1>2 DEF ReleaseIntent, NoIntent, NoEntry, Released, Parked, Owns, SendTypeOK, Intents
<1>5. Frame(a)
  BY <1>1, <1>2, <1>3, <1>4 DEF ReleaseIntent, NoIntent, NoEntry, Frame, Same, AcceptedBy, CallInv, RowInv, OwningStages, SendTypeOK, Intents
<1>6. reply'[a] = "ok" => (\E b \in Attempts : Witness(b, key[a], msg[a], rejected[a]))'
  BY <1>1, <1>2 DEF ReleaseIntent, NoIntent, NoEntry, CallInv, SendTypeOK
<1>7. CallInv(a)'
  BY <1>1, <1>2, <1>3, <1>6, <1>4 DEF ReleaseIntent, NoIntent, NoEntry, CallInv, RowInv, Truth, OwningStages, SendTypeOK, Intents
<1>8. ASSUME NEW k2 \in Keys, intent'[k2] # intent[k2] \/ intent[k2].token = a PROVE RowInv(k2)'
  BY <1>1, <1>8, <1>4 DEF SendInv, ReleaseIntent, NoIntent, NoEntry, CallInv, RowInv, Witness, Truth, AcceptedBy, OwningStages, SendTypeOK, Intents
<1>9. ASSUME NEW k2 \in Keys, cache'[k2].kind = "receipt" PROVE cache'[k2] = cache[k2] \/ EntryInv(k2)'
  BY <1>1, <1>9 DEF ReleaseIntent, NoIntent, NoEntry, CallInv, EntryInv, Witness, Truth, AcceptedBy, SendTypeOK, Entries
<1> QED
  BY <1>5, <1>7, <1>8, <1>9, Framed

\* Publishing the receipt in Redis preserves the invariant.
LEMMA PublishStep ==
  ASSUME SendInv, SendTypeOK', NEW a \in Attempts, PublishReceipt(a)
  PROVE  SendInv' /\ Frame(a)
<1> USE DEF Goto, Return, GiveUp
<1>1. SendTypeOK /\ CallInv(a)
  BY DEF SendInv
<1>2. key[a] \in Keys /\ key'[a] = key[a] /\ msg'[a] = msg[a] /\ RowInv(key[a]) /\ EntryInv(key[a])
  BY <1>1 DEF PublishReceipt, callVars, Holds, SendInv, SendTypeOK
<1>3. AcceptedBy(a)' = AcceptedBy(a)
  BY DEF PublishReceipt, callVars, Holds, AcceptedBy
<1>4. Frame(a)
  BY <1>1, <1>2, <1>3 DEF PublishReceipt, callVars, Holds, Frame, Same, AcceptedBy, CallInv, RowInv, OwningStages, SendTypeOK, Intents
<1>5. reply'[a] = "ok" => (\E b \in Attempts : Witness(b, key[a], msg[a], rejected[a]))'
  <2> SUFFICES ASSUME reply'[a] = "ok"
               PROVE  (\E b \in Attempts : Witness(b, key[a], msg[a], rejected[a]))'
    OBVIOUS
  <2>1. PICK b \in Attempts : Witness(b, key[a], msg[a], rejected[a])
    BY <1>1 DEF PublishReceipt, callVars, Holds, CallInv
  <2>2. Witness(b, key[a], msg[a], rejected[a])'
    BY <1>2, <1>4, <2>1, WitnessStays DEF PublishReceipt, callVars, Holds, Witness, Truth
  <2> QED
    BY <2>2
<1>6. CallInv(a)'
  BY <1>1, <1>2, <1>3, <1>5 DEF PublishReceipt, callVars, Holds, CallInv, RowInv, Truth, OwningStages, SendTypeOK, Intents
<1>7. ASSUME NEW k2 \in Keys, intent'[k2] # intent[k2] \/ intent[k2].token = a PROVE RowInv(k2)'
  BY <1>1, <1>7 DEF SendInv, PublishReceipt, callVars, Holds, CallInv, RowInv, Witness, Truth, AcceptedBy, OwningStages, SendTypeOK, Intents
<1>8. ASSUME NEW k2 \in Keys, cache'[k2].kind = "receipt" PROVE cache'[k2] = cache[k2] \/ EntryInv(k2)'
  BY <1>1, <1>8 DEF PublishReceipt, callVars, Holds, CallInv, EntryInv, Witness, Truth, AcceptedBy, SendTypeOK, Entries
<1> QED
  BY <1>4, <1>6, <1>7, <1>8, Framed

\* A failed renewal preserves the invariant.
LEMMA SuspectStep ==
  ASSUME SendInv, SendTypeOK', NEW a \in Attempts, LeaseSuspect(a)
  PROVE  SendInv' /\ Frame(a)
<1> USE DEF Goto, Return, GiveUp
<1>1. SendTypeOK /\ CallInv(a)
  BY DEF SendInv
<1>2. key[a] \in Keys /\ key'[a] = key[a] /\ msg'[a] = msg[a] /\ RowInv(key[a]) /\ EntryInv(key[a])
  BY <1>1 DEF LeaseSuspect, callVars, SendInv, SendTypeOK
<1>3. AcceptedBy(a)' = AcceptedBy(a)
  BY DEF LeaseSuspect, callVars, AcceptedBy
<1>4. \A k2 \in Keys : intent'[k2] # intent[k2] =>
        /\ k2 = key[a] /\ intent[k2].token = a /\ intent[k2].status = "pending"
        /\ intent'[k2] = [status |-> "uncertain", token |-> a,
                         msg |-> intent[k2].msg, rejected |-> intent[k2].rejected]
  BY <1>1, <1>2 DEF LeaseSuspect, callVars, Parked, Owns, SendTypeOK, Intents
<1>5. Frame(a)
  BY <1>1, <1>2, <1>3, <1>4 DEF LeaseSuspect, callVars, Frame, Same, AcceptedBy, CallInv, RowInv, OwningStages, SendTypeOK, Intents
<1>6. reply'[a] = "ok" => (\E b \in Attempts : Witness(b, key[a], msg[a], rejected[a]))'
  <2> SUFFICES ASSUME reply'[a] = "ok"
               PROVE  (\E b \in Attempts : Witness(b, key[a], msg[a], rejected[a]))'
    OBVIOUS
  <2>1. PICK b \in Attempts : Witness(b, key[a], msg[a], rejected[a])
    BY <1>1 DEF LeaseSuspect, callVars, CallInv
  <2>2. Witness(b, key[a], msg[a], rejected[a])'
    BY <1>2, <1>5, <2>1, WitnessStays DEF LeaseSuspect, callVars, Witness, Truth
  <2> QED
    BY <2>2
<1>7. CallInv(a)'
  BY <1>1, <1>2, <1>3, <1>6, <1>4 DEF LeaseSuspect, callVars, CallInv, RowInv, Truth, OwningStages, SendTypeOK, Intents
<1>8. ASSUME NEW k2 \in Keys, intent'[k2] # intent[k2] \/ intent[k2].token = a PROVE RowInv(k2)'
  BY <1>1, <1>8, <1>4 DEF SendInv, LeaseSuspect, callVars, CallInv, RowInv, Witness, Truth, AcceptedBy, OwningStages, SendTypeOK, Intents
<1>9. ASSUME NEW k2 \in Keys, cache'[k2].kind = "receipt" PROVE cache'[k2] = cache[k2] \/ EntryInv(k2)'
  BY <1>1, <1>9 DEF LeaseSuspect, callVars, CallInv, EntryInv, Witness, Truth, AcceptedBy, SendTypeOK, Entries
<1> QED
  BY <1>5, <1>7, <1>8, <1>9, Framed

\* A crash preserves the invariant.
LEMMA CrashStep ==
  ASSUME SendInv, SendTypeOK', NEW a \in Attempts, Crash(a)
  PROVE  SendInv' /\ Frame(a)
<1> USE DEF Goto, Return, GiveUp
<1>1. SendTypeOK /\ CallInv(a)
  BY DEF SendInv
<1>2. key[a] \in Keys /\ key'[a] = key[a] /\ msg'[a] = msg[a] /\ RowInv(key[a]) /\ EntryInv(key[a])
  BY <1>1 DEF Crash, SendInv, SendTypeOK
<1>3. AcceptedBy(a)' = AcceptedBy(a)
  BY DEF Crash, AcceptedBy
<1>4. Frame(a)
  BY <1>1, <1>2, <1>3 DEF Crash, Frame, Same, AcceptedBy, CallInv, RowInv, OwningStages, SendTypeOK, Intents
<1>5. reply'[a] = "ok" => (\E b \in Attempts : Witness(b, key[a], msg[a], rejected[a]))'
  BY <1>1, <1>2 DEF Crash, CallInv, SendTypeOK
<1>6. CallInv(a)'
  BY <1>1, <1>2, <1>3, <1>5 DEF Crash, CallInv, RowInv, Truth, OwningStages, SendTypeOK, Intents
<1>7. ASSUME NEW k2 \in Keys, intent'[k2] # intent[k2] \/ intent[k2].token = a PROVE RowInv(k2)'
  BY <1>1, <1>7 DEF SendInv, Crash, CallInv, RowInv, Witness, Truth, AcceptedBy, OwningStages, SendTypeOK, Intents
<1>8. ASSUME NEW k2 \in Keys, cache'[k2].kind = "receipt" PROVE cache'[k2] = cache[k2] \/ EntryInv(k2)'
  BY <1>1, <1>8 DEF Crash, CallInv, EntryInv, Witness, Truth, AcceptedBy, SendTypeOK, Entries
<1> QED
  BY <1>4, <1>6, <1>7, <1>8, Framed

\* An expiring Redis entry preserves the invariant.
LEMMA CacheLostStep ==
  ASSUME SendInv, SendTypeOK', NEW k \in Keys, CacheLost(k)
  PROVE  SendInv'
<1>1. UNCHANGED <<pc, key, msg, reply, rejected, intent, accepted>>
  BY DEF CacheLost, callVars
<1>2. ASSUME NEW k2 \in Keys PROVE EntryInv(k2)'
  <2>1. cache'[k2] = cache[k2] \/ cache'[k2].kind # "receipt"
    BY DEF CacheLost, NoEntry, SendInv, SendTypeOK
  <2> QED
    BY <1>1, <2>1 DEF SendInv, EntryInv, Witness, Truth, AcceptedBy
<1>3. \A a \in Attempts : CallInv(a)'
  BY <1>1 DEF SendInv, CallInv, Witness, Truth, AcceptedBy
<1>4. \A k2 \in Keys : RowInv(k2)'
  BY <1>1 DEF SendInv, RowInv, Witness, Truth, AcceptedBy
<1> QED
  BY <1>2, <1>3, <1>4 DEF SendInv

-----------------------------------------------------------------------------
(* The theorems.                                                           *)

\* Every step of the pipeline, or of anything that uses it, preserves the invariant.
LEMMA SendInvStep == SendInv /\ [SendNext]_sendVars => SendInv'
<1> SUFFICES ASSUME SendInv, [SendNext]_sendVars PROVE SendInv'
  OBVIOUS
<1>1. SendTypeOK'
  BY SendTypeStep DEF SendInv
<1>2. CASE UNCHANGED sendVars
  BY <1>2, <1>1 DEF sendVars, SendInv, CallInv, RowInv, EntryInv, Witness, Truth, AcceptedBy
<1>3. CASE SendNext
  BY <1>1, <1>3, StartStep, LookUpStep, PrepareStep, ClaimIntentStep, ObserveStep, ReserveStep,
     UndoClaimStep, PassGateStep, CloseGateStep, MarkUncertainStep, AcceptsStep, RefusesStep,
     UnknownStep, FinalizeStep, ReleaseIntentStep, PublishStep, SuspectStep, CrashStep,
     CacheLostStep
     DEF SendNext, CallStep, Environment
<1> QED
  BY <1>2, <1>3

\* Nothing has happened in the initial state.
LEMMA SendInvInit == SendInit => SendInv
BY DEF SendInit, SendInv, SendTypeOK, CallInv, RowInv, EntryInv, AcceptedBy, OwningStages,
       Stages, Replies, Intents, Entries, NoIntent, NoEntry

\* The inductive invariant holds in every state of the pipeline.
THEOREM SendInvariant == SendSpec => []SendInv
BY SendInvInit, SendInvStep, PTL DEF SendSpec

\* What the invariant says about duplicate deliveries, failures and answers.
LEMMA SendInvImplies ==
  SendInv => AtMostOnce /\ DurableBeforeSubmission /\ FailureMeansUnsent /\ TruthfulReplies
<1> SUFFICES ASSUME SendInv
             PROVE  AtMostOnce /\ DurableBeforeSubmission /\ FailureMeansUnsent /\ TruthfulReplies
  OBVIOUS
<1>1. DurableBeforeSubmission
  BY DEF SendInv, CallInv, DurableBeforeSubmission
<1>2. AtMostOnce
  <2> SUFFICES ASSUME NEW p \in accepted, NEW q \in accepted, key[p[1]] = key[q[1]]
               PROVE  p[1] = q[1]
    BY DEF AtMostOnce
  <2>1. /\ p[1] \in Attempts /\ p[2] \in Recipients /\ p = <<p[1], p[2]>>
        /\ q[1] \in Attempts /\ q[2] \in Recipients /\ q = <<q[1], q[2]>>
    BY DEF SendInv, SendTypeOK
  <2>2. AcceptedBy(p[1]) # {} /\ AcceptedBy(q[1]) # {}
    BY <2>1 DEF AcceptedBy
  <2> QED
    BY <1>1, <2>1, <2>2 DEF DurableBeforeSubmission
<1>3. FailureMeansUnsent
  BY DEF SendInv, CallInv, FailureMeansUnsent
<1>4. TruthfulReplies
  BY DEF SendInv, CallInv, TruthfulReplies, Witness, Truth
<1> QED
  BY <1>1, <1>2, <1>3, <1>4

\* No idempotency key is ever delivered by two calls.
THEOREM SendAtMostOnce == SendSpec => []AtMostOnce
BY SendInvariant, SendInvImplies, PTL

\* A delivery, or a call at the transport, always has its durable uncertain intent.
THEOREM SendDurable == SendSpec => []DurableBeforeSubmission
BY SendInvariant, SendInvImplies, PTL

\* A definite error is never the answer of a call that delivered something.
THEOREM SendFailureMeansUnsent == SendSpec => []FailureMeansUnsent
BY SendInvariant, SendInvImplies, PTL

\* Success answers, replayed or not, tell the truth about the one submission.
THEOREM SendTruthfulReplies == SendSpec => []TruthfulReplies
BY SendInvariant, SendInvImplies, PTL

\* A step that changes a row changes no completed one.
LEMMA ReceiptStep ==
  SendInv /\ [SendNext]_sendVars =>
    \A k \in Keys : intent[k].status = "completed" => intent'[k] = intent[k]
<1> SUFFICES ASSUME SendInv, [SendNext]_sendVars, NEW k \in Keys, intent[k].status = "completed"
             PROVE  intent'[k] = intent[k]
  OBVIOUS
<1>1. SendTypeOK'
  BY SendTypeStep DEF SendInv
<1>2. ASSUME NEW a \in Attempts, Frame(a) PROVE intent'[k] = intent[k]
  BY <1>2 DEF Frame, SendInv, CallInv, RowInv
<1>3. CASE UNCHANGED sendVars
  BY <1>3 DEF sendVars
<1>4. CASE SendNext
  BY <1>1, <1>2, <1>4, StartStep, LookUpStep, PrepareStep, ClaimIntentStep, ObserveStep,
     ReserveStep, UndoClaimStep, PassGateStep, CloseGateStep, MarkUncertainStep, AcceptsStep,
     RefusesStep, UnknownStep, FinalizeStep, ReleaseIntentStep, PublishStep, SuspectStep,
     CrashStep
     DEF SendNext, CallStep, Environment, CacheLost
<1> QED
  BY <1>3, <1>4

\* A completed receipt never changes again.
THEOREM SendReceiptsImmutable == SendSpec => ReceiptsImmutable
<1>1. SendInv /\ [SendNext]_sendVars =>
        [\A k \in Keys : intent[k].status = "completed" => intent'[k] = intent[k]]_sendVars
  BY ReceiptStep
<1> QED
  BY <1>1, SendInvariant, PTL DEF SendSpec, ReceiptsImmutable

-----------------------------------------------------------------------------
(* The pipeline implements SendOnce.                                       *)

\* Every step of a call is a step of the promise, or changes nothing it speaks of.
LEMMA RefineCall ==
  ASSUME SendInv, SendInv', NEW a \in Attempts, Frame(a)
  PROVE  Promise!Next \/ UNCHANGED Promise!promise
<1> DEFINE k == key'[a]
<1>1. SendTypeOK /\ SendTypeOK' /\ CallInv(a) /\ CallInv(a)'
  BY DEF SendInv
<1>2. ASSUME NEW b \in Attempts, b # a PROVE Same(b)
  BY <1>2 DEF Frame
<1>3. pc[a] = "idle" \/ key'[a] = key[a]
  BY DEF Frame
<1>4. CASE AcceptedBy(a)' = AcceptedBy(a) /\ (reply'[a] = "ok" => reply[a] = "ok")
  <2>1. \A b \in Attempts : AcceptedBy(b)' = AcceptedBy(b)
    BY <1>2, <1>4 DEF Same
  <2>2. AcceptedBy(a) # {} => key'[a] = key[a]
    BY <1>1, <1>3 DEF CallInv
  <2>6. \A b \in Attempts, r \in Recipients : <<b, r>> \in accepted' <=> <<b, r>> \in accepted
    BY <2>1 DEF AcceptedBy
  <2>7. \A b \in Attempts, r \in Recipients : <<b, r>> \in accepted => key'[b] = key[b]
    BY <1>2, <2>2 DEF Same, AcceptedBy
  <2>3. Sent' = Sent
    BY <2>6, <2>7 DEF Sent
  <2>4. \A b \in Attempts : (reply'[b] = "ok" <=> reply[b] = "ok") /\
          (reply[b] = "ok" => key'[b] = key[b] /\ msg'[b] = msg[b] /\ rejected'[b] = rejected[b])
    BY <1>1, <1>2, <1>4 DEF Same, Frame, CallInv
  <2>5. Told' = Told
    BY <2>4 DEF Told
  <2> QED
    BY <2>3, <2>5 DEF Promise!promise
<1>5. CASE AcceptedBy(a)' = AcceptedBy(a) /\ reply'[a] = "ok" /\ reply[a] # "ok"
  <2> DEFINE R == rejected'[a]
  <2>1. /\ pc[a] # "idle" /\ key'[a] = key[a] /\ k \in Keys
        /\ msg'[a] \in SUBSET Recipients /\ R \in SUBSET Recipients
    BY <1>1, <1>3, <1>5 DEF Frame, SendTypeOK, CallInv
  <2>2. \A b \in Attempts, r \in Recipients : <<b, r>> \in accepted' <=> <<b, r>> \in accepted
    BY <1>2, <1>5 DEF Same, AcceptedBy
  <2>3. \A b \in Attempts : key'[b] = key[b]
    BY <1>2, <2>1 DEF Same
  <2>4. Sent' = Sent
    BY <2>2, <2>3 DEF Sent
  <2>5. Told' = [Told EXCEPT ![k] = @ \cup {<<msg'[a], R>>}]
    <3>1. \A b \in Attempts : b # a => (reply'[b] = "ok" <=> reply[b] = "ok") /\
            key'[b] = key[b] /\ msg'[b] = msg[b] /\ rejected'[b] = rejected[b]
      BY <1>2 DEF Same
    <3>2. ASSUME NEW k2 \in Keys, k2 # k PROVE Told'[k2] = Told[k2]
      BY <3>1, <3>2, <1>5 , <2>1 DEF Told
    <3>3. Told'[k] = Told[k] \cup {<<msg'[a], R>>}
      BY <3>1, <1>5, <2>1 DEF Told
    <3> QED
      BY <3>2, <3>3 DEF Told
  <2>6. R \subseteq msg'[a] => Sent[k] = msg'[a] \ R
    <3>1. PICK b \in Attempts : Witness(b, key[a], msg[a], rejected[a])'
      BY <1>1, <1>5 DEF CallInv
    <3>2. /\ R \subseteq msg'[a] => AcceptedBy(b)' = msg'[a] \ R
          /\ key'[b] = k /\ intent'[k].token = b
      BY <3>1 DEF Witness, Truth
    <3>3. \A c \in Attempts : key'[c] = k /\ AcceptedBy(c)' # {} => c = b
      BY <3>2 DEF SendInv, CallInv
    <3>4. Sent'[k] = AcceptedBy(b)'
      BY <3>2, <3>3, <2>1 DEF Sent, AcceptedBy
    <3> QED
      BY <3>2, <3>4, <2>4
  <2>7. Promise!Answer(k, msg'[a], R)
    BY <2>4, <2>5, <2>6 DEF Promise!Answer
  <2> QED
    BY <2>1, <2>7 DEF Promise!Next
<1>6. CASE AcceptedBy(a) = {} /\ AcceptedBy(a)' # {} /\ reply'[a] # "ok"
  <2> DEFINE A == AcceptedBy(a)'
  <2>1. /\ pc'[a] # "idle" /\ k \in Keys /\ A \in SUBSET Recipients
    BY <1>1, <1>6 DEF SendTypeOK, CallInv, AcceptedBy
  <2>2. intent'[k].token = a
    BY <1>1, <1>6 DEF CallInv
  <2>3. \A b \in Attempts : b # a /\ key[b] = k => AcceptedBy(b) = {} /\ reply[b] # "ok"
    <3> SUFFICES ASSUME NEW b \in Attempts, b # a, key[b] = k
                 PROVE  AcceptedBy(b) = {} /\ reply[b] # "ok"
      OBVIOUS
    <3>1. Same(b) /\ CallInv(b)'
      BY <1>2 DEF SendInv
    <3>2. AcceptedBy(b) = {}
      BY <3>1, <2>2 DEF Same, CallInv
    <3>3. ASSUME reply[b] = "ok" PROVE FALSE
      <4>1. PICK c \in Attempts : Witness(c, key[b], msg[b], rejected[b])'
        BY <3>1, <3>3 DEF Same, CallInv
      <4> QED
        BY <4>1, <3>1, <2>2, <1>6 DEF Witness, Same
    <3> QED
      BY <3>2, <3>3
  <2>4. reply[a] # "ok"
    BY <1>1, <1>6 DEF CallInv, Frame, Same
  <2>5. Sent[k] = {} /\ Told[k] = {}
    BY <2>1, <2>3, <2>4, <1>6 DEF Sent, Told, AcceptedBy
  <2>6. Sent' = [Sent EXCEPT ![k] = A]
    <3>1. \A b \in Attempts : b # a => key'[b] = key[b] /\ AcceptedBy(b)' = AcceptedBy(b)
      BY <1>2 DEF Same
    <3>2. ASSUME NEW k2 \in Keys, k2 # k PROVE Sent'[k2] = Sent[k2]
      <4>1. \A b \in Attempts, r \in Recipients :
              key'[b] = k2 /\ <<b, r>> \in accepted' <=> key[b] = k2 /\ <<b, r>> \in accepted
        BY <3>1, <3>2, <1>6 DEF AcceptedBy
      <4> QED
        BY <4>1 DEF Sent
    <3>3. Sent'[k] = A
      <4>1. \A b \in Attempts, r \in Recipients :
              key'[b] = k /\ <<b, r>> \in accepted' <=> b = a /\ r \in A
        BY <3>1, <2>3, <1>6 DEF AcceptedBy
      <4> QED
        BY <4>1, <2>1 DEF Sent
    <3> QED
      BY <3>2, <3>3 DEF Sent
  <2>7. Told' = Told
    <3>1. \A b \in Attempts : b # a => (reply'[b] = "ok" <=> reply[b] = "ok") /\
            key'[b] = key[b] /\ msg'[b] = msg[b] /\ rejected'[b] = rejected[b]
      BY <1>2 DEF Same
    <3> QED
      BY <3>1, <1>6, <2>4 DEF Told
  <2>8. Promise!Deliver(k, A)
    BY <2>5, <2>6, <2>7 DEF Promise!Deliver
  <2> QED
    BY <2>1, <2>8 DEF Promise!Next
<1> QED
  BY <1>4, <1>5, <1>6 DEF Frame

\* The same for a step of the whole pipeline.
LEMMA RefineStep == SendInv /\ [SendNext]_sendVars => [Promise!Next]_(Promise!promise)
<1> SUFFICES ASSUME SendInv, [SendNext]_sendVars
             PROVE  Promise!Next \/ UNCHANGED Promise!promise
  OBVIOUS
<1>1. SendTypeOK' /\ SendInv'
  BY SendTypeStep, SendInvStep DEF SendInv
<1>2. CASE UNCHANGED <<key, msg, reply, rejected, accepted>>
  BY <1>2 DEF Sent, Told, Promise!promise
<1>3. CASE SendNext
  BY <1>1, <1>2, <1>3, RefineCall, StartStep, LookUpStep, PrepareStep, ClaimIntentStep,
     ObserveStep, ReserveStep, UndoClaimStep, PassGateStep, CloseGateStep, MarkUncertainStep,
     AcceptsStep, RefusesStep, UnknownStep, FinalizeStep, ReleaseIntentStep, PublishStep,
     SuspectStep, CrashStep
     DEF SendNext, CallStep, Environment, CacheLost, callVars
<1> QED
  BY <1>2, <1>3 DEF sendVars

\* executeSend keeps the promise of SendOnce: one delivery per key, truthful answers.
THEOREM SendRefinesPromise == SendSpec => SendsOnce
<1>1. SendInit => Promise!Init
  BY DEF SendInit, Promise!Init, Sent, Told
<1> QED
  BY <1>1, RefineStep, SendInvariant, PTL DEF SendSpec, SendsOnce, Promise!Spec
=============================================================================

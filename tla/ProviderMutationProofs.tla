----------------------- MODULE ProviderMutationProofs -----------------------
(***************************************************************************)
(* Theorems about the journal of provider writes, for any calls, keys,     *)
(* payloads and kinds of adapter.                                          *)
(*                                                                         *)
(* OneEffect is not inductive.  A call may perform a write that must not   *)
(* happen twice only if the row is new or proves that nothing was applied, *)
(* and that proof is true only because the one call that had performed     *)
(* before wrote it.  Performers collects the calls that may still have, or *)
(* get, an effect; OnceInv says that there is at most one, and none where  *)
(* the row says so.                                                        *)
(***************************************************************************)
EXTENDS ProviderMutation, TLAPS

\* Nothing was ever sent for the call's key on its behalf.
Untouched(c) == c \notin wire /\ \A k \in Keys : <<k, c>> \notin effects

\* The calls that may have an effect on key k, now or later.
Performers(k) ==
  {c \in Calls : key[c] = k /\ pc[c] # "idle" /\ (pc[c] \in {"perform", "await", "record"} \/ ~Untouched(c))}

Proven(row) == row.status = "pending" /\ row.proof = row.generation

\* A claimed row is in flight, unless the flag worker closed it after its lease.
RowInv == \A k \in Keys : op[k].token # NoCall => op[k].status \in {"in_flight", "cancelled"}

\* An effect belongs to the key of its call, and is not on its way again.
EffectInv ==
  \A c \in Calls : \A k \in Keys :
    <<k, c>> \in effects => key[c] = k /\ c \notin wire

\* Where a call stands, what it can have done and what it may have answered.
CallInv ==
  \A c \in Calls :
    /\ pc[c] \in {"idle", "perform", "park", "reconcile"} \/ reply[c] = "reused" => Untouched(c)
    /\ reply[c] # "none" => pc[c] = "done"
    /\ pc[c] # "idle" /\ reply[c] # "reused" =>
         op[key[c]].status # "none" /\ op[key[c]].hash = hash[c]
    /\ pc[c] = "record" => outcome[c] # "none"
    /\ pc[c] = "record" /\ outcome[c] = "committed" => Landed(c)
    /\ reply[c] = "confirmed" => op[key[c]].status = "committed"
    /\ reply[c] = "accepted" => op[key[c]].status = "accepted_pending"

\* A committed operation has had an effect.
ResultInv ==
  \A k \in Keys :
    op[k].status = "committed" => \E who \in Calls \cup {NoCall} : <<k, who>> \in effects

\* A write that must not happen twice: who may have an effect, and what the row and the
\* answers say of it.
OnceAt(k) ==
  /\ op[k].status # "cancelled"
  /\ \A c, d \in Performers(k) : c = d
  /\ op[k].status \in {"none", "failed", "conflict"} \/ Proven(op[k]) =>
       Performers(k) = {} /\ <<k, NoCall>> \notin effects
  /\ <<k, NoCall>> \in effects => Performers(k) = {}
  /\ \A c \in Calls : key[c] = k =>
       /\ pc[c] = "record" /\ outcome[c] \in {"retryable", "permanent", "conflict"} => Untouched(c)
       /\ reply[c] \in {"permanent", "conflict"} => op[k].status \in {"failed", "conflict"}

OnceInv == \A k \in Strict : OnceAt(k)

JournalInv == TypeOK /\ RowInv /\ EffectInv /\ CallInv /\ ResultInv /\ OnceInv
-----------------------------------------------------------------------------
(* Types.                                                                  *)

USE DEF Landed, Unapplied

\* What the journal's statements write is a row.
LEMMA RowTypes ==
  ASSUME TypeOK, NEW k \in Keys
  PROVE  /\ \A c \in Calls, h \in Hashes : InFlight(c, h, 1, {}) \in Rows
         /\ \A c \in Calls, h \in Hashes : InFlight(c, h, op[k].generation + 1, op[k].stages) \in Rows
         /\ \A s \in Statuses : Finished(op[k], s) \in Rows
         /\ Scheduled(op[k]) \in Rows
         /\ \A s \in Statuses : [op[k] EXCEPT !.status = s] \in Rows
         /\ [op[k] EXCEPT !.lease = "expired"] \in Rows
         /\ [op[k] EXCEPT !.retry = "due"] \in Rows
<1>1. op[k] \in Rows
  BY DEF TypeOK
<1>2. /\ op[k].status \in Statuses /\ op[k].hash \in Hashes \cup {NoHash}
      /\ op[k].token \in Calls \cup {NoCall} /\ op[k].generation \in Nat
      /\ op[k].lease \in {"none", "live", "expired"} /\ op[k].retry \in {"none", "later", "due"}
      /\ op[k].proof \in Nat /\ op[k].stages \in SUBSET SplitStages
  BY <1>1 DEF Rows
<1>3. "in_flight" \in Statuses /\ "pending" \in Statuses
  BY DEF Statuses
<1>4. \A c \in Calls, h \in Hashes : InFlight(c, h, 1, {}) \in Rows
  BY <1>3 DEF InFlight, Rows
<1>5. \A c \in Calls, h \in Hashes : InFlight(c, h, op[k].generation + 1, op[k].stages) \in Rows
  BY <1>2, <1>3 DEF InFlight, Rows
<1>6. \A s \in Statuses : Finished(op[k], s) \in Rows
  BY <1>2 DEF Finished, Rows
<1>7. Scheduled(op[k]) \in Rows
  BY <1>2, <1>3 DEF Scheduled, Rows
<1>8. \A s \in Statuses : [op[k] EXCEPT !.status = s] \in Rows
  BY <1>1 DEF Rows
<1>9. [op[k] EXCEPT !.lease = "expired"] \in Rows /\ [op[k] EXCEPT !.retry = "due"] \in Rows
  BY <1>1 DEF Rows
<1> QED
  BY <1>4, <1>5, <1>6, <1>7, <1>8, <1>9

LEMMA JournalTypesStart == Init => TypeOK
<1> SUFFICES ASSUME Init PROVE TypeOK
  OBVIOUS
<1>1. Absent \in Rows /\ \A h \in Hashes : Unmarked(h) \in Rows
  BY DEF Absent, Unmarked, Rows, Statuses
<1>2. op \in [Keys -> Rows]
  BY <1>1 DEF Init
<1> QED
  BY <1>2 DEF Init, TypeOK, Outcomes, Replies

LEMMA BeginTypes ==
  ASSUME TypeOK, NEW c \in Calls, NEW k \in Keys, NEW h \in Hashes, Begin(c, k, h)
  PROVE  TypeOK'
<1>1. CASE BeginFresh(c, k, h)
  <2>1. InFlight(c, h, 1, {}) \in Rows
    BY RowTypes
  <2> QED
    BY <1>1, <2>1 DEF BeginFresh, Enter, Goto, TypeOK
<1>2. CASE BeginReused(c, k, h)
  BY <1>2 DEF BeginReused, Enter, Goto, Answer, TypeOK, Replies
<1>3. CASE BeginReplay(c, k, h)
  <2>1. ReplayStatus(op[k].status) \in Replies
    BY <1>3 DEF BeginReplay, ReplayStatus, Replies, Replayable, Unresolved
  <2> QED
    BY <1>3, <2>1 DEF BeginReplay, Enter, Goto, Answer, TypeOK
<1>4. CASE BeginBusy(c, k, h)
  BY <1>4 DEF BeginBusy, Enter, Goto, Answer, TypeOK, Replies
<1>5. CASE BeginReclaim(c, k, h)
  <2>1. op[k].hash \in Hashes
    BY <1>5 DEF BeginReclaim, AnotherPayload
  <2>2. InFlight(c, op[k].hash, op[k].generation + 1, op[k].stages) \in Rows
    BY <2>1, RowTypes
  <2>3. op[k].generation + 1 \in Nat /\ op[k].stages \in SUBSET SplitStages
    BY DEF TypeOK, Rows
  <2> QED
    BY <1>5, <2>2, <2>3 DEF BeginReclaim, Enter, Goto, TypeOK
<1> QED
  BY <1>1, <1>2, <1>3, <1>4, <1>5 DEF Begin

LEMMA RecordTypes ==
  ASSUME TypeOK, NEW c \in Calls,
         Park(c) \/ RecordRetry(c) \/ RecordOutcome(c) \/ Reconcile(c) \/ Crash(c)
  PROVE  TypeOK'
<1>1. \A k \in Keys :
        /\ \A s \in Statuses : Finished(op[k], s) \in Rows /\ [op[k] EXCEPT !.status = s] \in Rows
        /\ Scheduled(op[k]) \in Rows
  BY RowTypes
<1>2. {"outcome_unknown", "committed"} \subseteq Statuses
  BY DEF Statuses, Replayable, Unresolved
<1>3. CASE Park(c)
  BY <1>1, <1>2, <1>3 DEF Park, Goto, Answer, TypeOK, Replies
<1>4. CASE RecordRetry(c)
  <2>1. pc[c] # "idle" /\ key[c] \in Keys
    BY <1>4 DEF RecordRetry, TypeOK
  <2>2. op' \in [Keys -> Rows]
    BY <1>1, <1>4, <2>1 DEF RecordRetry, TypeOK
  <2> QED
    BY <1>4, <2>1, <2>2 DEF RecordRetry, Goto, Answer, TypeOK, Replies
<1>5. CASE RecordOutcome(c)
  <2>1. outcome[c] \in Outcomes /\ outcome[c] # "retryable"
    BY <1>5 DEF RecordOutcome, TypeOK
  <2>2. JournalStatus(outcome[c]) \in Statuses
    BY <2>1 DEF JournalStatus, Outcomes, Statuses, Replayable, Unresolved
  <2>3. Verdict(outcome[c]) \in Replies
    BY <2>1 DEF Verdict, ReplayStatus, JournalStatus, Outcomes, Replies
  <2>4. pc[c] # "idle" /\ key[c] \in Keys
    BY <1>5 DEF RecordOutcome, TypeOK
  <2>5. op' \in [Keys -> Rows]
    <3>1. Finished(op[key[c]], JournalStatus(outcome[c])) \in Rows
      BY <1>1, <2>2, <2>4
    <3>2. op' = op \/ op' = [op EXCEPT ![key[c]] = Finished(op[key[c]], JournalStatus(outcome[c]))]
      BY <1>5 DEF RecordOutcome
    <3> QED BY <3>1, <3>2 DEF TypeOK
  <2> QED
    BY <1>5, <2>3, <2>4, <2>5 DEF RecordOutcome, Goto, Answer, TypeOK, Replies
<1>6. CASE Reconcile(c)
  <2>1. pc[c] # "idle" /\ key[c] \in Keys
    BY <1>6 DEF Reconcile, TypeOK
  <2> QED
    BY <1>1, <1>2, <1>6, <2>1 DEF Reconcile, ProveDeleted, Goto, Answer, TypeOK, Replies
<1>7. CASE Crash(c)
  BY <1>7 DEF Crash, Goto, TypeOK
<1> QED
  BY <1>3, <1>4, <1>5, <1>6, <1>7

LEMMA KeyTypes ==
  ASSUME TypeOK, NEW k \in Keys, RecoverDeletion(k) \/ CloseFlagWrite(k) \/ LeaseExpires(k) \/ RetryDue(k)
  PROVE  TypeOK'
<1>1. /\ [op[k] EXCEPT !.status = "committed"] \in Rows
      /\ [op[k] EXCEPT !.status = "cancelled"] \in Rows
      /\ [op[k] EXCEPT !.lease = "expired"] \in Rows
      /\ [op[k] EXCEPT !.retry = "due"] \in Rows
  BY DEF TypeOK, Rows, Statuses, Replayable, Unresolved
<1> QED
  BY <1>1 DEF RecoverDeletion, ProveDeleted, CloseFlagWrite, LeaseExpires, RetryDue, callVars, TypeOK

LEMMA WriteTypes ==
  ASSUME TypeOK, CallInv, NEW c \in Calls, NEW o \in Outcomes,
         Dispatch(c) \/ Apply(c) \/ Drop(c) \/ RefuseUnsent(c, o) \/ HearAnswer(c, o)
  PROVE  TypeOK'
<1>1. CASE Apply(c)
  <2>1. pc[c] # "idle" /\ key[c] \in Keys
    BY <1>1 DEF Apply, CallInv, Untouched, TypeOK
  <2> QED
    BY <1>1, <2>1 DEF Apply, callVars, TypeOK
<1>2. CASE Dispatch(c) \/ Drop(c)
  BY <1>2 DEF Dispatch, Drop, callVars, Goto, TypeOK
<1>3. CASE RefuseUnsent(c, o) \/ HearAnswer(c, o)
  BY <1>3 DEF RefuseUnsent, HearAnswer, Report, Goto, TypeOK
<1> QED
  BY <1>1, <1>2, <1>3
-----------------------------------------------------------------------------
(* Rows, effects and calls.                                                *)

BaseInv == TypeOK /\ RowInv /\ EffectInv /\ CallInv /\ ResultInv

\* A row may be replaced while calls and effects stand still, if it keeps its payload
\* and does not lose or invent a result.
LEMMA RowMoves ==
  ASSUME BaseInv, TypeOK', NEW k \in Keys, NEW row \in Rows,
         op' = [op EXCEPT ![k] = row], UNCHANGED <<callVars, wire, effects>>,
         row.status = "none" => op[k].status = "none", row.hash = op[k].hash,
         row.token # NoCall => row.status \in {"in_flight", "cancelled"},
         op[k].status \in Replayable => row.status = op[k].status,
         row.status = "committed" => \E who \in Calls \cup {NoCall} : <<k, who>> \in effects
  PROVE  BaseInv'
<1>1. \A j \in Keys : op'[j] = IF j = k THEN row ELSE op[j]
  BY DEF BaseInv, TypeOK
<1>2. RowInv'
  BY <1>1 DEF BaseInv, RowInv
<1>3. EffectInv'
  BY DEF BaseInv, EffectInv, callVars
<1>4. CallInv'
  <2> SUFFICES ASSUME NEW d \in Calls
               PROVE  /\ pc[d] # "idle" /\ reply[d] # "reused" =>
                           op'[key[d]].status # "none" /\ op'[key[d]].hash = hash[d]
                      /\ reply[d] = "confirmed" => op'[key[d]].status = "committed"
                      /\ reply[d] = "accepted" => op'[key[d]].status = "accepted_pending"
    BY DEF BaseInv, CallInv, callVars, Untouched
  <2>1. /\ pc[d] # "idle" => key[d] \in Keys
        /\ reply[d] # "none" => pc[d] # "idle"
        /\ pc[d] # "idle" /\ reply[d] # "reused" => op[key[d]].status # "none" /\ op[key[d]].hash = hash[d]
        /\ reply[d] = "confirmed" => op[key[d]].status = "committed"
        /\ reply[d] = "accepted" => op[key[d]].status = "accepted_pending"
    BY DEF BaseInv, TypeOK, CallInv
  <2>2. CASE pc[d] = "idle"
    BY <2>1, <2>2
  <2>3. CASE pc[d] # "idle" /\ key[d] # k
    BY <1>1, <2>1, <2>3
  <2>4. CASE pc[d] # "idle" /\ key[d] = k
    BY <1>1, <2>1, <2>4 DEF Replayable
  <2> QED
    BY <2>2, <2>3, <2>4
<1>5. ResultInv'
  BY <1>1 DEF BaseInv, ResultInv
<1> QED
  BY <1>2, <1>3, <1>4, <1>5 DEF BaseInv

LEMMA KeyBase ==
  ASSUME BaseInv, NEW k \in Keys,
         RecoverDeletion(k) \/ CloseFlagWrite(k) \/ LeaseExpires(k) \/ RetryDue(k)
  PROVE  BaseInv'
<1>1. TypeOK'
  BY KeyTypes DEF BaseInv
<1>2. op[k] \in Rows
  BY DEF BaseInv, TypeOK
<1>3. CASE RecoverDeletion(k)
  <2> DEFINE row == [op[k] EXCEPT !.status = "committed"]
  <2>1. /\ row.status = "committed" /\ row.hash = op[k].hash /\ row.token = op[k].token
        /\ op' = [op EXCEPT ![k] = row] /\ row \in Rows
    BY <1>2, <1>3 DEF RecoverDeletion, ProveDeleted, Rows, Statuses, Replayable
  <2>2. op[k].status = "outcome_unknown" /\ \E who \in Calls \cup {NoCall} : <<k, who>> \in effects
    BY <1>3 DEF RecoverDeletion, ProveDeleted
  <2>3. row.token = NoCall
    BY <2>1, <2>2 DEF BaseInv, RowInv
  <2> HIDE DEF row
  <2> QED
    BY <1>1, <1>3, <2>1, <2>2, <2>3, RowMoves DEF RecoverDeletion, Replayable
<1>4. CASE CloseFlagWrite(k)
  <2> DEFINE row == [op[k] EXCEPT !.status = "cancelled"]
  <2>1. /\ row.status = "cancelled" /\ row.hash = op[k].hash /\ row.token = op[k].token
        /\ op' = [op EXCEPT ![k] = row] /\ row \in Rows
    BY <1>2, <1>4 DEF CloseFlagWrite, Rows, Statuses, Unresolved
  <2>2. op[k].status \notin Replayable
    BY <1>4 DEF CloseFlagWrite, Replayable
  <2> HIDE DEF row
  <2> QED
    BY <1>1, <1>4, <2>1, <2>2, RowMoves DEF CloseFlagWrite
<1>5. CASE LeaseExpires(k) \/ RetryDue(k)
  <2>1. PICK row : /\ row = [op[k] EXCEPT !.lease = "expired"] \/ row = [op[k] EXCEPT !.retry = "due"]
                   /\ op' = [op EXCEPT ![k] = row]
    BY <1>5 DEF LeaseExpires, RetryDue
  <2>2. /\ row.status = op[k].status /\ row.hash = op[k].hash /\ row.token = op[k].token
        /\ row \in Rows
    BY <1>2, <2>1 DEF Rows
  <2> QED
    BY <1>1, <1>5, <2>1, <2>2, RowMoves DEF LeaseExpires, RetryDue, BaseInv, RowInv, ResultInv
<1> QED
  BY <1>3, <1>4, <1>5

LEMMA WriteBase ==
  ASSUME BaseInv, NEW c \in Calls, NEW o \in Outcomes,
         Dispatch(c) \/ Apply(c) \/ Drop(c) \/ RefuseUnsent(c, o) \/ HearAnswer(c, o)
  PROVE  BaseInv'
<1>1. TypeOK'
  BY WriteTypes DEF BaseInv
<1>2. op' = op /\ UNCHANGED <<key, hash, reply>>
  BY DEF Dispatch, Apply, Drop, RefuseUnsent, HearAnswer, callVars
<1>3. RowInv'
  BY <1>2 DEF BaseInv, RowInv
<1>4. \A p \in effects : p \in effects'
  BY DEF Dispatch, Apply, Drop, RefuseUnsent, HearAnswer
<1>5. ResultInv'
  BY <1>2, <1>4 DEF BaseInv, ResultInv
<1>6. CASE Dispatch(c)
  <2>1. EffectInv'
    BY <1>6 DEF Dispatch, BaseInv, EffectInv, CallInv, Untouched
  <2>2. CallInv'
    BY <1>2, <1>6 DEF Dispatch, Goto, BaseInv, CallInv, Untouched, TypeOK
  <2> QED
    BY <1>1, <1>3, <1>5, <2>1, <2>2 DEF BaseInv
<1>7. CASE Apply(c)
  <2>1. EffectInv'
    BY <1>2, <1>7 DEF Apply, BaseInv, EffectInv
  <2>2. CallInv'
    BY <1>2, <1>7 DEF Apply, callVars, BaseInv, CallInv, Untouched
  <2> QED
    BY <1>1, <1>3, <1>5, <2>1, <2>2 DEF BaseInv
<1>8. CASE Drop(c)
  <2>1. EffectInv'
    BY <1>2, <1>8 DEF Drop, BaseInv, EffectInv
  <2>2. CallInv'
    BY <1>2, <1>8 DEF Drop, callVars, BaseInv, CallInv, Untouched
  <2> QED
    BY <1>1, <1>3, <1>5, <2>1, <2>2 DEF BaseInv
<1>9. CASE RefuseUnsent(c, o) \/ HearAnswer(c, o)
  <2>1. EffectInv'
    BY <1>2, <1>9 DEF RefuseUnsent, HearAnswer, BaseInv, EffectInv
  <2>2. /\ pc[c] \in {"perform", "await"} /\ pc' = [pc EXCEPT ![c] = "record"]
        /\ outcome' = [outcome EXCEPT ![c] = o]
        /\ UNCHANGED <<wire, effects>>
    BY <1>9 DEF RefuseUnsent, HearAnswer, Report, Goto
  <2>3. o # "none" /\ (o = "committed" => Landed(c))
    BY <1>9 DEF RefuseUnsent, HearAnswer, ServerError
  <2>4. CallInv'
    BY <1>2, <2>2, <2>3 DEF BaseInv, CallInv, Untouched, TypeOK
  <2> QED
    BY <1>1, <1>3, <1>5, <2>1, <2>4 DEF BaseInv
<1> QED
  BY <1>6, <1>7, <1>8, <1>9

\* A call may leave its row in this way, or as it is, and answer.
LEMMA CallMoves ==
  ASSUME BaseInv, TypeOK', NEW c \in Calls, NEW row \in Rows,
         pc[c] \notin {"idle", "done"}, UNCHANGED <<key, hash, outcome, wire, effects>>,
         op' = [op EXCEPT ![key[c]] = row],
         row.status # "none", row.hash = op[key[c]].hash,
         row.token # NoCall => row.status \in {"in_flight", "cancelled"},
         op[key[c]].status \in Replayable => row.status = op[key[c]].status,
         row.status = "committed" => \E who \in Calls \cup {NoCall} : <<key[c], who>> \in effects,
         \A d \in Calls \ {c} : pc'[d] = pc[d] /\ reply'[d] = reply[d],
         \/ pc'[c] = "done" /\ reply'[c] # "reused"
         \/ pc'[c] = "reconcile" /\ pc[c] = "park" /\ reply'[c] = "none"
         \/ pc'[c] = "dead" /\ reply'[c] = "none",
         reply'[c] = "confirmed" => row.status = "committed",
         reply'[c] = "accepted" => row.status = "accepted_pending"
  PROVE  BaseInv'
<1>1. key[c] \in Keys
  BY DEF BaseInv, TypeOK
<1>2. \A j \in Keys : op'[j] = IF j = key[c] THEN row ELSE op[j]
  BY <1>1 DEF BaseInv, TypeOK
<1>3. RowInv'
  BY <1>2 DEF BaseInv, RowInv
<1>4. EffectInv'
  BY DEF BaseInv, EffectInv
<1>5. ResultInv'
  BY <1>2 DEF BaseInv, ResultInv
<1>6. CallInv'
  <2> SUFFICES ASSUME NEW d \in Calls
               PROVE  /\ pc'[d] \in {"idle", "perform", "park", "reconcile"} \/ reply'[d] = "reused" => Untouched(d)'
                      /\ reply'[d] # "none" => pc'[d] = "done"
                      /\ pc'[d] # "idle" /\ reply'[d] # "reused" =>
                           op'[key[d]].status # "none" /\ op'[key[d]].hash = hash[d]
                      /\ pc'[d] = "record" => outcome[d] # "none"
                      /\ pc'[d] = "record" /\ outcome[d] = "committed" => Landed(d)'
                      /\ reply'[d] = "confirmed" => op'[key[d]].status = "committed"
                      /\ reply'[d] = "accepted" => op'[key[d]].status = "accepted_pending"
    BY DEF CallInv
  <2>1. Untouched(d)' <=> Untouched(d)
    BY DEF Untouched
  <2>2. /\ pc[d] \in {"idle", "perform", "park", "reconcile"} \/ reply[d] = "reused" => Untouched(d)
        /\ reply[d] # "none" => pc[d] = "done"
        /\ pc[d] # "idle" /\ reply[d] # "reused" =>
             op[key[d]].status # "none" /\ op[key[d]].hash = hash[d]
        /\ pc[d] = "record" => outcome[d] # "none"
        /\ pc[d] = "record" /\ outcome[d] = "committed" => Landed(d)
        /\ reply[d] = "confirmed" => op[key[d]].status = "committed"
        /\ reply[d] = "accepted" => op[key[d]].status = "accepted_pending"
        /\ pc[d] # "idle" => key[d] \in Keys
    BY DEF BaseInv, CallInv, TypeOK
  <2>3. CASE d = c
    BY <1>1, <1>2, <2>1, <2>2, <2>3
  <2>4. CASE d # c /\ key[d] # key[c]
    BY <1>2, <2>1, <2>2, <2>4
  <2>5. CASE d # c /\ key[d] = key[c]
    BY <1>1, <1>2, <2>1, <2>2, <2>5 DEF Replayable
  <2> QED
    BY <2>3, <2>4, <2>5
<1> QED
  BY <1>3, <1>4, <1>5, <1>6 DEF BaseInv

\* A call that has not answered has a row with its payload, whatever became of its claim.
LEMMA Joined ==
  ASSUME BaseInv, NEW c \in Calls, pc[c] \notin {"idle", "done"}
  PROVE  /\ key[c] \in Keys
         /\ op[key[c]] \in Rows
         /\ op = [op EXCEPT ![key[c]] = op[key[c]]]
         /\ reply[c] = "none"
         /\ op[key[c]].status # "none"
         /\ op[key[c]].hash = hash[c]
         /\ Owns(c) => op[key[c]].status \notin Replayable \cup Unresolved \/ op[key[c]].status = "cancelled"
<1>1. key[c] \in Keys /\ op \in [Keys -> Rows]
  BY DEF BaseInv, TypeOK
<1>2. reply[c] = "none" /\ op[key[c]].status # "none" /\ op[key[c]].hash = hash[c]
  BY DEF BaseInv, CallInv
<1>3. c # NoCall
  BY NobodyAssumption
<1>4. Owns(c) => op[key[c]].status \in {"in_flight", "cancelled"}
  BY <1>1, <1>3 DEF Owns, BaseInv, RowInv
<1> QED
  BY <1>1, <1>2, <1>4 DEF Replayable, Unresolved

LEMMA RecordBase ==
  ASSUME BaseInv, NEW c \in Calls,
         Park(c) \/ RecordRetry(c) \/ RecordOutcome(c) \/ Reconcile(c) \/ Crash(c)
  PROVE  BaseInv'
<1> DEFINE k == key[c]
<1>1. TypeOK'
  BY RecordTypes DEF BaseInv
<1>2. /\ pc[c] \notin {"idle", "done"} /\ pc \in [Calls -> {"idle", "perform", "await", "record", "park", "reconcile", "done", "dead"}]
      /\ reply \in [Calls -> Replies]
      /\ UNCHANGED <<key, hash, outcome, wire, effects>>
  BY DEF Park, RecordRetry, RecordOutcome, Reconcile, Crash, BaseInv, TypeOK
<1>3. /\ k \in Keys /\ op[k] \in Rows /\ op = [op EXCEPT ![k] = op[k]]
      /\ reply[c] = "none" /\ op[k].status # "none" /\ op[k].hash = hash[c]
      /\ Owns(c) => op[k].status \notin Replayable \cup Unresolved \/ op[k].status = "cancelled"
  BY <1>2, Joined
<1>4. /\ op[k].token # NoCall => op[k].status \in {"in_flight", "cancelled"}
      /\ op[k].status = "committed" => \E who \in Calls \cup {NoCall} : <<k, who>> \in effects
  BY <1>3 DEF BaseInv, RowInv, ResultInv
<1>5. ASSUME op' = op,
             \A d \in Calls \ {c} : pc'[d] = pc[d] /\ reply'[d] = reply[d],
             \/ pc'[c] = "done" /\ reply'[c] \notin {"reused", "confirmed", "accepted"}
             \/ pc'[c] = "reconcile" /\ pc[c] = "park" /\ reply'[c] = "none"
             \/ pc'[c] = "dead" /\ reply'[c] = "none"
      PROVE  BaseInv'
  <2> DEFINE row == op[k]
  <2>1. row \in Rows /\ op' = [op EXCEPT ![key[c]] = row]
    BY <1>3, <1>5
  <2> QED
    BY <1>1, <1>2, <1>3, <1>4, <1>5, <2>1, CallMoves
<1>6. CASE Park(c)
  <2>1. /\ \A d \in Calls \ {c} : pc'[d] = pc[d] /\ reply'[d] = reply[d]
        /\ \/ pc'[c] = "done" /\ reply'[c] = "outcome_unknown"
           \/ pc'[c] = "reconcile" /\ pc[c] = "park" /\ reply'[c] = "none"
    BY <1>2, <1>3, <1>6 DEF Park, Goto, Answer
  <2>2. CASE Owns(c)
    <3>1. PICK row : row = Finished(op[k], "outcome_unknown")
      OBVIOUS
    <3>2. row.status = "outcome_unknown" /\ row.hash = op[k].hash /\ row.token = NoCall
      BY <3>1 DEF Finished
    <3>3. row \in Rows
      BY <1>3, <3>1, RowTypes DEF BaseInv, Statuses, Unresolved
    <3>4. op' = [op EXCEPT ![key[c]] = row]
      BY <1>6, <2>2, <3>1 DEF Park
    <3>5. op[k].status \notin Replayable
      BY <1>3, <2>2 DEF Replayable
    <3> QED
      BY <1>1, <1>2, <1>3, <2>1, <3>2, <3>3, <3>4, <3>5, CallMoves
  <2>3. CASE ~Owns(c)
    BY <1>5, <1>6, <2>1, <2>3 DEF Park
  <2> QED
    BY <2>2, <2>3
<1>7. CASE RecordRetry(c)
  <2>1. CASE Owns(c) /\ op[k].status = "in_flight"
    <3>1. PICK row : row = Scheduled(op[k])
      OBVIOUS
    <3>2. row.status = "pending" /\ row.hash = op[k].hash /\ row.token = NoCall
      BY <3>1 DEF Scheduled
    <3>3. row \in Rows
      BY <1>3, <3>1, RowTypes DEF BaseInv
    <3>4. /\ op' = [op EXCEPT ![key[c]] = row]
          /\ \A d \in Calls \ {c} : pc'[d] = pc[d] /\ reply'[d] = reply[d]
          /\ pc'[c] = "done" /\ reply'[c] = "retryable"
      BY <1>2, <1>7, <2>1, <3>1 DEF RecordRetry, Goto, Answer
    <3> QED
      BY <1>1, <1>2, <1>3, <2>1, <3>2, <3>3, <3>4, CallMoves DEF Replayable
  <2>2. CASE ~(Owns(c) /\ op[k].status = "in_flight")
    <3>1. /\ op' = op
          /\ \A d \in Calls \ {c} : pc'[d] = pc[d] /\ reply'[d] = reply[d]
          /\ pc'[c] = "done" /\ reply'[c] = "outcome_unknown"
      BY <1>2, <1>7, <2>2 DEF RecordRetry, Goto, Answer
    <3> QED
      BY <1>5, <3>1
  <2> QED
    BY <2>1, <2>2
<1>8. CASE RecordOutcome(c)
  <2>1. CASE Owns(c)
    <3>1. PICK row : row = Finished(op[k], JournalStatus(outcome[c]))
      OBVIOUS
    <3>2. outcome[c] \in Outcomes \ {"none", "retryable"} /\ (outcome[c] = "committed" => Landed(c))
      BY <1>8 DEF RecordOutcome, BaseInv, CallInv, TypeOK
    <3>3. row.status = JournalStatus(outcome[c]) /\ row.hash = op[k].hash /\ row.token = NoCall
      BY <3>1 DEF Finished
    <3>4. /\ row.status \in Statuses \ {"none"}
          /\ row.status = "committed" => outcome[c] = "committed"
      BY <3>2, <3>3 DEF JournalStatus, Outcomes, Statuses, Replayable, Unresolved
    <3>5. row \in Rows
      BY <1>3, <3>1, <3>3, <3>4, RowTypes DEF BaseInv
    <3>6. /\ op' = [op EXCEPT ![key[c]] = row]
          /\ \A d \in Calls \ {c} : pc'[d] = pc[d] /\ reply'[d] = reply[d]
          /\ pc'[c] = "done" /\ reply'[c] = Verdict(outcome[c])
      BY <1>2, <1>8, <2>1, <3>1 DEF RecordOutcome, Goto, Answer
    <3>7. /\ Verdict(outcome[c]) # "reused"
          /\ Verdict(outcome[c]) = "confirmed" => row.status = "committed"
          /\ Verdict(outcome[c]) = "accepted" => row.status = "accepted_pending"
      BY <3>2, <3>3 DEF Verdict, ReplayStatus, JournalStatus, Outcomes
    <3>8. op[k].status \notin Replayable
      BY <1>3, <2>1 DEF Replayable
    <3>9. row.status = "committed" => \E who \in Calls \cup {NoCall} : <<k, who>> \in effects
      BY <3>2, <3>4
    <3> QED
      BY <1>1, <1>2, <1>3, <3>3, <3>4, <3>5, <3>6, <3>7, <3>8, <3>9, CallMoves
  <2>2. CASE ~Owns(c)
    <3>1. /\ op' = op
          /\ \A d \in Calls \ {c} : pc'[d] = pc[d] /\ reply'[d] = reply[d]
          /\ pc'[c] = "done" /\ reply'[c] = "outcome_unknown"
      BY <1>2, <1>8, <2>2 DEF RecordOutcome, Goto, Answer
    <3> QED
      BY <1>5, <3>1
  <2> QED
    BY <2>1, <2>2
<1>9. CASE Reconcile(c)
  <2>1. CASE ProveDeleted(k) /\ Answer(c, "confirmed")
    <3>1. PICK row : row = [op[k] EXCEPT !.status = "committed"]
      OBVIOUS
    <3>2. row.status = "committed" /\ row.hash = op[k].hash /\ row.token = op[k].token /\ row \in Rows
      BY <1>3, <3>1 DEF Rows, Statuses, Replayable
    <3>3. /\ op[k].status = "outcome_unknown"
          /\ \E who \in Calls \cup {NoCall} : <<k, who>> \in effects
          /\ op' = [op EXCEPT ![key[c]] = row]
      BY <1>3, <2>1, <3>1 DEF ProveDeleted
    <3>4. row.token = NoCall
      BY <1>4, <3>2, <3>3
    <3>5. /\ \A d \in Calls \ {c} : pc'[d] = pc[d] /\ reply'[d] = reply[d]
          /\ pc'[c] = "done" /\ reply'[c] = "confirmed"
      BY <1>2, <2>1 DEF Goto, Answer
    <3> QED
      BY <1>1, <1>2, <1>3, <3>2, <3>3, <3>4, <3>5, CallMoves DEF Replayable
  <2>2. CASE op' = op /\ Answer(c, "outcome_unknown")
    <3>1. /\ \A d \in Calls \ {c} : pc'[d] = pc[d] /\ reply'[d] = reply[d]
          /\ pc'[c] = "done" /\ reply'[c] = "outcome_unknown"
      BY <1>2, <2>2 DEF Goto, Answer
    <3> QED
      BY <1>5, <2>2, <3>1
  <2> QED
    BY <1>9, <2>1, <2>2 DEF Reconcile
<1>10. CASE Crash(c)
  <2>1. /\ op' = op
        /\ \A d \in Calls \ {c} : pc'[d] = pc[d] /\ reply'[d] = reply[d]
        /\ pc'[c] = "dead" /\ reply'[c] = "none"
    BY <1>2, <1>3, <1>10 DEF Crash, Goto
  <2> QED
    BY <1>5, <2>1
<1> QED
  BY <1>6, <1>7, <1>8, <1>9, <1>10

\* What a claim does to the calls: it answers, or takes up its work.
LEMMA BeginFrame ==
  ASSUME BaseInv, NEW c \in Calls, NEW k \in Keys, NEW h \in Hashes, Begin(c, k, h)
  PROVE  /\ pc[c] = "idle" /\ reply[c] = "none" /\ Untouched(c)
         /\ pc' \in [Calls -> {"idle", "perform", "await", "record", "park", "reconcile", "done", "dead"}]
         /\ \A d \in Calls \ {c} : pc'[d] = pc[d] /\ key'[d] = key[d] /\ hash'[d] = hash[d] /\ reply'[d] = reply[d]
         /\ key'[c] = k /\ hash'[c] = h
         /\ UNCHANGED <<outcome, wire, effects>>
<1>1. Enter(c, k, h) /\ UNCHANGED <<outcome, wire, effects>>
  BY DEF Begin, BeginFresh, BeginReused, BeginReplay, BeginBusy, BeginReclaim
<1>2. pc[c] = "idle" /\ reply[c] = "none" /\ Untouched(c)
  BY <1>1 DEF Enter, BaseInv, CallInv
<1>3. /\ key'[c] = k /\ hash'[c] = h
      /\ \A d \in Calls \ {c} : key'[d] = key[d] /\ hash'[d] = hash[d]
  BY <1>1 DEF Enter, BaseInv, TypeOK
<1>4. \E w : pc' = [pc EXCEPT ![c] = w]
  BY DEF Begin, BeginFresh, BeginReused, BeginReplay, BeginBusy, BeginReclaim, Goto, Answer
<1>5. \A d \in Calls \ {c} : pc'[d] = pc[d]
  BY <1>4 DEF BaseInv, TypeOK
<1>6. reply' = reply \/ \E r : reply' = [reply EXCEPT ![c] = r]
  BY DEF Begin, BeginFresh, BeginReused, BeginReplay, BeginBusy, BeginReclaim, Answer
<1>7. \A d \in Calls \ {c} : reply'[d] = reply[d]
  BY <1>6 DEF BaseInv, TypeOK
<1>8. pc' \in [Calls -> {"idle", "perform", "await", "record", "park", "reconcile", "done", "dead"}]
  BY BeginTypes DEF BaseInv, TypeOK
<1> QED
  BY <1>1, <1>2, <1>3, <1>5, <1>7, <1>8

LEMMA BeginBase ==
  ASSUME BaseInv, NEW c \in Calls, NEW k \in Keys, NEW h \in Hashes, Begin(c, k, h)
  PROVE  BaseInv'
<1>1. TypeOK'
  BY BeginTypes DEF BaseInv
<1>2. /\ pc[c] = "idle" /\ reply[c] = "none" /\ Untouched(c)
      /\ pc' \in [Calls -> {"idle", "perform", "await", "record", "park", "reconcile", "done", "dead"}]
      /\ \A d \in Calls \ {c} : pc'[d] = pc[d] /\ key'[d] = key[d] /\ hash'[d] = hash[d] /\ reply'[d] = reply[d]
      /\ key'[c] = k /\ hash'[c] = h
      /\ UNCHANGED <<outcome, wire, effects>>
  BY BeginFrame
<1>3. EffectInv'
  BY <1>2 DEF BaseInv, EffectInv, Untouched
<1>4. \A d \in Calls : Untouched(d)' <=> Untouched(d)
  BY <1>2 DEF Untouched
\* What has to be shown of the row and of the call.
<1>5. ASSUME NEW row \in Rows, op' = [op EXCEPT ![k] = row],
             row.token # NoCall => row.status \in {"in_flight", "cancelled"},
             op[k].status # "none" => row.hash = op[k].hash /\ row.status # "none",
             op[k].status \in Replayable => row.status = op[k].status,
             row.status = "committed" => op[k].status = "committed",
             \/ pc'[c] \in {"perform", "park", "reconcile"} /\ reply'[c] = "none"
             \/ pc'[c] = "done",
             reply'[c] # "reused" => row.status # "none" /\ row.hash = h,
             reply'[c] = "confirmed" => row.status = "committed",
             reply'[c] = "accepted" => row.status = "accepted_pending"
      PROVE  BaseInv'
  <2>1. \A j \in Keys : op'[j] = IF j = k THEN row ELSE op[j]
    BY <1>5 DEF BaseInv, TypeOK
  <2>2. RowInv'
    BY <1>5, <2>1 DEF BaseInv, RowInv
  <2>3. ResultInv'
    <3>1. \A j \in Keys : op'[j].status = "committed" => op[j].status = "committed"
      BY <1>5, <2>1
    <3>2. effects' = effects
      BY <1>2
    <3> QED BY <3>1, <3>2 DEF BaseInv, ResultInv
  <2>4. CallInv'
    <3> SUFFICES ASSUME NEW d \in Calls
                 PROVE  /\ pc'[d] \in {"idle", "perform", "park", "reconcile"} \/ reply'[d] = "reused" => Untouched(d)'
                        /\ reply'[d] # "none" => pc'[d] = "done"
                        /\ pc'[d] # "idle" /\ reply'[d] # "reused" =>
                             op'[key'[d]].status # "none" /\ op'[key'[d]].hash = hash'[d]
                        /\ pc'[d] = "record" => outcome'[d] # "none"
                        /\ pc'[d] = "record" /\ outcome'[d] = "committed" => Landed(d)'
                        /\ reply'[d] = "confirmed" => op'[key'[d]].status = "committed"
                        /\ reply'[d] = "accepted" => op'[key'[d]].status = "accepted_pending"
      BY DEF CallInv
    <3>1. CASE d = c
      BY <1>2, <1>4, <1>5, <2>1, <3>1
    <3>2. CASE d # c
      <4>1. /\ pc[d] \in {"idle", "perform", "park", "reconcile"} \/ reply[d] = "reused" => Untouched(d)
            /\ reply[d] # "none" => pc[d] = "done"
            /\ pc[d] # "idle" /\ reply[d] # "reused" =>
                 op[key[d]].status # "none" /\ op[key[d]].hash = hash[d]
            /\ pc[d] = "record" => outcome[d] # "none"
            /\ pc[d] = "record" /\ outcome[d] = "committed" => Landed(d)
            /\ reply[d] = "confirmed" => op[key[d]].status = "committed"
            /\ reply[d] = "accepted" => op[key[d]].status = "accepted_pending"
            /\ pc[d] # "idle" => key[d] \in Keys
        BY DEF BaseInv, CallInv, TypeOK
      <4>2. CASE key[d] = k
        BY <1>2, <1>4, <1>5, <2>1, <3>2, <4>1, <4>2 DEF Replayable
      <4>3. CASE key[d] # k
        BY <1>2, <1>4, <2>1, <3>2, <4>1, <4>3
      <4> QED
        BY <4>2, <4>3
    <3> QED
      BY <3>1, <3>2
  <2> QED
    BY <1>1, <1>3, <2>2, <2>3, <2>4 DEF BaseInv
<1>6. /\ op[k] \in Rows /\ op = [op EXCEPT ![k] = op[k]]
      /\ op[k].token # NoCall => op[k].status \in {"in_flight", "cancelled"}
  BY DEF BaseInv, TypeOK, RowInv
<1>7. CASE BeginFresh(c, k, h)
  <2>1. PICK row : row = InFlight(c, h, 1, {})
    OBVIOUS
  <2>2. row \in Rows
    BY <2>1, RowTypes DEF BaseInv
  <2>3. row.status = "in_flight" /\ row.hash = h
    BY <2>1 DEF InFlight
  <2>4. /\ op' = [op EXCEPT ![k] = row] /\ op[k].status = "none"
        /\ pc'[c] = "perform" /\ reply'[c] = "none"
    BY <1>2, <1>7, <2>1 DEF BeginFresh, Goto, BaseInv, TypeOK
  <2> QED
    BY <1>5, <2>2, <2>3, <2>4 DEF Replayable
<1>8. CASE BeginReclaim(c, k, h)
  <2>1. PICK row : row = InFlight(c, op[k].hash, op[k].generation + 1, op[k].stages)
    OBVIOUS
  <2>2. op[k].status \in {"in_flight", "pending"} /\ op[k].hash = h
    BY <1>8 DEF BeginReclaim, AnotherPayload
  <2>3. row \in Rows
    BY <2>1, <2>2, RowTypes DEF BaseInv
  <2>4. row.status = "in_flight" /\ row.hash = h
    BY <2>1, <2>2 DEF InFlight
  <2>5. /\ op' = [op EXCEPT ![k] = row]
        /\ pc'[c] \in {"perform", "park"} /\ reply'[c] = "none"
    BY <1>2, <1>8, <2>1 DEF BeginReclaim, Goto, BaseInv, TypeOK
  <2> QED
    BY <1>5, <2>2, <2>3, <2>4, <2>5 DEF Replayable
<1>9. CASE BeginReused(c, k, h)
  <2>1. op' = op /\ pc'[c] = "done" /\ reply'[c] = "reused"
    BY <1>2, <1>9 DEF BeginReused, Goto, Answer, BaseInv, TypeOK
  <2> DEFINE row == op[k]
  <2>2. row \in Rows /\ op' = [op EXCEPT ![k] = row]
    BY <1>6, <2>1
  <2> QED
    BY <1>5, <1>6, <2>1, <2>2
<1>10. CASE BeginReplay(c, k, h)
  <2>1. /\ op' = op /\ op[k].status \in Replayable \cup Unresolved /\ op[k].hash = h
        /\ \/ pc'[c] = "reconcile" /\ reply'[c] = "none"
           \/ pc'[c] = "done" /\ reply'[c] = ReplayStatus(op[k].status)
    BY <1>2, <1>10 DEF BeginReplay, Goto, Answer, AnotherPayload, BaseInv, TypeOK, Replayable, Unresolved
  <2>2. LET r == ReplayStatus(op[k].status)
        IN  /\ r # "reused"
            /\ r = "confirmed" => op[k].status = "committed"
            /\ r = "accepted" => op[k].status = "accepted_pending"
    BY <2>1 DEF ReplayStatus, Replayable, Unresolved
  <2> DEFINE row == op[k]
  <2>3. row \in Rows /\ op' = [op EXCEPT ![k] = row] /\ row.status # "none"
    BY <1>6, <2>1 DEF Replayable, Unresolved
  <2> QED
    BY <1>5, <1>6, <2>1, <2>2, <2>3
<1>11. CASE BeginBusy(c, k, h)
  <2>1. /\ op' = op /\ op[k].status # "none" /\ op[k].hash = h
        /\ pc'[c] = "done" /\ reply'[c] = "pending"
    BY <1>2, <1>11 DEF BeginBusy, Goto, Answer, AnotherPayload, BaseInv, TypeOK
  <2> DEFINE row == op[k]
  <2>2. row \in Rows /\ op' = [op EXCEPT ![k] = row]
    BY <1>6, <2>1
  <2> QED
    BY <1>5, <1>6, <2>1, <2>2
<1> QED
  BY <1>7, <1>8, <1>9, <1>10, <1>11 DEF Begin
-----------------------------------------------------------------------------
(* Writes that must not happen twice.                                      *)

\* Nothing is added to what may have an effect, and the row says nothing new of it.
LEMMA OnceKept ==
  ASSUME NEW k \in Strict, OnceAt(k),
         \A d \in Performers(k)' : d \in Performers(k),
         <<k, NoCall>> \in effects' <=> <<k, NoCall>> \in effects,
         op'[k].status # "cancelled",
         op'[k].status \in {"none", "failed", "conflict"} \/ Proven(op'[k]) =>
           op[k].status \in {"none", "failed", "conflict"} \/ Proven(op[k]),
         \A c \in Calls : key'[c] = k =>
           /\ pc'[c] = "record" /\ outcome'[c] \in {"retryable", "permanent", "conflict"} => Untouched(c)'
           /\ reply'[c] \in {"permanent", "conflict"} => op'[k].status \in {"failed", "conflict"}
  PROVE  OnceAt(k)'
<1>1. Proven(op[k])' <=> Proven(op'[k])
  BY DEF Proven
<1> QED
  BY <1>1 DEF OnceAt

LEMMA KeyOnce ==
  ASSUME BaseInv, OnceInv, NEW j \in Keys,
         RecoverDeletion(j) \/ CloseFlagWrite(j) \/ LeaseExpires(j) \/ RetryDue(j)
  PROVE  OnceInv'
<1> SUFFICES ASSUME NEW k \in Strict PROVE OnceAt(k)'
  BY DEF OnceInv
<1>1. OnceAt(k) /\ k \in Keys /\ k \notin Flags /\ op \in [Keys -> Rows]
  BY KeyAssumption DEF OnceInv, BaseInv, TypeOK
<1>2. UNCHANGED <<pc, key, outcome, reply, wire, effects>>
  BY DEF RecoverDeletion, CloseFlagWrite, LeaseExpires, RetryDue, callVars
<1>3. Performers(k)' = Performers(k) /\ \A c \in Calls : Untouched(c)' <=> Untouched(c)
  BY <1>2 DEF Performers, Untouched
<1>4. \/ /\ op'[k].status = op[k].status /\ op'[k].proof = op[k].proof
         /\ op'[k].generation = op[k].generation
      \/ op[k].status = "outcome_unknown" /\ op'[k].status = "committed"
  <2>1. CASE j # k
    BY <1>1, <2>1 DEF RecoverDeletion, ProveDeleted, CloseFlagWrite, LeaseExpires, RetryDue
  <2>2. CASE j = k
    BY <1>1, <2>2 DEF RecoverDeletion, ProveDeleted, CloseFlagWrite, LeaseExpires, RetryDue, Rows
  <2> QED
    BY <2>1, <2>2
<1>5. /\ op[k].status # "cancelled"
      /\ \A c \in Calls : key[c] = k =>
           /\ pc[c] = "record" /\ outcome[c] \in {"retryable", "permanent", "conflict"} => Untouched(c)
           /\ reply[c] \in {"permanent", "conflict"} => op[k].status \in {"failed", "conflict"}
  BY <1>1 DEF OnceAt
<1>6. /\ op'[k].status # "cancelled"
      /\ op'[k].status \in {"none", "failed", "conflict"} \/ Proven(op'[k]) =>
           op[k].status \in {"none", "failed", "conflict"} \/ Proven(op[k])
  BY <1>4, <1>5 DEF Proven
<1>7. \A c \in Calls : key'[c] = k =>
           /\ pc'[c] = "record" /\ outcome'[c] \in {"retryable", "permanent", "conflict"} => Untouched(c)'
           /\ reply'[c] \in {"permanent", "conflict"} => op'[k].status \in {"failed", "conflict"}
  BY <1>2, <1>3, <1>4, <1>5
<1> QED
  BY <1>1, <1>2, <1>3, <1>6, <1>7, OnceKept

LEMMA WriteOnce ==
  ASSUME BaseInv, OnceInv, NEW c \in Calls, NEW o \in Outcomes,
         Dispatch(c) \/ Apply(c) \/ Drop(c) \/ RefuseUnsent(c, o) \/ HearAnswer(c, o)
  PROVE  OnceInv'
<1> SUFFICES ASSUME NEW k \in Strict PROVE OnceAt(k)'
  BY DEF OnceInv
<1>1. OnceAt(k) /\ k \in Keys /\ pc \in [Calls -> {"idle", "perform", "await", "record", "park", "reconcile", "done", "dead"}]
      /\ outcome \in [Calls -> Outcomes]
  BY KeyAssumption DEF OnceInv, BaseInv, TypeOK
<1>2. op' = op /\ UNCHANGED <<key, reply>>
  BY DEF Dispatch, Apply, Drop, RefuseUnsent, HearAnswer, callVars
<1>3. c # NoCall
  BY NobodyAssumption
<1>4. /\ op[k].status # "cancelled"
      /\ \A d \in Calls : key[d] = k =>
           /\ pc[d] = "record" /\ outcome[d] \in {"retryable", "permanent", "conflict"} => Untouched(d)
           /\ reply[d] \in {"permanent", "conflict"} => op[k].status \in {"failed", "conflict"}
  BY <1>1 DEF OnceAt
<1>5. <<k, NoCall>> \in effects' <=> <<k, NoCall>> \in effects
  BY <1>3 DEF Dispatch, Apply, Drop, RefuseUnsent, HearAnswer
<1>6. ASSUME \A d \in Performers(k)' : d \in Performers(k),
             \A d \in Calls : key[d] = k =>
               (pc'[d] = "record" /\ outcome'[d] \in {"retryable", "permanent", "conflict"} => Untouched(d)')
      PROVE  OnceAt(k)'
  BY <1>1, <1>2, <1>4, <1>5, <1>6, OnceKept
<1>7. CASE Dispatch(c)
  <2>1. \A d \in Performers(k)' : d \in Performers(k)
    BY <1>1, <1>7 DEF Dispatch, Goto, Performers, Untouched
  <2>2. \A d \in Calls : key[d] = k =>
          (pc'[d] = "record" /\ outcome'[d] \in {"retryable", "permanent", "conflict"} => Untouched(d)')
    BY <1>1, <1>4, <1>7 DEF Dispatch, Goto, Untouched
  <2> QED
    BY <1>6, <2>1, <2>2
<1>8. CASE Apply(c)
  <2>1. pc[c] # "idle" /\ ~Untouched(c)
    BY <1>8 DEF Apply, BaseInv, CallInv, Untouched
  <2>2. \A d \in Calls \ {c} : Untouched(d)' <=> Untouched(d)
    BY <1>8 DEF Apply, Untouched
  <2>3. \A d \in Performers(k)' : d \in Performers(k)
    BY <1>2, <1>8, <2>1, <2>2 DEF Apply, callVars, Performers
  <2>4. \A d \in Calls : key[d] = k =>
          (pc'[d] = "record" /\ outcome'[d] \in {"retryable", "permanent", "conflict"} => Untouched(d)')
    BY <1>4, <1>8, <2>1, <2>2 DEF Apply, callVars
  <2> QED
    BY <1>6, <2>3, <2>4
<1>9. CASE Drop(c)
  <2>1. \A d \in Calls : Untouched(d) => Untouched(d)'
    BY <1>9 DEF Drop, Untouched
  <2>2. \A d \in Performers(k)' : d \in Performers(k)
    BY <1>2, <1>9, <2>1 DEF Drop, callVars, Performers
  <2> QED
    BY <1>4, <1>6, <1>9, <2>1, <2>2 DEF Drop, callVars
<1>10. CASE RefuseUnsent(c, o) \/ HearAnswer(c, o)
  <2>1. /\ pc[c] \in {"perform", "await"} /\ pc' = [pc EXCEPT ![c] = "record"]
        /\ outcome' = [outcome EXCEPT ![c] = o]
        /\ UNCHANGED <<wire, effects>>
    BY <1>10 DEF RefuseUnsent, HearAnswer, Report, Goto
  <2>2. \A d \in Calls : Untouched(d)' <=> Untouched(d)
    BY <2>1 DEF Untouched
  <2>3. \A d \in Performers(k)' : d \in Performers(k)
    BY <1>1, <1>2, <2>1, <2>2 DEF Performers
  <2>4. key[c] = k /\ o \in {"retryable", "permanent", "conflict"} => Untouched(c)
    <3>1. CASE RefuseUnsent(c, o)
      BY <3>1 DEF RefuseUnsent, BaseInv, CallInv
    <3>2. CASE HearAnswer(c, o)
      <4> SUFFICES ASSUME key[c] = k, o \in {"retryable", "permanent", "conflict"} PROVE Untouched(c)
        OBVIOUS
      <4>1. Unapplied(c)
        BY <3>2 DEF HearAnswer, ServerError
      <4> QED
        BY <4>1 DEF Untouched, BaseInv, EffectInv
    <3> QED
      BY <1>10, <3>1, <3>2
  <2>5. \A d \in Calls : key[d] = k =>
          (pc'[d] = "record" /\ outcome'[d] \in {"retryable", "permanent", "conflict"} => Untouched(d)')
    BY <1>1, <1>4, <2>1, <2>2, <2>4
  <2> QED
    BY <1>6, <2>3, <2>5
<1> QED
  BY <1>7, <1>8, <1>9, <1>10
LEMMA BeginOnce ==
  ASSUME BaseInv, OnceInv, NEW c \in Calls, NEW k \in Keys, NEW h \in Hashes, Begin(c, k, h)
  PROVE  OnceInv'
<1> SUFFICES ASSUME NEW j \in Strict PROVE OnceAt(j)'
  BY DEF OnceInv
<1>1. OnceAt(j) /\ j \in Keys /\ j \notin Idempotent /\ j \notin Splits /\ op \in [Keys -> Rows]
  BY KeyAssumption DEF OnceInv, BaseInv, TypeOK
<1>2. /\ pc[c] = "idle" /\ reply[c] = "none" /\ Untouched(c)
      /\ \A d \in Calls \ {c} : pc'[d] = pc[d] /\ key'[d] = key[d] /\ reply'[d] = reply[d]
      /\ key'[c] = k
      /\ UNCHANGED <<outcome, wire, effects>>
  BY BeginFrame
<1>3. \A d \in Calls : Untouched(d)' <=> Untouched(d)
  BY <1>2 DEF Untouched
<1>4. \A d \in Calls \ {c} : d \in Performers(j)' <=> d \in Performers(j)
  BY <1>2, <1>3 DEF Performers
<1>5. c \notin Performers(j)
  BY <1>2 DEF Performers
<1>6. pc'[c] \in {"perform", "done", "reconcile", "park"}
  BY DEF Begin, BeginFresh, BeginReused, BeginReplay, BeginBusy, BeginReclaim, Goto, Answer, BaseInv, TypeOK
<1>7. c \in Performers(j)' => j = k /\ pc'[c] = "perform"
  BY <1>2, <1>3, <1>6 DEF Performers
<1>8. /\ op[j].status # "cancelled"
      /\ \A d \in Calls : key[d] = j =>
           /\ pc[d] = "record" /\ outcome[d] \in {"retryable", "permanent", "conflict"} => Untouched(d)
           /\ reply[d] \in {"permanent", "conflict"} => op[j].status \in {"failed", "conflict"}
  BY <1>1 DEF OnceAt
\* A call that does not perform.
<1>9. ASSUME op'[j].status # "cancelled",
             op'[j].status \in {"none", "failed", "conflict"} \/ Proven(op'[j]) =>
               op[j].status \in {"none", "failed", "conflict"} \/ Proven(op[j]),
             op[j].status \in {"failed", "conflict"} => op'[j].status \in {"failed", "conflict"},
             j = k => pc'[c] # "perform",
             j = k /\ reply'[c] \in {"permanent", "conflict"} => op'[j].status \in {"failed", "conflict"}
      PROVE  OnceAt(j)'
  <2>1. \A d \in Performers(j)' : d \in Performers(j)
    BY <1>4, <1>7, <1>9 DEF Performers
  <2>2. \A d \in Calls : key'[d] = j =>
           /\ pc'[d] = "record" /\ outcome'[d] \in {"retryable", "permanent", "conflict"} => Untouched(d)'
           /\ reply'[d] \in {"permanent", "conflict"} => op'[j].status \in {"failed", "conflict"}
    <3> SUFFICES ASSUME NEW d \in Calls, key'[d] = j
                 PROVE  /\ pc'[d] = "record" /\ outcome'[d] \in {"retryable", "permanent", "conflict"} => Untouched(d)'
                        /\ reply'[d] \in {"permanent", "conflict"} => op'[j].status \in {"failed", "conflict"}
      OBVIOUS
    <3>1. CASE d = c
      BY <1>2, <1>6, <1>9, <3>1
    <3>2. CASE d # c
      BY <1>2, <1>3, <1>8, <1>9, <3>2
    <3> QED
      BY <3>1, <3>2
  <2> QED
    BY <1>1, <1>2, <1>9, <2>1, <2>2, OnceKept
\* A call that performs what nobody has performed.
<1>10. ASSUME j = k, op'[j].status = "in_flight", pc'[c] = "perform", reply'[c] = "none",
              op[j].status \in {"none", "failed", "conflict"} \/ Proven(op[j]),
              op[j].status \notin {"failed", "conflict"}
       PROVE  OnceAt(j)'
  <2>1. Performers(j) = {} /\ <<j, NoCall>> \notin effects
    BY <1>1, <1>10 DEF OnceAt
  <2>2. \A d \in Performers(j)' : d = c
    BY <1>4, <2>1 DEF Performers
  <2>3. <<j, NoCall>> \notin effects'
    BY <1>2, <2>1
  <2>4. \A d \in Calls : key'[d] = j =>
           /\ pc'[d] = "record" /\ outcome'[d] \in {"retryable", "permanent", "conflict"} => Untouched(d)'
           /\ reply'[d] \in {"permanent", "conflict"} => op'[j].status \in {"failed", "conflict"}
    BY <1>2, <1>3, <1>8, <1>10
  <2>5. ~(op'[j].status \in {"none", "failed", "conflict"}) /\ ~Proven(op'[j]) /\ ~Proven(op[j])'
    BY <1>10 DEF Proven
  <2> QED
    BY <1>10, <2>2, <2>3, <2>4, <2>5 DEF OnceAt
<1>11. CASE op' = op /\ pc'[c] # "perform"
  <2>1. j = k /\ reply'[c] \in {"permanent", "conflict"} => op[j].status \in {"failed", "conflict"}
    <3>1. CASE BeginReplay(c, k, h)
      <4>1. \/ reply' = reply /\ reply'[c] = "none"
            \/ op[k].status \in Replayable \cup Unresolved /\ reply'[c] = ReplayStatus(op[k].status)
        BY <1>2, <3>1 DEF BeginReplay, Answer, BaseInv, TypeOK
      <4> QED
        BY <1>8, <4>1 DEF ReplayStatus, Replayable, Unresolved
    <3>2. CASE BeginReused(c, k, h) \/ BeginBusy(c, k, h)
      BY <3>2 DEF BeginReused, BeginBusy, Answer, BaseInv, TypeOK
    <3>3. CASE BeginFresh(c, k, h) \/ BeginReclaim(c, k, h)
      BY <1>2, <3>3 DEF BeginFresh, BeginReclaim
    <3> QED
      BY <3>1, <3>2, <3>3 DEF Begin
  <2> QED
    BY <1>8, <1>9, <1>11, <2>1
<1>12. CASE BeginReused(c, k, h) \/ BeginReplay(c, k, h) \/ BeginBusy(c, k, h)
  BY <1>11, <1>12 DEF BeginReused, BeginReplay, BeginBusy, Goto, Answer, BaseInv, TypeOK
<1>13. CASE BeginFresh(c, k, h)
  <2>1. CASE j # k
    BY <1>8, <1>9, <1>13, <2>1, <1>1 DEF BeginFresh
  <2>2. CASE j = k
    <3>1. op'[j] = InFlight(c, h, 1, {}) /\ op[j].status = "none" /\ pc'[c] = "perform" /\ reply'[c] = "none"
      BY <1>1, <1>2, <1>13, <2>2 DEF BeginFresh, Goto, BaseInv, TypeOK
    <3>2. op'[j].status = "in_flight"
      BY <3>1 DEF InFlight
    <3> QED
      BY <1>10, <2>2, <3>1, <3>2
  <2> QED
    BY <2>1, <2>2
<1>14. CASE BeginReclaim(c, k, h)
  <2>1. CASE j # k
    BY <1>8, <1>9, <1>14, <2>1, <1>1 DEF BeginReclaim
  <2>2. CASE j = k
    <3>1. /\ op'[j] = InFlight(c, op[k].hash, op[k].generation + 1, op[k].stages)
          /\ op[j].status \in {"in_flight", "pending"}
          /\ pc'[c] = (IF MayRun(k, op[k]) THEN "perform" ELSE "park") /\ reply'[c] = "none"
      BY <1>1, <1>2, <1>14, <2>2 DEF BeginReclaim, Goto, BaseInv, TypeOK
    <3>2. op'[j].status = "in_flight"
      BY <3>1 DEF InFlight
    <3>3. MayRun(k, op[k]) => Proven(op[j])
      BY <1>1, <2>2 DEF MayRun, SafeRetry, Resumable, Proven
    <3>4. CASE MayRun(k, op[k])
      BY <1>10, <2>2, <3>1, <3>2, <3>3, <3>4
    <3>5. CASE ~MayRun(k, op[k])
      BY <1>9, <2>2, <3>1, <3>2, <3>5 DEF Proven
    <3> QED
      BY <3>4, <3>5
  <2> QED
    BY <2>1, <2>2
<1> QED
  BY <1>12, <1>13, <1>14 DEF Begin
LEMMA RecordOnce ==
  ASSUME BaseInv, OnceInv, NEW c \in Calls,
         Park(c) \/ RecordRetry(c) \/ RecordOutcome(c) \/ Reconcile(c) \/ Crash(c)
  PROVE  OnceInv'
<1> SUFFICES ASSUME NEW j \in Strict PROVE OnceAt(j)'
  BY DEF OnceInv
<1>1. OnceAt(j) /\ j \in Keys /\ op \in [Keys -> Rows] /\ reply \in [Calls -> Replies]
  BY KeyAssumption DEF OnceInv, BaseInv, TypeOK
<1>2. /\ pc[c] \in {"park", "record", "reconcile", "perform", "await"}
      /\ pc'[c] \in {"done", "reconcile", "dead"}
      /\ \A d \in Calls \ {c} : pc'[d] = pc[d] /\ reply'[d] = reply[d]
      /\ UNCHANGED <<key, outcome, wire, effects>>
  BY <1>1 DEF Park, RecordRetry, RecordOutcome, Reconcile, Crash, Goto, Answer, BaseInv, TypeOK
<1>3. \A d \in Calls : Untouched(d)' <=> Untouched(d)
  BY <1>2 DEF Untouched
<1>4. \A d \in Performers(j)' : d \in Performers(j)
  BY <1>2, <1>3 DEF Performers
<1>5. /\ op[j].status # "cancelled"
      /\ \A d \in Calls : key[d] = j =>
           /\ pc[d] = "record" /\ outcome[d] \in {"retryable", "permanent", "conflict"} => Untouched(d)
           /\ reply[d] \in {"permanent", "conflict"} => op[j].status \in {"failed", "conflict"}
  BY <1>1 DEF OnceAt
<1>6. /\ key[c] \in Keys /\ reply[c] = "none"
      /\ Owns(c) /\ key[c] = j => op[j].status \notin Replayable \cup Unresolved
  BY <1>2, <1>5, Joined
\* The row says nothing new of the effects.
<1>7. ASSUME op'[j].status # "cancelled",
             op'[j].status \in {"none", "failed", "conflict"} \/ Proven(op'[j]) =>
               op[j].status \in {"none", "failed", "conflict"} \/ Proven(op[j]),
             op[j].status \in {"failed", "conflict"} => op'[j].status \in {"failed", "conflict"},
             key[c] = j => reply'[c] \notin {"permanent", "conflict"}
      PROVE  OnceAt(j)'
  <2>1. \A d \in Calls : key'[d] = j =>
           /\ pc'[d] = "record" /\ outcome'[d] \in {"retryable", "permanent", "conflict"} => Untouched(d)'
           /\ reply'[d] \in {"permanent", "conflict"} => op'[j].status \in {"failed", "conflict"}
    BY <1>2, <1>3, <1>5, <1>7
  <2> QED
    BY <1>1, <1>2, <1>4, <1>7, <2>1, OnceKept
\* The owner knows that nothing was applied, and says so.
<1>8. ASSUME key[c] = j, pc[c] = "record", pc'[c] = "done", Owns(c),
             outcome[c] \in {"retryable", "permanent", "conflict"},
             op'[j].status \in {"pending", "failed", "conflict"},
             reply'[c] \in {"permanent", "conflict"} => op'[j].status \in {"failed", "conflict"}
      PROVE  OnceAt(j)'
  <2>1. c \in Performers(j) /\ Untouched(c)
    BY <1>5, <1>8 DEF Performers
  <2>2. Performers(j)' = {}
    <3>1. c \notin Performers(j)'
      BY <1>3, <1>8, <2>1 DEF Performers
    <3>2. \A d \in Performers(j) : d = c
      BY <1>1, <2>1 DEF OnceAt
    <3> QED
      BY <1>4, <3>1, <3>2
  <2>3. <<j, NoCall>> \notin effects'
    BY <1>1, <1>2, <2>1 DEF OnceAt
  <2>4. \A d \in Calls : reply[d] \in {"permanent", "conflict"} => key[d] # j
    BY <1>5, <1>6, <1>8 DEF Unresolved
  <2>5. \A d \in Calls : key'[d] = j =>
           /\ pc'[d] = "record" /\ outcome'[d] \in {"retryable", "permanent", "conflict"} => Untouched(d)'
           /\ reply'[d] \in {"permanent", "conflict"} => op'[j].status \in {"failed", "conflict"}
    BY <1>2, <1>3, <1>5, <1>8, <2>4
  <2> QED
    BY <1>8, <2>2, <2>3, <2>5 DEF OnceAt
<1>9. CASE op'[j] = op[j] /\ (key[c] = j => reply'[c] \notin {"permanent", "conflict"})
  BY <1>5, <1>7, <1>9
<1>10. CASE key[c] # j
  <2>1. op'[j] = op[j]
    BY <1>1, <1>10 DEF Park, RecordRetry, RecordOutcome, Reconcile, ProveDeleted, Crash
  <2> QED
    BY <1>9, <1>10, <2>1
<1>11. CASE key[c] = j /\ ~Owns(c) /\ ~Reconcile(c)
  BY <1>1, <1>6, <1>9, <1>11 DEF Park, RecordRetry, RecordOutcome, Crash, Answer
<1>12. CASE Crash(c)
  BY <1>6, <1>9, <1>12 DEF Crash
<1>13. CASE key[c] = j /\ Owns(c) /\ Park(c)
  <2>1. op'[j] = Finished(op[j], "outcome_unknown") /\ reply'[c] \in {"none", "outcome_unknown"}
    BY <1>1, <1>6, <1>13 DEF Park, Answer
  <2>2. op'[j].status = "outcome_unknown"
    BY <2>1 DEF Finished
  <2> QED
    BY <1>6, <1>7, <1>13, <2>1, <2>2 DEF Proven, Unresolved
<1>14. CASE key[c] = j /\ Owns(c) /\ RecordRetry(c)
  <2>1. CASE op[j].status # "in_flight"
    BY <1>1, <1>9, <1>14, <2>1 DEF RecordRetry, Answer
  <2>2. CASE op[j].status = "in_flight"
    <3>1. /\ pc[c] = "record" /\ outcome[c] = "retryable"
          /\ op'[j] = Scheduled(op[j]) /\ reply'[c] = "retryable" /\ pc'[c] = "done"
      BY <1>1, <1>2, <1>14, <2>2 DEF RecordRetry, Goto, Answer, BaseInv, TypeOK
    <3>2. op'[j].status = "pending"
      BY <3>1 DEF Scheduled
    <3> QED
      BY <1>8, <1>14, <3>1, <3>2
  <2> QED
    BY <2>1, <2>2
<1>15. CASE key[c] = j /\ Owns(c) /\ RecordOutcome(c)
  <2>1. /\ pc[c] = "record" /\ pc'[c] = "done"
        /\ op'[j] = Finished(op[j], JournalStatus(outcome[c])) /\ reply'[c] = Verdict(outcome[c])
    BY <1>1, <1>2, <1>15 DEF RecordOutcome, Goto, Answer, BaseInv, TypeOK
  <2>2. op'[j].status = JournalStatus(outcome[c])
    BY <2>1 DEF Finished
  <2>3. outcome[c] \in Outcomes \ {"none", "retryable"}
    BY <1>15 DEF RecordOutcome, BaseInv, CallInv, TypeOK
  <2>4. CASE outcome[c] \in {"permanent", "conflict"}
    BY <1>8, <1>15, <2>1, <2>2, <2>4 DEF JournalStatus
  <2>5. CASE outcome[c] \in {"committed", "accepted_pending", "outcome_unknown"}
    <3>1. op'[j].status \in {"committed", "accepted_pending", "outcome_unknown"}
      BY <2>2, <2>5 DEF JournalStatus
    <3>2. reply'[c] \notin {"permanent", "conflict"}
      BY <2>1, <2>5 DEF Verdict, ReplayStatus, JournalStatus
    <3> QED
      BY <1>6, <1>7, <1>15, <3>1, <3>2 DEF Proven, Unresolved
  <2> QED
    BY <2>3, <2>4, <2>5 DEF Outcomes
<1>16. CASE key[c] = j /\ Reconcile(c)
  <2>1. reply'[c] \in {"confirmed", "outcome_unknown"}
    BY <1>1, <1>16 DEF Reconcile, Answer
  <2>2. CASE op' = op
    BY <1>9, <2>1, <2>2
  <2>3. CASE ProveDeleted(j)
    <3>1. op[j].status = "outcome_unknown" /\ op'[j].status = "committed"
      BY <1>1, <2>3 DEF ProveDeleted, Rows
    <3> QED
      BY <1>7, <2>1, <3>1 DEF Proven
  <2> QED
    BY <1>16, <2>2, <2>3 DEF Reconcile
<1> QED
  BY <1>10, <1>11, <1>12, <1>13, <1>14, <1>15, <1>16
-----------------------------------------------------------------------------
(* The invariant and what it says.                                         *)

LEMMA JournalStart == Init => JournalInv
<1> SUFFICES ASSUME Init PROVE JournalInv
  OBVIOUS
<1>1. TypeOK
  BY JournalTypesStart
<1>2. /\ \A c \in Calls : pc[c] = "idle" /\ reply[c] = "none"
      /\ wire = {}
      /\ \A p \in effects : \E k \in Keys : p = <<k, NoCall>> /\ op[k] # Absent
      /\ \A k \in Keys : op[k] = Absent \/ \E h \in Hashes : op[k] = Unmarked(h)
  BY DEF Init
<1>3. \A k \in Keys : /\ op[k].status \in {"none", "pending"} /\ op[k].token = NoCall
                      /\ op[k].status = "none" => op[k] = Absent
                      /\ op[k].status = "pending" => op[k].proof # op[k].generation
  <2> TAKE k \in Keys
  <2>1. CASE op[k] = Absent
    BY <2>1 DEF Absent
  <2>2. ASSUME NEW h \in Hashes, op[k] = Unmarked(h)
        PROVE  op[k].status = "pending" /\ op[k].token = NoCall /\ op[k].proof = 0 /\ op[k].generation = 1
    BY <2>2 DEF Unmarked
  <2> QED
    BY <1>2, <2>1, <2>2
<1>4. \A c \in Calls, k \in Keys : <<k, c>> \notin effects
  BY <1>2, NobodyAssumption
<1>5. RowInv /\ EffectInv /\ ResultInv
  BY <1>3, <1>4 DEF RowInv, EffectInv, ResultInv
<1>6. CallInv
  BY <1>2, <1>4 DEF CallInv, Untouched
<1>7. OnceInv
  <2> SUFFICES ASSUME NEW k \in Strict PROVE OnceAt(k)
    BY DEF OnceInv
  <2>1. k \in Keys
    BY KeyAssumption
  <2>2. Performers(k) = {}
    BY <1>2 DEF Performers
  <2>3. op[k].status = "none" => <<k, NoCall>> \notin effects
    BY <1>2, <1>3, <2>1
  <2> QED
    BY <1>2, <1>3, <2>1, <2>2, <2>3 DEF OnceAt, Proven
<1> QED
  BY <1>1, <1>5, <1>6, <1>7 DEF JournalInv

LEMMA JournalKept == JournalInv /\ [Next]_journalVars => JournalInv'
<1> SUFFICES ASSUME BaseInv, OnceInv, [Next]_journalVars PROVE BaseInv' /\ OnceInv'
  BY DEF JournalInv, BaseInv
<1>1. ASSUME NEW c \in Calls, NEW k \in Keys, NEW h \in Hashes, Begin(c, k, h)
      PROVE  BaseInv' /\ OnceInv'
  BY <1>1, BeginBase, BeginOnce
<1>2. ASSUME NEW c \in Calls, Park(c) \/ RecordRetry(c) \/ RecordOutcome(c) \/ Reconcile(c) \/ Crash(c)
      PROVE  BaseInv' /\ OnceInv'
  BY <1>2, RecordBase, RecordOnce
<1>3. ASSUME NEW k \in Keys, RecoverDeletion(k) \/ CloseFlagWrite(k) \/ LeaseExpires(k) \/ RetryDue(k)
      PROVE  BaseInv' /\ OnceInv'
  BY <1>3, KeyBase, KeyOnce
<1>4. ASSUME NEW c \in Calls, NEW o \in Outcomes,
             Dispatch(c) \/ Apply(c) \/ Drop(c) \/ RefuseUnsent(c, o) \/ HearAnswer(c, o)
      PROVE  BaseInv' /\ OnceInv'
  BY <1>4, WriteBase, WriteOnce
<1>5. CASE JournalStep
  BY <1>1, <1>2, <1>3, <1>5 DEF JournalStep
<1>6. CASE WriteStep
  <2>1. Outcomes # {}
    BY DEF Outcomes
  <2> QED
    BY <1>4, <1>6, <2>1 DEF WriteStep
<1>7. CASE UNCHANGED journalVars
  <2>1. BaseInv'
    <3>1. TypeOK' /\ RowInv' /\ EffectInv' /\ ResultInv'
      BY <1>7 DEF journalVars, BaseInv, TypeOK, RowInv, EffectInv, ResultInv
    <3>2. CallInv'
      BY <1>7 DEF journalVars, BaseInv, CallInv, Untouched
    <3> QED
      BY <3>1, <3>2 DEF BaseInv
  <2>2. OnceInv'
    BY <1>7 DEF journalVars, OnceInv, OnceAt, Performers, Untouched, Proven
  <2> QED
    BY <2>1, <2>2
<1> QED
  BY <1>2, <1>5, <1>6, <1>7 DEF Next

\* The inductive invariant holds in every state of the journal.
THEOREM JournalInvariant == Spec => []JournalInv
BY JournalStart, JournalKept, PTL DEF Spec

\* Whatever was applied or is on its way has a performer.
LEMMA RequestsPerform ==
  ASSUME JournalInv, NEW k \in Keys, NEW c \in RequestsOf(k)
  PROVE  c \in Performers(k) /\ pc[c] # "idle" /\ reply[c] # "reused"
<1>1. c \in Calls /\ key[c] = k /\ ~Untouched(c)
  BY DEF RequestsOf, Untouched
<1> QED
  BY <1>1 DEF JournalInv, CallInv, Performers

LEMMA JournalImplies ==
  JournalInv => TypeOK /\ OneEffect /\ FailureMeansUnapplied /\ TruthfulReplies /\ OneFingerprint
<1> SUFFICES ASSUME JournalInv
             PROVE  TypeOK /\ OneEffect /\ FailureMeansUnapplied /\ TruthfulReplies /\ OneFingerprint
  OBVIOUS
<1>1. \A k \in Strict : k \in Keys /\ OnceAt(k)
  BY KeyAssumption DEF JournalInv, OnceInv
<1>2. OneEffect
  BY <1>1, RequestsPerform DEF OneEffect, OnceAt
<1>3. FailureMeansUnapplied
  <2> SUFFICES ASSUME NEW k \in Strict, op[k].status \in {"failed", "conflict"} \/ SafeRetry(op[k])
               PROVE  RequestsOf(k) = {}
    BY DEF FailureMeansUnapplied
  <2>1. op[k].status \in {"failed", "conflict"} \/ Proven(op[k])
    BY DEF SafeRetry, Proven
  <2>2. Performers(k) = {}
    BY <1>1, <2>1 DEF OnceAt
  <2> QED
    BY <1>1, <2>2, RequestsPerform
<1>4. TruthfulReplies
  <2> SUFFICES ASSUME NEW c \in Calls
               PROVE  /\ reply[c] = "confirmed" =>
                           /\ op[key[c]].status = "committed"
                           /\ op[key[c]].hash = hash[c]
                           /\ \E who \in Calls \cup {NoCall} : <<key[c], who>> \in effects
                      /\ reply[c] = "accepted" => op[key[c]].status = "accepted_pending"
    BY DEF TruthfulReplies
  <2>1. reply[c] = "accepted" => op[key[c]].status = "accepted_pending"
    BY DEF JournalInv, CallInv
  <2>2. ASSUME reply[c] = "confirmed"
        PROVE  pc[c] # "idle" /\ op[key[c]].status = "committed" /\ op[key[c]].hash = hash[c]
    BY <2>2 DEF JournalInv, CallInv
  <2>3. ASSUME reply[c] = "confirmed"
        PROVE  \E who \in Calls \cup {NoCall} : <<key[c], who>> \in effects
    BY <2>2, <2>3 DEF JournalInv, TypeOK, ResultInv
  <2> QED
    BY <2>1, <2>2, <2>3
<1>5. OneFingerprint
  <2> SUFFICES ASSUME NEW k \in Keys, NEW c \in RequestsOf(k) PROVE op[k].hash = hash[c]
    BY DEF OneFingerprint
  <2>1. c \in Calls /\ key[c] = k
    BY DEF RequestsOf
  <2> QED
    BY <2>1, RequestsPerform DEF JournalInv, CallInv
<1> QED
  BY <1>2, <1>3, <1>4, <1>5 DEF JournalInv

\* Every state of the journal is typed: each statement writes a row of the table.
THEOREM JournalTypeCorrect == Spec => []TypeOK
BY JournalInvariant, JournalImplies, PTL

\* A write that must not be repeated is never applied twice, whatever crashes, lost
\* answers, expired leases and retries it goes through.
THEOREM JournalOneEffect == Spec => []OneEffect
BY JournalInvariant, JournalImplies, PTL

\* A failure, a conflict or a safe retry in the journal is true of the provider.
THEOREM JournalFailureMeansUnapplied == Spec => []FailureMeansUnapplied
BY JournalInvariant, JournalImplies, PTL

\* A success that was answered is in the journal, and happened.
THEOREM JournalTruthfulReplies == Spec => []TruthfulReplies
BY JournalInvariant, JournalImplies, PTL

\* Whatever reaches the provider under a key carries the payload the journal recorded.
THEOREM JournalOneFingerprint == Spec => []OneFingerprint
BY JournalInvariant, JournalImplies, PTL

\* A step leaves recorded results alone.
LEMMA ResultsKept ==
  ASSUME JournalInv, [Next]_journalVars, NEW k \in Keys
  PROVE  /\ op[k].status \in Replayable \cup {"failed", "conflict"} => op'[k].status = op[k].status
         /\ op[k].status = "outcome_unknown" =>
              op'[k].status \in {"outcome_unknown", "committed", "cancelled"}
<1>1. BaseInv /\ op \in [Keys -> Rows]
  BY DEF JournalInv, BaseInv, TypeOK
\* A step that leaves the row, writes it before its result, or settles what was unknown.
<1>2. ASSUME \/ op'[k] = op[k] \/ op'[k].status = op[k].status
             \/ op[k].status \notin (Replayable \cup Unresolved) \ {"cancelled"}
             \/ op[k].status = "outcome_unknown" /\ op'[k].status \in {"committed", "cancelled"}
      PROVE  /\ op[k].status \in Replayable \cup {"failed", "conflict"} => op'[k].status = op[k].status
             /\ op[k].status = "outcome_unknown" =>
                  op'[k].status \in {"outcome_unknown", "committed", "cancelled"}
  BY <1>2 DEF Replayable, Unresolved
<1>3. ASSUME NEW c \in Calls, NEW j \in Keys, NEW h \in Hashes, Begin(c, j, h)
      PROVE  op'[k] = op[k] \/ op[k].status \notin Replayable \cup Unresolved
  BY <1>1, <1>3 DEF Begin, BeginFresh, BeginReused, BeginReplay, BeginBusy, BeginReclaim, Replayable, Unresolved
<1>4. ASSUME NEW j \in Keys, ProveDeleted(j)
      PROVE  op'[k] = op[k] \/ (op[k].status = "outcome_unknown" /\ op'[k].status = "committed")
  BY <1>1, <1>4 DEF ProveDeleted, Rows
<1>5. ASSUME NEW c \in Calls, Park(c) \/ RecordRetry(c) \/ RecordOutcome(c) \/ Crash(c)
      PROVE  op'[k] = op[k] \/ op[k].status \notin (Replayable \cup Unresolved) \ {"cancelled"}
  <2>1. pc[c] \notin {"idle", "done"}
    BY <1>5 DEF Park, RecordRetry, RecordOutcome, Crash
  <2>2. Owns(c) => op[key[c]].status \notin (Replayable \cup Unresolved) \ {"cancelled"}
    BY <1>1, <2>1, Joined
  <2>3. CASE key[c] = k /\ Owns(c)
    BY <2>2, <2>3
  <2>4. CASE ~(key[c] = k /\ Owns(c))
    BY <1>1, <1>5, <2>4 DEF Park, RecordRetry, RecordOutcome, Crash
  <2> QED
    BY <2>3, <2>4
<1>6. ASSUME NEW j \in Keys, CloseFlagWrite(j)
      PROVE  \/ op'[k] = op[k] \/ op[k].status \notin (Replayable \cup Unresolved) \ {"cancelled"}
             \/ op[k].status = "outcome_unknown" /\ op'[k].status = "cancelled"
  BY <1>1, <1>6 DEF CloseFlagWrite, Rows, Replayable, Unresolved
<1>7. ASSUME NEW j \in Keys, LeaseExpires(j) \/ RetryDue(j)
      PROVE  op'[k].status = op[k].status
  BY <1>1, <1>7 DEF LeaseExpires, RetryDue, Rows
<1>8. CASE WriteStep \/ UNCHANGED journalVars
  BY <1>2, <1>8 DEF WriteStep, Dispatch, Apply, Drop, RefuseUnsent, HearAnswer, journalVars
<1>9. CASE JournalStep
  <2>1. ASSUME NEW c \in Calls, Reconcile(c)
        PROVE  op'[k] = op[k] \/ (op[k].status = "outcome_unknown" /\ op'[k].status = "committed")
    <3>1. key[c] \in Keys
      BY <2>1 DEF Reconcile, JournalInv, TypeOK
    <3> QED
      BY <1>4, <2>1, <3>1 DEF Reconcile
  <2>2. ASSUME NEW j \in Keys, RecoverDeletion(j)
        PROVE  op'[k] = op[k] \/ (op[k].status = "outcome_unknown" /\ op'[k].status = "committed")
    BY <1>4, <2>2 DEF RecoverDeletion
  <2> QED
    BY <1>2, <1>3, <1>5, <1>6, <1>7, <1>9, <2>1, <2>2 DEF JournalStep
<1>10. CASE \E c \in Calls : Crash(c)
  BY <1>2, <1>5, <1>10
<1> QED
  BY <1>8, <1>9, <1>10 DEF Next

\* No superseded owner, late recovery or flag worker changes a recorded result.
THEOREM JournalResultsAreFinal == Spec => ResultsAreFinal
<1>1. JournalInv /\ [Next]_journalVars =>
        [\A k \in Keys :
           /\ op[k].status \in Replayable \cup {"failed", "conflict"} => op'[k].status = op[k].status
           /\ op[k].status = "outcome_unknown" =>
                op'[k].status \in {"outcome_unknown", "committed", "cancelled"}]_journalVars
  BY ResultsKept
<1> QED
  BY <1>1, JournalInvariant, PTL DEF Spec, ResultsAreFinal
-----------------------------------------------------------------------------
(* The journal implements ProviderPromise.                                 *)

Definite(r) == r \in {"confirmed", "conflict", "permanent"}
Word(r) == IF r = "confirmed" THEN "confirmed" ELSE "failed"

\* Who is in the history, and what is in the answers, of a key.
LEMMA PromiseStates ==
  ASSUME NEW k \in Keys
  PROVE  /\ \A r : r \in Applied[k] <=> r \in Calls \cup {NoCall} /\ <<k, r>> \in effects
         /\ \A w : w \in Told[k] <=> \E d \in Calls : key[d] = k /\ Definite(reply[d]) /\ w = Word(reply[d])
         /\ \A r : r \in Applied'[k] <=> r \in Calls \cup {NoCall} /\ <<k, r>> \in effects'
         /\ \A w : w \in Told'[k] <=> \E d \in Calls : key'[d] = k /\ Definite(reply'[d]) /\ w = Word(reply'[d])
<1>1. /\ \A r : r \in Applied[k] <=> r \in Calls \cup {NoCall} /\ <<k, r>> \in effects
      /\ \A r : r \in Applied'[k] <=> r \in Calls \cup {NoCall} /\ <<k, r>> \in effects'
  BY DEF Applied
<1>2. \A w : w \in Told[k] <=> \E d \in Calls : key[d] = k /\ Definite(reply[d]) /\ w = Word(reply[d])
  BY DEF Told, Definite, Word
<1>3. \A w : w \in Told'[k] <=> \E d \in Calls : key'[d] = k /\ Definite(reply'[d]) /\ w = Word(reply'[d])
  BY DEF Told, Definite, Word
<1> QED
  BY <1>1, <1>2, <1>3

\* Where a failure is recorded or told of a write that must not happen twice, or its
\* request is still on its way, nothing has been applied.
LEMMA NothingApplied ==
  ASSUME JournalInv, NEW k \in Strict,
         \/ \E d \in Calls : key[d] = k /\ reply[d] \in {"conflict", "permanent"}
         \/ \E d \in wire : key[d] = k
  PROVE  Applied[k] = {}
<1>1. k \in Keys /\ OnceAt(k)
  BY KeyAssumption DEF JournalInv, OnceInv
<1>2. \A r : r \in Applied[k] <=> r \in Calls \cup {NoCall} /\ <<k, r>> \in effects
  BY <1>1, PromiseStates
<1>3. \A d \in Calls : <<k, d>> \in effects => key[d] = k /\ d \notin wire /\ d \in Performers(k)
  <2> SUFFICES ASSUME NEW d \in Calls, <<k, d>> \in effects
               PROVE  key[d] = k /\ d \notin wire /\ d \in Performers(k)
    OBVIOUS
  <2>1. key[d] = k /\ d \notin wire
    BY <1>1 DEF JournalInv, EffectInv
  <2>2. d \in RequestsOf(k)
    BY <2>1 DEF RequestsOf
  <2> QED
    BY <1>1, <2>1, <2>2, RequestsPerform
<1>4. CASE \E d \in Calls : key[d] = k /\ reply[d] \in {"conflict", "permanent"}
  <2>1. Performers(k) = {} /\ <<k, NoCall>> \notin effects
    BY <1>1, <1>4 DEF OnceAt
  <2> QED
    BY <1>2, <1>3, <2>1
<1>5. CASE \E d \in wire : key[d] = k
  <2>1. PICK d \in wire : key[d] = k
    BY <1>5
  <2>2. d \in Calls
    BY DEF JournalInv, TypeOK
  <2>3. d \in Performers(k)
    BY <1>1, <2>1, <2>2, RequestsPerform DEF RequestsOf
  <2>4. <<k, NoCall>> \notin effects /\ \A e \in Performers(k) : e = d
    BY <1>1, <2>3 DEF OnceAt
  <2> QED
    BY <1>2, <1>3, <2>4
<1> QED
  BY <1>4, <1>5

\* The same of the failures told, before and after a step.
NothingToldApplied ==
  \A k \in Strict :
    (\E d \in Calls : key[d] = k /\ reply[d] \in {"conflict", "permanent"}) => Applied[k] = {}

LEMMA ToldMeansNothing == JournalInv => NothingToldApplied
BY NothingApplied DEF NothingToldApplied

LEMMA ToldMeansNothingNext == JournalInv' => NothingToldApplied'
BY ToldMeansNothing, PTL

\* The provider's step is the promise's.
LEMMA PromiseApply ==
  ASSUME JournalInv, NEW c \in Calls, Apply(c)
  PROVE  Promise!Next
<1> DEFINE k == key[c]
<1>1. k \in Keys /\ c \in wire
  BY DEF Apply, JournalInv, TypeOK, CallInv, Untouched
<1>2. UNCHANGED <<key, reply>> /\ effects' = effects \cup {<<k, c>>}
  BY DEF Apply, callVars
<1>3. Told' = Told
  BY <1>2 DEF Told
<1>4. Applied' = [Applied EXCEPT ![k] = @ \cup {c}]
  <2>1. Applied' = [j \in Keys |-> Applied'[j]] /\ Applied = [j \in Keys |-> Applied[j]]
    BY DEF Applied
  <2>2. ASSUME NEW j \in Keys
        PROVE  Applied'[j] = IF j = k THEN Applied[j] \cup {c} ELSE Applied[j]
    <3>1. \A r : <<j, r>> \in effects' <=> <<j, r>> \in effects \/ (j = k /\ r = c)
      BY <1>2
    <3>2. /\ \A r : r \in Applied[j] <=> r \in Calls \cup {NoCall} /\ <<j, r>> \in effects
          /\ \A r : r \in Applied'[j] <=> r \in Calls \cup {NoCall} /\ <<j, r>> \in effects'
      BY PromiseStates
    <3>3. \A r : r \in Applied'[j] <=> r \in Applied[j] \/ (j = k /\ r = c)
      BY <3>1, <3>2
    <3> HIDE DEF k
    <3>4. CASE j = k
      BY <3>3, <3>4
    <3>5. CASE j # k
      BY <3>3, <3>5
    <3> QED
      BY <3>4, <3>5
  <2> HIDE DEF k
  <2> QED
    BY <1>1, <2>1, <2>2
<1>5. k \in Strict => Applied[k] = {} /\ "failed" \notin Told[k]
  <2> SUFFICES ASSUME k \in Strict PROVE Applied[k] = {} /\ "failed" \notin Told[k]
    OBVIOUS
  <2>1. Applied[k] = {}
    BY <1>1, NothingApplied
  <2>2. OnceAt(k) /\ c \in Performers(k)
    BY <1>1, RequestsPerform DEF RequestsOf, JournalInv, OnceInv
  <2>3. \A d \in Calls : key[d] = k => reply[d] \notin {"permanent", "conflict"}
    BY <2>2 DEF OnceAt
  <2>4. "failed" \notin Told[k]
    BY <1>1, <2>3, PromiseStates DEF Definite, Word
  <2> QED
    BY <2>1, <2>4
<1>6. Promise!Apply(k, c)
  BY <1>3, <1>4, <1>5 DEF Promise!Apply
<1> QED
  BY <1>1, <1>6 DEF Promise!Next

\* A call's step is its answer, if it gives a definite one, and nothing otherwise.
LEMMA PromiseTell ==
  ASSUME JournalInv, JournalInv', NEW c \in Calls, reply[c] = "none", pc'[c] # "idle",
         effects' = effects,
         \A d \in Calls \ {c} : key'[d] = key[d] /\ reply'[d] = reply[d]
  PROVE  Promise!Next \/ UNCHANGED Promise!promiseVars
<1> DEFINE k == key'[c]
           w == Word(reply'[c])
<1>1. k \in Keys
  BY DEF JournalInv, TypeOK
<1>2. Applied' = Applied
  BY DEF Applied
<1>3. Told' = [j \in Keys |-> Told'[j]] /\ Told = [j \in Keys |-> Told[j]]
  BY DEF Told
<1>4. ~Definite(reply[c])
  BY DEF Definite
<1>5. \A j \in Keys : \A x : x \in Told'[j] <=> x \in Told[j] \/ (Definite(reply'[c]) /\ j = k /\ x = w)
  <2> TAKE j \in Keys
  <2>1. /\ \A x : x \in Told[j] <=> \E d \in Calls : key[d] = j /\ Definite(reply[d]) /\ x = Word(reply[d])
        /\ \A x : x \in Told'[j] <=> \E d \in Calls : key'[d] = j /\ Definite(reply'[d]) /\ x = Word(reply'[d])
    BY PromiseStates
  <2> QED
    BY <1>4, <2>1
<1>6. CASE ~Definite(reply'[c])
  <2>1. \A j \in Keys : Told'[j] = Told[j]
    BY <1>5, <1>6
  <2>2. Told' = Told
    BY <1>3, <2>1
  <2> QED
    BY <1>2, <2>2 DEF Promise!promiseVars
<1>7. CASE Definite(reply'[c])
  <2>1. \A j \in Keys : Told'[j] = IF j = k THEN Told[j] \cup {w} ELSE Told[j]
    BY <1>5, <1>7
  <2>2. Told' = [Told EXCEPT ![k] = @ \cup {w}]
    <3> HIDE DEF k, w
    <3> QED
      BY <1>1, <1>3, <2>1
  <2>3. w = "confirmed" => Applied[k] # {}
    <3> SUFFICES ASSUME reply'[c] = "confirmed" PROVE Applied[k] # {}
      BY DEF Word
    <3>1. \E who \in Calls \cup {NoCall} : <<k, who>> \in effects'
      BY <1>1 DEF JournalInv, CallInv, ResultInv
    <3> QED
      BY <1>1, <3>1, PromiseStates
  <2>4. w = "failed" /\ k \in Strict => Applied[k] = {}
    <3> SUFFICES ASSUME reply'[c] \in {"conflict", "permanent"}, k \in Strict PROVE Applied'[k] = {}
      BY <1>2, <1>7 DEF Word, Definite
    <3>1. NothingToldApplied'
      BY ToldMeansNothingNext
    <3> QED
      BY <3>1 DEF NothingToldApplied
  <2>5. Promise!Tell(k, w) /\ w \in {"confirmed", "failed"}
    BY <1>2, <2>2, <2>3, <2>4 DEF Promise!Tell, Word
  <2> QED
    BY <1>1, <2>5 DEF Promise!Next
<1> QED
  BY <1>6, <1>7
LEMMA PromiseStart == Init => Promise!Init
<1> SUFFICES ASSUME Init PROVE Promise!Init
  OBVIOUS
<1>1. /\ \A p \in effects : \E k \in Keys : p = <<k, NoCall>>
      /\ \A d \in Calls : ~Definite(reply[d])
  BY DEF Init, Definite
<1>2. /\ \A k \in Keys : Applied[k] \subseteq {NoCall}
      /\ \A k \in Keys : Told[k] = {}
  <2> SUFFICES ASSUME NEW k \in Keys PROVE Applied[k] \subseteq {NoCall} /\ Told[k] = {}
    OBVIOUS
  <2>1. \A r : <<k, r>> \in effects => r = NoCall
    BY <1>1
  <2>2. \A r : r \in Applied[k] <=> r \in Calls \cup {NoCall} /\ <<k, r>> \in effects
    BY PromiseStates
  <2>3. \A w : w \in Told[k] <=> \E d \in Calls : key[d] = k /\ Definite(reply[d]) /\ w = Word(reply[d])
    BY PromiseStates
  <2>4. \A w : w \notin Told[k]
    BY <1>1, <2>3
  <2> QED
    BY <2>1, <2>2, <2>4
<1>3. Applied \in [Keys -> SUBSET {NoCall}]
  BY <1>2 DEF Applied
<1>4. Told = [k \in Keys |-> {}]
  <2>1. Told = [k \in Keys |-> Told[k]]
    BY DEF Told
  <2> QED
    BY <1>2, <2>1
<1> QED
  BY <1>3, <1>4 DEF Promise!Init

LEMMA PromiseStep ==
  JournalInv /\ JournalInv' /\ [Next]_journalVars => [Promise!Next]_(Promise!promiseVars)
<1> SUFFICES ASSUME JournalInv, JournalInv', [Next]_journalVars
             PROVE  Promise!Next \/ UNCHANGED Promise!promiseVars
  BY DEF Promise!promiseVars
<1>1. BaseInv
  BY DEF JournalInv, BaseInv
<1>2. CASE UNCHANGED <<key, reply, effects>>
  BY <1>2 DEF Promise!promiseVars, Applied, Told
<1>3. ASSUME NEW c \in Calls, NEW k \in Keys, NEW h \in Hashes, Begin(c, k, h)
      PROVE  Promise!Next \/ UNCHANGED Promise!promiseVars
  <2>1. /\ reply[c] = "none" /\ effects' = effects
        /\ \A d \in Calls \ {c} : key'[d] = key[d] /\ reply'[d] = reply[d]
    BY <1>1, <1>3, BeginFrame
  <2>2. pc'[c] # "idle"
    BY <1>3 DEF Begin, BeginFresh, BeginReused, BeginReplay, BeginBusy, BeginReclaim, Goto, Answer,
                JournalInv, TypeOK
  <2> QED
    BY <2>1, <2>2, PromiseTell
<1>4. ASSUME NEW c \in Calls, Park(c) \/ RecordRetry(c) \/ RecordOutcome(c) \/ Reconcile(c)
      PROVE  Promise!Next \/ UNCHANGED Promise!promiseVars
  <2>1. reply[c] = "none"
    BY <1>1, <1>4, Joined DEF Park, RecordRetry, RecordOutcome, Reconcile
  <2>2. /\ effects' = effects /\ pc'[c] # "idle"
        /\ \A d \in Calls \ {c} : key'[d] = key[d] /\ reply'[d] = reply[d]
    BY <1>4 DEF Park, RecordRetry, RecordOutcome, Reconcile, Goto, Answer, JournalInv, TypeOK
  <2> QED
    BY <2>1, <2>2, PromiseTell
<1>5. CASE JournalStep
  <2>1. ASSUME NEW k \in Keys, RecoverDeletion(k) \/ CloseFlagWrite(k) \/ LeaseExpires(k) \/ RetryDue(k)
        PROVE  UNCHANGED <<key, reply, effects>>
    BY <2>1 DEF RecoverDeletion, CloseFlagWrite, LeaseExpires, RetryDue, callVars
  <2> QED
    BY <1>2, <1>3, <1>4, <1>5, <2>1 DEF JournalStep
<1>6. CASE WriteStep
  <2>1. ASSUME NEW c \in Calls, NEW o \in Outcomes,
               Dispatch(c) \/ Drop(c) \/ RefuseUnsent(c, o) \/ HearAnswer(c, o)
        PROVE  UNCHANGED <<key, reply, effects>>
    BY <2>1 DEF Dispatch, Drop, RefuseUnsent, HearAnswer, callVars
  <2>2. "none" \in Outcomes
    BY DEF Outcomes
  <2> QED
    BY <1>2, <1>6, <2>1, <2>2, PromiseApply DEF WriteStep
<1>7. CASE (\E c \in Calls : Crash(c)) \/ UNCHANGED journalVars
  BY <1>2, <1>7 DEF Crash, journalVars
<1> QED
  BY <1>5, <1>6, <1>7 DEF Next

\* The journal keeps ProviderPromise: a write that must not happen twice happens once and
\* never after its failure was told, and a success is told only of what happened.
THEOREM JournalKeepsPromise == Spec => KeepsWriteOnce
BY PromiseStart, PromiseStep, JournalInvariant, PTL DEF Spec, KeepsWriteOnce, Promise!Spec
=============================================================================

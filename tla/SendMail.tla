------------------------------ MODULE SendMail ------------------------------
(***************************************************************************)
(* The durable submission pipeline of services/sendMail.ts: executeSend,   *)
(* its PostgreSQL ledger send_idempotency and its Redis reservation.       *)
(*                                                                         *)
(* An attempt is ONE call of executeSend with an idempotency key.  It is   *)
(* the unit of concurrency: two HTTP requests, a client's retry, a queue   *)
(* worker in another process are all attempts.  The attempt's identity     *)
(* stands for the random intent token the call draws (randomUUID), so it   *)
(* is used once; a retry is another attempt with the same key.             *)
(*                                                                         *)
(* A message is represented by its set of recipients, which is also its    *)
(* request fingerprint.  Time is not modelled: a Redis entry may expire or *)
(* be flushed at any moment and a call may stall between any two awaits.   *)
(***************************************************************************)
EXTENDS FiniteSets

CONSTANTS
  Attempts,     \* calls of executeSend (and the tokens they draw)
  Keys,         \* idempotency keys of one user
  Recipients,   \* mailboxes
  NoAttempt,    \* "nobody": the token of an absent row
  NoKey         \* the key of a call that has not begun

ASSUME NoAttemptAssumption == NoAttempt \notin Attempts

VARIABLES
  pc,        \* pc[a]: where the call stands
  key,       \* key[a]: its idempotency key
  msg,       \* msg[a]: its message
  reply,     \* reply[a]: the result executeSend returned or will return
  rejected,  \* rejected[a]: the recipients an "ok" result reports as rejected
  intent,    \* intent[k]: the send_idempotency row of key k
  cache,     \* cache[k]: the Redis entry send_idem:<user>:<k>
  accepted   \* history: <<a, r>> when the transport took a's message for r

callVars == <<pc, key, msg, reply, rejected>>
sendVars == <<pc, key, msg, reply, rejected, intent, cache, accepted>>

Messages == (SUBSET Recipients) \ {{}}

Stages == {"idle", "lookup", "prepare", "claim", "observe", "reserve", "undo",
           "gate", "mark", "submit", "finalize", "release", "done", "dead"}

\* "refused" is every definite error; "busy" and "mismatch" are the 409 answers.
Replies == {"none", "ok", "unknown", "refused", "prevented", "busy", "mismatch"}

\* A statement on a server may fail, or take effect while its acknowledgement is lost.
Results == {"done", "lostAck", "failed"}
Applied(result) == result # "failed"

NoIntent == [status |-> "none", token |-> NoAttempt, msg |-> {}, rejected |-> {}]
NoEntry  == [kind |-> "none", token |-> NoAttempt, msg |-> {}, rejected |-> {}]

Intents == [status : {"none", "pending", "uncertain", "completed"},
            token : Attempts \cup {NoAttempt},
            msg : SUBSET Recipients, rejected : SUBSET Recipients]
Entries == [kind : {"none", "inflight", "receipt"},
            token : Attempts \cup {NoAttempt},
            msg : SUBSET Recipients, rejected : SUBSET Recipients]

SendTypeOK ==
  /\ pc \in [Attempts -> Stages]
  /\ key \in [Attempts -> Keys \cup {NoKey}]
  /\ \A a \in Attempts : pc[a] # "idle" => key[a] \in Keys
  /\ msg \in [Attempts -> SUBSET Recipients]
  /\ reply \in [Attempts -> Replies]
  /\ rejected \in [Attempts -> SUBSET Recipients]
  /\ intent \in [Keys -> Intents]
  /\ cache \in [Keys -> Entries]
  /\ accepted \in SUBSET (Attempts \X Recipients)

SendInit ==
  /\ pc = [a \in Attempts |-> "idle"]
  /\ key = [a \in Attempts |-> NoKey]
  /\ msg = [a \in Attempts |-> {}]
  /\ reply = [a \in Attempts |-> "none"]
  /\ rejected = [a \in Attempts |-> {}]
  /\ intent = [k \in Keys |-> NoIntent]
  /\ cache = [k \in Keys |-> NoEntry]
  /\ accepted = {}

-----------------------------------------------------------------------------
(* The ledger's statements: what the row of attempt a's key becomes.       *)

Owns(a) == intent[key[a]].token = a

\* markSendIntentUncertain: only the owned, still pending row is parked.
Parked(a) ==
  IF Owns(a) /\ intent[key[a]].status = "pending"
  THEN [intent EXCEPT ![key[a]] =
          [status |-> "uncertain", token |-> a, msg |-> @.msg, rejected |-> @.rejected]]
  ELSE intent

\* completeSendIntent: the final receipt of the owned row.
Completed(a) ==
  IF Owns(a) /\ intent[key[a]].status \in {"pending", "uncertain"}
  THEN [intent EXCEPT ![key[a]] =
          [status |-> "completed", token |-> a, msg |-> @.msg, rejected |-> rejected[a]]]
  ELSE intent

\* releaseSendIntent: deletes the owned row, whatever its status.
Released(a) == IF Owns(a) THEN [intent EXCEPT ![key[a]] = NoIntent] ELSE intent

Holds(a) == cache[key[a]].kind = "inflight" /\ cache[key[a]].token = a

-----------------------------------------------------------------------------
(* The stages of a call.                                                   *)

Goto(a, stage) == pc' = [pc EXCEPT ![a] = stage]

\* The call returns result r.
Return(a, r) == /\ Goto(a, "done")
                /\ reply' = [reply EXCEPT ![a] = r]

\* The call will return r once its intent is released.
GiveUp(a, stage, r) == /\ Goto(a, stage)
                       /\ reply' = [reply EXCEPT ![a] = r]

\* Bug: the request fingerprint is not compared.
ReplayAnything(a, receipt) ==
  /\ Return(a, "ok")
  /\ rejected' = [rejected EXCEPT ![a] = receipt.rejected]

\* Bug: the replayed answer forgets the rejected recipients.
ReplayAsSent(a, receipt) ==
  /\ Return(a, IF receipt.msg = msg[a] THEN "ok" ELSE "mismatch")
  /\ UNCHANGED rejected

\* The receipt of an earlier call answers this one.
Replay(a, receipt) ==
  IF receipt.msg = msg[a]
  THEN /\ Return(a, "ok")
       /\ rejected' = [rejected EXCEPT ![a] = receipt.rejected]
  ELSE Return(a, "mismatch") /\ UNCHANGED rejected

Start(a, k, m) ==
  /\ pc[a] = "idle"
  /\ Goto(a, "lookup")
  /\ key' = [key EXCEPT ![a] = k]
  /\ msg' = [msg EXCEPT ![a] = m]
  /\ UNCHANGED <<reply, rejected, intent, cache, accepted>>

\* The Redis GET that answers a repeated request without touching the ledger.
LookUp(a) ==
  /\ pc[a] = "lookup"
  /\ \/ Return(a, "refused") /\ UNCHANGED rejected                   \* Redis is down
     \/ cache[key[a]].kind = "inflight" /\ Return(a, "busy") /\ UNCHANGED rejected
     \/ cache[key[a]].kind = "receipt" /\ Replay(a, cache[key[a]])
     \/ cache[key[a]].kind = "none" /\ Goto(a, "prepare") /\ UNCHANGED <<reply, rejected>>
  /\ UNCHANGED <<key, msg, intent, cache, accepted>>

\* Transport binding, limits, attachments, composition: may refuse, changes nothing.
Prepare(a) ==
  /\ pc[a] = "prepare"
  /\ \/ Goto(a, "claim") /\ UNCHANGED reply
     \/ Return(a, "refused")
  /\ UNCHANGED <<key, msg, rejected, intent, cache, accepted>>

\* Bug: ON CONFLICT DO UPDATE takes over a parked row.
ClaimIntentTakeover(a) ==
  /\ pc[a] = "claim"
  /\ IF intent[key[a]].status \in {"none", "uncertain"}
     THEN /\ intent' = [intent EXCEPT ![key[a]] =
                          [status |-> "pending", token |-> a, msg |-> msg[a], rejected |-> {}]]
          /\ Goto(a, "reserve")
     ELSE Goto(a, "observe") /\ UNCHANGED intent
  /\ UNCHANGED <<key, msg, reply, rejected, cache, accepted>>

\* claimSendIntent, first statement: INSERT ... ON CONFLICT DO NOTHING.
ClaimIntent(a) ==
  /\ pc[a] = "claim"
  /\ LET free == intent[key[a]].status = "none"
     IN \E result \in Results :
          /\ intent' = IF free /\ Applied(result)
                       THEN [intent EXCEPT ![key[a]] =
                              [status |-> "pending", token |-> a, msg |-> msg[a], rejected |-> {}]]
                       ELSE intent
          /\ IF result = "done"
             THEN Goto(a, IF free THEN "reserve" ELSE "observe") /\ UNCHANGED reply
             ELSE Return(a, "refused")
  /\ UNCHANGED <<key, msg, rejected, cache, accepted>>

\* claimSendIntent, second statement: read the row that was in the way.
Observe(a) ==
  /\ pc[a] = "observe"
  /\ LET row == intent[key[a]]
     IN \/ Return(a, "refused") /\ UNCHANGED rejected                \* the read failed
        \/ row.status = "none" /\ Return(a, "busy") /\ UNCHANGED rejected
        \/ row.status \in {"pending", "uncertain"} /\ row.msg # msg[a]
           /\ Return(a, "mismatch") /\ UNCHANGED rejected
        \/ row.status = "pending" /\ row.msg = msg[a]
           /\ Return(a, "busy") /\ UNCHANGED rejected
        \/ row.status = "uncertain" /\ row.msg = msg[a]
           /\ Return(a, "unknown") /\ UNCHANGED rejected
        \/ row.status = "completed" /\ Replay(a, row)
  /\ UNCHANGED <<key, msg, intent, cache, accepted>>

\* SET NX of the short reservation; without it the fresh intent is given back.
Reserve(a) ==
  /\ pc[a] = "reserve"
  /\ LET free == cache[key[a]].kind = "none"
         held == [kind |-> "inflight", token |-> a, msg |-> {}, rejected |-> {}]
     IN \E result \in Results :
          /\ cache' = IF free /\ Applied(result) THEN [cache EXCEPT ![key[a]] = held] ELSE cache
          /\ \/ result = "done" /\ free /\ Goto(a, "gate") /\ UNCHANGED reply
             \/ result = "done" /\ ~free /\ GiveUp(a, "undo", "busy")
             \/ result # "done" /\ GiveUp(a, "undo", "refused")
  /\ UNCHANGED <<key, msg, rejected, intent, accepted>>

\* releaseSendIntent after a failed reservation; its own failure is swallowed.
UndoClaim(a) ==
  /\ pc[a] = "undo"
  /\ Goto(a, "done")
  /\ intent' \in {intent, Released(a)}
  /\ UNCHANGED <<key, msg, reply, rejected, cache, accepted>>

\* The caller's final gate (options.beforeDispatch): passed, refused or failed.
PassGate(a) ==
  /\ pc[a] = "gate"
  /\ Goto(a, "mark")
  /\ UNCHANGED <<key, msg, reply, rejected, intent, cache, accepted>>

CloseGate(a, r) ==
  /\ pc[a] = "gate"
  /\ r \in {"prevented", "refused"}
  /\ GiveUp(a, "release", r)
  /\ UNCHANGED <<key, msg, rejected, intent, cache, accepted>>

\* Park the intent BEFORE the transport is invoked (dispatchStarted follows).
MarkUncertain(a) ==
  /\ pc[a] = "mark"
  /\ \E result \in Results :
       /\ intent' = IF Applied(result) THEN Parked(a) ELSE intent
       /\ IF result = "done"
          THEN Goto(a, "submit") /\ UNCHANGED reply
          ELSE GiveUp(a, "release", "refused")
  /\ UNCHANGED <<key, msg, rejected, cache, accepted>>

\* The transport takes the message for the set A and reports R as rejected.  A
\* report about the message's own recipients is trusted; any other report is not.
TransportAccepts(a, A, R) ==
  /\ pc[a] = "submit"
  /\ A \subseteq msg[a]
  /\ R \subseteq msg[a] => A = msg[a] \ R
  /\ accepted' = accepted \cup ({a} \X A)
  /\ rejected' = [rejected EXCEPT ![a] = R]
  /\ Goto(a, "finalize")
  /\ UNCHANGED <<key, msg, reply, intent, cache>>

\* A refusal read before acceptance (an SMTP 4xx/5xx, no connection, no credentials).
TransportRefuses(a) ==
  /\ pc[a] = "submit"
  /\ GiveUp(a, "release", "refused")
  /\ UNCHANGED <<key, msg, rejected, intent, cache, accepted>>

\* Bug: a lost answer is taken for a refusal.
TransportUnknownAsRefusal(a, A) ==
  /\ pc[a] = "submit"
  /\ A \subseteq msg[a]
  /\ accepted' = accepted \cup ({a} \X A)
  /\ GiveUp(a, "release", "refused")
  /\ UNCHANGED <<key, msg, rejected, intent, cache>>

\* The answer is lost: the message may have been taken for any part A of it.
TransportUnknown(a, A) ==
  /\ pc[a] = "submit"
  /\ A \subseteq msg[a]
  /\ accepted' = accepted \cup ({a} \X A)
  /\ intent' \in {intent, Parked(a)}
  /\ Return(a, "unknown")
  /\ UNCHANGED <<key, msg, rejected, cache>>

\* completeSendIntent; if it fails the row is parked, and the answer is "ok" anyway.
Finalize(a) ==
  /\ pc[a] = "finalize"
  /\ intent' \in {Completed(a), Parked(a), intent}
  /\ Return(a, "ok")
  /\ UNCHANGED <<key, msg, rejected, cache, accepted>>

\* completeIdempotencyLease runs unawaited after the answer.
PublishReceipt(a) ==
  /\ pc[a] = "done" /\ reply[a] = "ok" /\ Holds(a)
  /\ cache' = [cache EXCEPT ![key[a]] = [kind |-> "receipt", token |-> NoAttempt,
                                         msg |-> msg[a], rejected |-> rejected[a]]]
  /\ UNCHANGED <<callVars, intent, accepted>>

\* A known non-delivery: delete the intent (or else park it), then free the reservation.
ReleaseIntent(a) ==
  /\ pc[a] = "release"
  /\ Goto(a, "done")
  /\ intent' \in {Released(a), Parked(a), intent}
  /\ cache' \in {cache, IF Holds(a) THEN [cache EXCEPT ![key[a]] = NoEntry] ELSE cache}
  /\ UNCHANGED <<key, msg, reply, rejected, accepted>>

\* markLeaseUncertain: the reservation's heartbeat fails while the call is under way,
\* or the receipt could not be published.
LeaseSuspect(a) ==
  /\ \/ pc[a] \in {"gate", "mark", "submit", "finalize"}
     \/ pc[a] = "done" /\ reply[a] = "ok"
  /\ intent' = Parked(a)
  /\ UNCHANGED <<callVars, cache, accepted>>

\* The process dies; PostgreSQL and Redis keep what they hold.
Crash(a) ==
  /\ pc[a] \notin {"idle", "done", "dead"}
  /\ Goto(a, "dead")
  /\ UNCHANGED <<key, msg, reply, rejected, intent, cache, accepted>>

\* Redis expires, evicts or loses an entry.
CacheLost(k) ==
  /\ cache[k].kind # "none"
  /\ cache' = [cache EXCEPT ![k] = NoEntry]
  /\ UNCHANGED <<callVars, intent, accepted>>

\* Every step of a call that is not its beginning, its gate or its crash.
CallStep(a) ==
  \/ LookUp(a) \/ Prepare(a) \/ ClaimIntent(a) \/ Observe(a) \/ Reserve(a) \/ UndoClaim(a)
  \/ MarkUncertain(a)
  \/ \E A, R \in SUBSET Recipients : TransportAccepts(a, A, R)
  \/ TransportRefuses(a)
  \/ \E A \in SUBSET Recipients : TransportUnknown(a, A)
  \/ Finalize(a) \/ ReleaseIntent(a)

Environment(a) == PublishReceipt(a) \/ LeaseSuspect(a)

SendNext ==
  \/ \E a \in Attempts :
       \/ \E k \in Keys, m \in Messages : Start(a, k, m)
       \/ CallStep(a) \/ Environment(a) \/ Crash(a)
       \/ PassGate(a)
       \/ \E r \in {"prevented", "refused"} : CloseGate(a, r)
  \/ \E k \in Keys : CacheLost(k)

SendSpec == SendInit /\ [][SendNext]_sendVars

-----------------------------------------------------------------------------
(* Properties.                                                             *)

AcceptedBy(a) == {r \in Recipients : <<a, r>> \in accepted}

\* At most one call per idempotency key ever gets anything accepted by the transport,
\* whatever is retried, flushed from Redis or crashed: executeSend, "Neither can
\* produce a duplicate email".
AtMostOnce ==
  \A p, q \in accepted : key[p[1]] = key[q[1]] => p[1] = q[1]

\* A key whose intent is absent or pending has delivered nothing and no call stands at
\* the transport with it: the uncertain state is durable before the submission, and an
\* intent is deleted only after a proven non-delivery.  This is what lets a client
\* retry under the same key after an error.
DurableBeforeSubmission ==
  \A a \in Attempts :
    (AcceptedBy(a) # {} \/ pc[a] \in {"submit", "finalize"}) =>
      intent[key[a]].token = a /\ intent[key[a]].status \in {"uncertain", "completed"}

\* A definite error or a prevented dispatch is answered only by a call that delivered
\* nothing to anybody, so the sender may safely compose the message again.
FailureMeansUnsent ==
  \A a \in Attempts :
    reply[a] \in {"refused", "prevented", "busy", "mismatch"} => AcceptedBy(a) = {}

\* Every success answer, replays included, reports the fate of the one submission made
\* under the key: same message, same rejected recipients, all the others accepted.
TruthfulReplies ==
  \A a \in Attempts : reply[a] = "ok" =>
    \E b \in Attempts :
      /\ key[b] = key[a] /\ msg[b] = msg[a] /\ rejected[b] = rejected[a]
      /\ intent[key[a]].token = b /\ reply[b] = "ok"
      /\ rejected[b] \subseteq msg[b] => AcceptedBy(b) = msg[b] \ rejected[b]

\* Seen by the holder of a key: who was given its message, and what was answered.
Sent == [k \in Keys |-> {r \in Recipients : \E a \in Attempts : key[a] = k /\ <<a, r>> \in accepted}]
Told == [k \in Keys |-> {<<msg[a], rejected[a]>> : a \in {b \in Attempts : key[b] = k /\ reply[b] = "ok"}}]

Promise == INSTANCE SendOnce WITH sent <- Sent, told <- Told

\* The pipeline implements its promise: one delivery per key, every success answer true.
SendsOnce == Promise!Spec

\* A completed receipt is immutable.
ReceiptsImmutable ==
  [][\A k \in Keys : intent[k].status = "completed" => intent'[k] = intent[k]]_sendVars
=============================================================================

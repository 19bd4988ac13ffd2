--------------------------- MODULE MailFlagState ---------------------------
(***************************************************************************)
(* A flag of one message: services/mailFlagState.ts.  A click is an intent *)
(* that a worker writes to the provider, or reads back when it cannot know *)
(* whether a write was applied.  What the synchronization finds while the  *)
(* local state is protected is not applied but left as a readback, which   *)
(* the worker settles later by asking the provider itself.                 *)
(*                                                                         *)
(* A call is one processMailFlagIntent, or one candidate of                *)
(* drainMailFlagReadbacks; its identity stands for the token it draws.     *)
(* Time is a choice: a row may be due, and a lease run out, at any moment. *)
(***************************************************************************)
EXTENDS Naturals

CONSTANTS
  Calls,       \* runs of the worker or of a route
  LastClick,   \* bound: the user's clicks, and so generations of the intent
  LastRemote,  \* bound: changes made in another mail program
  LastMove,    \* bound: moves of the message to another folder
  LastFault,   \* bound: crashes, errors, failed synchronizations, leases that are outlived
  NoCall,      \* the token of a row nobody has claimed
  Unknown      \* no value

ASSUME FlagAssumption == /\ {LastClick, LastRemote, LastMove, LastFault} \subseteq Nat
                         /\ NoCall \notin Calls
                         /\ Unknown \notin BOOLEAN
                         /\ Unknown \notin [value: BOOLEAN, place: Nat]

VARIABLES
  remote,   \* the flag at the provider
  place,    \* the message's folder there; folders are numbered by the moves
  news,     \* the provider's feed has a change that the synchronization has not read
  shown,    \* the flag in messages
  ident,    \* the folder in messages, which stands for the row's whole identity
  recent,   \* read_changed_at lies within LOCAL_WINS_SECONDS
  intent,   \* the row of mail_flag_intents
  later,    \* the row of mail_flag_readbacks
  hand,     \* what the synchronization has read and not applied
  pc,       \* pc[c]: where the call stands
  claim,    \* claim[c]: the intent it claimed, or the identity of the readback
  touched,  \* touched[c]: read_changed_at has been set since the call read the row
  result,   \* result[c]: the outcome of its write, and what it read
  wire,     \* writes on their way to the provider
  landed,   \* history: the writes that were applied
  unsure,   \* history: generations written without being told to try again
  passed,   \* history: calls whose readback a synchronization has been stored since
  overtaken,  \* history: the row shows the answer of such a readback
  changes,  \* changes made so far in another mail program
  faults    \* faults so far

world == <<remote, place, news, wire, landed, changes>>
rows == <<shown, ident, recent, intent, later>>
callVars == <<pc, claim, touched, result>>
past == <<passed, overtaken>>
flagVars == <<world, rows, hand, callVars, unsure, past, faults>>

Unsettled == {"pending", "writing", "readback"}
Settled == {"confirmed", "reconciled", "failed"}

Intent == [value: BOOLEAN, generation: Nat, ident: Nat,
           status: Unsettled \cup Settled \cup {"none"}, token: Calls \cup {NoCall}, live: BOOLEAN]

\* moved: the generation was counted up since the last claim.
Readback == [due: BOOLEAN, ident: Nat, token: Calls \cup {NoCall}, live: BOOLEAN, moved: BOOLEAN]

Claims == [value: BOOLEAN, generation: Nat, ident: Nat, reading: BOOLEAN]
Results == [outcome: {"none", "committed", "retryable", "permanent", "outcome_unknown"},
            observed: BOOLEAN \cup {Unknown}]

InIntent == {"inspect", "mark", "wait", "read", "finish"}
InReadback == {"look", "ask", "apply", "end"}

FlagTypeOK ==
  /\ {remote, news, shown, recent} \subseteq BOOLEAN
  /\ place \in 0..LastMove /\ ident \in 0..place
  /\ intent \in Intent /\ intent.generation <= LastClick
  /\ later \in Readback
  /\ hand \in [value: BOOLEAN, place: 0..place] \cup {Unknown}
  /\ pc \in [Calls -> {"idle"} \cup InIntent \cup InReadback]
  /\ claim \in [Calls -> Claims]
  /\ touched \in [Calls -> BOOLEAN]
  /\ result \in [Calls -> Results]
  /\ wire \subseteq [call: Calls, generation: 0..LastClick, value: BOOLEAN]
  /\ landed \subseteq [call: Calls, generation: 0..LastClick, value: BOOLEAN]
  /\ unsure \subseteq 0..LastClick
  /\ passed \subseteq Calls /\ overtaken \in BOOLEAN
  /\ changes \in 0..LastRemote
  /\ faults \in 0..LastFault

NoReadback == [due |-> FALSE, ident |-> 0, token |-> NoCall, live |-> FALSE, moved |-> FALSE]
NoClaim == [value |-> FALSE, generation |-> 0, ident |-> 0, reading |-> FALSE]
NoResult == [outcome |-> "none", observed |-> Unknown]

FlagInit ==
  /\ remote = FALSE /\ place = 0 /\ news = FALSE
  /\ shown = FALSE /\ ident = 0 /\ recent = FALSE
  /\ intent = [value |-> FALSE, generation |-> 0, ident |-> 0, status |-> "none",
               token |-> NoCall, live |-> FALSE]
  /\ later = NoReadback
  /\ hand = Unknown
  /\ pc = [c \in Calls |-> "idle"]
  /\ claim = [c \in Calls |-> NoClaim]
  /\ touched = [c \in Calls |-> FALSE]
  /\ result = [c \in Calls |-> NoResult]
  /\ wire = {} /\ landed = {} /\ unsure = {} /\ passed = {} /\ overtaken = FALSE
  /\ changes = 0 /\ faults = 0

GoesTo(c, where) == pc' = [pc EXCEPT ![c] = where]

Fault == faults < LastFault /\ faults' = faults + 1

\* The call returns and keeps nothing.
Leave(c) == /\ GoesTo(c, "idle")
            /\ claim' = [claim EXCEPT ![c] = NoClaim]
            /\ touched' = [touched EXCEPT ![c] = FALSE]
            /\ result' = [result EXCEPT ![c] = NoResult]

Report(c, outcome, observed) ==
  /\ result' = [result EXCEPT ![c] = [outcome |-> outcome, observed |-> observed]]
  /\ GoesTo(c, "finish")

IsActive == intent.status \in Unsettled

-----------------------------------------------------------------------------
(* The provider and the other mail programs.                               *)

OtherProgram ==
  /\ changes < LastRemote
  /\ changes' = changes + 1
  /\ remote' = ~remote
  /\ news' = TRUE
  /\ UNCHANGED <<place, wire, landed, rows, hand, callVars, unsure, faults, past>>

RemoteMoves ==
  /\ place < LastMove
  /\ place' = place + 1
  /\ news' = TRUE
  /\ UNCHANGED <<remote, wire, landed, changes, rows, hand, callVars, unsure, faults, past>>

Lands(w) ==
  /\ w \in wire
  /\ wire' = wire \ {w}
  /\ landed' = landed \cup {w}
  /\ remote' = w.value
  /\ news' = (news \/ remote # w.value)
  /\ UNCHANGED <<place, changes, rows, hand, callVars, unsure, faults, past>>

Lost(w) ==
  /\ w \in wire
  /\ wire' = wire \ {w}
  /\ UNCHANGED <<remote, place, news, landed, changes, rows, hand, callVars, unsure, faults, past>>

-----------------------------------------------------------------------------
(* The user and the clock.                                                 *)

\* enqueueMailFlagIntent: every click is a new generation, whoever has claimed the row.
Click(value) ==
  /\ intent.generation < LastClick
  /\ intent' = [value |-> value, generation |-> intent.generation + 1, ident |-> ident,
                status |-> "pending", token |-> intent.token, live |-> intent.live]
  /\ UNCHANGED <<world, shown, ident, recent, later, hand, callVars, unsure, faults, past>>

Ages ==
  /\ recent
  /\ recent' = FALSE
  /\ UNCHANGED <<world, shown, ident, intent, later, hand, callVars, unsure, faults, past>>

\* A lease that runs out under its call is a fault, that of a dead one is not.
Outlived(row, at) == IF row.token \in Calls /\ pc[row.token] \in at THEN Fault ELSE UNCHANGED faults

IntentLeaseExpires ==
  /\ intent.live
  /\ intent' = [intent EXCEPT !.live = FALSE]
  /\ Outlived(intent, InIntent)
  /\ UNCHANGED <<world, shown, ident, recent, later, hand, callVars, unsure, past>>

ReadbackLeaseExpires ==
  /\ later.live
  /\ later' = [later EXCEPT !.live = FALSE]
  /\ Outlived(later, InReadback)
  /\ UNCHANGED <<world, shown, ident, recent, intent, hand, callVars, unsure, past>>

-----------------------------------------------------------------------------
(* The synchronization of a changed message (applyGmailMessage and         *)
(* applyGraphMessage), as far as it concerns the flag.                     *)

SyncReads ==
  /\ news /\ hand = Unknown
  /\ hand' = [value |-> remote, place |-> place]
  /\ news' = FALSE
  /\ UNCHANGED <<remote, place, wire, landed, changes, rows, callVars, unsure, faults, past>>

\* The cursor has not advanced: the feed names the change again.
SyncFails ==
  /\ hand # Unknown
  /\ hand' = Unknown
  /\ news' = TRUE
  /\ Fault
  /\ UNCHANGED <<remote, place, wire, landed, changes, rows, callVars, unsure, past>>

Protected == IsActive \/ recent

\* deferMailFlagReadback: a row that exists keeps its claim.
Deferred(at) ==
  IF later.due
  THEN [due |-> TRUE, ident |-> at, token |-> later.token, live |-> later.live, moved |-> TRUE]
  ELSE [due |-> TRUE, ident |-> at, token |-> NoCall, live |-> FALSE, moved |-> FALSE]

\* Bug: what is not applied is forgotten.
SyncAppliesOnly ==
  /\ hand # Unknown
  /\ shown' = IF Protected THEN shown ELSE hand.value
  /\ ident' = hand.place
  /\ hand' = Unknown
  /\ UNCHANGED <<world, recent, intent, later, callVars, unsure, faults, past>>

SyncApplies ==
  /\ hand # Unknown
  /\ ident' = hand.place
  /\ IF Protected
     THEN later' = Deferred(hand.place) /\ UNCHANGED <<shown, past>>
     ELSE /\ shown' = hand.value /\ overtaken' = FALSE
          /\ passed' = passed \cup {c \in Calls : pc[c] = "apply"}
          /\ UNCHANGED later
  /\ hand' = Unknown
  /\ UNCHANGED <<world, recent, intent, callVars, unsure, faults>>

\* A row that is archived or deleted is left as it is, whether it is protected or not.
SyncFindsHidden ==
  /\ hand # Unknown
  /\ later' = Deferred(ident)
  /\ hand' = Unknown
  /\ UNCHANGED <<world, shown, ident, recent, intent, callVars, unsure, faults, past>>

-----------------------------------------------------------------------------
(* processMailFlagIntent.                                                  *)

\* Bug: a claim is never taken from a call that has died.
NeverExpires(row) == row.token = NoCall

Claimable(row) == row.token = NoCall \/ ~row.live

\* The same intent, in another status and other hands.
IntentAs(status, token, live) ==
  [value |-> intent.value, generation |-> intent.generation, ident |-> intent.ident,
   status |-> status, token |-> token, live |-> live]

\* Bug: a write that was begun is begun again.
ClaimAgain(c) ==
  /\ pc[c] = "idle"
  /\ IsActive /\ Claimable(intent)
  /\ intent' = [intent EXCEPT !.token = c, !.live = TRUE]
  /\ claim' = [claim EXCEPT ![c] = [value |-> intent.value, generation |-> intent.generation,
                                    ident |-> intent.ident, reading |-> intent.status = "readback"]]
  /\ GoesTo(c, "inspect")
  /\ UNCHANGED <<world, shown, ident, recent, later, hand, touched, result, unsure, faults, past>>

\* An intent found in "writing" was left by a call that may have written it.
Claim(c) ==
  /\ pc[c] = "idle"
  /\ IsActive /\ Claimable(intent)
  /\ LET status == IF intent.status = "writing" THEN "readback" ELSE intent.status
     IN /\ intent' = IntentAs(status, c, TRUE)
        /\ claim' = [claim EXCEPT ![c] = [value |-> intent.value, generation |-> intent.generation,
                                          ident |-> intent.ident, reading |-> status = "readback"]]
  /\ GoesTo(c, "inspect")
  /\ UNCHANGED <<world, shown, ident, recent, later, hand, touched, result, unsure, faults, past>>

\* Another identity is not written to: MAIL_IDENTITY_CHANGED.
Inspect(c) ==
  /\ pc[c] = "inspect"
  /\ IF ident # claim[c].ident THEN Report(c, "permanent", Unknown)
     ELSE GoesTo(c, IF claim[c].reading THEN "read" ELSE "mark") /\ UNCHANGED result
  /\ UNCHANGED <<world, rows, hand, claim, touched, unsure, faults, past>>

HoldsIntent(c) == intent.token = c /\ intent.live

\* Bug: the result is recorded for whatever is the newest intent.
NewestAlways(c) == TRUE

Newest(c) == intent.generation = claim[c].generation

Released(c) == IF intent.token = c THEN IntentAs(intent.status, NoCall, FALSE) ELSE intent

Request(c) == [call |-> c, generation |-> claim[c].generation, value |-> claim[c].value]

\* The mark "writing" is stored, and then the write is sent.
Write(c) ==
  /\ pc[c] = "mark"
  /\ HoldsIntent(c) /\ Newest(c)
  /\ intent' = [intent EXCEPT !.status = "writing"]
  /\ wire' = wire \cup {Request(c)}
  /\ unsure' = unsure \cup {claim[c].generation}
  /\ GoesTo(c, "wait")
  /\ UNCHANGED <<remote, place, news, landed, changes, shown, ident, recent, later, hand, claim,
                 touched, result, faults, past>>

Withdraw(c) ==
  /\ pc[c] = "mark"
  /\ ~(HoldsIntent(c) /\ Newest(c))
  /\ intent' = Released(c)
  /\ Leave(c)
  /\ UNCHANGED <<world, shown, ident, recent, later, hand, unsure, faults, past>>

\* The provider's answer.  A success and a refusal are true; a request to try later may also
\* be a 5xx answer, which like silence says nothing.
Committed(c) ==
  /\ pc[c] = "wait"
  /\ Request(c) \in landed \ wire
  /\ Report(c, "committed", Unknown)
  /\ UNCHANGED <<world, rows, hand, claim, touched, unsure, faults, past>>

Refused(c) ==
  /\ pc[c] = "wait"
  /\ Request(c) \notin landed \cup wire
  /\ Report(c, "permanent", Unknown)
  /\ UNCHANGED <<world, rows, hand, claim, touched, unsure, faults, past>>

TryLater(c) ==
  /\ pc[c] = "wait"
  /\ Fault
  /\ Report(c, "retryable", Unknown)
  /\ unsure' = unsure \ {claim[c].generation}
  /\ UNCHANGED <<world, rows, hand, claim, touched, past>>

NoAnswer(c) ==
  /\ pc[c] \in {"wait", "read"}
  /\ Fault
  /\ Report(c, "outcome_unknown", Unknown)
  /\ UNCHANGED <<world, rows, hand, claim, touched, unsure, past>>

Read(c) ==
  /\ pc[c] = "read"
  /\ Report(c, "permanent", remote)
  /\ UNCHANGED <<world, rows, hand, claim, touched, unsure, faults, past>>

\* Bug: a write without an answer counts as read back.
NextStatusRead(c) ==
  CASE ident # claim[c].ident -> "failed"
    [] result[c].outcome = "committed" -> "confirmed"
    [] result[c].outcome = "retryable" -> "pending"
    [] OTHER -> "reconciled"

\* What the claimed generation comes to, if the row still has the claimed identity.
NextStatus(c) ==
  CASE ident # claim[c].ident -> "failed"
    [] result[c].observed # Unknown -> "reconciled"
    [] result[c].outcome = "committed" -> "confirmed"
    [] result[c].outcome = "retryable" -> "pending"
    [] result[c].outcome = "outcome_unknown" -> "readback"
    [] OTHER -> "failed"

\* The row says what was written or read, and is protected for a while.
Adopt(value) == /\ shown' = value /\ overtaken' = FALSE
                /\ recent' = TRUE
                /\ touched' = [d \in Calls |-> pc[d] \in InReadback]

Finish(c) ==
  /\ pc[c] = "finish" /\ HoldsIntent(c) /\ Newest(c)
  /\ LET status == NextStatus(c)
     IN /\ intent' = IntentAs(status, NoCall, FALSE)
        /\ CASE status = "confirmed" -> Adopt(claim[c].value)
             [] status = "reconciled" -> Adopt(result[c].observed)
             [] OTHER -> UNCHANGED <<shown, recent, touched, overtaken>>
  /\ GoesTo(c, "idle")
  /\ claim' = [claim EXCEPT ![c] = NoClaim]
  /\ result' = [result EXCEPT ![c] = NoResult]
  /\ UNCHANGED <<world, ident, later, hand, unsure, faults, passed>>

\* The lease is gone, or a newer click came in the meantime.
FinishSuperseded(c) ==
  /\ pc[c] = "finish" /\ ~(HoldsIntent(c) /\ Newest(c))
  /\ intent' = IF HoldsIntent(c) THEN Released(c) ELSE intent
  /\ Leave(c)
  /\ UNCHANGED <<world, shown, ident, recent, later, hand, unsure, faults, past>>

-----------------------------------------------------------------------------
(* drainMailFlagReadbacks.                                                 *)

ClaimReadback(c) ==
  /\ pc[c] = "idle"
  /\ later.due /\ Claimable(later)
  /\ later' = [due |-> TRUE, ident |-> later.ident, token |-> c, live |-> TRUE, moved |-> FALSE]
  /\ claim' = [claim EXCEPT ![c] = [NoClaim EXCEPT !.ident = later.ident]]
  /\ GoesTo(c, "look")
  /\ UNCHANGED <<world, shown, ident, recent, intent, hand, touched, result, unsure, faults, past>>

Mine(c) == later.due /\ later.token = c /\ ~later.moved

\* A row that has moved is not asked for.
Look(c) ==
  /\ pc[c] = "look"
  /\ touched' = [touched EXCEPT ![c] = FALSE]
  /\ IF ident = claim[c].ident THEN GoesTo(c, "ask") /\ UNCHANGED later
     ELSE GoesTo(c, "end") /\ later' = IF Mine(c) THEN NoReadback ELSE later
  /\ UNCHANGED <<world, shown, ident, recent, intent, hand, claim, result, unsure, faults, past>>

Ask(c) ==
  /\ pc[c] = "ask"
  /\ result' = [result EXCEPT ![c] = [outcome |-> "none", observed |-> remote]]
  /\ GoesTo(c, "apply")
  /\ UNCHANGED <<world, rows, hand, claim, touched, unsure, faults, past>>

AskInVain(c) ==
  /\ pc[c] = "ask"
  /\ Fault
  /\ GoesTo(c, "end")
  /\ UNCHANGED <<world, rows, hand, claim, touched, result, unsure, past>>

Blocked(c) == IsActive \/ recent \/ touched[c]

ApplyReadback(c) ==
  /\ pc[c] = "apply"
  /\ IF Mine(c) /\ later.live /\ ident = claim[c].ident /\ ~Blocked(c)
     THEN shown' = result[c].observed /\ later' = NoReadback /\ overtaken' = (c \in passed)
     ELSE UNCHANGED <<shown, later, overtaken>>
  /\ passed' = passed \ {c}
  /\ GoesTo(c, "end")
  /\ UNCHANGED <<world, ident, recent, intent, hand, claim, touched, result, unsure, faults>>

EndReadback(c) ==
  /\ pc[c] = "end"
  /\ later' = IF later.token = c
              THEN [due |-> later.due, ident |-> later.ident, token |-> NoCall, live |-> FALSE,
                    moved |-> later.moved]
              ELSE later
  /\ Leave(c)
  /\ UNCHANGED <<world, shown, ident, recent, intent, hand, unsure, faults, past>>

\* The process dies; its rows keep the token and its request stays on its way.
CallDies(c) ==
  /\ pc[c] # "idle"
  /\ Fault
  /\ Leave(c)
  /\ passed' = passed \ {c}
  /\ UNCHANGED <<world, rows, hand, unsure, overtaken>>

-----------------------------------------------------------------------------
CallStep(c) ==
  \/ Claim(c) \/ Inspect(c) \/ Write(c) \/ Withdraw(c) \/ Committed(c) \/ Refused(c)
  \/ Read(c) \/ Finish(c) \/ FinishSuperseded(c)
  \/ ClaimReadback(c) \/ Look(c) \/ Ask(c) \/ ApplyReadback(c) \/ EndReadback(c)

CallFault(c) == TryLater(c) \/ NoAnswer(c) \/ AskInVain(c) \/ CallDies(c)

Delivery == \E w \in wire : Lands(w) \/ Lost(w)

FlagNext ==
  \/ OtherProgram \/ RemoteMoves \/ Delivery
  \/ \E value \in BOOLEAN : Click(value)
  \/ Ages \/ IntentLeaseExpires \/ ReadbackLeaseExpires
  \/ SyncReads \/ SyncFails \/ SyncApplies \/ SyncFindsHidden
  \/ \E c \in Calls : CallStep(c) \/ CallFault(c)

FlagSpec == FlagInit /\ [][FlagNext]_flagVars

\* The worker and the synchronization are timers that run as long as the process does; a
\* request ends, a lease of a dead call and the time of protection run out.  Each round of the
\* worker looks at the intents that are due, and then at the readbacks.
FlagFairness ==
  /\ WF_flagVars(Delivery) /\ WF_flagVars(Ages)
  /\ WF_flagVars(SyncReads) /\ WF_flagVars(SyncApplies \/ SyncFindsHidden)
  /\ WF_flagVars(IntentLeaseExpires) /\ WF_flagVars(ReadbackLeaseExpires)
  /\ \A c \in Calls : WF_flagVars(CallStep(c))
  /\ SF_flagVars(\E c \in Calls : Claim(c)) /\ SF_flagVars(\E c \in Calls : ClaimReadback(c))

-----------------------------------------------------------------------------
(* Properties.                                                             *)

\* "Confirmed" is said of the newest click only, and only when the provider has applied it.
ConfirmedWasWritten ==
  intent.status = "confirmed" => \E w \in landed : /\ w.generation = intent.generation
                                                   /\ w.value = intent.value

\* "A persisted writing claim remains readback-only": a write is repeated only when the
\* provider asked for it.
NeverReplayed ==
  [][\A w \in wire' \ wire : w.generation \notin unsure]_flagVars

Quiet == ~news /\ hand = Unknown /\ wire = {} /\ ~later.due /\ ~IsActive

\* When nothing is left to do the row shows the provider's flag, although what the feed
\* said has been dropped while the row was protected and will not be said again.
QuietMeansAgreed == Quiet => shown = remote

\* So it does unless the row shows the answer of a readback that was given before something
\* newer was stored: nothing else comes between them.
AgreedUnlessOvertaken == Quiet => shown = remote \/ overtaken

\* Every click comes to an end, and the row ends up showing the provider's flag, or such an
\* answer, whatever was dropped on the way.
AgreeInTheEnd == <>[](~IsActive /\ (shown = remote \/ overtaken))
=============================================================================

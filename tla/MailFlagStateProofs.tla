------------------------- MODULE MailFlagStateProofs -------------------------
(***************************************************************************)
(* A flag of one message, for any calls, clicks, changes elsewhere, moves  *)
(* and faults.                                                             *)
(*                                                                         *)
(* A click is a new generation, and the call that holds the row for the    *)
(* newest generation is the only one that can send or close it.  Between   *)
(* the row and the provider's flag there may be a difference only while    *)
(* something is left that will name it: the feed's change, what the        *)
(* synchronization has in hand, or a readback for the row as it stands.    *)
(***************************************************************************)
EXTENDS MailFlagState, TLAPS

\* Everything said of a generation was said when it was the newest, and with its value.
Generations ==
  /\ \A g \in unsure : g <= intent.generation
  /\ \A w \in wire \cup landed : w.generation <= intent.generation
  /\ \A w \in wire \cup landed : w.generation = intent.generation => w.value = intent.value
  /\ \A c \in Calls : claim[c].generation <= intent.generation
  /\ \A c \in Calls : pc[c] \in InIntent /\ claim[c].generation = intent.generation =>
                        claim[c].value = intent.value

\* The call works on the newest click, in its name.
MineNow(c) == /\ intent.token = c
              /\ claim[c].generation = intent.generation
              /\ pc[c] \in InIntent

CallWrites(c) ==
  /\ MineNow(c) => IsActive
  /\ MineNow(c) /\ pc[c] \in {"inspect", "mark"} /\ ~claim[c].reading => intent.status = "pending"
  /\ pc[c] = "mark" => ~claim[c].reading
  /\ MineNow(c) /\ pc[c] = "finish" /\ result[c].outcome = "retryable" =>
       intent.generation \notin unsure
  /\ pc[c] = "finish" /\ result[c].outcome = "committed" => Request(c) \in landed
  /\ pc[c] = "apply" => result[c].observed \in BOOLEAN

RowWrites ==
  /\ intent.status = "pending" => intent.generation \notin unsure
  /\ intent.status = "confirmed" => \E w \in landed : w.generation = intent.generation

WriteInv == /\ FlagTypeOK /\ Generations /\ RowWrites
            /\ \A c \in Calls : CallWrites(c)

\* What will name a difference between the row and the provider's flag.
Moves == news \/ hand # Unknown
Deferring == later.due /\ later.ident = ident

CallAgrees(c) ==
  /\ MineNow(c) /\ pc[c] = "finish" /\ result[c].observed # Unknown =>
       remote = result[c].observed \/ Moves \/ Deferring
  /\ pc[c] = "apply" /\ Mine(c) => remote = result[c].observed \/ Moves \/ c \in passed
  /\ pc[c] \in InReadback /\ Mine(c) => claim[c].ident = later.ident

RowAgrees ==
  /\ IsActive /\ (\E w \in landed : w.generation = intent.generation) =>
       remote = intent.value \/ Moves \/ Deferring
  /\ hand # Unknown /\ ~news => hand.value = remote
  /\ shown = remote \/ Moves \/ Deferring \/ overtaken

AgreeInv == RowAgrees /\ \A c \in Calls : CallAgrees(c)

USE FlagAssumption DEF past

-----------------------------------------------------------------------------
(* Types.                                                                  *)

LEMMA FlagTypeStart == FlagInit => FlagTypeOK
  <1> SUFFICES ASSUME FlagInit PROVE FlagTypeOK
    OBVIOUS
  <1>1. {LastClick, LastRemote, LastMove, LastFault} \subseteq Nat
    OBVIOUS
  <1>2. LastClick \in Nat /\ LastRemote \in Nat /\ LastMove \in Nat /\ LastFault \in Nat
    BY <1>1
  <1>3. intent \in Intent /\ intent.generation <= LastClick
    BY <1>2 DEF FlagInit, Intent, Unsettled, Settled
  <1>4. later \in Readback
    BY DEF FlagInit, Readback, NoReadback
  <1>5. NoClaim \in Claims /\ NoResult \in Results
    BY DEF NoClaim, NoResult, Claims, Results
  <1>6. /\ pc \in [Calls -> {"idle"} \cup InIntent \cup InReadback] /\ claim \in [Calls -> Claims]
        /\ touched \in [Calls -> BOOLEAN] /\ result \in [Calls -> Results]
    BY <1>5 DEF FlagInit
  <1>7. /\ place \in 0..LastMove /\ ident \in 0..place
        /\ changes \in 0..LastRemote /\ faults \in 0..LastFault
    BY <1>2 DEF FlagInit
  <1>8. wire = {} /\ landed = {} /\ unsure = {} /\ hand = Unknown
        /\ passed = {} /\ overtaken \in BOOLEAN
        /\ {remote, news, shown, recent} \subseteq BOOLEAN
    BY DEF FlagInit
  <1> QED BY <1>3, <1>4, <1>6, <1>7, <1>8 DEF FlagTypeOK

\* The parts of the state that steps leave in common.
LEMMA LeaveTypes ==
  ASSUME FlagTypeOK, NEW c \in Calls, Leave(c)
  PROVE  /\ pc' \in [Calls -> {"idle"} \cup InIntent \cup InReadback]
         /\ claim' \in [Calls -> Claims]
         /\ touched' \in [Calls -> BOOLEAN]
         /\ result' \in [Calls -> Results]
  BY DEF FlagTypeOK, Leave, GoesTo, NoClaim, NoResult, Claims, Results

LEMMA ReportTypes ==
  ASSUME FlagTypeOK, NEW c \in Calls,
         NEW outcome \in {"none", "committed", "retryable", "permanent", "outcome_unknown"},
         NEW observed \in BOOLEAN \cup {Unknown}, Report(c, outcome, observed)
  PROVE  /\ pc' \in [Calls -> {"idle"} \cup InIntent \cup InReadback]
         /\ result' \in [Calls -> Results]
  BY DEF FlagTypeOK, Report, GoesTo, Results, InIntent

LEMMA WorldTypes ==
  ASSUME FlagTypeOK,
         \/ OtherProgram \/ RemoteMoves \/ Delivery \/ Ages
         \/ SyncReads \/ SyncFails
  PROVE  FlagTypeOK'
  <1>1. CASE OtherProgram
    BY <1>1 DEF OtherProgram, FlagTypeOK, rows, callVars
  <1>2. CASE RemoteMoves
    BY <1>2 DEF RemoteMoves, FlagTypeOK, rows, callVars
  <1>3. ASSUME NEW w \in wire, Lands(w) PROVE FlagTypeOK'
    BY <1>3 DEF Lands, FlagTypeOK, rows, callVars
  <1>4. ASSUME NEW w \in wire, Lost(w) PROVE FlagTypeOK'
    BY <1>4 DEF Lost, FlagTypeOK, rows, callVars
  <1>5. CASE Ages
    BY <1>5 DEF Ages, FlagTypeOK, world, callVars
  <1>6. CASE SyncReads
    <2>1. hand' \in [value: BOOLEAN, place: 0..place] /\ place \in 0..place
      BY <1>6 DEF SyncReads, FlagTypeOK
    <2> QED BY <1>6, <2>1 DEF SyncReads, FlagTypeOK, rows, callVars
  <1>7. CASE SyncFails
    BY <1>7 DEF SyncFails, Fault, FlagTypeOK, rows, callVars
  <1> QED BY <1>1, <1>2, <1>3, <1>4, <1>5, <1>6, <1>7 DEF Delivery

LEMMA RowTypes ==
  ASSUME FlagTypeOK,
         \/ \E value \in BOOLEAN : Click(value)
         \/ IntentLeaseExpires \/ ReadbackLeaseExpires \/ SyncApplies \/ SyncFindsHidden
  PROVE  FlagTypeOK'
  <1>1. ASSUME NEW value \in BOOLEAN, Click(value) PROVE FlagTypeOK'
    BY <1>1 DEF Click, FlagTypeOK, Intent, Unsettled, world, callVars
  <1>2. CASE IntentLeaseExpires
    <2>1. intent' \in Intent /\ intent'.generation = intent.generation
      BY <1>2 DEF IntentLeaseExpires, FlagTypeOK, Intent
    <2>2. faults' \in 0..LastFault
      BY <1>2 DEF IntentLeaseExpires, Outlived, Fault, FlagTypeOK
    <2> QED BY <1>2, <2>1, <2>2 DEF IntentLeaseExpires, FlagTypeOK, world, callVars
  <1>3. CASE ReadbackLeaseExpires
    <2>1. later' \in Readback
      BY <1>3 DEF ReadbackLeaseExpires, FlagTypeOK, Readback
    <2>2. faults' \in 0..LastFault
      BY <1>3 DEF ReadbackLeaseExpires, Outlived, Fault, FlagTypeOK
    <2> QED BY <1>3, <2>1, <2>2 DEF ReadbackLeaseExpires, FlagTypeOK, world, callVars
  <1>4. CASE SyncApplies \/ SyncFindsHidden
    <2>1. later' \in Readback
      <3>1. later \in Readback /\ ident \in Nat /\ (hand # Unknown => hand.place \in Nat)
        BY DEF FlagTypeOK
      <3>2. \A at \in Nat : Deferred(at) \in Readback
        BY <3>1 DEF Deferred, Readback
      <3> QED BY <1>4, <3>1, <3>2 DEF SyncApplies, SyncFindsHidden
    <2>2. /\ shown' \in BOOLEAN /\ ident' \in 0..place /\ hand' = Unknown
          /\ passed' \subseteq Calls /\ overtaken' \in BOOLEAN
          /\ UNCHANGED <<world, recent, intent, callVars, unsure, faults>>
      BY <1>4 DEF SyncApplies, SyncFindsHidden, FlagTypeOK, past
    <2> QED BY <2>1, <2>2 DEF FlagTypeOK, world, callVars
  <1> QED BY <1>1, <1>2, <1>3, <1>4

LEMMA IntentTypes ==
  ASSUME FlagTypeOK, NEW c \in Calls,
         \/ Claim(c) \/ Inspect(c) \/ Write(c) \/ Withdraw(c) \/ Committed(c) \/ Refused(c)
         \/ Read(c) \/ Finish(c) \/ FinishSuperseded(c) \/ TryLater(c) \/ NoAnswer(c)
  PROVE  FlagTypeOK'
  <1>1. CASE Claim(c)
    BY <1>1 DEF Claim, IntentAs, IsActive, GoesTo, FlagTypeOK, Intent, Claims, Unsettled, InIntent,
                world
  <1>2. CASE Inspect(c)
    <2>1. CASE ident # claim[c].ident
      BY <1>2, <2>1, ReportTypes DEF Inspect, FlagTypeOK, world, rows
    <2>2. CASE ident = claim[c].ident
      BY <1>2, <2>2 DEF Inspect, GoesTo, FlagTypeOK, InIntent, world, rows
    <2> QED BY <2>1, <2>2
  <1>3. CASE Write(c)
    <2>1. claim[c] \in Claims /\ claim[c].value \in BOOLEAN
      BY DEF FlagTypeOK, Claims
    <2>2. claim[c].generation \in 0..LastClick
      BY <1>3, <2>1 DEF Write, Newest, FlagTypeOK, Intent
    <2>3. intent' \in Intent /\ intent'.generation = intent.generation
      BY <1>3 DEF Write, FlagTypeOK, Intent, Unsettled
    <2> QED BY <1>3, <2>1, <2>2, <2>3 DEF Write, Request, GoesTo, FlagTypeOK, InIntent
  <1>4. CASE Withdraw(c)
    BY <1>4, LeaveTypes DEF Withdraw, Released, IntentAs, FlagTypeOK, Intent, world
  <1>5. CASE Committed(c)
    BY <1>5, ReportTypes DEF Committed, FlagTypeOK, world, rows
  <1>6. CASE Refused(c)
    BY <1>6, ReportTypes DEF Refused, FlagTypeOK, world, rows
  <1>7. CASE Read(c)
    BY <1>7, ReportTypes DEF Read, FlagTypeOK, world, rows
  <1>8. CASE Finish(c)
    <2>1. claim[c] \in Claims /\ result[c] \in Results /\ claim[c].value \in BOOLEAN
      BY DEF FlagTypeOK, Claims
    <2>2. NextStatus(c) = "reconciled" => result[c].observed \in BOOLEAN
      BY <2>1 DEF NextStatus, Results
    <2>3. NextStatus(c) \in Unsettled \cup Settled
      BY DEF NextStatus, Unsettled, Settled
    <2>4. /\ shown' \in BOOLEAN /\ recent' \in BOOLEAN /\ touched' \in [Calls -> BOOLEAN]
          /\ overtaken' \in BOOLEAN
      <3>1. CASE NextStatus(c) = "confirmed"
        <4>1. PICK value \in BOOLEAN : Adopt(value)
          BY <1>8, <2>1, <3>1 DEF Finish
        <4>2. touched' \in [Calls -> BOOLEAN]
          BY <4>1 DEF Adopt
        <4> QED BY <4>1, <4>2 DEF Adopt
      <3>2. CASE NextStatus(c) = "reconciled"
        <4>1. PICK value \in BOOLEAN : Adopt(value)
          BY <1>8, <2>2, <3>2 DEF Finish
        <4>2. touched' \in [Calls -> BOOLEAN]
          BY <4>1 DEF Adopt
        <4> QED BY <4>1, <4>2 DEF Adopt
      <3>3. CASE NextStatus(c) \notin {"confirmed", "reconciled"}
        BY <1>8, <3>3 DEF Finish, FlagTypeOK
      <3> QED BY <3>1, <3>2, <3>3
    <2>5. intent' \in Intent /\ intent'.generation <= LastClick
      BY <1>8, <2>3 DEF Finish, IntentAs, FlagTypeOK, Intent
    <2>6. /\ pc' \in [Calls -> {"idle"} \cup InIntent \cup InReadback]
          /\ claim' \in [Calls -> Claims] /\ result' \in [Calls -> Results]
      BY <1>8 DEF Finish, GoesTo, NoClaim, NoResult, Claims, Results, FlagTypeOK
    <2> QED BY <1>8, <2>4, <2>5, <2>6 DEF Finish, FlagTypeOK, world
  <1>9. CASE FinishSuperseded(c)
    BY <1>9, LeaveTypes DEF FinishSuperseded, Released, IntentAs, FlagTypeOK, Intent, world
  <1>10. CASE TryLater(c)
    <2>1. faults' \in 0..LastFault
      BY <1>10 DEF TryLater, Fault, FlagTypeOK
    <2> QED BY <1>10, <2>1, ReportTypes DEF TryLater, FlagTypeOK, world, rows
  <1>11. CASE NoAnswer(c)
    BY <1>11, ReportTypes DEF NoAnswer, Fault, FlagTypeOK, world, rows
  <1> QED BY <1>1, <1>2, <1>3, <1>4, <1>5, <1>6, <1>7, <1>8, <1>9, <1>10, <1>11

LEMMA ReadbackTypes ==
  ASSUME FlagTypeOK, NEW c \in Calls,
         \/ ClaimReadback(c) \/ Look(c) \/ Ask(c) \/ ApplyReadback(c) \/ EndReadback(c)
         \/ AskInVain(c) \/ CallDies(c),
         pc[c] = "apply" => result[c].observed \in BOOLEAN
  PROVE  FlagTypeOK'
  <1>1. CASE ClaimReadback(c)
    BY <1>1 DEF ClaimReadback, NoClaim, GoesTo, FlagTypeOK, Readback, Claims, InReadback, world
  <1>2. CASE Look(c)
    <2>1. NoReadback \in Readback
      BY DEF NoReadback, Readback
    <2>2. later' \in Readback /\ pc' \in [Calls -> {"idle"} \cup InIntent \cup InReadback]
      BY <1>2, <2>1 DEF Look, GoesTo, FlagTypeOK, InReadback
    <2> QED BY <1>2, <2>2 DEF Look, FlagTypeOK, world
  <1>3. CASE Ask(c)
    BY <1>3 DEF Ask, GoesTo, FlagTypeOK, Results, InReadback, world, rows
  <1>4. CASE ApplyReadback(c)
    <2>1. NoReadback \in Readback
      BY DEF NoReadback, Readback
    <2>2. shown' \in BOOLEAN /\ later' \in Readback /\ passed' \subseteq Calls
      BY <1>4, <2>1 DEF ApplyReadback, FlagTypeOK
    <2>3. (c \in passed) \in BOOLEAN /\ overtaken \in BOOLEAN
      BY DEF FlagTypeOK
    <2>4. overtaken' \in BOOLEAN
      BY <1>4, <2>3, Zenon DEF ApplyReadback
    <2> QED BY <1>4, <2>2, <2>4 DEF ApplyReadback, GoesTo, FlagTypeOK, InReadback, world
  <1>5. CASE EndReadback(c)
    BY <1>5, LeaveTypes DEF EndReadback, FlagTypeOK, Readback, world
  <1>6. CASE AskInVain(c)
    BY <1>6 DEF AskInVain, Fault, GoesTo, FlagTypeOK, InReadback, world, rows
  <1>7. CASE CallDies(c)
    BY <1>7, LeaveTypes DEF CallDies, Fault, FlagTypeOK, world, rows
  <1> QED BY <1>1, <1>2, <1>3, <1>4, <1>5, <1>6, <1>7

-----------------------------------------------------------------------------
(* What is written, and by whom.                                           *)

LEMMA WriteStart == FlagInit => WriteInv
  <1> SUFFICES ASSUME FlagInit PROVE WriteInv
    OBVIOUS
  <1>1. FlagTypeOK
    BY FlagTypeStart
  <1>2. Generations /\ RowWrites
    BY DEF FlagInit, Generations, RowWrites, NoClaim, InIntent
  <1>3. ASSUME NEW c \in Calls PROVE CallWrites(c)
    BY DEF FlagInit, CallWrites, MineNow, InIntent
  <1> QED BY <1>1, <1>2, <1>3 DEF WriteInv

\* The steps of the world, the synchronization and the clock.
LEMMA WriteFramed ==
  ASSUME WriteInv, FlagTypeOK', UNCHANGED <<pc, claim, result, unsure>>,
         intent'.value = intent.value, intent'.generation = intent.generation,
         intent'.status = intent.status, intent'.token = intent.token,
         landed \subseteq landed', wire' \cup landed' \subseteq wire \cup landed
  PROVE  WriteInv'
  <1>1. Generations'
    BY DEF WriteInv, Generations
  <1>2. RowWrites'
    BY DEF WriteInv, RowWrites
  <1>3. ASSUME NEW c \in Calls PROVE CallWrites(c)'
    BY DEF WriteInv, CallWrites, MineNow, IsActive, Request
  <1> QED BY <1>1, <1>2, <1>3 DEF WriteInv

\* A call that is not, or no longer, at work on an intent.
LEMMA WriteLeft ==
  ASSUME WriteInv, FlagTypeOK', NEW c \in Calls, UNCHANGED <<wire, landed, unsure>>,
         \A d \in Calls \ {c} :
           pc'[d] = pc[d] /\ claim'[d] = claim[d] /\ result'[d] = result[d],
         pc'[c] \notin InIntent, claim'[c].generation <= intent.generation,
         pc'[c] = "apply" => result'[c].observed \in BOOLEAN,
         intent'.value = intent.value, intent'.generation = intent.generation,
         intent'.status = intent.status, intent'.token \in {intent.token, NoCall}
  PROVE  WriteInv'
  <1>1. Generations'
    BY DEF WriteInv, Generations
  <1>2. RowWrites'
    BY DEF WriteInv, RowWrites
  <1>3. CallWrites(c)'
    BY DEF WriteInv, CallWrites, MineNow, InIntent
  <1>4. ASSUME NEW d \in Calls \ {c} PROVE CallWrites(d)'
    BY <1>4 DEF WriteInv, CallWrites, MineNow, IsActive, Request
  <1> QED BY <1>1, <1>2, <1>3, <1>4 DEF WriteInv

\* A call that goes on, with its intent as it claimed it.
LEMMA WriteGoesOn ==
  ASSUME WriteInv, FlagTypeOK', NEW c \in Calls, UNCHANGED <<intent, wire, landed, claim>>,
         unsure' \subseteq unsure,
         \A d \in Calls \ {c} : pc'[d] = pc[d] /\ result'[d] = result[d],
         pc[c] \in InIntent, pc'[c] \in {"mark", "read", "finish"},
         pc'[c] = "mark" => pc[c] = "inspect" /\ ~claim[c].reading,
         pc'[c] = "finish" /\ result'[c].outcome = "retryable" =>
           claim[c].generation \notin unsure',
         pc'[c] = "finish" /\ result'[c].outcome = "committed" => Request(c) \in landed
  PROVE  WriteInv'
  <1>1. Generations'
    BY DEF WriteInv, Generations, InIntent
  <1>2. RowWrites'
    BY DEF WriteInv, RowWrites
  <1>3. CallWrites(c)'
    BY DEF WriteInv, CallWrites, MineNow, IsActive, Request
  <1>4. ASSUME NEW d \in Calls \ {c} PROVE CallWrites(d)'
    BY <1>4 DEF WriteInv, CallWrites, MineNow, IsActive, Request
  <1> QED BY <1>1, <1>2, <1>3, <1>4 DEF WriteInv

LEMMA WriteClick ==
  ASSUME WriteInv, FlagTypeOK', NEW value \in BOOLEAN, Click(value)
  PROVE  WriteInv'
  <1>1. /\ intent.generation \in Nat /\ intent'.generation = intent.generation + 1
        /\ \A c \in Calls : claim[c].generation \in Nat
        /\ \A w \in wire \cup landed : w.generation \in Nat
        /\ \A g \in unsure : g \in Nat
    BY DEF WriteInv, FlagTypeOK, Intent, Claims, Click
  <1>2. Generations'
    BY <1>1 DEF WriteInv, Generations, Click, world, callVars
  <1>3. RowWrites'
    BY <1>1 DEF WriteInv, Generations, RowWrites, Click, world
  <1>4. ASSUME NEW c \in Calls PROVE CallWrites(c)'
    BY <1>1, <1>4 DEF WriteInv, Generations, CallWrites, MineNow, IsActive, Unsettled, Request,
                      Click, world, callVars
  <1> QED BY <1>2, <1>3, <1>4 DEF WriteInv

LEMMA WriteClaim ==
  ASSUME WriteInv, FlagTypeOK', NEW c \in Calls, Claim(c)
  PROVE  WriteInv'
  <1> DEFINE status == IF intent.status = "writing" THEN "readback" ELSE intent.status
  <1>1. /\ intent' = IntentAs(status, c, TRUE) /\ UNCHANGED <<wire, landed, unsure, result>>
        /\ claim' = [claim EXCEPT ![c] = [value |-> intent.value, generation |-> intent.generation,
                                          ident |-> intent.ident, reading |-> status = "readback"]]
        /\ pc' = [pc EXCEPT ![c] = "inspect"]
    BY DEF Claim, GoesTo, world
  <1>2. claim \in [Calls -> Claims] /\ DOMAIN pc = Calls /\ intent.generation \in Nat
    BY DEF WriteInv, FlagTypeOK, Intent
  <1>3. Generations'
    BY <1>1, <1>2 DEF WriteInv, Generations, IntentAs
  <1>4. RowWrites'
    BY <1>1 DEF WriteInv, RowWrites, IntentAs
  <1>5. CallWrites(c)'
    <2>1. status \in {"pending", "readback"} /\ pc'[c] = "inspect" /\ intent'.status = status
      BY <1>1, <1>2 DEF Claim, IsActive, Unsettled, IntentAs
    <2>2. claim'[c].reading = (status = "readback")
      BY <1>1, <1>2
    <2> QED BY <2>1, <2>2 DEF CallWrites, IsActive, Unsettled
  <1>6. ASSUME NEW d \in Calls \ {c} PROVE CallWrites(d)'
    BY <1>1, <1>2, <1>6 DEF WriteInv, CallWrites, MineNow, Request, IntentAs
  <1> QED BY <1>3, <1>4, <1>5, <1>6 DEF WriteInv

LEMMA WriteSent ==
  ASSUME WriteInv, FlagTypeOK', NEW c \in Calls, Write(c)
  PROVE  WriteInv'
  <1>1. /\ intent' = [intent EXCEPT !.status = "writing"] /\ wire' = wire \cup {Request(c)}
        /\ unsure' = unsure \cup {claim[c].generation} /\ UNCHANGED <<landed, claim, result>>
        /\ pc' = [pc EXCEPT ![c] = "wait"]
        /\ claim[c].generation = intent.generation /\ intent.token = c /\ pc[c] = "mark"
    BY DEF Write, GoesTo, HoldsIntent, Newest
  <1>2. intent \in Intent /\ DOMAIN pc = Calls /\ intent.generation \in Nat
    BY DEF WriteInv, FlagTypeOK, Intent
  <1>3. /\ intent'.value = intent.value /\ intent'.generation = intent.generation
        /\ intent'.status = "writing" /\ intent'.token = c
    BY <1>1, <1>2 DEF Intent
  <1>4. Request(c).generation = intent.generation /\ Request(c).value = intent.value
    BY <1>1 DEF WriteInv, Generations, Request, InIntent
  <1>5. Generations'
    BY <1>1, <1>2, <1>3, <1>4 DEF WriteInv, Generations, InIntent
  <1>6. RowWrites'
    BY <1>3 DEF RowWrites
  <1>7. CallWrites(c)'
    BY <1>1, <1>2, <1>3 DEF CallWrites, MineNow, IsActive, Unsettled
  <1>8. ASSUME NEW d \in Calls \ {c} PROVE CallWrites(d)'
    BY <1>1, <1>2, <1>3, <1>8 DEF WriteInv, CallWrites, MineNow, Request
  <1> QED BY <1>5, <1>6, <1>7, <1>8 DEF WriteInv

\* The call that may close the row is the only one at work on the newest click.
LEMMA WriteFinish ==
  ASSUME WriteInv, FlagTypeOK', NEW c \in Calls, Finish(c)
  PROVE  WriteInv'
  <1>1. /\ intent' = IntentAs(NextStatus(c), NoCall, FALSE) /\ UNCHANGED <<wire, landed, unsure>>
        /\ claim' = [claim EXCEPT ![c] = NoClaim] /\ result' = [result EXCEPT ![c] = NoResult]
        /\ pc' = [pc EXCEPT ![c] = "idle"]
    BY DEF Finish, GoesTo, world
  <1>2. /\ claim \in [Calls -> Claims] /\ DOMAIN pc = Calls /\ DOMAIN result = Calls
        /\ intent.generation \in Nat
    BY DEF WriteInv, FlagTypeOK, Intent
  <1>3. MineNow(c) /\ pc[c] = "finish"
    BY DEF Finish, HoldsIntent, Newest, MineNow, InIntent
  <1>4. Generations'
    <2>1. \A d \in Calls : claim'[d].generation <= intent.generation
      BY <1>1, <1>2 DEF WriteInv, Generations, NoClaim
    <2>2. \A d \in Calls : pc'[d] \in InIntent => claim'[d] = claim[d] /\ pc'[d] = pc[d]
      BY <1>1, <1>2 DEF InIntent
    <2> QED BY <1>1, <2>1, <2>2 DEF WriteInv, Generations, IntentAs
  <1>5. RowWrites'
    <2>1. NextStatus(c) = "pending" => intent.generation \notin unsure
      BY <1>3 DEF NextStatus, WriteInv, CallWrites
    <2>2. NextStatus(c) = "confirmed" => \E w \in landed : w.generation = intent.generation
      BY <1>3 DEF NextStatus, WriteInv, CallWrites, Request, MineNow
    <2> QED BY <1>1, <2>1, <2>2 DEF RowWrites, IntentAs
  <1>6. CallWrites(c)'
    BY <1>1, <1>2 DEF CallWrites, MineNow, InIntent
  <1>7. ASSUME NEW d \in Calls \ {c} PROVE CallWrites(d)'
    BY <1>1, <1>2, <1>7 DEF WriteInv, CallWrites, MineNow, Request, IntentAs
  <1> QED BY <1>4, <1>5, <1>6, <1>7 DEF WriteInv

LEMMA WriteWorld ==
  ASSUME WriteInv, FlagTypeOK',
         \/ OtherProgram \/ RemoteMoves \/ Delivery \/ Ages
         \/ SyncReads \/ SyncFails \/ SyncApplies \/ SyncFindsHidden
         \/ IntentLeaseExpires \/ ReadbackLeaseExpires \/ UNCHANGED flagVars
  PROVE  WriteInv'
  <1>1. CASE OtherProgram \/ RemoteMoves \/ SyncReads \/ SyncFails
    BY <1>1, WriteFramed DEF OtherProgram, RemoteMoves, SyncReads, SyncFails, rows, callVars
  <1>2. ASSUME NEW w \in wire, Lands(w) \/ Lost(w) PROVE WriteInv'
    BY <1>2, WriteFramed DEF Lands, Lost, rows, callVars
  <1>3. CASE Ages \/ SyncApplies \/ SyncFindsHidden \/ ReadbackLeaseExpires
    BY <1>3, WriteFramed
       DEF Ages, SyncApplies, SyncFindsHidden, ReadbackLeaseExpires, world, callVars
  <1>4. CASE IntentLeaseExpires
    <2>1. /\ intent'.value = intent.value /\ intent'.generation = intent.generation
          /\ intent'.status = intent.status /\ intent'.token = intent.token
      BY <1>4 DEF IntentLeaseExpires, WriteInv, FlagTypeOK, Intent
    <2> QED BY <1>4, <2>1, WriteFramed DEF IntentLeaseExpires, world, callVars
  <1>5. CASE UNCHANGED flagVars
    BY <1>5, WriteFramed DEF flagVars, world, rows, callVars
  <1> QED BY <1>1, <1>2, <1>3, <1>4, <1>5 DEF Delivery

\* A call that returns, or works on a readback.
LEMMA WriteElsewhere ==
  ASSUME WriteInv, FlagTypeOK', NEW c \in Calls,
         \/ Withdraw(c) \/ FinishSuperseded(c) \/ CallDies(c)
         \/ ClaimReadback(c) \/ Look(c) \/ Ask(c) \/ AskInVain(c) \/ ApplyReadback(c)
         \/ EndReadback(c)
  PROVE  WriteInv'
  <1>1. /\ claim \in [Calls -> Claims] /\ DOMAIN pc = Calls /\ DOMAIN result = Calls
        /\ intent \in Intent /\ intent.generation \in Nat
    BY DEF WriteInv, FlagTypeOK, Intent
  <1>2. \A d \in Calls : claim[d].generation <= intent.generation
    BY DEF WriteInv, Generations
  <1>3. ASSUME Leave(c)
        PROVE  /\ pc'[c] = "idle" /\ claim'[c].generation <= intent.generation
               /\ \A d \in Calls \ {c} :
                    pc'[d] = pc[d] /\ claim'[d] = claim[d] /\ result'[d] = result[d]
    BY <1>1, <1>3 DEF Leave, GoesTo, NoClaim
  <1>4. Released(c).value = intent.value /\ Released(c).generation = intent.generation
        /\ Released(c).status = intent.status /\ Released(c).token \in {intent.token, NoCall}
    BY DEF Released, IntentAs
  <1>5. CASE Withdraw(c) \/ FinishSuperseded(c)
    BY <1>3, <1>4, <1>5, WriteLeft DEF Withdraw, FinishSuperseded, world, InIntent
  <1>6. CASE CallDies(c) \/ EndReadback(c)
    BY <1>3, <1>6, WriteLeft DEF CallDies, EndReadback, world, rows, InIntent
  <1>7. CASE ClaimReadback(c)
    <2>1. claim'[c].generation = 0
      BY <1>1, <1>7 DEF ClaimReadback, NoClaim
    <2> QED BY <1>1, <1>7, <2>1, WriteLeft DEF ClaimReadback, GoesTo, world, InIntent
  <1>8. CASE Look(c) \/ AskInVain(c) \/ ApplyReadback(c)
    BY <1>1, <1>2, <1>8, WriteLeft DEF Look, AskInVain, ApplyReadback, GoesTo, world, rows, InIntent
  <1>9. CASE Ask(c)
    <2>1. remote \in BOOLEAN
      BY DEF WriteInv, FlagTypeOK
    <2> QED BY <1>1, <1>2, <1>9, <2>1, WriteLeft DEF Ask, GoesTo, world, rows, InIntent
  <1> QED BY <1>5, <1>6, <1>7, <1>8, <1>9

\* A call that has looked at its message, or has an answer.
LEMMA WriteReported ==
  ASSUME WriteInv, FlagTypeOK', NEW c \in Calls,
         \/ Inspect(c) \/ Committed(c) \/ Refused(c) \/ Read(c) \/ TryLater(c) \/ NoAnswer(c)
  PROVE  WriteInv'
  <1>1. DOMAIN pc = Calls /\ DOMAIN result = Calls
    BY DEF WriteInv, FlagTypeOK
  <1>2. ASSUME NEW outcome, NEW observed, Report(c, outcome, observed)
        PROVE  /\ pc'[c] = "finish" /\ result'[c].outcome = outcome
               /\ \A d \in Calls \ {c} : pc'[d] = pc[d] /\ result'[d] = result[d]
    BY <1>1, <1>2 DEF Report, GoesTo
  <1>3. CASE Inspect(c)
    <2>1. CASE ident # claim[c].ident
      BY <1>2, <1>3, <2>1, WriteGoesOn DEF Inspect, world, rows, InIntent
    <2>2. CASE ident = claim[c].ident
      BY <1>1, <1>3, <2>2, WriteGoesOn DEF Inspect, GoesTo, world, rows, InIntent
    <2> QED BY <2>1, <2>2
  <1>4. CASE Committed(c)
    BY <1>2, <1>4, WriteGoesOn DEF Committed, world, rows, InIntent
  <1>5. CASE Refused(c)
    BY <1>2, <1>5, WriteGoesOn DEF Refused, world, rows, InIntent
  <1>6. CASE Read(c)
    BY <1>2, <1>6, WriteGoesOn DEF Read, world, rows, InIntent
  <1>7. CASE TryLater(c)
    BY <1>2, <1>7, WriteGoesOn DEF TryLater, world, rows, InIntent
  <1>8. CASE NoAnswer(c)
    BY <1>2, <1>8, WriteGoesOn DEF NoAnswer, world, rows, InIntent
  <1> QED BY <1>3, <1>4, <1>5, <1>6, <1>7, <1>8

LEMMA WriteInductive == WriteInv /\ [FlagNext]_flagVars => WriteInv'
  <1> SUFFICES ASSUME WriteInv, [FlagNext]_flagVars PROVE WriteInv'
    OBVIOUS
  <1>1. CASE \/ OtherProgram \/ RemoteMoves \/ Delivery \/ Ages \/ SyncReads \/ SyncFails
    BY <1>1, WorldTypes, WriteWorld DEF WriteInv
  <1>2. CASE SyncApplies \/ SyncFindsHidden \/ IntentLeaseExpires \/ ReadbackLeaseExpires
    BY <1>2, RowTypes, WriteWorld DEF WriteInv
  <1>3. ASSUME NEW value \in BOOLEAN, Click(value) PROVE WriteInv'
    BY <1>3, RowTypes, WriteClick DEF WriteInv
  <1>4. ASSUME NEW c \in Calls, CallStep(c) \/ CallFault(c) PROVE WriteInv'
    <2>1. CASE Claim(c) \/ Write(c) \/ Finish(c)
      BY <2>1, IntentTypes, WriteClaim, WriteSent, WriteFinish DEF WriteInv
    <2>2. CASE Withdraw(c) \/ FinishSuperseded(c)
      BY <2>2, IntentTypes, WriteElsewhere DEF WriteInv
    <2>3. CASE \/ Inspect(c) \/ Committed(c) \/ Refused(c) \/ Read(c) \/ TryLater(c) \/ NoAnswer(c)
      BY <2>3, IntentTypes, WriteReported DEF WriteInv
    <2>4. CASE \/ ClaimReadback(c) \/ Look(c) \/ Ask(c) \/ ApplyReadback(c) \/ EndReadback(c)
               \/ AskInVain(c) \/ CallDies(c)
      BY <2>4, ReadbackTypes, WriteElsewhere DEF WriteInv, CallWrites
    <2> QED BY <1>4, <2>1, <2>2, <2>3, <2>4 DEF CallStep, CallFault
  <1>5. CASE UNCHANGED flagVars
    <2>1. FlagTypeOK'
      BY <1>5 DEF WriteInv, FlagTypeOK, flagVars, world, rows, callVars
    <2> QED BY <1>5, <2>1, WriteWorld
  <1> QED BY <1>1, <1>2, <1>3, <1>4, <1>5 DEF FlagNext

\* The variables of the flag's state keep their types, in every run.
THEOREM FlagTypeCorrect == FlagSpec => []FlagTypeOK
  <1>1. WriteInv => FlagTypeOK
    BY DEF WriteInv
  <1> QED BY <1>1, WriteStart, WriteInductive, PTL DEF FlagSpec

\* "Confirmed" is said of the newest click only, and only of one the provider has applied:
\* a call that lost its lease, or was overtaken by a click, closes nothing.
THEOREM ConfirmedOnlyWritten == FlagSpec => []ConfirmedWasWritten
  <1>1. WriteInv => ConfirmedWasWritten
    BY DEF WriteInv, Generations, RowWrites, ConfirmedWasWritten
  <1> QED BY <1>1, WriteStart, WriteInductive, PTL DEF FlagSpec

\* A write is sent a second time only when the provider asked for it, whoever died, and
\* whatever lease ran out, in between.
THEOREM NeverReplayedAtAll == FlagSpec => NeverReplayed
  <1>1. ASSUME WriteInv, [FlagNext]_flagVars
        PROVE  [\A w \in wire' \ wire : w.generation \notin unsure]_flagVars
    <2>1. CASE \E c \in Calls : Write(c)
      <3>1. PICK c \in Calls : Write(c)
        BY <2>1
      <3>2. MineNow(c) /\ pc[c] = "mark" /\ wire' = wire \cup {Request(c)}
        BY <3>1 DEF Write, HoldsIntent, Newest, MineNow, InIntent, GoesTo
      <3>3. Request(c).generation \notin unsure
        <4>1. Request(c).generation = intent.generation
          BY <3>2 DEF Request, MineNow
        <4>2. intent.status = "pending"
          BY <1>1, <3>2 DEF WriteInv, CallWrites
        <4> QED BY <1>1, <4>1, <4>2 DEF WriteInv, RowWrites
      <3> QED BY <3>2, <3>3
    <2>2. CASE ~(\E c \in Calls : Write(c)) /\ FlagNext
      <3>1. wire' \subseteq wire
        BY <2>2 DEF FlagNext, Delivery, Lands, Lost, OtherProgram, RemoteMoves, Click, Ages, world,
                    IntentLeaseExpires, ReadbackLeaseExpires, SyncReads, SyncFails, SyncApplies,
                    SyncFindsHidden, CallStep,
                    CallFault, Claim, Inspect, Withdraw, Committed, Refused, Read,
                    Finish, FinishSuperseded, ClaimReadback, Look, Ask, ApplyReadback,
                    EndReadback, TryLater, NoAnswer, AskInVain, CallDies
      <3> QED BY <3>1
    <2>3. CASE UNCHANGED flagVars
      BY <2>3
    <2> QED BY <1>1, <2>1, <2>2, <2>3
  <1> QED BY <1>1, WriteStart, WriteInductive, PTL DEF FlagSpec, NeverReplayed

-----------------------------------------------------------------------------
(* Agreement.  Where a synchronization is stored between a readback's      *)
(* question and its statement, what the row shows then is marked.          *)

LEMMA AgreeStart == FlagInit => AgreeInv
  <1> SUFFICES ASSUME FlagInit PROVE AgreeInv
    OBVIOUS
  <1>1. RowAgrees
    BY DEF FlagInit, RowAgrees, IsActive, Unsettled
  <1>2. ASSUME NEW c \in Calls PROVE CallAgrees(c)
    BY DEF FlagInit, CallAgrees, InReadback
  <1> QED BY <1>1, <1>2 DEF AgreeInv

\* The provider and the feed: the flag changes with news of it.
LEMMA AgreeFramed ==
  ASSUME AgreeInv, UNCHANGED <<pc, claim, result, shown, ident, past>>,
         intent'.value = intent.value, intent'.generation = intent.generation,
         intent'.status = intent.status, intent'.token = intent.token,
         later'.due = later.due, later'.ident = later.ident, later'.token = later.token,
         later'.moved = later.moved,
         Moves => Moves', remote' = remote \/ Moves',
         hand' # Unknown /\ ~news' => hand'.value = remote',
         \A w \in landed' \ landed : w.generation = intent.generation => remote' = intent.value
  PROVE  AgreeInv'
  <1>1. (Deferring <=> Deferring') /\ (IsActive <=> IsActive')
    BY DEF Deferring, IsActive
  <1>2. RowAgrees'
    <2>1. shown' = remote' \/ Moves' \/ Deferring' \/ overtaken'
      BY <1>1 DEF AgreeInv, RowAgrees
    <2>2. ASSUME IsActive', NEW w \in landed', w.generation = intent'.generation
          PROVE  remote' = intent'.value \/ Moves' \/ Deferring'
      BY <1>1, <2>2 DEF AgreeInv, RowAgrees
    <2> QED BY <2>1, <2>2 DEF RowAgrees
  <1>3. ASSUME NEW c \in Calls PROVE CallAgrees(c)'
    <2>1. CallAgrees(c)
      BY DEF AgreeInv
    <2>2. (MineNow(c) <=> MineNow(c)') /\ (Mine(c) <=> Mine(c)')
      BY DEF MineNow, Mine
    <2> QED BY <1>1, <2>1, <2>2 DEF CallAgrees
  <1> QED BY <1>2, <1>3 DEF AgreeInv

\* A step of one call, by which no deferral is lost.
LEMMA AgreeCall ==
  ASSUME AgreeInv, NEW c \in Calls, UNCHANGED <<remote, news, hand, landed, ident>>,
         \A d \in Calls \ {c} :
           pc'[d] = pc[d] /\ claim'[d] = claim[d] /\ result'[d] = result[d],
         intent'.value = intent.value, intent'.generation = intent.generation,
         intent'.token \in {intent.token, NoCall, c}, IsActive' => IsActive,
         Deferring => Deferring', passed \ {c} \subseteq passed',
         \A d \in Calls \ {c} : Mine(d)' => Mine(d) /\ later'.ident = later.ident,
         CallAgrees(c)',
         \/ shown' = remote \/ Moves \/ Deferring
         \/ shown' = shown /\ overtaken' = overtaken
  PROVE  AgreeInv'
  <1>1. Moves' <=> Moves
    BY DEF Moves
  <1>2. RowAgrees'
    BY <1>1 DEF AgreeInv, RowAgrees
  <1>3. ASSUME NEW d \in Calls \ {c} PROVE CallAgrees(d)'
    <2>1. CallAgrees(d)
      BY DEF AgreeInv
    <2>2. (MineNow(d)' => MineNow(d))
      BY DEF MineNow
    <2> QED BY <1>1, <2>1, <2>2 DEF CallAgrees
  <1> QED BY <1>2, <1>3 DEF AgreeInv

LEMMA AgreeWorld ==
  ASSUME WriteInv, AgreeInv,
         \/ OtherProgram \/ RemoteMoves \/ Delivery \/ Ages
         \/ SyncReads \/ SyncFails \/ IntentLeaseExpires \/ ReadbackLeaseExpires
         \/ UNCHANGED flagVars
  PROVE  AgreeInv'
  <1>1. hand # Unknown /\ ~news => hand.value = remote
    BY DEF AgreeInv, RowAgrees
  <1>2. CASE OtherProgram \/ RemoteMoves \/ SyncFails
    BY <1>2, AgreeFramed DEF OtherProgram, RemoteMoves, SyncFails, rows, callVars, Moves
  <1>3. ASSUME NEW w \in wire, Lands(w) PROVE AgreeInv'
    <2>1. w.generation = intent.generation => w.value = intent.value
      BY DEF WriteInv, Generations
    <2>2. /\ landed' = landed \cup {w} /\ remote' = w.value /\ news' = (news \/ remote # w.value)
          /\ UNCHANGED <<pc, claim, result, shown, ident, intent, later, hand, past>>
      BY <1>3 DEF Lands, rows, callVars
    <2> QED BY <1>1, <2>1, <2>2, AgreeFramed DEF Moves
  <1>4. ASSUME NEW w \in wire, Lost(w) PROVE AgreeInv'
    BY <1>1, <1>4, AgreeFramed DEF Lost, rows, callVars, Moves
  <1>5. CASE Ages
    BY <1>1, <1>5, AgreeFramed DEF Ages, world, callVars, Moves
  <1>6. CASE SyncReads
    <2>1. hand' = [value |-> remote, place |-> place] /\ hand' # Unknown
      BY <1>6 DEF SyncReads, WriteInv, FlagTypeOK
    <2> QED BY <1>6, <2>1, AgreeFramed DEF SyncReads, rows, callVars, Moves
  <1>7. CASE IntentLeaseExpires
    <2>1. /\ intent'.value = intent.value /\ intent'.generation = intent.generation
          /\ intent'.status = intent.status /\ intent'.token = intent.token
      BY <1>7 DEF IntentLeaseExpires, WriteInv, FlagTypeOK, Intent
    <2> QED BY <1>1, <1>7, <2>1, AgreeFramed DEF IntentLeaseExpires, world, callVars, Moves
  <1>8. CASE ReadbackLeaseExpires
    <2>1. /\ later'.due = later.due /\ later'.ident = later.ident
          /\ later'.token = later.token /\ later'.moved = later.moved
      BY <1>8 DEF ReadbackLeaseExpires, WriteInv, FlagTypeOK, Readback
    <2> QED BY <1>1, <1>8, <2>1, AgreeFramed DEF ReadbackLeaseExpires, world, callVars, Moves
  <1>9. CASE UNCHANGED flagVars
    BY <1>1, <1>9, AgreeFramed DEF flagVars, world, rows, callVars, Moves
  <1> QED BY <1>2, <1>3, <1>4, <1>5, <1>6, <1>7, <1>8, <1>9 DEF Delivery

\* A click leaves no call at work on the newest generation, and nothing written for it.
LEMMA AgreeClick ==
  ASSUME WriteInv, AgreeInv, NEW value \in BOOLEAN, Click(value)
  PROVE  AgreeInv'
  <1>1. /\ intent.generation \in Nat /\ intent'.generation = intent.generation + 1
        /\ \A c \in Calls : claim[c].generation \in Nat
        /\ \A w \in landed : w.generation \in Nat
    BY DEF WriteInv, FlagTypeOK, Intent, Claims, Click
  <1>2. UNCHANGED <<remote, news, landed, hand, shown, ident, later, pc, claim, result, past>>
    BY DEF Click, world, callVars
  <1>3. /\ \A c \in Calls : claim'[c].generation # intent'.generation
        /\ \A w \in landed' : w.generation # intent'.generation
    BY <1>1, <1>2 DEF WriteInv, Generations
  <1>4. RowAgrees'
    BY <1>2, <1>3 DEF AgreeInv, RowAgrees, Moves, Deferring
  <1>5. ASSUME NEW c \in Calls PROVE CallAgrees(c)'
    BY <1>2, <1>3 DEF AgreeInv, CallAgrees, MineNow, Mine, Moves
  <1> QED BY <1>4, <1>5 DEF AgreeInv

\* What is not applied is deferred, for the row as the synchronization leaves it; what is
\* applied is the provider's flag, or there is news.
LEMMA AgreeApplied ==
  ASSUME WriteInv, AgreeInv, SyncApplies \/ SyncFindsHidden
  PROVE  AgreeInv'
  <1>1. /\ UNCHANGED <<remote, news, landed, intent, pc, claim, result>> /\ hand' = Unknown
        /\ hand # Unknown
    BY DEF SyncApplies, SyncFindsHidden, world, callVars
  <1>2. ASSUME NEW at, later' = Deferred(at), ident' = at PROVE AgreeInv'
    <2>1. Deferring'
      BY <1>2 DEF Deferred, Deferring
    <2>2. \A c \in Calls : ~Mine(c)'
      BY <1>2 DEF Deferred, Mine
    <2>3. RowAgrees'
      BY <1>1, <2>1 DEF RowAgrees
    <2>4. ASSUME NEW c \in Calls PROVE CallAgrees(c)'
      BY <1>1, <2>1, <2>2 DEF CallAgrees
    <2> QED BY <2>3, <2>4 DEF AgreeInv
  <1>3. CASE SyncFindsHidden
    BY <1>2, <1>3 DEF SyncFindsHidden
  <1>4. CASE SyncApplies /\ Protected
    BY <1>2, <1>4 DEF SyncApplies
  <1>5. CASE SyncApplies /\ ~Protected
    <2>1. /\ shown' = hand.value /\ later' = later /\ ~IsActive
          /\ passed' = passed \cup {c \in Calls : pc[c] = "apply"}
      BY <1>5 DEF SyncApplies, Protected
    <2>2. RowAgrees'
      BY <1>1, <2>1 DEF AgreeInv, RowAgrees, IsActive, Moves
    <2>3. ASSUME NEW c \in Calls PROVE CallAgrees(c)'
      BY <1>1, <2>1 DEF WriteInv, CallWrites, AgreeInv, CallAgrees, MineNow, Mine
    <2> QED BY <2>2, <2>3 DEF AgreeInv
  <1> QED BY <1>3, <1>4, <1>5

\* A call that is done with its intent, or has not begun.
LEMMA AgreeIntent ==
  ASSUME WriteInv, AgreeInv, NEW c \in Calls,
         \/ Claim(c) \/ Inspect(c) \/ Write(c) \/ Withdraw(c) \/ Committed(c) \/ Refused(c)
         \/ Read(c) \/ FinishSuperseded(c) \/ TryLater(c) \/ NoAnswer(c)
  PROVE  AgreeInv'
  <1>1. /\ claim \in [Calls -> Claims] /\ DOMAIN pc = Calls /\ DOMAIN result = Calls
        /\ intent \in Intent
    BY DEF WriteInv, FlagTypeOK
  <1>2. /\ Released(c).value = intent.value /\ Released(c).generation = intent.generation
        /\ Released(c).status = intent.status /\ Released(c).token \in {intent.token, NoCall}
    BY DEF Released, IntentAs
  <1>3. ASSUME Leave(c)
        PROVE  /\ pc'[c] = "idle"
               /\ \A d \in Calls \ {c} :
                    pc'[d] = pc[d] /\ claim'[d] = claim[d] /\ result'[d] = result[d]
    BY <1>1, <1>3 DEF Leave, GoesTo
  <1>4. ASSUME NEW outcome, NEW observed, Report(c, outcome, observed)
        PROVE  /\ pc'[c] = "finish" /\ result'[c].observed = observed
               /\ \A d \in Calls \ {c} : pc'[d] = pc[d] /\ result'[d] = result[d]
    BY <1>1, <1>4 DEF Report, GoesTo
  <1>5. ASSUME pc'[c] \notin {"finish", "apply"} \cup InReadback PROVE CallAgrees(c)'
    BY <1>5 DEF CallAgrees
  <1>6. CASE Claim(c)
    BY <1>1, <1>5, <1>6, AgreeCall DEF Claim, IntentAs, IsActive, Unsettled, GoesTo, InReadback,
                                       world, Deferring, Mine
  <1>7. CASE Write(c)
    <2>1. /\ intent'.value = intent.value /\ intent'.generation = intent.generation
          /\ intent'.token = intent.token /\ IsActive
      BY <1>1, <1>7 DEF Write, Intent, WriteInv, CallWrites, MineNow, HoldsIntent, Newest, InIntent
    <2> QED BY <1>1, <1>5, <1>7, <2>1, AgreeCall DEF Write, GoesTo, InReadback, Deferring, Mine
  <1>8. CASE Withdraw(c) \/ FinishSuperseded(c)
    BY <1>2, <1>3, <1>5, <1>8, AgreeCall
       DEF Withdraw, FinishSuperseded, IsActive, InReadback, world, Deferring, Mine
  <1>9. CASE Inspect(c) /\ ident = claim[c].ident
    BY <1>1, <1>5, <1>9, AgreeCall DEF Inspect, GoesTo, InReadback, world, rows, Deferring, Mine,
                                       IsActive
  <1>10. CASE \/ Inspect(c) /\ ident # claim[c].ident
              \/ Committed(c) \/ Refused(c) \/ TryLater(c) \/ NoAnswer(c)
    <2>1. /\ Report(c, "permanent", Unknown) \/ Report(c, "committed", Unknown)
             \/ Report(c, "retryable", Unknown) \/ Report(c, "outcome_unknown", Unknown)
          /\ UNCHANGED <<world, rows, hand, claim, past>>
      BY <1>10 DEF Inspect, Committed, Refused, TryLater, NoAnswer
    <2>2. /\ pc'[c] = "finish" /\ result'[c].observed = Unknown
          /\ \A d \in Calls \ {c} : pc'[d] = pc[d] /\ result'[d] = result[d]
      BY <1>4, <2>1
    <2>3. CallAgrees(c)'
      BY <2>2 DEF CallAgrees, InReadback
    <2> QED BY <2>1, <2>2, <2>3, AgreeCall DEF world, rows, Deferring, Mine, IsActive
  <1>11. CASE Read(c)
    <2>1. /\ Report(c, "permanent", remote) /\ UNCHANGED <<world, rows, hand, claim, past>>
      BY <1>11 DEF Read
    <2>2. /\ pc'[c] = "finish" /\ result'[c].observed = remote
          /\ \A d \in Calls \ {c} : pc'[d] = pc[d] /\ result'[d] = result[d]
      BY <1>1, <2>1 DEF Report, GoesTo
    <2>3. CallAgrees(c)'
      BY <2>1, <2>2 DEF CallAgrees, InReadback, world
    <2> QED BY <2>1, <2>2, <2>3, AgreeCall DEF world, rows, Deferring, Mine, IsActive
  <1> QED BY <1>6, <1>7, <1>8, <1>9, <1>10, <1>11

\* The row takes over what was written or read, which is the provider's flag, or there is news.
LEMMA AgreeFinish ==
  ASSUME WriteInv, AgreeInv, NEW c \in Calls, Finish(c)
  PROVE  AgreeInv'
  <1>1. /\ claim \in [Calls -> Claims] /\ DOMAIN pc = Calls /\ DOMAIN result = Calls
    BY DEF WriteInv, FlagTypeOK
  <1>2. MineNow(c) /\ pc[c] = "finish" /\ IsActive /\ CallWrites(c) /\ CallAgrees(c)
    BY DEF Finish, HoldsIntent, Newest, MineNow, InIntent, WriteInv, CallWrites, AgreeInv
  <1>3. /\ intent' = IntentAs(NextStatus(c), NoCall, FALSE)
        /\ pc' = [pc EXCEPT ![c] = "idle"] /\ claim' = [claim EXCEPT ![c] = NoClaim]
        /\ result' = [result EXCEPT ![c] = NoResult]
        /\ UNCHANGED <<world, ident, later, hand, passed>>
    BY DEF Finish, GoesTo
  <1>4. \/ shown' = remote \/ Moves \/ Deferring
        \/ shown' = shown /\ overtaken' = overtaken
    <2>1. CASE NextStatus(c) = "confirmed"
      <3>1. Request(c) \in landed /\ Request(c).generation = intent.generation
        BY <1>2, <2>1 DEF NextStatus, CallWrites, Request, MineNow
      <3>2. remote = intent.value \/ Moves \/ Deferring
        BY <1>2, <3>1 DEF AgreeInv, RowAgrees
      <3>3. claim[c].value = intent.value
        BY <1>2 DEF MineNow, WriteInv, Generations
      <3> QED BY <2>1, <3>2, <3>3 DEF Finish, Adopt
    <2>2. CASE NextStatus(c) = "reconciled"
      <3>1. result[c].observed # Unknown
        BY <2>2 DEF NextStatus
      <3> QED BY <1>2, <2>2, <3>1 DEF Finish, Adopt, CallAgrees
    <2>3. CASE NextStatus(c) \notin {"confirmed", "reconciled"}
      BY <2>3 DEF Finish
    <2> QED BY <2>1, <2>2, <2>3
  <1>5. CallAgrees(c)'
    BY <1>1, <1>3 DEF CallAgrees, InReadback
  <1>6. /\ intent'.value = intent.value /\ intent'.generation = intent.generation
        /\ intent'.token = NoCall
    BY <1>3 DEF IntentAs
  <1> QED BY <1>1, <1>2, <1>3, <1>4, <1>5, <1>6, AgreeCall DEF world, Deferring, Mine

LEMMA AgreeReadback ==
  ASSUME WriteInv, AgreeInv, NEW c \in Calls,
         \/ ClaimReadback(c) \/ Look(c) \/ Ask(c) \/ ApplyReadback(c) \/ EndReadback(c)
         \/ AskInVain(c) \/ CallDies(c)
  PROVE  AgreeInv'
  <1>1. /\ claim \in [Calls -> Claims] /\ DOMAIN pc = Calls /\ DOMAIN result = Calls
        /\ CallAgrees(c)
    BY DEF WriteInv, FlagTypeOK, AgreeInv
  <1>2. ASSUME Leave(c)
        PROVE  /\ pc'[c] = "idle"
               /\ \A d \in Calls \ {c} :
                    pc'[d] = pc[d] /\ claim'[d] = claim[d] /\ result'[d] = result[d]
    BY <1>1, <1>2 DEF Leave, GoesTo
  <1>3. CASE ClaimReadback(c)
    <2>1. /\ later' = [due |-> TRUE, ident |-> later.ident, token |-> c, live |-> TRUE,
                       moved |-> FALSE]
          /\ claim' = [claim EXCEPT ![c] = [NoClaim EXCEPT !.ident = later.ident]]
          /\ pc' = [pc EXCEPT ![c] = "look"] /\ later.due
          /\ UNCHANGED <<world, shown, ident, intent, hand, result, past>>
      BY <1>3 DEF ClaimReadback, GoesTo
    <2>2. claim'[c].ident = later.ident
      BY <1>1, <2>1 DEF NoClaim
    <2>3. CallAgrees(c)'
      BY <1>1, <2>1, <2>2 DEF CallAgrees
    <2> QED BY <1>1, <2>1, <2>3, AgreeCall DEF world, Deferring, Mine, IsActive
  <1>4. CASE Look(c)
    <2>1. Mine(c) /\ ident # claim[c].ident => ~Deferring
      BY <1>1, <1>4 DEF Look, CallAgrees, InReadback, Deferring
    <2>2. CallAgrees(c)'
      BY <1>1, <1>4 DEF Look, GoesTo, CallAgrees, InReadback, Mine, NoReadback
    <2> QED BY <1>1, <1>4, <2>1, <2>2, AgreeCall
            DEF Look, GoesTo, world, Deferring, Mine, IsActive, NoReadback
  <1>5. CASE Ask(c)
    <2>1. CallAgrees(c)'
      BY <1>1, <1>5 DEF Ask, GoesTo, CallAgrees, InReadback, Mine, world, rows
    <2> QED BY <1>1, <1>5, <2>1, AgreeCall DEF Ask, GoesTo, world, rows, Deferring, Mine, IsActive
  <1>6. CASE ApplyReadback(c)
    <2> DEFINE Applies == Mine(c) /\ later.live /\ ident = claim[c].ident /\ ~Blocked(c)
    <2>1. CallAgrees(c)'
      BY <1>1, <1>6 DEF ApplyReadback, GoesTo, CallAgrees, InReadback, Mine, NoReadback
    <2>2. CASE ~Applies
      BY <1>1, <1>6, <2>1, <2>2, AgreeCall
         DEF ApplyReadback, GoesTo, world, Deferring, Mine, IsActive
    <2>3. CASE Applies
      <3>1. /\ ~IsActive /\ shown' = result[c].observed /\ later' = NoReadback
            /\ overtaken' = (c \in passed)
            /\ UNCHANGED <<world, ident, intent, hand, claim, result>>
            /\ pc' = [pc EXCEPT ![c] = "end"]
        BY <1>6, <2>3 DEF ApplyReadback, GoesTo, Blocked
      <3>2. remote = result[c].observed \/ Moves \/ overtaken'
        BY <1>1, <1>6, <2>3, <3>1 DEF ApplyReadback, CallAgrees
      <3>3. RowAgrees'
        BY <3>1, <3>2 DEF AgreeInv, RowAgrees, IsActive, Moves, world
      <3>4. ASSUME NEW d \in Calls PROVE CallAgrees(d)'
        <4>1. ~MineNow(d)
          BY <3>1 DEF WriteInv, CallWrites
        <4>2. pc'[d] \in InIntent \cup {"finish", "apply"} => pc'[d] = pc[d]
          BY <1>1, <3>1 DEF InIntent
        <4>3. ~MineNow(d)'
          BY <3>1, <4>1, <4>2 DEF MineNow
        <4> QED BY <3>1, <4>2, <4>3 DEF AgreeInv, CallAgrees, Mine, NoReadback, Moves, world
      <3> QED BY <3>3, <3>4 DEF AgreeInv
    <2> QED BY <2>2, <2>3
  <1>7. CASE EndReadback(c)
    <2>1. /\ later'.due = later.due /\ later'.ident = later.ident /\ later'.moved = later.moved
          /\ later'.token \in {later.token, NoCall}
      BY <1>7 DEF EndReadback
    <2>2. CallAgrees(c)'
      BY <1>2, <1>7 DEF EndReadback, CallAgrees, InReadback
    <2> QED BY <1>2, <1>7, <2>1, <2>2, AgreeCall DEF EndReadback, world, Deferring, Mine, IsActive
  <1>8. CASE AskInVain(c)
    <2>1. CallAgrees(c)'
      BY <1>1, <1>8 DEF AskInVain, GoesTo, CallAgrees, InReadback, Mine, world, rows
    <2> QED BY <1>1, <1>8, <2>1, AgreeCall
            DEF AskInVain, GoesTo, world, rows, Deferring, Mine, IsActive
  <1>9. CASE CallDies(c)
    <2>1. CallAgrees(c)'
      BY <1>2, <1>9 DEF CallDies, CallAgrees, InReadback
    <2> QED BY <1>2, <1>9, <2>1, AgreeCall DEF CallDies, world, rows, Deferring, Mine, IsActive
  <1> QED BY <1>3, <1>4, <1>5, <1>6, <1>7, <1>8, <1>9

LEMMA AgreeInductive ==
  ASSUME WriteInv, AgreeInv, [FlagNext]_flagVars
  PROVE  AgreeInv'
  <1>1. CASE \/ OtherProgram \/ RemoteMoves \/ Delivery \/ Ages \/ SyncReads \/ SyncFails
             \/ IntentLeaseExpires \/ ReadbackLeaseExpires \/ UNCHANGED flagVars
    BY <1>1, AgreeWorld
  <1>2. CASE SyncApplies \/ SyncFindsHidden
    BY <1>2, AgreeApplied
  <1>3. ASSUME NEW value \in BOOLEAN, Click(value) PROVE AgreeInv'
    BY <1>3, AgreeClick
  <1>4. ASSUME NEW c \in Calls, CallStep(c) \/ CallFault(c) PROVE AgreeInv'
    BY <1>4, AgreeIntent, AgreeFinish, AgreeReadback DEF CallStep, CallFault
  <1> QED BY <1>1, <1>2, <1>3, <1>4 DEF FlagNext

\* When nothing is left to do the row shows the provider's flag, although the feed does not
\* repeat what was dropped while the row was protected, or the answer of a readback that was
\* given before something newer was stored: no other order of events separates them.
THEOREM QuietlyAgreed == FlagSpec => []AgreedUnlessOvertaken
  <1>1. FlagInit => WriteInv /\ AgreeInv
    BY WriteStart, AgreeStart
  <1>2. WriteInv /\ AgreeInv /\ [FlagNext]_flagVars => (WriteInv /\ AgreeInv)'
    BY WriteInductive, AgreeInductive
  <1>3. WriteInv /\ AgreeInv => AgreedUnlessOvertaken
    BY DEF AgreeInv, RowAgrees, AgreedUnlessOvertaken, Quiet, Moves, Deferring
  <1> QED BY <1>1, <1>2, <1>3, PTL DEF FlagSpec
=============================================================================

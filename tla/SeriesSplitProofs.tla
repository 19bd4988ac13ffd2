-------------------------- MODULE SeriesSplitProofs --------------------------
(***************************************************************************)
(* What the split of a series keeps, for any calls, keys and adapters,     *)
(* whether or not records get lost or leases run out under live calls.     *)
(*                                                                         *)
(* A call acts on the stages it found in the row, and on its own progress; *)
(* the row is written by whoever owns it.  That the history of truncations *)
(* and creations only grows is what makes all of these stay true.          *)
(*                                                                         *)
(* Where they cannot, whoever works on an operation owns its row, and the  *)
(* announcement of a creation reaches every later owner: one remainder.    *)
(***************************************************************************)
EXTENDS SeriesSplit, ProviderMutationProofs

Made(k) == \E c \in Calls : <<k, c>> \in effects

Complete(k) == WasCut(k) /\ (k \in Endings \/ Made(k))

\* What a call has in hand is true, and what it may send is what comes next.
CallSplit(c) ==
  /\ pc[c] = "idle" => leg[c] = "start" /\ c \notin wire /\ seen[c] = {}
  /\ \A k \in Keys : <<k, c>> \in effects => key[c] = k /\ pc[c] # "idle" /\ WasCut(k)
  /\ c \in wire => leg[c] \in {"truncating", "creating"}
  /\ leg[c] \in {"start", "prepared"} \/ (c \in wire /\ leg[c] = "truncating") =>
       \A k \in Keys : <<k, c>> \notin cuts
  /\ leg[c] \notin {"creating", "created"} \/ c \in wire => \A k \in Keys : <<k, c>> \notin effects
  /\ leg[c] \in {"cut", "truncated", "announced", "creating", "created"} => WasCut(key[c])
  /\ leg[c] = "created" => <<key[c], c>> \in effects
  /\ "master_truncated" \in seen[c] => WasCut(key[c])
  /\ "remainder_created" \in seen[c] => Made(key[c])
  /\ pc[c] # "reconcile"
  /\ pc[c] = "record" /\ outcome[c] = "committed" => Complete(key[c])

\* What the row says is true.
RowSplit(k) ==
  /\ "master_truncated" \in op[k].stages => WasCut(k)
  /\ "remainder_created" \in op[k].stages => Made(k)
  /\ op[k].status = "committed" => Complete(k)

SplitInv ==
  /\ SplitTypeOK
  /\ \A c \in Calls : CallSplit(c)
  /\ \A k \in Keys : RowSplit(k)

-----------------------------------------------------------------------------
(* What a step leaves alone.                                               *)

HistoryKept == cuts \subseteq cuts' /\ effects \subseteq effects'

LEMMA HistoryTold ==
  ASSUME HistoryKept
  PROVE  \A k : /\ WasCut(k) => WasCut(k)'
                /\ Made(k) => Made(k)'
                /\ Complete(k) => Complete(k)'
  BY DEF HistoryKept, WasCut, Made, Complete

CallStands(c) ==
  /\ pc'[c] = pc[c] /\ leg'[c] = leg[c] /\ seen'[c] = seen[c] /\ key'[c] = key[c]
  /\ outcome'[c] = outcome[c]
  /\ c \in wire' => c \in wire
  /\ \A k \in Keys : /\ <<k, c>> \in effects' => <<k, c>> \in effects
                     /\ <<k, c>> \in cuts' => <<k, c>> \in cuts

LEMMA CallKept ==
  ASSUME NEW c \in Calls, CallSplit(c), HistoryKept, CallStands(c)
  PROVE  CallSplit(c)'
  BY HistoryTold DEF CallSplit, CallStands, HistoryKept

LEMMA RowsKept ==
  ASSUME SplitInv, HistoryKept, op' = op
  PROVE  \A k \in Keys : RowSplit(k)'
  BY HistoryTold DEF SplitInv, RowSplit

\* A stage is recorded when it has happened.
LEMMA NoteKept ==
  ASSUME SplitInv, HistoryKept, NEW c \in Calls, pc[c] # "idle",
         NEW stage \in SplitStages, Note(c, stage),
         stage = "master_truncated" => WasCut(key[c])',
         stage = "remainder_created" => Made(key[c])',
         key' = key
  PROVE  op' \in [Keys -> Rows] /\ \A k \in Keys : RowSplit(k)'
  <1>1. op \in [Keys -> Rows] /\ key[c] \in Keys
    BY DEF SplitInv, SplitTypeOK, TypeOK
  <1>2. CASE op' = op
    BY <1>1, <1>2, RowsKept
  <1>3. CASE op' = [op EXCEPT ![key[c]] = Progressed(op[key[c]], stage)]
    <2> DEFINE row == Progressed(op[key[c]], stage)
    <2>1. /\ row \in Rows /\ row.status = op[key[c]].status
          /\ row.stages = op[key[c]].stages \cup {stage}
      BY <1>1 DEF Progressed, Rows
    <2> HIDE DEF row
    <2>2. op' \in [Keys -> Rows] /\ \A k \in Keys : op'[k] = IF k = key[c] THEN row ELSE op[k]
      BY <1>1, <1>3, <2>1 DEF row
    <2>3. ASSUME NEW k \in Keys PROVE RowSplit(k)'
      <3>1. RowSplit(k) /\ (WasCut(k) => WasCut(k)') /\ (Made(k) => Made(k)')
            /\ (Complete(k) => Complete(k)')
        BY HistoryTold DEF SplitInv
      <3>2. CASE k # key[c]
        BY <2>2, <3>1, <3>2 DEF RowSplit
      <3>3. CASE k = key[c]
        <4>1. /\ stage = "master_truncated" => WasCut(k)'
              /\ stage = "remainder_created" => Made(k)'
          BY <3>3 DEF WasCut, Made
        <4> QED BY <2>1, <2>2, <3>1, <3>3, <4>1 DEF RowSplit
      <3> QED BY <3>2, <3>3
    <2> QED BY <2>2, <2>3
  <1> QED BY <1>2, <1>3 DEF Note

LEMMA SplitStepped ==
  ASSUME SplitInv, HistoryKept, SplitTypeOK', NEW c \in Calls, CallSplit(c)',
         \A d \in Calls : d # c => CallStands(d),
         \A k \in Keys : RowSplit(k)'
  PROVE  SplitInv'
  <1>1. ASSUME NEW d \in Calls, d # c PROVE CallSplit(d)'
    BY <1>1, CallKept DEF SplitInv
  <1> QED BY <1>1 DEF SplitInv

\* The keys of a split are not looked up and not closed by the flag worker.
LEMMA NoOtherKeys == Deletions = {} /\ Flags = {}
  BY KeyAssumption, SplitAssumption

-----------------------------------------------------------------------------
LEMMA SplitStart == SplitInit => SplitInv
  <1> SUFFICES ASSUME SplitInit PROVE SplitInv
    OBVIOUS
  <1>1. Init /\ leg = [c \in Calls |-> "start"] /\ cuts = {}
    BY DEF SplitInit
  <1>2. SplitTypeOK
    BY <1>1, JournalTypesStart DEF SplitTypeOK
  <1>3. ASSUME NEW c \in Calls PROVE CallSplit(c)
    <2>1. \A k \in Keys : <<k, c>> \notin effects
      BY <1>1, NobodyAssumption DEF Init
    <2> QED BY <1>1, <2>1 DEF Init, CallSplit
  <1>4. ASSUME NEW k \in Keys PROVE RowSplit(k)
    <2>1. op[k] = Absent \/ \E h \in Hashes : op[k] = Unmarked(h)
      BY <1>1 DEF Init
    <2>2. op[k].stages = {} /\ op[k].status # "committed"
      <3>1. CASE op[k] = Absent
        BY <3>1 DEF Absent
      <3>2. ASSUME NEW h \in Hashes, op[k] = Unmarked(h)
            PROVE  op[k].stages = {} /\ op[k].status # "committed"
        BY <3>2 DEF Unmarked
      <3> QED BY <2>1, <3>1, <3>2
    <2> QED BY <2>2 DEF RowSplit
  <1> QED BY <1>2, <1>3, <1>4 DEF SplitInv

-----------------------------------------------------------------------------
(* The adapter's steps.                                                    *)

\* A step that ends a call's run with a report.
LEMMA Reported ==
  ASSUME SplitInv, NEW c \in Calls, NEW o \in Outcomes, pc[c] # "idle", Report(c, o),
         UNCHANGED <<key, hash, gen, seen, reply, wire, effects, leg, cuts>>,
         o = "committed" => Complete(key[c]),
         op' \in [Keys -> Rows], \A k \in Keys : RowSplit(k)'
  PROVE  SplitInv'
  <1>1. HistoryKept
    BY DEF HistoryKept
  <1>2. /\ pc' = [pc EXCEPT ![c] = "record"] /\ outcome' = [outcome EXCEPT ![c] = o]
        /\ SplitTypeOK /\ TypeOK
    BY DEF Report, Goto, SplitInv, SplitTypeOK
  <1>3. pc'[c] = "record" /\ outcome'[c] = o
    BY <1>2 DEF TypeOK
  <1>4. SplitTypeOK'
    BY <1>2 DEF SplitTypeOK, TypeOK
  <1>5. CallSplit(c)'
    <2>1. Complete(key[c]) => Complete(key[c])'
      BY DEF Complete, WasCut, Made
    <2>2. CallSplit(c)
      BY DEF SplitInv
    <2> QED BY <1>3, <2>1, <2>2 DEF CallSplit, WasCut, Made
  <1>6. \A d \in Calls : d # c => CallStands(d)
    BY <1>2 DEF CallStands, TypeOK
  <1> QED BY <1>1, <1>4, <1>5, <1>6, SplitStepped

\* A step that moves on without sending anything.
LEMMA Moved ==
  ASSUME SplitInv, NEW c \in Calls, pc[c] = "perform", leg[c] \in {"start", "cut", "truncated"},
         NEW to \in {"prepared", "truncated", "announced"}, Move(c, to),
         to = "prepared" => leg[c] = "start",
         UNCHANGED <<callVars, wire, effects, cuts>>,
         to # "prepared" => WasCut(key[c]),
         op' \in [Keys -> Rows], \A k \in Keys : RowSplit(k)'
  PROVE  SplitInv'
  <1>1. HistoryKept
    BY DEF HistoryKept
  <1>2. /\ leg' = [leg EXCEPT ![c] = to] /\ SplitTypeOK /\ TypeOK
        /\ UNCHANGED <<pc, key, hash, gen, seen, outcome, reply>>
    BY DEF Move, callVars, SplitInv, SplitTypeOK
  <1>3. SplitTypeOK'
    BY <1>2 DEF SplitTypeOK, TypeOK
  <1>4. CallSplit(c)'
    <2>1. CallSplit(c) /\ leg'[c] = to
      BY <1>2 DEF SplitInv, SplitTypeOK
    <2>2. WasCut(key[c])' <=> WasCut(key[c])
      BY <1>2 DEF WasCut
    <2>3. \A k : (WasCut(k) => WasCut(k)') /\ (Made(k) => Made(k)') /\ (Complete(k) => Complete(k)')
      BY <1>1, HistoryTold
    <2> QED BY <1>2, <2>1, <2>2, <2>3 DEF CallSplit
  <1>5. \A d \in Calls : d # c => CallStands(d)
    BY <1>2 DEF CallStands, SplitTypeOK
  <1> QED BY <1>1, <1>3, <1>4, <1>5, SplitStepped

LEMMA Sent ==
  ASSUME SplitInv, NEW c \in Calls, pc[c] = "perform",
         NEW to \in {"truncating", "creating"}, Send(c, to),
         to = "truncating" => leg[c] = "prepared",
         to = "creating" => leg[c] = "announced" /\ WasCut(key[c])
  PROVE  SplitInv'
  <1>1. HistoryKept /\ op' = op
    BY DEF Send, HistoryKept
  <1>2. /\ leg' = [leg EXCEPT ![c] = to] /\ pc' = [pc EXCEPT ![c] = "await"]
        /\ wire' = wire \cup {c} /\ SplitTypeOK /\ TypeOK
        /\ UNCHANGED <<key, hash, gen, seen, outcome, reply, effects, cuts>>
    BY DEF Send, Goto, Move, SplitInv, SplitTypeOK
  <1>3. SplitTypeOK'
    BY <1>1, <1>2 DEF SplitTypeOK, TypeOK
  <1>4. CallSplit(c)'
    <2>1. CallSplit(c) /\ leg'[c] = to /\ pc'[c] = "await"
      BY <1>2 DEF SplitInv, SplitTypeOK, TypeOK
    <2>2. WasCut(key[c])' <=> WasCut(key[c])
      BY <1>2 DEF WasCut
    <2>3. \A k : (WasCut(k) => WasCut(k)') /\ (Made(k) => Made(k)') /\ (Complete(k) => Complete(k)')
      BY <1>1, HistoryTold
    <2>4. CASE to = "truncating"
      <3>1. \A k \in Keys : <<k, c>> \notin cuts /\ <<k, c>> \notin effects
        BY <2>1, <2>4 DEF CallSplit
      <3>2. \A k \in Keys : <<k, c>> \notin cuts' /\ <<k, c>> \notin effects'
        BY <1>2, <3>1
      <3> QED BY <1>2, <2>1, <2>2, <2>3, <2>4, <3>2 DEF CallSplit
    <2>5. CASE to = "creating"
      BY <1>2, <2>1, <2>2, <2>3, <2>5 DEF CallSplit
    <2> QED BY <2>4, <2>5
  <1>5. \A d \in Calls : d # c => CallStands(d)
    BY <1>2 DEF CallStands, SplitTypeOK, TypeOK
  <1>6. \A k \in Keys : RowSplit(k)'
    BY <1>1, RowsKept
  <1> QED BY <1>1, <1>3, <1>4, <1>5, <1>6, SplitStepped

LEMMA Heard ==
  ASSUME SplitInv, NEW c \in Calls, NEW from \in {"truncating", "creating"},
         NEW to \in {"cut", "created"}, Hear(c, from, to), c \notin wire, WasCut(key[c]),
         to = "cut" => from = "truncating", to = "created" => <<key[c], c>> \in effects
  PROVE  SplitInv'
  <1>1. HistoryKept /\ op' = op
    BY DEF Hear, HistoryKept
  <1>2. /\ leg' = [leg EXCEPT ![c] = to] /\ pc' = [pc EXCEPT ![c] = "perform"]
        /\ SplitTypeOK /\ TypeOK /\ pc[c] = "await" /\ leg[c] = from
        /\ UNCHANGED <<key, hash, gen, seen, outcome, reply, wire, effects, cuts>>
    BY DEF Hear, Goto, Move, SplitInv, SplitTypeOK
  <1>3. SplitTypeOK'
    BY <1>1, <1>2 DEF SplitTypeOK, TypeOK
  <1>4. CallSplit(c)'
    <2>1. CallSplit(c) /\ leg'[c] = to /\ pc'[c] = "perform"
      BY <1>2 DEF SplitInv, SplitTypeOK, TypeOK
    <2>2. WasCut(key[c])' <=> WasCut(key[c])
      BY <1>2 DEF WasCut
    <2>3. \A k : (WasCut(k) => WasCut(k)') /\ (Made(k) => Made(k)') /\ (Complete(k) => Complete(k)')
      BY <1>1, HistoryTold
    <2> QED BY <1>2, <2>1, <2>2, <2>3 DEF CallSplit
  <1>5. \A d \in Calls : d # c => CallStands(d)
    BY <1>2 DEF CallStands, SplitTypeOK, TypeOK
  <1>6. \A k \in Keys : RowSplit(k)'
    BY <1>1, RowsKept
  <1> QED BY <1>1, <1>3, <1>4, <1>5, <1>6, SplitStepped
-----------------------------------------------------------------------------
(* The requests.                                                           *)

LEMMA TruncationApplied ==
  ASSUME SplitInv, NEW c \in Calls, ApplyTruncation(c)
  PROVE  SplitInv'
  <1>1. HistoryKept /\ op' = op
    BY DEF ApplyTruncation, HistoryKept
  <1>2. key[c] \in Keys /\ SplitTypeOK /\ TypeOK /\ CallSplit(c)
    BY DEF SplitInv, CallSplit, ApplyTruncation, SplitTypeOK, TypeOK
  <1>3. /\ UNCHANGED <<op, pc, key, hash, gen, seen, outcome, reply, effects, leg>>
        /\ wire' = wire \ {c} /\ cuts' = cuts \cup {<<key[c], c>>}
    BY DEF ApplyTruncation, callVars
  <1>4. SplitTypeOK'
    BY <1>2, <1>3 DEF SplitTypeOK, TypeOK
  <1>5. \A d \in Calls : d # c => CallStands(d)
    BY <1>3 DEF CallStands
  <1>6. CallSplit(c)'
    <2>1. \A k : (WasCut(k) => WasCut(k)') /\ (Made(k) => Made(k)') /\ (Complete(k) => Complete(k)')
      BY <1>1, HistoryTold
    <2>2. leg[c] = "truncating" /\ c \notin wire'
      BY <1>3 DEF ApplyTruncation
    <2> QED BY <1>2, <1>3, <2>1, <2>2 DEF CallSplit
  <1>7. \A k \in Keys : RowSplit(k)'
    BY <1>1, RowsKept
  <1> QED BY <1>1, <1>4, <1>5, <1>6, <1>7, SplitStepped

LEMMA CreationApplied ==
  ASSUME SplitInv, NEW c \in Calls, ApplyCreate(c)
  PROVE  SplitInv'
  <1>1. HistoryKept /\ op' = op
    BY DEF ApplyCreate, Apply, HistoryKept
  <1>2. key[c] \in Keys /\ SplitTypeOK /\ TypeOK /\ CallSplit(c) /\ pc[c] # "idle"
        /\ WasCut(key[c])
    BY DEF SplitInv, CallSplit, ApplyCreate, SplitTypeOK, TypeOK
  <1>3. /\ UNCHANGED <<op, pc, key, hash, gen, seen, outcome, reply, leg, cuts>>
        /\ wire' = wire \ {c} /\ effects' = effects \cup {<<key[c], c>>}
    BY DEF ApplyCreate, Apply, callVars
  <1>4. SplitTypeOK'
    BY <1>2, <1>3 DEF SplitTypeOK, TypeOK
  <1>5. \A d \in Calls : d # c => CallStands(d)
    BY <1>3 DEF CallStands
  <1>6. CallSplit(c)'
    <2>1. \A k : (WasCut(k) => WasCut(k)') /\ (Made(k) => Made(k)') /\ (Complete(k) => Complete(k)')
      BY <1>1, HistoryTold
    <2>2. \A k \in Keys : <<k, c>> \in effects' => <<k, c>> \in effects \/ k = key[c]
      BY <1>3
    <2>3. leg[c] = "creating" /\ c \notin wire'
      BY <1>3 DEF ApplyCreate
    <2> QED BY <1>2, <1>3, <2>1, <2>2, <2>3 DEF CallSplit
  <1>7. \A k \in Keys : RowSplit(k)'
    BY <1>1, RowsKept
  <1> QED BY <1>1, <1>4, <1>5, <1>6, <1>7, SplitStepped

LEMMA RequestLost ==
  ASSUME SplitInv, NEW c \in Calls, Drop(c), UNCHANGED <<leg, cuts>>
  PROVE  SplitInv'
  <1>1. HistoryKept /\ op' = op
    BY DEF Drop, HistoryKept
  <1>2. /\ UNCHANGED <<op, pc, key, hash, gen, seen, outcome, reply, effects, leg, cuts>>
        /\ wire' = wire \ {c} /\ SplitTypeOK
    BY DEF Drop, callVars, SplitInv
  <1>3. SplitTypeOK'
    BY <1>2 DEF SplitTypeOK, TypeOK
  <1>4. \A d \in Calls : CallStands(d)
    BY <1>2 DEF CallStands
  <1>5. CallSplit(c)'
    BY <1>1, <1>4, CallKept DEF SplitInv
  <1>6. \A k \in Keys : RowSplit(k)'
    BY <1>1, RowsKept
  <1> QED BY <1>1, <1>3, <1>4, <1>5, <1>6, SplitStepped

-----------------------------------------------------------------------------
(* The actions of the adapter.                                             *)

LEMMA RowsStand ==
  ASSUME SplitInv, UNCHANGED <<op, effects, cuts>>
  PROVE  op' \in [Keys -> Rows] /\ \A k \in Keys : RowSplit(k)'
  <1>1. HistoryKept /\ op' = op
    BY DEF HistoryKept
  <1> QED BY <1>1, RowsKept DEF SplitInv, SplitTypeOK, TypeOK

\* A run that ends without a result.
LEMMA GivesUp ==
  ASSUME SplitInv, NEW c \in Calls, NEW o \in Outcomes, o # "committed", pc[c] # "idle", Report(c, o),
         UNCHANGED <<op, key, hash, gen, seen, reply, wire, effects, leg, cuts>>
  PROVE  SplitInv'
  <1>1. op' \in [Keys -> Rows] /\ \A k \in Keys : RowSplit(k)'
    BY RowsStand
  <1> QED BY <1>1, Reported

LEMMA RunsEnd ==
  ASSUME SplitInv, NEW c \in Calls, NEW o \in Outcomes,
         RefuseSplit(c, o) \/ HearFailure(c, o) \/ ResumeInVain(c, o)
  PROVE  SplitInv'
  <1>1. o # "committed"
    BY DEF RefuseSplit, HearFailure, ResumeInVain, Classified
  <1>2. pc[c] # "idle" /\ Report(c, o)
        /\ UNCHANGED <<op, key, hash, gen, seen, reply, wire, effects, leg, cuts>>
    BY DEF RefuseSplit, HearFailure, ResumeInVain, Resumed, At
  <1> QED BY <1>1, <1>2, GivesUp

LEMMA StagesUnprepared ==
  ASSUME SplitInv, NEW c \in Calls, ResumeUnprepared(c)
  PROVE  SplitInv'
  <1>1. pc[c] # "idle" /\ Report(c, "outcome_unknown") /\ "outcome_unknown" \in Outcomes
        /\ UNCHANGED <<op, key, hash, gen, seen, reply, wire, effects, leg, cuts>>
    BY DEF ResumeUnprepared, Resumed, At, Outcomes
  <1> QED BY <1>1, GivesUp

\* A run that ends with both halves written.
LEMMA SplitDone ==
  ASSUME SplitInv, NEW c \in Calls, EndSeries(c) \/ ResumeDone(c)
  PROVE  SplitInv'
  <1>1. /\ pc[c] # "idle" /\ Report(c, "committed") /\ "committed" \in Outcomes
        /\ UNCHANGED <<op, key, hash, gen, seen, reply, wire, effects, leg, cuts>>
    BY DEF EndSeries, ResumeDone, Commit, At, Outcomes
  <1>2. CallSplit(c) /\ key[c] \in Keys
    BY <1>1 DEF SplitInv, SplitTypeOK, TypeOK
  <1>3. Complete(key[c])
    <2>1. CASE EndSeries(c)
      BY <1>2, <2>1 DEF EndSeries, At, CallSplit, Complete
    <2>2. CASE ResumeDone(c)
      <3>1. Made(key[c]) => WasCut(key[c])
        BY <1>2 DEF SplitInv, CallSplit, Made
      <3> QED BY <1>2, <2>2, <3>1 DEF ResumeDone, Fresh, CallSplit, Complete
    <2> QED BY <2>1, <2>2
  <1>4. op' \in [Keys -> Rows] /\ \A k \in Keys : RowSplit(k)'
    BY <1>1, RowsStand
  <1> QED BY <1>1, <1>3, <1>4, Reported

\* ... and with the creation recorded, one that was heard of or one that was found.
LEMMA CreationNoted ==
  ASSUME SplitInv, NEW c \in Calls, NoteCreated(c) \/ ResumeLookup(c)
  PROVE  SplitInv'
  <1>1. /\ pc[c] = "perform" /\ Report(c, "committed") /\ "committed" \in Outcomes
        /\ Note(c, "remainder_created") /\ UNCHANGED <<key, hash, gen, seen, reply, wire, effects, leg, cuts>>
    BY DEF NoteCreated, ResumeLookup, Resumed, Commit, At, Outcomes
  <1>2. CallSplit(c) /\ key[c] \in Keys
    BY <1>1 DEF SplitInv, SplitTypeOK, TypeOK
  <1>3. Made(key[c]) /\ WasCut(key[c])
    <2>1. CASE NoteCreated(c)
      BY <1>2, <2>1 DEF NoteCreated, At, CallSplit, Made
    <2>2. CASE ResumeLookup(c)
      <3>1. "master_truncated" \in seen[c]
        BY <2>2 DEF ResumeLookup, Resumed, SplitStages
      <3>2. \E d \in Calls : <<key[c], d>> \in effects
        BY <2>2 DEF ResumeLookup
      <3> QED BY <1>2, <3>1, <3>2 DEF CallSplit, Made
    <2> QED BY <2>1, <2>2
  <1>4. HistoryKept
    BY <1>1 DEF HistoryKept
  <1>5. op' \in [Keys -> Rows] /\ \A k \in Keys : RowSplit(k)'
    <2>1. WasCut(key[c])' /\ Made(key[c])' /\ key' = key
      BY <1>1, <1>3 DEF WasCut, Made
    <2> QED BY <1>1, <1>4, <2>1, NoteKept DEF SplitStages
  <1> QED BY <1>1, <1>3, <1>5, Reported DEF Complete

\* A run that goes on to its next request.
LEMMA RunsOn ==
  ASSUME SplitInv, NEW c \in Calls, Prepare(c) \/ NoteTruncated(c) \/ Announce(c) \/ ResumeCreate(c)
  PROVE  SplitInv'
  <1>1. /\ pc[c] = "perform" /\ leg[c] \in {"start", "cut", "truncated"}
        /\ UNCHANGED <<callVars, wire, effects, cuts>> /\ key' = key
    BY DEF Prepare, NoteTruncated, Announce, ResumeCreate, Resumed, At, callVars
  <1>2. CallSplit(c) /\ key[c] \in Keys /\ HistoryKept
    BY <1>1 DEF SplitInv, SplitTypeOK, TypeOK, HistoryKept
  <1>3. WasCut(key[c]) => WasCut(key[c])'
    BY <1>1 DEF WasCut
  <1>4. CASE Prepare(c)
    <2>1. Move(c, "prepared") /\ Note(c, "split_prepared") /\ leg[c] = "start"
      BY <1>4 DEF Prepare, At
    <2>2. op' \in [Keys -> Rows] /\ \A k \in Keys : RowSplit(k)'
      BY <1>1, <1>2, <2>1, NoteKept DEF SplitStages
    <2> QED BY <1>1, <2>1, <2>2, Moved
  <1>5. CASE NoteTruncated(c)
    <2>1. Move(c, "truncated") /\ Note(c, "master_truncated") /\ WasCut(key[c])
      BY <1>2, <1>5 DEF NoteTruncated, At, CallSplit
    <2>2. op' \in [Keys -> Rows] /\ \A k \in Keys : RowSplit(k)'
      BY <1>1, <1>2, <1>3, <2>1, NoteKept DEF SplitStages
    <2> QED BY <1>1, <2>1, <2>2, Moved
  <1>6. CASE Announce(c)
    <2>1. /\ Move(c, "announced") /\ Note(c, "remainder_create_dispatched") /\ WasCut(key[c])
      BY <1>2, <1>6 DEF Announce, At, CallSplit
    <2>2. op' \in [Keys -> Rows] /\ \A k \in Keys : RowSplit(k)'
      BY <1>1, <1>2, <2>1, NoteKept DEF SplitStages
    <2> QED BY <1>1, <2>1, <2>2, Moved
  <1>7. CASE ResumeCreate(c)
    <2>1. Move(c, "truncated") /\ WasCut(key[c]) /\ op' = op
      BY <1>2, <1>7 DEF ResumeCreate, Resumed, CallSplit
    <2>2. op' \in [Keys -> Rows] /\ \A k \in Keys : RowSplit(k)'
      BY <1>1, <2>1, RowsStand
    <2> QED BY <1>1, <2>1, <2>2, Moved
  <1> QED BY <1>4, <1>5, <1>6, <1>7

LEMMA RequestsSent ==
  ASSUME SplitInv, NEW c \in Calls, SendTruncation(c) \/ SendCreate(c)
  PROVE  SplitInv'
  <1>1. CASE SendTruncation(c)
    <2>1. pc[c] = "perform" /\ Send(c, "truncating") /\ leg[c] = "prepared"
      BY <1>1 DEF SendTruncation, At
    <2> QED BY <2>1, Sent
  <1>2. CASE SendCreate(c)
    <2>1. pc[c] = "perform" /\ Send(c, "creating") /\ leg[c] = "announced"
      BY <1>2 DEF SendCreate, At
    <2>2. WasCut(key[c])
      BY <2>1 DEF SplitInv, CallSplit
    <2> QED BY <2>1, <2>2, Sent
  <1> QED BY <1>1, <1>2

LEMMA AnswersHeard ==
  ASSUME SplitInv, NEW c \in Calls, HearTruncated(c) \/ HearCreated(c)
  PROVE  SplitInv'
  <1>1. CallSplit(c) /\ key[c] \in Keys
    <2>1. pc[c] = "await"
      BY DEF HearTruncated, HearCreated, Hear
    <2> QED BY <2>1 DEF SplitInv, SplitTypeOK, TypeOK
  <1>2. CASE HearTruncated(c)
    <2>1. Hear(c, "truncating", "cut") /\ Cut(c) /\ leg[c] = "truncating"
      BY <1>2 DEF HearTruncated, Hear
    <2>2. c \notin wire /\ WasCut(key[c])
      BY <1>1, <2>1 DEF CallSplit, Cut, WasCut
    <2> QED BY <2>1, <2>2, Heard
  <1>3. CASE HearCreated(c)
    <2>1. Hear(c, "creating", "created") /\ <<key[c], c>> \in effects
      BY <1>3 DEF HearCreated, Landed
    <2>2. c \notin wire /\ WasCut(key[c])
      BY <1>1, <2>1 DEF CallSplit
    <2> QED BY <2>1, <2>2, Heard
  <1> QED BY <1>2, <1>3

-----------------------------------------------------------------------------
(* The steps of the journal.                                               *)

\* A row may be replaced by one that says no more, unless both halves are written.
LEMMA RowReplaced ==
  ASSUME SplitInv, NEW k \in Keys, NEW row, op' = [op EXCEPT ![k] = row], UNCHANGED <<effects, cuts>>,
         row.stages \subseteq op[k].stages, row.status = "committed" => Complete(k)
  PROVE  \A j \in Keys : RowSplit(j)'
  <1>1. \A j \in Keys : op'[j] = IF j = k THEN row ELSE op[j]
    BY DEF SplitInv, SplitTypeOK, TypeOK
  <1>2. \A j : (WasCut(j)' <=> WasCut(j)) /\ (Made(j)' <=> Made(j)) /\ (Complete(j)' <=> Complete(j))
    BY DEF WasCut, Made, Complete
  <1>3. \A j \in Keys : RowSplit(j)
    BY DEF SplitInv
  <1>4. RowSplit(k)'
    BY <1>1, <1>2, <1>3 DEF RowSplit
  <1>5. ASSUME NEW j \in Keys, j # k PROVE RowSplit(j)'
    BY <1>1, <1>2, <1>3, <1>5 DEF RowSplit
  <1> QED BY <1>4, <1>5

\* A call that begins knows only what its row says.
LEMMA Entered ==
  ASSUME SplitInv, TypeOK', NEW c \in Calls, NEW k \in Keys, pc[c] = "idle",
         key' = [key EXCEPT ![c] = k], NEW next \in {"perform", "park", "done"},
         pc' = [pc EXCEPT ![c] = next], NEW stages, seen' = [seen EXCEPT ![c] = stages],
         UNCHANGED <<outcome, wire, effects, leg, cuts>>,
         "master_truncated" \in stages => WasCut(k), "remainder_created" \in stages => Made(k),
         \A j \in Keys : RowSplit(j)'
  PROVE  SplitInv'
  <1>1. HistoryKept /\ SplitTypeOK' /\ SplitTypeOK /\ TypeOK
    BY DEF HistoryKept, SplitInv, SplitTypeOK
  <1>2. pc'[c] = next /\ key'[c] = k /\ seen'[c] = stages
    BY <1>1 DEF TypeOK
  <1>3. CallSplit(c)'
    <2>1. leg[c] = "start" /\ c \notin wire /\ \A j \in Keys : <<j, c>> \notin cuts /\ <<j, c>> \notin effects
      BY DEF SplitInv, CallSplit
    <2> QED BY <1>2, <2>1 DEF CallSplit, WasCut, Made
  <1>4. \A d \in Calls : d # c => CallStands(d)
    BY <1>1 DEF CallStands, TypeOK
  <1> QED BY <1>1, <1>3, <1>4, SplitStepped

LEMMA SplitBegins ==
  ASSUME SplitInv, NEW c \in Calls, NEW k \in Keys, NEW h \in Hashes, Begin(c, k, h),
         UNCHANGED <<leg, cuts>>
  PROVE  SplitInv'
  <1>1. SplitTypeOK /\ TypeOK /\ RowSplit(k) /\ seen[c] = {} /\ pc[c] = "idle"
    BY DEF SplitInv, SplitTypeOK, CallSplit, Begin, BeginFresh, BeginReused, BeginReplay, BeginBusy,
           BeginReclaim, Enter
  <1>2. TypeOK'
    BY <1>1, BeginTypes
  <1>3. key' = [key EXCEPT ![c] = k] /\ UNCHANGED <<outcome, wire, effects, leg, cuts>>
    BY DEF Begin, BeginFresh, BeginReused, BeginReplay, BeginBusy, BeginReclaim, Enter
  <1>4. seen = [seen EXCEPT ![c] = {}]
    BY <1>1 DEF TypeOK
  <1>5. CASE BeginFresh(c, k, h)
    <2>1. /\ pc' = [pc EXCEPT ![c] = "perform"] /\ seen' = [seen EXCEPT ![c] = {}]
          /\ op' = [op EXCEPT ![k] = InFlight(c, h, 1, {})]
      BY <1>4, <1>5 DEF BeginFresh, Goto
    <2>2. \A j \in Keys : RowSplit(j)'
      BY <1>3, <2>1, RowReplaced DEF InFlight
    <2> QED BY <1>1, <1>2, <1>3, <2>1, <2>2, Entered
  <1>6. CASE BeginReused(c, k, h) \/ BeginReplay(c, k, h) \/ BeginBusy(c, k, h)
    <2>1. pc' = [pc EXCEPT ![c] = "done"] /\ seen' = [seen EXCEPT ![c] = {}] /\ op' = op
      BY <1>4, <1>6, NoOtherKeys DEF BeginReused, BeginReplay, BeginBusy, Goto, Answer
    <2>2. \A j \in Keys : RowSplit(j)'
      BY <1>3, <2>1, RowsStand
    <2> QED BY <1>1, <1>2, <1>3, <2>1, <2>2, Entered
  <1>7. CASE BeginReclaim(c, k, h)
    <2>1. /\ seen' = [seen EXCEPT ![c] = op[k].stages]
          /\ op' = [op EXCEPT ![k] = InFlight(c, op[k].hash, op[k].generation + 1, op[k].stages)]
          /\ pc' = [pc EXCEPT ![c] = IF MayRun(k, op[k]) THEN "perform" ELSE "park"]
      BY <1>7 DEF BeginReclaim, Goto
    <2>2. \A j \in Keys : RowSplit(j)'
      BY <1>3, <2>1, RowReplaced DEF InFlight
    <2>3. /\ "master_truncated" \in op[k].stages => WasCut(k)
          /\ "remainder_created" \in op[k].stages => Made(k)
      BY <1>1 DEF RowSplit
    <2>4. CASE MayRun(k, op[k])
      BY <1>1, <1>2, <1>3, <2>1, <2>2, <2>3, <2>4, Entered
    <2>5. CASE ~MayRun(k, op[k])
      BY <1>1, <1>2, <1>3, <2>1, <2>2, <2>3, <2>5, Entered
    <2> QED BY <2>4, <2>5
  <1> QED BY <1>5, <1>6, <1>7 DEF Begin

\* A call that answers or dies leaves the row as it is, or with what it reported.
LEMMA SplitAnswers ==
  ASSUME SplitInv, NEW c \in Calls, UNCHANGED <<leg, cuts>>,
         Park(c) \/ RecordRetry(c) \/ RecordOutcome(c) \/ Reconcile(c) \/ Crash(c)
  PROVE  SplitInv'
  <1>1. SplitTypeOK /\ TypeOK /\ CallSplit(c) /\ HistoryKept /\ pc[c] # "reconcile" /\ pc[c] # "idle"
    BY DEF SplitInv, SplitTypeOK, CallSplit, HistoryKept, Park, RecordRetry, RecordOutcome, Reconcile, Crash
  <1>2. SplitTypeOK' /\ key[c] \in Keys
    BY <1>1, RecordTypes DEF SplitTypeOK, TypeOK
  <1>3. /\ \/ pc' = [pc EXCEPT ![c] = "done"]
           \/ pc' = [pc EXCEPT ![c] = "dead"]
        /\ UNCHANGED <<key, seen, outcome, wire, effects, leg, cuts>>
    BY <1>1, NoOtherKeys DEF Park, RecordRetry, RecordOutcome, Reconcile, Crash, Goto, Answer
  <1>4. \A d \in Calls : d # c => CallStands(d)
    BY <1>1, <1>3 DEF CallStands, TypeOK
  <1>5. CallSplit(c)'
    <2>1. pc'[c] \in {"done", "dead"}
      BY <1>1, <1>3 DEF TypeOK
    <2>2. \A k : (WasCut(k) => WasCut(k)') /\ (Made(k) => Made(k)') /\ (Complete(k) => Complete(k)')
      BY <1>1, HistoryTold
    <2> QED BY <1>1, <1>3, <2>1, <2>2 DEF CallSplit
  <1>6. \A j \in Keys : RowSplit(j)'
    <2>1. CASE op' = op
      BY <1>1, <2>1, RowsKept
    <2>2. CASE op' = [op EXCEPT ![key[c]] = Finished(op[key[c]], "outcome_unknown")]
      BY <1>2, <1>3, <2>2, RowReplaced DEF Finished
    <2>3. CASE op' = [op EXCEPT ![key[c]] = Scheduled(op[key[c]])]
      BY <1>2, <1>3, <2>3, RowReplaced DEF Scheduled
    <2>4. CASE RecordOutcome(c) /\ op' = [op EXCEPT ![key[c]] = Finished(op[key[c]], JournalStatus(outcome[c]))]
      <3>1. JournalStatus(outcome[c]) = "committed" => Complete(key[c])
        BY <1>1, <2>4 DEF JournalStatus, RecordOutcome, CallSplit
      <3> QED BY <1>2, <1>3, <2>4, <3>1, RowReplaced DEF Finished
    <2> QED BY <1>1, <2>1, <2>2, <2>3, <2>4 DEF Park, RecordRetry, RecordOutcome, Reconcile, Crash
  <1> QED BY <1>1, <1>2, <1>4, <1>5, <1>6, SplitStepped

LEMMA TimePasses ==
  ASSUME SplitInv, NEW k \in Keys, UNCHANGED <<leg, cuts>>,
         RecoverDeletion(k) \/ CloseFlagWrite(k) \/ LeaseExpires(k) \/ RetryDue(k)
  PROVE  SplitInv'
  <1>1. LeaseExpires(k) \/ RetryDue(k)
    BY NoOtherKeys DEF RecoverDeletion, CloseFlagWrite
  <1>2. UNCHANGED <<pc, key, hash, gen, seen, outcome, reply, wire, effects, leg, cuts>>
    BY <1>1 DEF LeaseExpires, RetryDue, callVars
  <1>3. HistoryKept /\ SplitTypeOK' /\ op[k] \in Rows
    BY <1>1, <1>2, KeyTypes DEF HistoryKept, SplitInv, SplitTypeOK, TypeOK
  <1>4. \A d \in Calls : CallSplit(d)'
    <2>1. \A d \in Calls : CallStands(d)
      BY <1>2 DEF CallStands
    <2> QED BY <1>3, <2>1, CallKept DEF SplitInv
  <1>5. PICK row : /\ op' = [op EXCEPT ![k] = row]
                   /\ row.stages = op[k].stages /\ row.status = op[k].status
    <2>1. CASE LeaseExpires(k)
      <3> DEFINE aged == [op[k] EXCEPT !.lease = "expired"]
      <3>1. op' = [op EXCEPT ![k] = aged]
        BY <2>1 DEF LeaseExpires
      <3>2. aged.stages = op[k].stages /\ aged.status = op[k].status
        BY <1>3 DEF Rows
      <3> QED BY <3>1, <3>2
    <2>2. CASE RetryDue(k)
      <3> DEFINE aged == [op[k] EXCEPT !.retry = "due"]
      <3>1. op' = [op EXCEPT ![k] = aged]
        BY <2>2 DEF RetryDue
      <3>2. aged.stages = op[k].stages /\ aged.status = op[k].status
        BY <1>3 DEF Rows
      <3> QED BY <3>1, <3>2
    <2> QED BY <1>1, <2>1, <2>2
  <1>6. \A j \in Keys : RowSplit(j)'
    <2>1. row.status = "committed" => Complete(k)
      BY <1>5 DEF SplitInv, RowSplit
    <2> QED BY <1>2, <1>5, <2>1, RowReplaced
  <1> QED BY <1>3, <1>4, <1>6 DEF SplitInv

-----------------------------------------------------------------------------
LEMMA SplitInductive == SplitInv /\ [SplitNext]_splitVars => SplitInv'
  <1> SUFFICES ASSUME SplitInv, [SplitNext]_splitVars PROVE SplitInv'
    OBVIOUS
  <1>1. CASE SplitStep
    <2>1. PICK c \in Calls :
            \/ Prepare(c) \/ SendTruncation(c) \/ ApplyTruncation(c) \/ HearTruncated(c) \/ NoteTruncated(c)
            \/ EndSeries(c) \/ Announce(c) \/ SendCreate(c) \/ ApplyCreate(c) \/ HearCreated(c) \/ NoteCreated(c)
            \/ ResumeDone(c) \/ ResumeUnprepared(c) \/ ResumeCreate(c) \/ ResumeLookup(c)
            \/ (Drop(c) /\ UNCHANGED <<leg, cuts>>)
            \/ \E o \in Outcomes : RefuseSplit(c, o) \/ HearFailure(c, o) \/ ResumeInVain(c, o)
      BY <1>1 DEF SplitStep
    <2> QED BY <2>1, RunsOn, RequestsSent, TruncationApplied, CreationApplied, RequestLost, AnswersHeard,
               SplitDone, CreationNoted, StagesUnprepared, RunsEnd
  <1>2. CASE JournalStep /\ UNCHANGED <<leg, cuts>>
    BY <1>2, SplitBegins, SplitAnswers, TimePasses DEF JournalStep
  <1>3. CASE (\E c \in Calls : Crash(c)) /\ UNCHANGED <<leg, cuts>>
    BY <1>3, SplitAnswers
  <1>4. CASE UNCHANGED splitVars
    <2>1. /\ HistoryKept /\ SplitTypeOK' /\ op' = op
          /\ \A d \in Calls : CallStands(d)
      BY <1>4 DEF splitVars, HistoryKept, CallStands, SplitInv, SplitTypeOK, TypeOK
    <2>2. \A d \in Calls : CallSplit(d)'
      BY <2>1, CallKept DEF SplitInv
    <2> QED BY <2>1, <2>2, RowsKept DEF SplitInv
  <1> QED BY <1>1, <1>2, <1>3, <1>4 DEF SplitNext

\* What the calls know and what the rows say of a split is true, always.
THEOREM SplitInvariant == SplitSpec => []SplitInv
  BY SplitStart, SplitInductive, PTL DEF SplitSpec

\* A series that has, or is about to get, a remainder is cut: for any number of calls that
\* take each other's operation over, with records lost and leases running out under live
\* calls (the adapter of providerCalendarOccurrences.ts).
THEOREM CutFirst == SplitSpec => []RemainderAfterCut
  <1>1. SplitInv => RemainderAfterCut
    <2> SUFFICES ASSUME SplitInv, NEW k \in Keys, NEW c \in Calls, key[c] = k,
                        Landed(c) \/ (c \in wire /\ leg[c] = "creating")
                 PROVE  WasCut(k)
      BY DEF RemainderAfterCut, Creations
    <2> QED BY DEF SplitInv, CallSplit, Landed
  <1> QED BY <1>1, SplitInvariant, PTL

\* An operation recorded as committed has cut its series and, unless it ends the series,
\* made a remainder.
THEOREM CommittedIsComplete == SplitSpec => []CommittedMeansComplete
  <1>1. SplitInv => CommittedMeansComplete
    <2> SUFFICES ASSUME SplitInv, NEW k \in Keys, op[k].status = "committed"
                 PROVE  WasCut(k) /\ (k \in Endings \/ \E c \in Creations(k) : Landed(c))
      BY DEF CommittedMeansComplete
    <2>1. WasCut(k) /\ (k \in Endings \/ Made(k))
      BY DEF SplitInv, RowSplit, Complete
    <2>2. \A c \in Calls : <<k, c>> \in effects => key[c] = k
      BY DEF SplitInv, CallSplit
    <2> QED BY <2>1, <2>2 DEF Made, Creations, Landed
  <1> QED BY <1>1, SplitInvariant, PTL

\* The stages in a row, from which the next owner continues, have happened.
THEOREM StagesAreTrue == SplitSpec => []RecordsAreTrue
  <1>1. SplitInv => RecordsAreTrue
    <2> SUFFICES ASSUME SplitInv, NEW k \in Keys
                 PROVE  /\ "master_truncated" \in op[k].stages => WasCut(k)
                        /\ "remainder_created" \in op[k].stages => \E c \in Creations(k) : Landed(c)
      BY DEF RecordsAreTrue
    <2>1. RowSplit(k) /\ \A c \in Calls : <<k, c>> \in effects => key[c] = k
      BY DEF SplitInv, CallSplit
    <2> QED BY <2>1 DEF RowSplit, Made, Creations, Landed
  <1> QED BY <1>1, SplitInvariant, PTL

\* The state of a split keeps its types.
THEOREM SplitTypeCorrect == SplitSpec => []SplitTypeOK
  <1>1. SplitInv => SplitTypeOK
    BY DEF SplitInv
  <1> QED BY <1>1, SplitInvariant, PTL
-----------------------------------------------------------------------------
(* One remainder, where records and leases hold: whoever works on the      *)
(* operation owns its row, so a creation that was announced stays          *)
(* announced in it, and the next owner knows.                              *)

Solid == Keys \ (Lossy \cup Stalling)

Working(c) == pc[c] \in {"perform", "await", "record", "park"}

Announced(c) == leg[c] \in {"announced", "creating", "created"}

Announces(stages) == "remainder_create_dispatched" \in stages
Truncates(stages) == "master_truncated" \in stages

\* The row is closed, or its next owner will find that a creation was announced.
Warns(k) == op[k].status \in Replayable \cup Unresolved \/ Announces(op[k].stages)

\* A call at work owns the row, and knows of every creation before its own.
WorkerOnce(c) ==
  key[c] \in Solid /\ Working(c) =>
    /\ Owns(c) /\ op[key[c]].status = "in_flight" /\ op[key[c]].lease = "live"
    /\ seen[c] \subseteq op[key[c]].stages
    /\ leg[c] = "truncated" \/ Announced(c) => Truncates(op[key[c]].stages)
    /\ \A d \in Calls : d # c /\ key[d] = key[c] /\ Announced(d) => Announces(seen[c])

CallOnce(c) ==
  /\ pc[c] = "record" => outcome[c] # "none"
  /\ key[c] \in Solid =>
       /\ Announces(seen[c]) => Truncates(seen[c]) /\ leg[c] = "start"
       /\ Announced(c) => Warns(key[c])
       /\ \A d \in Calls : Announced(c) /\ Announced(d) /\ key[d] = key[c] => d = c

RowOnce(k) ==
  k \in Solid /\ Announces(op[k].stages) =>
    Truncates(op[k].stages) /\ op[k].status # "none"

SoleInv == /\ \A c \in Calls : WorkerOnce(c) /\ CallOnce(c)
           /\ \A k \in Keys : RowOnce(k)

\* What a step does to the other calls.
Stays(d) == /\ pc'[d] = pc[d] /\ leg'[d] = leg[d] /\ seen'[d] = seen[d] /\ key'[d] = key[d]
            /\ gen'[d] = gen[d] /\ outcome'[d] = outcome[d]

\* A step of one call, which writes to the row of its key only.
LEMMA OnceStepped ==
  ASSUME SoleInv, NEW c \in Calls, NEW k \in Keys, key'[c] = k,
         \A d \in Calls : d # c => Stays(d),
         \A j \in Keys : j # k => op'[j] = op[j],
         k \in Solid => \A d \in Calls : d # c /\ key[d] = k => ~Working(d),
         k \in Solid /\ Warns(k) => Warns(k)',
         k \in Solid /\ Announced(c)' => \A d \in Calls : d # c /\ key[d] = k => ~Announced(d),
         WorkerOnce(c)', pc'[c] = "record" => outcome'[c] # "none",
         k \in Solid /\ Announces(seen[c])' => Truncates(seen[c])' /\ leg'[c] = "start",
         k \in Solid /\ Announced(c)' => Warns(k)',
         RowOnce(k)'
  PROVE  SoleInv'
  <1>1. ASSUME NEW d \in Calls, d # c PROVE WorkerOnce(d)'
    <2>1. WorkerOnce(d) /\ Stays(d)
      BY <1>1 DEF SoleInv
    <2> SUFFICES ASSUME key[d] \in Solid, Working(d) PROVE WorkerOnce(d)'
      BY <2>1 DEF WorkerOnce, Working, Stays
    <2>2. key[d] # k /\ key[d] \in Keys
      BY <1>1 DEF Solid
    <2>3. op'[key'[d]] = op[key[d]]
      BY <2>1, <2>2 DEF Stays
    <2>4. \A e \in Calls : e # d /\ key'[e] = key[d] /\ Announced(e)' => key[e] = key[d] /\ Announced(e)
      BY <2>2 DEF Stays, Announced
    <2> QED BY <2>1, <2>3, <2>4 DEF WorkerOnce, Owns, Announced, Stays
  <1>2. ASSUME NEW d \in Calls, d # c PROVE CallOnce(d)'
    <2>1. CallOnce(d) /\ Stays(d)
      BY <1>2 DEF SoleInv
    <2>2. key[d] \in Solid /\ Warns(key[d]) => Warns(key[d])'
      BY <2>1 DEF Warns, Solid, Stays
    <2>3. key[d] \in Solid /\ Announced(d) =>
            \A e \in Calls : Announced(e)' /\ key'[e] = key[d] => e = d
      <3> SUFFICES ASSUME key[d] \in Solid, Announced(d), NEW e \in Calls, Announced(e)', key'[e] = key[d]
                   PROVE  e = d
        OBVIOUS
      <3>1. CASE e = c
        BY <1>2, <2>1, <3>1
      <3>2. CASE e # c
        BY <2>1, <3>2 DEF CallOnce, Stays, Announced
      <3> QED BY <3>1, <3>2
    <2> QED BY <2>1, <2>2, <2>3 DEF CallOnce, Stays, Announced
  <1>3. CallOnce(c)'
    <2>1. k \in Solid /\ Announced(c)' => \A d \in Calls : Announced(d)' /\ key'[d] = k => d = c
      BY DEF Stays, Announced
    <2>2. Warns(k)' => Warns(key[c])'
      BY DEF Warns
    <2> QED BY <2>1, <2>2 DEF CallOnce
  <1>4. \A j \in Keys : RowOnce(j)'
    BY DEF SoleInv, RowOnce
  <1> QED BY <1>1, <1>2, <1>3, <1>4 DEF SoleInv

\* A call at work is the only one of its key.
LEMMA AloneAtWork ==
  ASSUME SoleInv, NEW c \in Calls, Working(c), key[c] \in Solid
  PROVE  \A d \in Calls : d # c /\ key[d] = key[c] => ~Working(d)
  BY DEF SoleInv, WorkerOnce, Owns

\* The steps of a run that goes on: it may record a stage.
LEMMA OnceWorks ==
  ASSUME SplitInv, SoleInv, NEW c \in Calls, Working(c), Working(c)', key[c] \in Keys,
         UNCHANGED <<key, gen, seen>>, \A d \in Calls : d # c => Stays(d),
         NEW stages \in SUBSET SplitStages,
         \A j \in Keys : j # key[c] => op'[j] = op[j],
         key[c] \in Solid => op'[key[c]] = [op[key[c]] EXCEPT !.stages = @ \cup stages],
         key[c] \in Solid /\ leg'[c] # leg[c] => ~Announces(seen[c]),
         leg'[c] = "truncated" \/ Announces(stages) =>
           \/ Truncates(stages) \/ Truncates(seen[c]) \/ leg[c] = "truncated",
         Announced(c)' => Announced(c) \/ (leg[c] = "truncated" /\ Announces(stages)),
         pc'[c] = "record" => outcome'[c] # "none"
  PROVE  SoleInv'
  <1>1. WorkerOnce(c) /\ CallOnce(c) /\ RowOnce(key[c]) /\ op[key[c]] \in Rows
    BY DEF SoleInv, SplitInv, SplitTypeOK, TypeOK
  <1>2. key[c] \in Solid =>
          /\ op'[key[c]].stages = op[key[c]].stages \cup stages
          /\ op'[key[c]].token = op[key[c]].token /\ op'[key[c]].generation = op[key[c]].generation
          /\ op'[key[c]].status = op[key[c]].status /\ op'[key[c]].lease = op[key[c]].lease
    BY <1>1 DEF Rows
  <1>3. key[c] \in Solid /\ Announced(c)' =>
          \A d \in Calls : d # c /\ key[d] = key[c] => ~Announced(d)
    <2> SUFFICES ASSUME key[c] \in Solid, Announced(c)', NEW d \in Calls, d # c, key[d] = key[c], Announced(d)
                 PROVE  FALSE
      OBVIOUS
    <2>1. Announces(seen[c])
      BY <1>1 DEF WorkerOnce
    <2>2. leg[c] = "start" /\ leg'[c] = leg[c]
      BY <1>1, <2>1 DEF CallOnce
    <2> QED BY <2>2 DEF Announced
  <1>4. key[c] \in Solid => (Warns(key[c]) => Warns(key[c])') /\ (Announces(stages) => Warns(key[c])')
    BY <1>2 DEF Warns, Announces
  <1>5. WorkerOnce(c)'
    <2> SUFFICES ASSUME key[c] \in Solid PROVE WorkerOnce(c)'
      BY DEF WorkerOnce
    <2>1. Owns(c)' /\ op'[key[c]].status = "in_flight" /\ op'[key[c]].lease = "live"
          /\ seen'[c] \subseteq op'[key[c]].stages
      BY <1>1, <1>2 DEF WorkerOnce, Owns
    <2>2. leg'[c] = "truncated" \/ Announced(c)' => Truncates(op'[key[c]].stages)
      BY <1>1, <1>2 DEF WorkerOnce, Truncates
    <2>3. \A d \in Calls : d # c /\ key[d] = key[c] /\ Announced(d)' => Announces(seen[c])
      BY <1>1 DEF WorkerOnce, Stays, Announced
    <2> QED BY <2>1, <2>2, <2>3 DEF WorkerOnce
  <1>6. RowOnce(key[c])'
    BY <1>1, <1>2 DEF RowOnce, WorkerOnce, Announces, Truncates
  <1>7. key[c] \in Solid /\ Announces(seen[c])' => Truncates(seen[c])' /\ leg'[c] = "start"
    BY <1>1 DEF CallOnce, Announces, Truncates
  <1>8. key[c] \in Solid /\ Announced(c)' => Warns(key[c])'
    BY <1>1, <1>4 DEF CallOnce
  <1>9. key[c] \in Solid => \A d \in Calls : d # c /\ key[d] = key[c] => ~Working(d)
    BY AloneAtWork
  <1> QED BY <1>3, <1>4, <1>5, <1>6, <1>7, <1>8, <1>9, OnceStepped

\* A stage is recorded in the row of a solid key by its call, which owns it.
LEMMA NotedOnce ==
  ASSUME SplitInv, SoleInv, NEW c \in Calls, Working(c), key[c] \in Keys, NEW stage, Note(c, stage)
  PROVE  /\ \A j \in Keys : j # key[c] => op'[j] = op[j]
         /\ key[c] \in Solid => op'[key[c]] = [op[key[c]] EXCEPT !.stages = @ \cup {stage}]
  <1>1. op \in [Keys -> Rows] /\ (key[c] \in Solid => Owns(c) /\ key[c] \notin Lossy)
    BY DEF SplitInv, SplitTypeOK, TypeOK, SoleInv, WorkerOnce, Solid
  <1> QED BY <1>1 DEF Note, Progressed

\* The steps of the adapter that record nothing.
LEMMA OnceUnrecorded ==
  ASSUME SplitInv, SoleInv, NEW c \in Calls, NEW o \in Outcomes,
         \/ SendTruncation(c) \/ HearTruncated(c) \/ EndSeries(c) \/ SendCreate(c) \/ HearCreated(c)
         \/ ResumeDone(c) \/ ResumeUnprepared(c) \/ ResumeCreate(c)
         \/ RefuseSplit(c, o) \/ HearFailure(c, o) \/ ResumeInVain(c, o)
  PROVE  SoleInv'
  <1>1. SplitTypeOK /\ TypeOK /\ CallOnce(c)
    BY DEF SplitInv, SplitTypeOK, SoleInv
  <1>2. pc[c] \in {"perform", "await"} /\ op' = op /\ UNCHANGED <<key, gen, seen>>
    BY DEF SendTruncation, HearTruncated, EndSeries, SendCreate, HearCreated, ResumeDone,
           ResumeUnprepared, ResumeCreate, RefuseSplit, HearFailure, ResumeInVain, Resumed, At, Send,
           Hear, Commit, callVars
  <1>3. Working(c) /\ key[c] \in Keys
    BY <1>1, <1>2 DEF Working, TypeOK
  <1>4. /\ Working(c)' /\ \A d \in Calls : d # c => Stays(d)
        /\ pc'[c] = "record" => outcome'[c] # "none"
    <2>1. CASE SendTruncation(c) \/ HearTruncated(c) \/ SendCreate(c) \/ HearCreated(c)
      BY <1>1, <1>2, <2>1 DEF SendTruncation, HearTruncated, SendCreate, HearCreated, Send, Hear, Goto,
                              Move, Working, Stays, SplitTypeOK, TypeOK
    <2>2. CASE ResumeCreate(c)
      BY <1>1, <1>2, <2>2 DEF ResumeCreate, Resumed, At, Move, callVars, Working, Stays, SplitTypeOK
    <2>3. CASE EndSeries(c) \/ ResumeDone(c) \/ ResumeUnprepared(c)
      BY <1>1, <1>2, <2>3 DEF EndSeries, ResumeDone, ResumeUnprepared, Commit, Report, Goto, Working, Stays,
                              TypeOK
    <2>4. CASE RefuseSplit(c, o) \/ HearFailure(c, o) \/ ResumeInVain(c, o)
      <3>1. o # "none"
        BY <2>4 DEF RefuseSplit, HearFailure, ResumeInVain, Classified
      <3> QED BY <1>1, <1>2, <2>4, <3>1 DEF RefuseSplit, HearFailure, ResumeInVain, Report, Goto, Working,
                                            Stays, TypeOK
    <2> QED BY <2>1, <2>2, <2>3, <2>4
  <1>5. /\ leg'[c] # leg[c] => leg[c] # "start" \/ seen[c] = {"split_prepared", "master_truncated"}
        /\ leg'[c] = "truncated" => leg[c] = "truncated" \/ Truncates(seen[c])
        /\ Announced(c)' => Announced(c)
    BY <1>1 DEF SendTruncation, HearTruncated, EndSeries, SendCreate, HearCreated, ResumeDone,
           ResumeUnprepared, ResumeCreate, RefuseSplit, HearFailure, ResumeInVain, Resumed, At, Send,
           Hear, Commit, Move, SplitTypeOK, Truncates, Announced
  <1>6. key[c] \in Solid /\ leg'[c] # leg[c] => ~Announces(seen[c])
    BY <1>1, <1>5 DEF CallOnce, Announces
  <1>7. \A k \in Keys : op'[k] = [op[k] EXCEPT !.stages = @ \cup {}]
    BY <1>1, <1>2 DEF TypeOK, Rows
  <1>8. {} \in SUBSET SplitStages /\ ~Announces({})
    BY DEF Announces
  <1> QED BY <1>2, <1>3, <1>4, <1>5, <1>6, <1>7, <1>8, OnceWorks

\* The steps that record a stage.
LEMMA OnceRecorded ==
  ASSUME SplitInv, SoleInv, NEW c \in Calls,
         Prepare(c) \/ NoteTruncated(c) \/ Announce(c) \/ NoteCreated(c) \/ ResumeLookup(c)
  PROVE  SoleInv'
  <1>1. SplitTypeOK /\ TypeOK /\ CallOnce(c) /\ pc[c] = "perform" /\ UNCHANGED <<key, gen, seen>>
    BY DEF SplitInv, SplitTypeOK, SoleInv, Prepare, NoteTruncated, Announce, NoteCreated, ResumeLookup,
           Resumed, At, Commit, callVars
  <1>2. Working(c) /\ key[c] \in Keys
    BY <1>1 DEF Working, TypeOK
  <1>3. CASE Prepare(c)
    <2>1. /\ Note(c, "split_prepared") /\ Move(c, "prepared") /\ ~Truncates(seen[c])
          /\ UNCHANGED <<pc, outcome>>
      BY <1>3 DEF Prepare, Fresh, Truncates, callVars
    <2>2. /\ Working(c)' /\ leg'[c] = "prepared" /\ \A d \in Calls : d # c => Stays(d)
      BY <1>1, <2>1 DEF Move, Working, Stays, SplitTypeOK
    <2>3. {"split_prepared"} \in SUBSET SplitStages /\ ~Announces({"split_prepared"})
      BY DEF SplitStages, Announces
    <2>4. key[c] \in Solid => ~Announces(seen[c])
      BY <1>1, <2>1 DEF CallOnce
    <2> QED BY <1>1, <1>2, <2>1, <2>2, <2>3, <2>4, NotedOnce, OnceWorks DEF Announced
  <1>4. CASE NoteTruncated(c)
    <2>1. /\ Note(c, "master_truncated") /\ Move(c, "truncated") /\ leg[c] = "cut"
          /\ UNCHANGED <<pc, outcome>>
      BY <1>4 DEF NoteTruncated, At, callVars
    <2>2. /\ Working(c)' /\ leg'[c] = "truncated" /\ \A d \in Calls : d # c => Stays(d)
      BY <1>1, <2>1 DEF Move, Working, Stays, SplitTypeOK
    <2>3. {"master_truncated"} \in SUBSET SplitStages /\ Truncates({"master_truncated"})
      BY DEF SplitStages, Truncates
    <2>4. key[c] \in Solid => ~Announces(seen[c])
      BY <1>1, <2>1 DEF CallOnce
    <2> QED BY <1>1, <1>2, <2>1, <2>2, <2>3, <2>4, NotedOnce, OnceWorks DEF Announced
  <1>5. CASE Announce(c)
    <2>1. /\ Note(c, "remainder_create_dispatched") /\ Move(c, "announced") /\ leg[c] = "truncated"
          /\ UNCHANGED <<pc, outcome>>
      BY <1>5 DEF Announce, At, callVars
    <2>2. /\ Working(c)' /\ leg'[c] = "announced" /\ \A d \in Calls : d # c => Stays(d)
      BY <1>1, <2>1 DEF Move, Working, Stays, SplitTypeOK
    <2>3. {"remainder_create_dispatched"} \in SUBSET SplitStages
          /\ Announces({"remainder_create_dispatched"})
      BY DEF SplitStages, Announces
    <2>4. key[c] \in Solid => ~Announces(seen[c])
      BY <1>1, <2>1 DEF CallOnce
    <2> QED BY <1>1, <1>2, <2>1, <2>2, <2>3, <2>4, NotedOnce, OnceWorks
  <1>6. CASE NoteCreated(c) \/ ResumeLookup(c)
    <2>1. Note(c, "remainder_created") /\ Report(c, "committed") /\ leg' = leg
      BY <1>6 DEF NoteCreated, ResumeLookup, Commit
    <2>2. /\ pc'[c] = "record" /\ outcome'[c] = "committed" /\ \A d \in Calls : d # c => Stays(d)
      BY <1>1, <2>1 DEF Report, Goto, Stays, TypeOK
    <2>3. {"remainder_created"} \in SUBSET SplitStages /\ ~Announces({"remainder_created"})
      BY DEF SplitStages, Announces
    <2>4. leg'[c] = "truncated" => leg[c] = "truncated"
      BY <2>1
    <2>5. Working(c)' /\ (Announced(c)' => Announced(c))
      BY <2>1, <2>2 DEF Working, Announced
    <2> QED BY <1>1, <1>2, <2>1, <2>2, <2>3, <2>4, <2>5, NotedOnce, OnceWorks
  <1> QED BY <1>3, <1>4, <1>5, <1>6

\* A call that ends closes its row, gives it back with its stages, or leaves it.
LEMMA OnceAnswers ==
  ASSUME SplitInv, SoleInv, NEW c \in Calls, UNCHANGED <<leg, cuts>>,
         Park(c) \/ RecordRetry(c) \/ RecordOutcome(c) \/ Reconcile(c) \/ Crash(c)
  PROVE  SoleInv'
  <1>1. SplitTypeOK /\ TypeOK /\ CallOnce(c) /\ WorkerOnce(c) /\ pc[c] # "reconcile" /\ pc[c] # "idle"
    BY DEF SplitInv, SplitTypeOK, SoleInv, CallSplit, Park, RecordRetry, RecordOutcome, Reconcile, Crash
  <1>2. /\ key[c] \in Keys /\ UNCHANGED <<key, gen, seen, outcome>>
        /\ pc' = [pc EXCEPT ![c] = "done"] \/ pc' = [pc EXCEPT ![c] = "dead"]
    BY <1>1, NoOtherKeys
       DEF TypeOK, Park, RecordRetry, RecordOutcome, Reconcile, Crash, Goto, Answer
  <1>3. pc'[c] \in {"done", "dead"} /\ \A d \in Calls : d # c => Stays(d)
    BY <1>1, <1>2 DEF Stays, TypeOK
  <1>4. PICK row : /\ \A k \in Keys : op'[k] = IF k = key[c] THEN row ELSE op[k]
                   /\ \/ row.stages = {}
                      \/ row.stages = op[key[c]].stages /\ row.status \in {op[key[c]].status, "pending"}
                   /\ Warns(key[c]) => \/ row.status \in Replayable \cup Unresolved
                                       \/ Announces(row.stages)
    <2> DEFINE status == IF pc[c] = "park" THEN "outcome_unknown" ELSE JournalStatus(outcome[c])
               finished == Finished(op[key[c]], status)
               scheduled == Scheduled(op[key[c]])
    <2>1. /\ finished.stages = {} /\ finished.status = status
          /\ scheduled.stages = op[key[c]].stages /\ scheduled.status = "pending"
      BY DEF Finished, Scheduled
    <2>2. CASE op' = op
      BY <2>2 DEF Warns
    <2>3. CASE op' = [op EXCEPT ![key[c]] = finished] /\ (pc[c] = "park" \/ RecordOutcome(c))
      <3>1. status \in Replayable \cup Unresolved
        BY <1>1, <2>3 DEF RecordOutcome, CallOnce, TypeOK, Outcomes, JournalStatus, Replayable, Unresolved
      <3>2. \A k \in Keys : op'[k] = IF k = key[c] THEN finished ELSE op[k]
        BY <1>1, <2>3 DEF TypeOK
      <3> QED BY <2>1, <3>1, <3>2
    <2>4. CASE op' = [op EXCEPT ![key[c]] = scheduled] /\ op[key[c]].status = "in_flight"
      <3>1. \A k \in Keys : op'[k] = IF k = key[c] THEN scheduled ELSE op[k]
        BY <1>1, <2>4 DEF TypeOK
      <3> QED BY <2>1, <2>4, <3>1 DEF Warns, Replayable, Unresolved
    <2> QED BY <1>1, <2>2, <2>3, <2>4
            DEF Park, RecordRetry, RecordOutcome, Reconcile, Crash, TypeOK
  <1>5. Warns(key[c]) => Warns(key[c])'
    BY <1>2, <1>4 DEF Warns
  <1>6. WorkerOnce(c)'
    BY <1>3 DEF WorkerOnce, Working
  <1>7. RowOnce(key[c])'
    BY <1>2, <1>4 DEF SoleInv, RowOnce, Announces, Truncates
  <1>8. Working(c) \/ pc[c] \in {"done", "dead"}
    BY <1>1 DEF TypeOK, Working
  <1>9. key[c] \in Solid => \A d \in Calls : d # c /\ key[d] = key[c] => ~Working(d)
    <2>1. CASE Working(c)
      BY <2>1, AloneAtWork
    <2>2. CASE ~Working(c)
      BY <1>8, <2>2 DEF Park, RecordRetry, RecordOutcome, Reconcile, Crash
    <2> QED BY <2>1, <2>2
  <1>10. /\ key[c] \in Solid /\ Announced(c)' => \A d \in Calls : d # c /\ key[d] = key[c] => ~Announced(d)
         /\ key[c] \in Solid /\ Announced(c)' => Warns(key[c])'
         /\ key[c] \in Solid /\ Announces(seen[c])' => Truncates(seen[c])' /\ leg'[c] = "start"
    BY <1>1, <1>2, <1>5 DEF CallOnce, Announced, Announces, Truncates
  <1> QED BY <1>2, <1>3, <1>4, <1>5, <1>6, <1>7, <1>9, <1>10, OnceStepped

\* Only a row that nobody works on is taken over, and its new owner knows what it says.
LEMMA OnceTaken ==
  ASSUME SplitInv, SoleInv, NEW c \in Calls, NEW k \in Keys, pc[c] = "idle",
         key' = [key EXCEPT ![c] = k], UNCHANGED <<outcome, leg>>,
         NEW generation \in Nat, NEW stages \in SUBSET SplitStages, NEW hashed,
         NEW next \in {"perform", "park"},
         op' = [op EXCEPT ![k] = InFlight(c, hashed, generation, stages)],
         gen' = [gen EXCEPT ![c] = generation], seen' = [seen EXCEPT ![c] = stages],
         pc' = [pc EXCEPT ![c] = next],
         IF op[k].status = "none" THEN stages = {} ELSE stages = op[k].stages,
         \/ op[k].status \in {"none", "pending"}
         \/ op[k].status = "in_flight" /\ op[k].lease # "live"
  PROVE  SoleInv'
  <1> DEFINE row == InFlight(c, hashed, generation, stages)
  <1>1. /\ SplitTypeOK /\ TypeOK /\ CallSplit(c) /\ RowOnce(k)
        /\ op[k] \in Rows
    BY DEF SplitInv, SplitTypeOK, TypeOK, SoleInv
  <1>2. leg'[c] = "start" /\ key'[c] = k /\ ~Announced(c)'
    BY <1>1 DEF CallSplit, TypeOK, Announced
  <1>3. /\ row.token = c /\ row.generation = generation /\ row.status = "in_flight"
        /\ row.lease = "live" /\ row.stages = stages
    BY DEF InFlight
  <1> HIDE DEF row
  <1>4. /\ \A j \in Keys : op'[j] = IF j = k THEN row ELSE op[j]
        /\ gen'[c] = generation /\ seen'[c] = stages /\ pc'[c] = next
        /\ \A d \in Calls : d # c => Stays(d)
    BY <1>1 DEF TypeOK, Stays, row
  <1>5. k \in Solid => \A d \in Calls : d # c /\ key[d] = k => ~Working(d)
    BY DEF SoleInv, WorkerOnce
  <1>6. k \in Solid /\ Warns(k) => Announces(stages)
    BY <1>1 DEF Warns, RowOnce, Replayable, Unresolved
  <1>7. k \in Solid => \A d \in Calls : d # c /\ key[d] = k /\ Announced(d) => Announces(stages)
    BY <1>6 DEF SoleInv, CallOnce
  <1>8. k \in Solid /\ Announces(stages) => Truncates(stages)
    BY <1>1 DEF RowOnce, Announces
  <1>9. WorkerOnce(c)'
    BY <1>2, <1>3, <1>4, <1>7 DEF WorkerOnce, Owns, Stays, Announced
  <1>10. RowOnce(k)'
    BY <1>3, <1>4, <1>8 DEF RowOnce
  <1>11. k \in Solid /\ Warns(k) => Warns(k)'
    BY <1>3, <1>4, <1>6 DEF Warns
  <1>12. k \in Solid /\ Announces(seen[c])' => Truncates(seen[c])' /\ leg'[c] = "start"
    BY <1>2, <1>4, <1>8 DEF Announces, Truncates
  <1>13. pc'[c] # "record"
    BY <1>4
  <1> QED BY <1>2, <1>4, <1>5, <1>9, <1>10, <1>11, <1>12, <1>13, OnceStepped

LEMMA OnceBegins ==
  ASSUME SplitInv, SoleInv, NEW c \in Calls, NEW k \in Keys, NEW h \in Hashes, Begin(c, k, h),
         UNCHANGED <<leg, cuts>>
  PROVE  SoleInv'
  <1>1. SplitTypeOK /\ TypeOK /\ pc[c] = "idle" /\ CallSplit(c) /\ op[k] \in Rows
    BY DEF SplitInv, SplitTypeOK, TypeOK, Begin, BeginFresh, BeginReused, BeginReplay, BeginBusy,
           BeginReclaim, Enter
  <1>2. leg[c] = "start" /\ seen[c] = {}
    BY <1>1 DEF CallSplit
  <1>3. key' = [key EXCEPT ![c] = k] /\ UNCHANGED <<outcome, leg>> /\ key'[c] = k
    BY <1>1 DEF Begin, BeginFresh, BeginReused, BeginReplay, BeginBusy, BeginReclaim, Enter, TypeOK
  <1>4. ~Announced(c)'
    BY <1>2, <1>3 DEF Announced
  <1>5. CASE BeginReused(c, k, h) \/ BeginReplay(c, k, h) \/ BeginBusy(c, k, h)
    <2>1. pc' = [pc EXCEPT ![c] = "done"] /\ UNCHANGED <<op, gen, seen>>
      BY <1>5, NoOtherKeys DEF BeginReused, BeginReplay, BeginBusy, Goto, Answer
    <2>2. pc'[c] = "done" /\ \A d \in Calls : d # c => Stays(d)
      BY <1>1, <1>3, <2>1 DEF Stays, TypeOK
    <2>3. ~Working(c)' /\ ~Announces(seen[c])'
      BY <1>2, <2>1, <2>2 DEF Working, Announces
    <2>4. ASSUME NEW d \in Calls, d # c PROVE WorkerOnce(d)' /\ CallOnce(d)'
      <3>1. WorkerOnce(d) /\ CallOnce(d) /\ Stays(d)
        BY <2>2, <2>4 DEF SoleInv
      <3>2. \A e \in Calls : Announced(e)' => Announced(e) /\ key'[e] = key[e] /\ e # c
        BY <1>3, <1>4, <2>2 DEF Announced, Stays
      <3> QED BY <2>1, <3>1, <3>2 DEF WorkerOnce, CallOnce, Owns, Working, Announced, Warns, Stays
    <2>5. WorkerOnce(c)' /\ CallOnce(c)'
      BY <1>4, <2>2, <2>3 DEF WorkerOnce, CallOnce
    <2>6. \A j \in Keys : RowOnce(j)'
      BY <2>1 DEF SoleInv, RowOnce
    <2> QED BY <2>4, <2>5, <2>6 DEF SoleInv
  <1>6. CASE BeginFresh(c, k, h)
    <2>1. seen' = [seen EXCEPT ![c] = {}]
      BY <1>1, <1>2, <1>6 DEF BeginFresh, TypeOK
    <2>2. /\ op' = [op EXCEPT ![k] = InFlight(c, h, 1, {})] /\ gen' = [gen EXCEPT ![c] = 1]
          /\ pc' = [pc EXCEPT ![c] = "perform"] /\ op[k].status = "none"
      BY <1>6 DEF BeginFresh, Goto
    <2>3. {} \in SUBSET SplitStages /\ 1 \in Nat
      OBVIOUS
    <2> QED BY <1>1, <1>3, <2>1, <2>2, <2>3, OnceTaken
  <1>7. CASE BeginReclaim(c, k, h)
    <2> DEFINE generation == op[k].generation + 1
    <2>1. generation \in Nat /\ op[k].stages \in SUBSET SplitStages
      BY <1>1 DEF Rows
    <2>2. /\ op' = [op EXCEPT ![k] = InFlight(c, op[k].hash, generation, op[k].stages)]
          /\ gen' = [gen EXCEPT ![c] = generation] /\ seen' = [seen EXCEPT ![c] = op[k].stages]
          /\ pc' = [pc EXCEPT ![c] = IF MayRun(k, op[k]) THEN "perform" ELSE "park"]
          /\ \/ op[k].status = "pending"
             \/ op[k].status = "in_flight" /\ op[k].lease # "live"
      BY <1>7 DEF BeginReclaim, Goto
    <2>3. op[k].status # "none"
      BY <2>2
    <2> HIDE DEF generation
    <2>4. CASE MayRun(k, op[k])
      BY <1>1, <1>3, <2>1, <2>2, <2>3, <2>4, OnceTaken
    <2>5. CASE ~MayRun(k, op[k])
      BY <1>1, <1>3, <2>1, <2>2, <2>3, <2>5, OnceTaken
    <2> QED BY <2>4, <2>5
  <1> QED BY <1>5, <1>6, <1>7 DEF Begin

\* A lease of a solid key runs out only when its call is dead.
LEMMA OnceAges ==
  ASSUME SplitInv, SoleInv, NEW k \in Keys, UNCHANGED <<leg, cuts>>, LeasesOutlast,
         RecoverDeletion(k) \/ CloseFlagWrite(k) \/ LeaseExpires(k) \/ RetryDue(k)
  PROVE  SoleInv'
  <1>1. LeaseExpires(k) \/ RetryDue(k)
    BY NoOtherKeys DEF RecoverDeletion, CloseFlagWrite
  <1>2. UNCHANGED <<pc, key, gen, seen, outcome, leg>>
    BY <1>1 DEF LeaseExpires, RetryDue, callVars
  <1>3. op \in [Keys -> Rows]
    BY DEF SplitInv, SplitTypeOK, TypeOK
  <1>4. /\ \A j \in Keys : j # k => op'[j] = op[j]
        /\ op'[k].stages = op[k].stages /\ op'[k].status = op[k].status /\ op'[k].token = op[k].token
        /\ op'[k].generation = op[k].generation
        /\ op'[k].lease = IF LeaseExpires(k) THEN "expired" ELSE op[k].lease
    <2>1. CASE LeaseExpires(k)
      BY <1>3, <2>1 DEF LeaseExpires, Rows
    <2>2. CASE ~LeaseExpires(k)
      BY <1>1, <1>3, <2>2 DEF RetryDue, Rows
    <2> QED BY <2>1, <2>2
  <1>5. ASSUME NEW c \in Calls PROVE WorkerOnce(c)'
    <2>1. WorkerOnce(c)
      BY DEF SoleInv
    <2> SUFFICES ASSUME key[c] \in Solid, Working(c) PROVE WorkerOnce(c)'
      BY <1>2 DEF WorkerOnce, Working
    <2>2. key[c] \in Keys /\ op[key[c]].token = c /\ op[key[c]].lease = "live" /\ pc[c] # "dead"
      BY <2>1 DEF WorkerOnce, Working, Owns, Solid
    <2>3. ~(key[c] = k /\ LeaseExpires(k))
      BY <1>4, <2>2 DEF LeasesOutlast, LeaseExpires, Solid
    <2>4. /\ op'[key[c]].stages = op[key[c]].stages /\ op'[key[c]].status = op[key[c]].status
          /\ op'[key[c]].token = op[key[c]].token /\ op'[key[c]].generation = op[key[c]].generation
          /\ op'[key[c]].lease = op[key[c]].lease
      BY <1>4, <2>2, <2>3
    <2> QED BY <1>2, <2>1, <2>4 DEF WorkerOnce, Owns, Announced
  <1>6. ASSUME NEW c \in Calls PROVE CallOnce(c)'
    <2>1. key[c] \in Solid /\ Warns(key[c]) => Warns(key[c])'
      BY <1>2, <1>4 DEF Warns, Solid
    <2> QED BY <1>2, <2>1 DEF SoleInv, CallOnce, Announced
  <1>7. ASSUME NEW j \in Keys PROVE RowOnce(j)'
    BY <1>4 DEF SoleInv, RowOnce
  <1> QED BY <1>5, <1>6, <1>7 DEF SoleInv

\* Requests that arrive or get lost, and steps that change nothing.
LEMMA OnceUnmoved ==
  ASSUME SoleInv, UNCHANGED <<op, pc, key, gen, seen, outcome, leg>>
  PROVE  SoleInv'
  BY DEF SoleInv, WorkerOnce, CallOnce, RowOnce, Working, Announced, Warns, Owns

LEMMA OnceStart == SplitInit => SoleInv
  <1> SUFFICES ASSUME SplitInit PROVE SoleInv
    OBVIOUS
  <1>1. Init /\ leg = [c \in Calls |-> "start"]
    BY DEF SplitInit
  <1>2. ASSUME NEW c \in Calls PROVE WorkerOnce(c) /\ CallOnce(c)
    BY <1>1 DEF Init, WorkerOnce, CallOnce, Working, Announced, Announces
  <1>3. ASSUME NEW k \in Keys PROVE RowOnce(k)
    <2>1. CASE op[k] = Absent
      BY <2>1 DEF RowOnce, Absent, Announces
    <2>2. ASSUME NEW h \in Hashes, op[k] = Unmarked(h) PROVE RowOnce(k)
      BY <2>2 DEF RowOnce, Unmarked, Announces
    <2> QED BY <1>1, <2>1, <2>2 DEF Init
  <1> QED BY <1>2, <1>3 DEF SoleInv

LEMMA OnceInductive == SplitInv /\ SoleInv /\ [SplitNext]_splitVars => SoleInv'
  <1> SUFFICES ASSUME SplitInv, SoleInv, [SplitNext]_splitVars PROVE SoleInv'
    OBVIOUS
  <1>1. CASE SplitStep
    <2>1. PICK c \in Calls :
            \/ Prepare(c) \/ SendTruncation(c) \/ ApplyTruncation(c) \/ HearTruncated(c) \/ NoteTruncated(c)
            \/ EndSeries(c) \/ Announce(c) \/ SendCreate(c) \/ ApplyCreate(c) \/ HearCreated(c) \/ NoteCreated(c)
            \/ ResumeDone(c) \/ ResumeUnprepared(c) \/ ResumeCreate(c) \/ ResumeLookup(c)
            \/ (Drop(c) /\ UNCHANGED <<leg, cuts>>)
            \/ \E o \in Outcomes : RefuseSplit(c, o) \/ HearFailure(c, o) \/ ResumeInVain(c, o)
      BY <1>1 DEF SplitStep
    <2>2. CASE ApplyTruncation(c) \/ ApplyCreate(c) \/ (Drop(c) /\ UNCHANGED <<leg, cuts>>)
      <3>1. UNCHANGED <<op, pc, key, gen, seen, outcome, leg>>
        BY <2>2 DEF ApplyTruncation, ApplyCreate, Apply, Drop, callVars
      <3> QED BY <3>1, OnceUnmoved
    <2>3. "none" \in Outcomes
      BY DEF Outcomes
    <2> QED BY <2>1, <2>2, <2>3, OnceUnrecorded, OnceRecorded
  <1>2. CASE JournalStep /\ LeasesOutlast /\ UNCHANGED <<leg, cuts>>
    BY <1>2, OnceBegins, OnceAnswers, OnceAges DEF JournalStep
  <1>3. CASE (\E c \in Calls : Crash(c)) /\ UNCHANGED <<leg, cuts>>
    BY <1>3, OnceAnswers
  <1>4. CASE UNCHANGED splitVars
    BY <1>4, OnceUnmoved DEF splitVars
  <1> QED BY <1>1, <1>2, <1>3, <1>4 DEF SplitNext

\* As long as stages can be recorded and leases outlast their calls, a series gets one
\* remainder, for any number of calls that die and are taken over.
THEOREM OneRemainderOnly == SplitSpec => []OneRemainder
  <1>1. SplitInv /\ SoleInv => OneRemainder
    <2> SUFFICES ASSUME SplitInv, SoleInv, NEW k \in Keys \ (Lossy \cup Stalling),
                        NEW c \in Creations(k), NEW d \in Creations(k)
                 PROVE  c = d
      BY DEF OneRemainder, Single
    <2>1. \A e \in Creations(k) : e \in Calls /\ key[e] = k /\ Announced(e)
      BY DEF Creations, SplitInv, CallSplit, Landed, Announced
    <2> QED BY <2>1 DEF SoleInv, CallOnce, Solid
  <1>2. SplitInit => SplitInv /\ SoleInv
    BY SplitStart, OnceStart
  <1>3. SplitInv /\ SoleInv /\ [SplitNext]_splitVars => (SplitInv /\ SoleInv)'
    BY SplitInductive, OnceInductive
  <1> QED BY <1>1, <1>2, <1>3, PTL DEF SplitSpec
=============================================================================

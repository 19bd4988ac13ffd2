---------------------------- MODULE SeriesSplit ----------------------------
(***************************************************************************)
(* Splitting a repeating event at one occurrence ("this and following"):   *)
(* the adapter of services/providerCalendarOccurrences.ts, run under the   *)
(* operation journal.  It takes two writes, the truncation of the series   *)
(* and the creation of the remainder, and records every stage in the       *)
(* operation's row, so that a later owner continues instead of repeating.  *)
(*                                                                         *)
(* A request of ProviderMutation's wire is the truncation or the creation, *)
(* by the leg of its call.                                                 *)
(***************************************************************************)
EXTENDS ProviderMutation

CONSTANTS
  Graph,         \* keys split by the Microsoft adapter; the others are Google's
  Endings,       \* keys that cancel the rest of the series: no remainder
  Lossy,         \* keys for which the statement that records a stage may fail
  Stalling       \* keys for which a lease may run out under a live call

ASSUME SplitAssumption == /\ Graph \subseteq Keys
                          /\ Endings \subseteq Keys
                          /\ Splits = Keys
                          /\ Lossy \subseteq Keys
                          /\ Stalling \subseteq Keys

VARIABLES
  leg,      \* leg[c]: how far the adapter's run has come
  cuts      \* history: <<k, c>> when the provider applied c's truncation for k

splitVars == <<op, pc, key, hash, gen, seen, outcome, reply, wire, effects, leg, cuts>>

SplitTypeOK ==
  /\ TypeOK
  /\ leg \in [Calls -> {"start", "prepared", "truncating", "cut", "truncated", "announced",
                        "creating", "created"}]
  /\ cuts \subseteq Keys \X Calls

\* The stages were introduced with the safe-retry proof: a row without one has none.
SplitInit == Init /\ leg = [c \in Calls |-> "start"] /\ cuts = {}

At(c, where) == pc[c] = "perform" /\ leg[c] = where

Move(c, where) == leg' = [leg EXCEPT ![c] = where]

\* recordProgress: fenced by the claim; neither a failure nor a refusal stops the adapter.
Note(c, stage) ==
  \/ op' = IF Owns(c) THEN [op EXCEPT ![key[c]] = Progressed(op[key[c]], stage)] ELSE op
  \/ key[c] \in Lossy /\ UNCHANGED op

\* What becomes of an error: the Microsoft adapter uses Google's classifier, which does
\* not know its errors.
Classified(k) == IF k \in Graph THEN {"outcome_unknown"}
                 ELSE {"retryable", "permanent", "outcome_unknown"}

-----------------------------------------------------------------------------
(* A run from the beginning.                                               *)

\* Bug: the recorded stages are not looked at.
FreshAlways(c) == TRUE

Fresh(c) == {"master_truncated", "remainder_created"} \cap seen[c] = {}

\* The master is read and the remainder built; what cannot be split is refused unsent.
RefuseSplit(c, o) ==
  /\ At(c, "start") /\ Fresh(c)
  /\ o \in Classified(key[c]) \cup {"permanent"}
  /\ Report(c, o)
  /\ UNCHANGED <<op, key, hash, gen, seen, reply, wire, effects, leg, cuts>>

Prepare(c) ==
  /\ At(c, "start") /\ Fresh(c)
  /\ Note(c, "split_prepared")
  /\ Move(c, "prepared")
  /\ UNCHANGED <<callVars, wire, effects, cuts>>

Send(c, where) == /\ Goto(c, "await")
                  /\ wire' = wire \cup {c}
                  /\ Move(c, where)
                  /\ UNCHANGED <<op, key, hash, gen, seen, outcome, reply, effects, cuts>>

SendTruncation(c) == At(c, "prepared") /\ Send(c, "truncating")

ApplyTruncation(c) ==
  /\ c \in wire /\ leg[c] = "truncating"
  /\ wire' = wire \ {c}
  /\ cuts' = cuts \cup {<<key[c], c>>}
  /\ UNCHANGED <<op, callVars, effects, leg>>

Cut(c) == <<key[c], c>> \in cuts

\* The answer to a request of this adapter: it went well, ...
Hear(c, from, to) == /\ pc[c] = "await" /\ leg[c] = from
                     /\ Goto(c, "perform")
                     /\ Move(c, to)
                     /\ UNCHANGED <<op, key, hash, gen, seen, outcome, reply, wire, effects, cuts>>

HearTruncated(c) == Cut(c) /\ Hear(c, "truncating", "cut")

\* ... or the client threw: only a refusal says that nothing was applied.
HearFailure(c, o) ==
  /\ pc[c] = "await"
  /\ o \in Classified(key[c])
  /\ o = "permanent" => c \notin wire /\ (IF leg[c] = "truncating" THEN ~Cut(c) ELSE ~Landed(c))
  /\ Report(c, o)
  /\ UNCHANGED <<op, key, hash, gen, seen, reply, wire, effects, leg, cuts>>

\* Bug: the stage is recorded before its write.
NoteTruncatedEarly(c) ==
  /\ At(c, "prepared")
  /\ Note(c, "master_truncated")
  /\ Move(c, "prepared")
  /\ UNCHANGED <<callVars, wire, effects, cuts>>

NoteTruncated(c) ==
  /\ At(c, "cut")
  /\ Note(c, "master_truncated")
  /\ Move(c, "truncated")
  /\ UNCHANGED <<callVars, wire, effects, cuts>>

-----------------------------------------------------------------------------
(* The remainder.                                                          *)

Commit(c) ==
  /\ Report(c, "committed")
  /\ UNCHANGED <<key, hash, gen, seen, reply, wire, effects, cuts>>

EndSeries(c) ==
  /\ At(c, "truncated") /\ key[c] \in Endings
  /\ Commit(c)
  /\ UNCHANGED <<op, leg>>

\* Bug: the creation is not announced in the record.
AnnounceNothing(c) ==
  /\ At(c, "truncated") /\ key[c] \notin Endings
  /\ Move(c, "announced")
  /\ UNCHANGED <<op, callVars, wire, effects, cuts>>

Announce(c) ==
  /\ At(c, "truncated") /\ key[c] \notin Endings
  /\ Note(c, "remainder_create_dispatched")
  /\ Move(c, "announced")
  /\ UNCHANGED <<callVars, wire, effects, cuts>>

SendCreate(c) == At(c, "announced") /\ Send(c, "creating")

ApplyCreate(c) == c \in wire /\ leg[c] = "creating" /\ Apply(c) /\ UNCHANGED <<leg, cuts>>

HearCreated(c) == Landed(c) /\ Hear(c, "creating", "created")

NoteCreated(c) ==
  /\ At(c, "created")
  /\ Note(c, "remainder_created")
  /\ Commit(c)
  /\ UNCHANGED leg

-----------------------------------------------------------------------------
(* A run that continues from the recorded stages.                          *)

\* The run starts from these stages and has a remainder to create.
Resumed(c, stages) == At(c, "start") /\ seen[c] = stages /\ key[c] \notin Endings

\* Nothing is left to do.
ResumeDone(c) ==
  /\ At(c, "start") /\ ~Fresh(c)
  /\ ("remainder_created" \in seen[c] \/ key[c] \in Endings)
  /\ Commit(c)
  /\ UNCHANGED <<op, leg>>

\* The stage was recorded without the payload of the remainder.
ResumeUnprepared(c) ==
  /\ \/ Resumed(c, {"master_truncated"})
     \/ Resumed(c, {"master_truncated", "remainder_create_dispatched"})
  /\ Report(c, "outcome_unknown")
  /\ UNCHANGED <<op, key, hash, gen, seen, reply, wire, effects, leg, cuts>>

\* No creation was announced: it is the next step.
ResumeCreate(c) ==
  /\ Resumed(c, {"split_prepared", "master_truncated"})
  /\ Move(c, "truncated")
  /\ UNCHANGED <<op, callVars, wire, effects, cuts>>

\* The creation was announced: only exactly one matching event is taken for it.  Microsoft
\* makes one event of all the requests of an operation (transactionId).
ResumeLookup(c) ==
  /\ Resumed(c, SplitStages \ {"remainder_created"})
  /\ LET found == {d \in Calls : <<key[c], d>> \in effects}
     IN /\ found # {}
        /\ key[c] \notin Graph => \A d, e \in found : d = e
  /\ Note(c, "remainder_created")
  /\ Commit(c)
  /\ UNCHANGED leg

\* Nothing was found, or too much, or the list could not be read.
ResumeInVain(c, o) ==
  /\ Resumed(c, SplitStages \ {"remainder_created"})
  /\ o \in Classified(key[c])
  /\ Report(c, o)
  /\ UNCHANGED <<op, key, hash, gen, seen, reply, wire, effects, leg, cuts>>

SplitStep ==
  \E c \in Calls :
    \/ Prepare(c) \/ SendTruncation(c) \/ ApplyTruncation(c) \/ HearTruncated(c) \/ NoteTruncated(c)
    \/ EndSeries(c) \/ Announce(c) \/ SendCreate(c) \/ ApplyCreate(c) \/ HearCreated(c) \/ NoteCreated(c)
    \/ ResumeDone(c) \/ ResumeUnprepared(c) \/ ResumeCreate(c) \/ ResumeLookup(c)
    \/ (Drop(c) /\ UNCHANGED <<leg, cuts>>)
    \/ \E o \in Outcomes : RefuseSplit(c, o) \/ HearFailure(c, o) \/ ResumeInVain(c, o)

\* A lease outlasts its call unless the call has ended or may stall.
LeasesOutlast ==
  \A k \in Keys :
    op[k].lease = "live" /\ op'[k].lease = "expired" => (k \in Stalling \/ pc[op[k].token] = "dead")

SplitNext ==
  \/ SplitStep
  \/ /\ (JournalStep \/ \E c \in Calls : Crash(c))
     /\ LeasesOutlast
     /\ UNCHANGED <<leg, cuts>>

SplitSpec == SplitInit /\ [][SplitNext]_splitVars

-----------------------------------------------------------------------------
(* Properties.                                                             *)

Creations(k) == {c \in Calls : key[c] = k /\ (Landed(c) \/ (c \in wire /\ leg[c] = "creating"))}
WasCut(k) == \E c \in Calls : <<k, c>> \in cuts

\* A remainder that is created, or about to be, follows a truncated series: the calendar
\* never shows the occurrences twice, not even after a take-over.
RemainderAfterCut == \A k \in Keys : Creations(k) # {} => WasCut(k)

\* "committed" means that both halves were written, by whichever owner.
CommittedMeansComplete ==
  \A k \in Keys :
    op[k].status = "committed" =>
      /\ WasCut(k)
      /\ (k \in Endings \/ \E c \in Creations(k) : Landed(c))

Single(k) == \A c, d \in Creations(k) : c = d

\* A series has one remainder, as long as records are not lost and leases outlast their
\* calls: an announced creation is looked up and never repeated, by whoever takes the
\* operation over.
OneRemainder == \A k \in Keys \ (Lossy \cup Stalling) : Single(k)

\* "A failure between the provider and PostgreSQL cannot cause an automatic double
\* execution" (providerMutationService.ts): one remainder, whatever fails.
NoSecondRemainder == \A k \in Keys \ Graph : Single(k)

\* What the record says happened did happen.
RecordsAreTrue ==
  \A k \in Keys :
    /\ "master_truncated" \in op[k].stages => WasCut(k)
    /\ "remainder_created" \in op[k].stages => \E c \in Creations(k) : Landed(c)
=============================================================================

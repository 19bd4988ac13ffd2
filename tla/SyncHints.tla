----------------------------- MODULE SyncHints -----------------------------
(***************************************************************************)
(* A provider's notification becomes a hint, and a hint becomes a          *)
(* synchronization: services/providerSyncHints.ts and                      *)
(* services/providerSyncHintWorker.ts, for one scope (a connection and a   *)
(* resource), which has at most one row.                                   *)
(*                                                                         *)
(* A drainer is one drainProviderSyncHints at work on this scope's row.    *)
(* Time is a choice: a row may be due, and a claim be ten minutes old, at  *)
(* any moment.  Of the two times of a row only their order is used, so it  *)
(* is the order that is kept.                                              *)
(***************************************************************************)
EXTENDS Naturals

CONSTANTS
  Drainers,   \* passes of the worker, of any process
  LastNote,   \* bound: notifications
  LastUpset   \* bound: synchronizations that fail or are refused, and crashes

ASSUME HintAssumption == LastNote \in Nat /\ LastUpset \in Nat

VARIABLES
  notes,    \* notifications so far
  covered,  \* history: the notifications a completed synchronization began after
  hint,     \* the row of provider_sync_hints
  work,     \* work[d]: where the drainer stands
  id,       \* id[d]: the row it has claimed
  since,    \* since[d]: the notifications when its synchronization began
  outlived, \* history: a claim has grown old under a drainer that was still at work
  upsets    \* failures so far

hintVars == <<notes, covered, hint, work, id, since, outlived, upsets>>

\* newer: requested_at lies after claimed_at.  Rows are numbered, by their ids.
Hints == [id: Nat, exists: BOOLEAN, claimed: BOOLEAN, old: BOOLEAN, newer: BOOLEAN]

HintTypeOK ==
  /\ notes \in 0..LastNote /\ covered \in 0..notes
  /\ hint \in Hints /\ hint.id <= notes
  /\ work \in [Drainers -> {"idle", "claimed", "syncing", "done", "kept", "failed"}]
  /\ id \in [Drainers -> 0..hint.id]
  /\ since \in [Drainers -> 0..notes]
  /\ outlived \in BOOLEAN
  /\ upsets \in 0..LastUpset

HintInit ==
  /\ notes = 0 /\ covered = 0
  /\ hint = [id |-> 0, exists |-> FALSE, claimed |-> FALSE, old |-> FALSE, newer |-> FALSE]
  /\ work = [d \in Drainers |-> "idle"]
  /\ id = [d \in Drainers |-> 0]
  /\ since = [d \in Drainers |-> 0]
  /\ outlived = FALSE /\ upsets = 0

Upset == upsets < LastUpset /\ upsets' = upsets + 1

\* enqueueProviderSyncHint: one row a scope; a claim is left as it is.
Notify ==
  /\ notes < LastNote
  /\ notes' = notes + 1
  /\ hint' = IF hint.exists THEN [hint EXCEPT !.newer = TRUE]
             ELSE [id |-> hint.id + 1, exists |-> TRUE, claimed |-> FALSE, old |-> FALSE,
                   newer |-> TRUE]
  /\ outlived' = (outlived /\ (hint.exists \/ \E d \in Drainers : work[d] # "idle"))
  /\ UNCHANGED <<covered, work, id, since, upsets>>

AtWork == {d \in Drainers : work[d] # "idle" /\ id[d] = hint.id}

\* Ten minutes have passed since the claim.
ClaimGrowsOld ==
  /\ hint.claimed /\ ~hint.old
  /\ hint' = [hint EXCEPT !.old = TRUE]
  /\ outlived' = (outlived \/ AtWork # {})
  /\ UNCHANGED <<notes, covered, work, id, since, upsets>>

HintClaimable(row) == row.exists /\ (row.claimed => row.old)

ClaimHint(d) ==
  /\ work[d] = "idle"
  /\ HintClaimable(hint)
  /\ hint' = [id |-> hint.id, exists |-> TRUE, claimed |-> TRUE, old |-> FALSE, newer |-> FALSE]
  /\ work' = [work EXCEPT ![d] = "claimed"]
  /\ id' = [id EXCEPT ![d] = hint.id]
  /\ UNCHANGED <<notes, covered, since, upsets, outlived>>

\* runProviderSyncForHint, from its first look at the provider to its return.
BeginSync(d) ==
  /\ work[d] = "claimed"
  /\ work' = [work EXCEPT ![d] = "syncing"]
  /\ since' = [since EXCEPT ![d] = notes]
  /\ UNCHANGED <<notes, covered, hint, id, upsets, outlived>>

SyncReturns(d) ==
  /\ work[d] = "syncing"
  /\ work' = [work EXCEPT ![d] = "done"]
  /\ covered' = IF since[d] > covered THEN since[d] ELSE covered
  /\ UNCHANGED <<notes, hint, id, since, upsets, outlived>>

\* It throws, another run has the lease, or it is switched off: the hint is kept.
SyncThrows(d) ==
  /\ work[d] \in {"claimed", "syncing"}
  /\ Upset
  /\ work' = [work EXCEPT ![d] = "failed"]
  /\ UNCHANGED <<notes, covered, hint, id, since, outlived>>

Gone == [id |-> hint.id, exists |-> FALSE, claimed |-> FALSE, old |-> FALSE, newer |-> FALSE]

Unclaimed(d) == IF hint.exists /\ hint.id = id[d]
                THEN [id |-> hint.id, exists |-> TRUE, claimed |-> FALSE, old |-> FALSE,
                      newer |-> hint.newer]
                ELSE hint

Rests(d) == /\ work' = [work EXCEPT ![d] = "idle"]
            /\ id' = [id EXCEPT ![d] = 0]
            /\ since' = [since EXCEPT ![d] = 0]

\* Bug: whatever arrived during the synchronization is deleted with the rest.
Clearable(row) == row.exists

\* The two statements of completeSyncHint; neither asks who has claimed the row.
UpToDate(row) == row.exists /\ row.claimed /\ ~row.newer

ClearHint(d) ==
  /\ work[d] = "done"
  /\ UpToDate(hint) /\ hint.id = id[d]
  /\ hint' = Gone
  /\ Rests(d)
  /\ UNCHANGED <<notes, covered, upsets, outlived>>

KeepHint(d) ==
  /\ work[d] = "done"
  /\ ~(UpToDate(hint) /\ hint.id = id[d])
  /\ work' = [work EXCEPT ![d] = "kept"]
  /\ UNCHANGED <<notes, covered, hint, id, since, upsets, outlived>>

\* The second statement, and failSyncHint: the row is free for the next pass.
FreeHint(d) ==
  /\ work[d] \in {"kept", "failed"}
  /\ hint' = Unclaimed(d)
  /\ Rests(d)
  /\ UNCHANGED <<notes, covered, upsets, outlived>>

DrainerDies(d) ==
  /\ work[d] # "idle"
  /\ Upset
  /\ Rests(d)
  /\ UNCHANGED <<notes, covered, hint, outlived>>

DrainStep(d) == \/ ClaimHint(d) \/ BeginSync(d) \/ SyncReturns(d)
                \/ ClearHint(d) \/ KeepHint(d) \/ FreeHint(d)

HintNext == \/ Notify \/ ClaimGrowsOld
            \/ \E d \in Drainers : DrainStep(d) \/ SyncThrows(d) \/ DrainerDies(d)

HintSpec == HintInit /\ [][HintNext]_hintVars

\* The worker's timer runs as long as the process does, and a claim nobody works on ages.
HintFairness == /\ WF_hintVars(ClaimGrowsOld)
                /\ \A d \in Drainers : WF_hintVars(DrainStep(d))

-----------------------------------------------------------------------------
(* Properties.                                                             *)

\* "A notification that lands during a sync is queued rather than lost": as long as no
\* synchronization that began after it has completed, the row is there.
NothingForgotten == covered < notes => hint.exists

\* So it is as long as no claim has grown old under a pass at work.  That is forgotten with
\* the row: one that is made when no pass is at work is as good as the first.
ForgottenOnlyOutlived == ~outlived => NothingForgotten

\* "Two workers never sync one scope at the same time", under the same condition.
OneSyncAtATime == \A d, e \in Drainers : work[d] = "syncing" /\ work[e] = "syncing" => d = e
OneSyncUnlessOutlived == ~outlived => OneSyncAtATime

\* Every notification is followed by a synchronization that began after it, in spite of
\* failures and restarts, or a claim is outlived.
NotesAreServed == \A n \in 1..LastNote : notes >= n ~> covered >= n \/ outlived
=============================================================================

----------------------------- MODULE GmailSync -----------------------------
(***************************************************************************)
(* Pulling the messages of a Gmail account:                                *)
(* services/providers/google/gmailMailSync.ts under the lease of           *)
(* services/syncCoordinator.ts.  A run reads the history feed from the     *)
(* stored cursor, or lists the whole mailbox anew ("baseline") in as many  *)
(* runs as it takes.  Each page is applied in a transaction of its own,    *)
(* fenced by the lease; what is read of the provider is read outside.      *)
(*                                                                         *)
(* A thread is one message here, and what a message says is the id of the  *)
(* history event that last changed it.  A row may be hidden, archived or   *)
(* deleted: a run does not touch it then, and whether it should be shown   *)
(* again is left to a check of its own, which no lease fences.             *)
(***************************************************************************)
EXTENDS SyncCoordinator, Sequences, FiniteSets

CONSTANTS
  Runs,         \* callers of syncGmailMailMessagesForAccount: the schedule, hints, a user
  Msgs,         \* messages of the mailbox
  LastEvent,    \* bound: the last id of the provider's history
  LastRequest,  \* bound: reindex requests
  LastFiling,   \* bound: hides and moves of a message in the application
  LastRun,      \* bound: generations, and so runs that take the lease
  Nothing       \* no thread in hand

ASSUME GmailAssumption == /\ LastEvent \in Nat \ {0}
                          /\ LastRequest \in Nat
                          /\ LastFiling \in Nat
                          /\ LastRun \in Nat
                          /\ Nothing \notin Msgs \X Nat

VARIABLES
  clock,      \* the provider's current history id
  events,     \* the provider's history: records [id, msg, kind]; "set" leaves the message in
              \* a folder, "archive" in none
  requested,  \* number of reindex requests the user made
  mark,       \* history: the number of baselines when the last of them was made
  filed,      \* number of hides and moves
  row,        \* the account's row in sync_states
  baselines,  \* gmail_baseline_runs and gmail_baseline_seen, in order of creation
  local,      \* local[m]: the row in messages: its version, 0 when there is none; synced_at,
              \* as the number of baselines that had been opened by then; is_deleted or
              \* is_archived; and as history, who stored it last
  look,       \* look[m]: what a check of a hidden row has read of the provider, and the number
              \* of baselines then; dropped when somebody else writes the row (its xmin)
  stage,      \* stage[r]: how far run r has come
  mine,       \* mine[r]: the generation it took
  cursor,     \* cursor[r]: its local variable of that name, which walks through the feed
  todo,       \* todo[r]: threads the feed named and it has not read
  dels,       \* dels[r]: messages the feed reported as deleted
  scan,       \* scan[r]: its baseline and how far it got, as in a checkpoint
  held        \* held[r]: the thread it has read and not applied

provider == <<clock, events, requested, mark, filed>>
stored == <<row, baselines, local, look>>
memory == <<mine, cursor, todo, dels, scan, held>>
syncVars == <<provider, stored, stage, memory>>

\* A page checkpoint names a baseline, the history id it started from and what its listing
\* has not returned yet (target, page token and threads done); base 0 is the column's NULL.
NoPage == [base |-> 0, start |-> NoCursor, left |-> {}]
Pages == [base: Nat, start: Nat, left: SUBSET Msgs]

\* A run under its lease; a check; one that ended after a newer baseline was opened; or the
\* application itself, which moved the message into a folder.
Writers == {"run", "check", "late", "app"}

Kinds == {"set", "archive", "delete"}

Stages == {"idle", "leased", "history", "threads", "commit", "finish", "release",
           "baseline", "open", "scan", "scanned"}

Baseline == [status: {"active", "completed", "abandoned"}, seen: SUBSET Msgs]

SyncTypeOK ==
  /\ clock \in 1..LastEvent
  /\ events \subseteq [id: 1..LastEvent, msg: Msgs, kind: Kinds]
  /\ requested \in 0..LastRequest
  /\ mark \in Nat
  /\ filed \in 0..LastFiling
  /\ row \in SyncRow(Pages) /\ row.cursor <= clock
  /\ baselines \in Seq(Baseline)
  /\ local \in [Msgs -> [at: Nat, epoch: Nat, hidden: BOOLEAN, by: Writers]]
  /\ look \in [Msgs -> [at: Nat, epoch: Nat]]
  /\ stage \in [Runs -> Stages]
  /\ mine \in [Runs -> Nat]
  /\ cursor \in [Runs -> 0..clock]
  /\ todo \in [Runs -> SUBSET Msgs]
  /\ dels \in [Runs -> SUBSET Msgs]
  /\ scan \in [Runs -> Pages]
  /\ held \in [Runs -> (Msgs \X Nat) \cup {Nothing}]

NoRow == [at |-> 0, epoch |-> 0, hidden |-> FALSE, by |-> "run"]
NoLook == [at |-> 0, epoch |-> 0]

SyncInit ==
  /\ clock = 1 /\ requested = 0 /\ mark = 0 /\ filed = 0
  /\ \E old \in SUBSET Msgs : events = {[id |-> 1, msg |-> m, kind |-> "set"] : m \in old}
  /\ row = NewSyncRow(NoPage) /\ baselines = <<>> /\ local = [m \in Msgs |-> NoRow]
  /\ look = [m \in Msgs |-> NoLook]
  /\ stage = [r \in Runs |-> "idle"]
  /\ mine = [r \in Runs |-> 0]
  /\ cursor = [r \in Runs |-> NoCursor]
  /\ todo = [r \in Runs |-> {}]
  /\ dels = [r \in Runs |-> {}]
  /\ scan = [r \in Runs |-> NoPage]
  /\ held = [r \in Runs |-> Nothing]

Goto(r, where) == stage' = [stage EXCEPT ![r] = where]

-----------------------------------------------------------------------------
(* The mailbox, the user and the lease's clock.                            *)

Exists(m) == \E e \in events : e.msg = m
Deleted(m) == \E e \in events : e.msg = m /\ e.kind = "delete"
LastChange(m) == CHOOSE i \in 1..clock : /\ \E e \in events : e.msg = m /\ e.id = i
                                         /\ \A e \in events : e.msg = m => e.id <= i

\* A message arrives or its labels change; a deletion is final, ids are not used again.
MailboxChanges(m, kind) ==
  /\ clock < LastEvent
  /\ ~Deleted(m)
  /\ kind # "set" => Exists(m)
  /\ clock' = clock + 1
  /\ events' = events \cup {[id |-> clock + 1, msg |-> m, kind |-> kind]}
  /\ UNCHANGED <<requested, mark, filed, stored, stage, memory>>

RequestReindex ==
  /\ requested < LastRequest
  /\ requested' = requested + 1
  /\ mark' = Len(baselines)
  /\ UNCHANGED <<clock, events, filed, stored, stage, memory>>

LeaseExpires ==
  /\ row.live
  /\ row' = Expired(row)
  /\ UNCHANGED <<provider, baselines, local, look, stage, memory>>

-----------------------------------------------------------------------------
(* The beginning and the end of a run.                                     *)

Acquire(r) ==
  /\ stage[r] = "idle"
  /\ row.generation < LastRun
  /\ Acquirable(row)
  /\ row' = Acquired(row, NoPage, requested)
  /\ mine' = [mine EXCEPT ![r] = row'.generation]
  /\ Goto(r, "leased")
  /\ UNCHANGED <<provider, baselines, local, look, cursor, todo, dels, scan, held>>

\* readSyncState, in a transaction of its own.
ReadState(r) ==
  /\ stage[r] = "leased"
  /\ cursor' = [cursor EXCEPT ![r] = row.cursor]
  /\ scan' = [scan EXCEPT ![r] = row.page]
  /\ Goto(r, IF row.cursor = NoCursor THEN "baseline" ELSE "history")
  /\ UNCHANGED <<provider, stored, mine, todo, dels, held>>

\* The run's transactions that write messages, position or completion start with the fence.
Fenced(r) == Held(row, mine[r])

CommitCursor(r) ==
  /\ stage[r] = "commit"
  /\ Fenced(r)
  /\ row' = Checkpointed(row, cursor[r], NoPage)
  /\ Goto(r, "finish")
  /\ UNCHANGED <<provider, baselines, local, look, memory>>

FinishRun(r) ==
  /\ stage[r] = "finish"
  /\ Fenced(r)
  /\ row' = Completed(row, requested)
  /\ Goto(r, "release")
  /\ UNCHANGED <<provider, baselines, local, look, memory>>

\* A call that is over keeps nothing.
Over(r) ==
  /\ stage[r] # "idle"
  /\ Goto(r, "idle")
  /\ mine' = [mine EXCEPT ![r] = 0]
  /\ cursor' = [cursor EXCEPT ![r] = NoCursor]
  /\ todo' = [todo EXCEPT ![r] = {}]
  /\ dels' = [dels EXCEPT ![r] = {}]
  /\ scan' = [scan EXCEPT ![r] = NoPage]
  /\ held' = [held EXCEPT ![r] = Nothing]

\* The release, or the failure after a lost lease or an error of the provider.
GiveUp(r) ==
  /\ Over(r)
  /\ row' = GivenUp(row, mine[r])
  /\ UNCHANGED <<provider, baselines, local, look>>

Crash(r) == Over(r) /\ UNCHANGED <<provider, stored>>
-----------------------------------------------------------------------------
(* Reading the feed.  The cursor walks through it; after the last page it  *)
(* is the id the provider had when it gave that page.                      *)

Between(from, to) == {e \in events : from < e.id /\ e.id <= to}

Page(r, to, where) ==
  /\ stage[r] = "history"
  /\ todo' = [todo EXCEPT ![r] = @ \cup {e.msg : e \in Between(cursor[r], to)}]
  /\ dels' = [dels EXCEPT ![r] =
                @ \cup {e.msg : e \in {d \in Between(cursor[r], to) : d.kind = "delete"}}]
  /\ cursor' = [cursor EXCEPT ![r] = to]
  /\ Goto(r, where)
  /\ UNCHANGED <<provider, stored, mine, scan, held>>

\* Bug: the run stops at its page limit and takes the provider's id for the last page's.
LastPageAtLimit(r) ==
  \E to \in cursor[r]..clock :
    /\ stage[r] = "history"
    /\ todo' = [todo EXCEPT ![r] = @ \cup {e.msg : e \in Between(cursor[r], to)}]
    /\ cursor' = [cursor EXCEPT ![r] = clock]
    /\ Goto(r, "threads")
    /\ UNCHANGED <<provider, stored, mine, dels, scan, held>>

NextPage(r) == \E to \in cursor[r]..(clock - 1) : Page(r, to, "history")

LastPage(r) == Page(r, clock, "threads")

\* The id has aged out, or the feed has more pages or threads than one run may read: the
\* whole mailbox is listed anew and the stored checkpoint is not used.
CursorExpires(r) ==
  /\ stage[r] = "history"
  /\ cursor' = [cursor EXCEPT ![r] = NoCursor]
  /\ scan' = [scan EXCEPT ![r] = NoPage]
  /\ todo' = [todo EXCEPT ![r] = {}]
  /\ dels' = [dels EXCEPT ![r] = {}]
  /\ Goto(r, "baseline")
  /\ UNCHANGED <<provider, stored, mine, held>>

\* What the provider says of a thread now.
Answer(m) == <<m, LastChange(m)>>

\* A thread that is gone by now is passed over.
FetchThread(r, m) ==
  /\ stage[r] = "threads" /\ held[r] = Nothing
  /\ m \in todo[r]
  /\ todo' = [todo EXCEPT ![r] = @ \ {m}]
  /\ held' = [held EXCEPT ![r] = IF Deleted(m) THEN Nothing ELSE Answer(m)]
  /\ UNCHANGED <<provider, stored, stage, mine, cursor, dels, scan>>

\* The answer names no folder.
Archived(h) == \E e \in events : e.msg = h[1] /\ e.id = h[2] /\ e.kind = "archive"

\* A hidden row is not shown again by a run, whose answer may be older than what hid it.
Applied(h) ==
  IF local[h[1]].hidden /\ ~Archived(h) THEN local
  ELSE [local EXCEPT ![h[1]] = [at |-> h[2], epoch |-> Len(baselines),
                                hidden |-> @.hidden \/ Archived(h), by |-> "run"]]

\* Bug: a check does not ask whether the row is still the one it has read.
WrittenUnseen(ms) == UNCHANGED look

\* A row that is written, or gone, is no longer the one a check has read.
Written(ms) == look' = [m \in Msgs |-> IF m \in ms THEN NoLook ELSE look[m]]

ApplyThread(r) ==
  /\ stage[r] = "threads" /\ held[r] # Nothing
  /\ Fenced(r)
  /\ local' = Applied(held[r]) /\ Written({held[r][1]})
  /\ held' = [held EXCEPT ![r] = Nothing]
  /\ UNCHANGED <<provider, row, baselines, stage, mine, cursor, todo, dels, scan>>

ApplyDeletions(r) ==
  /\ stage[r] = "threads" /\ todo[r] = {} /\ held[r] = Nothing
  /\ Fenced(r)
  /\ local' = [m \in Msgs |-> IF m \in dels[r] THEN NoRow ELSE local[m]]
  /\ Written(dels[r])
  /\ dels' = [dels EXCEPT ![r] = {}]
  /\ Goto(r, "commit")
  /\ UNCHANGED <<provider, row, baselines, mine, cursor, todo, scan, held>>

-----------------------------------------------------------------------------
(* Listing the whole mailbox.  A baseline ("generation" in the code) keeps *)
(* in the database what it has seen, so that a later run can continue it.  *)

Active(b) == b \in DOMAIN baselines /\ baselines[b].status = "active"

ResumeBaseline(r) ==
  /\ stage[r] = "baseline"
  /\ Active(scan[r].base)
  /\ Goto(r, "scan")
  /\ UNCHANGED <<provider, stored, memory>>

\* The history id is taken before the listing starts.
ReadProfile(r) ==
  /\ stage[r] = "baseline"
  /\ ~Active(scan[r].base)
  /\ scan' = [scan EXCEPT ![r] = [base |-> 0, start |-> clock, left |-> {}]]
  /\ Goto(r, "open")
  /\ UNCHANGED <<provider, stored, mine, cursor, todo, dels, held>>

\* What a listing that begins now will return, unless it is deleted in the meantime.
Listed == {m \in Msgs : Exists(m) /\ ~Deleted(m)}

\* Not fenced: a run that has lost its lease may abandon its successor's baseline.
OpenBaseline(r) ==
  /\ stage[r] = "open"
  /\ baselines' = Append([b \in DOMAIN baselines |->
                            IF Active(b) THEN [baselines[b] EXCEPT !.status = "abandoned"]
                            ELSE baselines[b]],
                         [status |-> "active", seen |-> {}])
  /\ scan' = [scan EXCEPT ![r] = [base |-> Len(baselines) + 1, start |-> scan[r].start,
                                  left |-> Listed]]
  /\ Goto(r, "scan")
  /\ UNCHANGED <<provider, row, local, look, mine, cursor, todo, dels, held>>

ScanThread(r, m) ==
  /\ stage[r] = "scan" /\ held[r] = Nothing
  /\ Exists(m)
  /\ scan' = [scan EXCEPT ![r].left = @ \ {m}]
  /\ held' = [held EXCEPT ![r] = IF Deleted(m) THEN Nothing ELSE Answer(m)]
  /\ UNCHANGED <<provider, stored, stage, mine, cursor, todo, dels>>

\* The thread and its mark of having been seen, in one transaction.
ApplyListed(r) ==
  /\ stage[r] = "scan" /\ held[r] # Nothing
  /\ Fenced(r)
  /\ local' = Applied(held[r]) /\ Written({held[r][1]})
  /\ baselines' = [baselines EXCEPT ![scan[r].base].seen = @ \cup {held[r][1]}]
  /\ held' = [held EXCEPT ![r] = Nothing]
  /\ UNCHANGED <<provider, row, stage, mine, cursor, todo, dels, scan>>

\* One part of the listing is over and the next begins, or the run has read as much as one
\* run may: where it stands is stored.
PauseBaseline(r) ==
  /\ stage[r] = "scan" /\ held[r] = Nothing
  /\ Fenced(r)
  /\ row' = Checkpointed(row, NoCursor, scan[r])
  /\ \E where \in {"scan", "release"} : Goto(r, where)
  /\ UNCHANGED <<provider, baselines, local, look, memory>>

\* The provider lists whatever was there when the listing began, and still is.
ListingOver(r) == \A m \in scan[r].left : Deleted(m)

Unlisted(r, m) == /\ local[m].epoch < scan[r].base
                  /\ m \notin baselines[scan[r].base].seen

\* reconcileGmailBaseline and finishGmailBaselineRun: one transaction.  What the baseline
\* has seen is not read again.
Reconcile(r) ==
  /\ stage[r] = "scan" /\ held[r] = Nothing
  /\ ListingOver(r)
  /\ Fenced(r)
  /\ local' = [m \in Msgs |-> IF Unlisted(r, m) THEN NoRow ELSE local[m]]
  /\ Written({m \in Msgs : Unlisted(r, m)})
  /\ baselines' = [baselines EXCEPT ![scan[r].base] =
                     [status |-> IF @.status = "active" THEN "completed" ELSE @.status,
                      seen |-> {}]]
  /\ Goto(r, "scanned")
  /\ UNCHANGED <<provider, row, memory>>

\* Bug: the history id is taken when the listing is over.
SaveBaselineLate(r) ==
  /\ stage[r] = "scanned"
  /\ Fenced(r)
  /\ row' = Checkpointed(row, NoCursor, scan[r])
  /\ cursor' = [cursor EXCEPT ![r] = clock]
  /\ Goto(r, "commit")
  /\ UNCHANGED <<provider, baselines, local, look, mine, todo, dels, scan, held>>

SaveBaseline(r) ==
  /\ stage[r] = "scanned"
  /\ Fenced(r)
  /\ row' = Checkpointed(row, NoCursor, scan[r])
  /\ cursor' = [cursor EXCEPT ![r] = scan[r].start]
  /\ Goto(r, "commit")
  /\ UNCHANGED <<provider, baselines, local, look, mine, todo, dels, scan, held>>

-----------------------------------------------------------------------------
(* Hidden rows.  No lease fences what is written here.                     *)

\* The application deletes or archives a message: what the row says stays, and archiving
\* sets synced_at.
Hide(m) ==
  /\ filed < LastFiling
  /\ filed' = filed + 1
  /\ local[m].at # 0 /\ ~local[m].hidden
  /\ \E synced \in {local[m].epoch, Len(baselines)} :
       local' = [local EXCEPT ![m] = [at |-> @.at, epoch |-> synced, hidden |-> TRUE,
                                      by |-> @.by]]
  /\ Written({m})
  /\ UNCHANGED <<clock, events, requested, mark, row, baselines, stage, memory>>

\* It moves a message into a folder, as the provider has done before: the row's labels are
\* the application's own, and nothing is read.
Move(m) ==
  /\ filed < LastFiling
  /\ filed' = filed + 1
  /\ local[m].at # 0
  /\ local' = [local EXCEPT ![m] = [at |-> @.at, epoch |-> Len(baselines), hidden |-> FALSE,
                                    by |-> "app"]]
  /\ Written({m})
  /\ UNCHANGED <<clock, events, requested, mark, row, baselines, stage, memory>>

\* A check reads the message of a hidden row.
CheckReads(m) ==
  /\ local[m].hidden /\ look[m] = NoLook
  /\ ~Deleted(m)
  /\ look' = [look EXCEPT ![m] = [at |-> LastChange(m), epoch |-> Len(baselines)]]
  /\ UNCHANGED <<provider, row, baselines, local, stage, memory>>

\* The row is still the one it was: it says what the check has read, and is shown if that
\* is in a folder.
CheckStores(m) ==
  /\ look[m] # NoLook
  /\ local' = [local EXCEPT ![m] =
                 [at |-> look[m].at, epoch |-> Len(baselines),
                  hidden |-> Archived(<<m, look[m].at>>),
                  by |-> IF look[m].epoch = Len(baselines) THEN "check" ELSE "late"]]
  /\ Written({m})
  /\ UNCHANGED <<provider, row, baselines, stage, memory>>

\* The provider does not answer or no longer has the message, a delete or a move has been
\* recorded, the account's row has changed, or the call dies.
CheckFails(m) ==
  /\ look[m] # NoLook
  /\ Written({m})
  /\ UNCHANGED <<provider, row, baselines, local, stage, memory>>

-----------------------------------------------------------------------------
Mailbox == \E m \in Msgs, kind \in Kinds : MailboxChanges(m, kind)

Unfenced(m) == Hide(m) \/ Move(m) \/ CheckReads(m) \/ CheckStores(m) \/ CheckFails(m)

RunStep(r) ==
  \/ Acquire(r) \/ ReadState(r)
  \/ NextPage(r) \/ LastPage(r) \/ CursorExpires(r)
  \/ \E m \in Msgs : FetchThread(r, m) \/ ScanThread(r, m)
  \/ ApplyThread(r) \/ ApplyDeletions(r)
  \/ ResumeBaseline(r) \/ ReadProfile(r) \/ OpenBaseline(r) \/ ApplyListed(r)
  \/ PauseBaseline(r) \/ Reconcile(r) \/ SaveBaseline(r)
  \/ CommitCursor(r) \/ FinishRun(r) \/ GiveUp(r) \/ Crash(r)

SyncNext ==
  \/ Mailbox \/ RequestReindex \/ LeaseExpires
  \/ \E m \in Msgs : Unfenced(m)
  \/ \E r \in Runs : RunStep(r)

SyncSpec == SyncInit /\ [][SyncNext]_syncVars

-----------------------------------------------------------------------------
(* Properties.                                                             *)

\* The stored cursor skips nothing: whatever happened up to it is in the row, or something
\* newer of the same message is, unless the row is hidden, and so left to the check of its
\* visibility, or was last stored without regard to the cursor: by a move of the
\* application, or by a check that had read the message before the newest baseline.
InRow(e) == IF e.kind = "delete" THEN local[e.msg].at = 0
            ELSE local[e.msg].at >= e.id \/ Deleted(e.msg)

Applies(e) == InRow(e) \/ local[e.msg].hidden \/ local[e.msg].by \in {"late", "app"}

NothingSkipped == \A e \in events : e.id <= row.cursor => Applies(e)

\* An index that is shown as ready was read anew after the last reindex request, message by
\* message: no row that is not hidden was synchronized before a baseline was opened after it.
ReadyIsEarned ==
  IndexReady(row, NoPage, requested) /\ requested > 0
    => \A m \in Msgs : local[m].at # 0 => local[m].epoch > mark \/ local[m].hidden

\* What a message's row says never goes back to an older state, whichever run writes it,
\* and a row leaves only if the provider has deleted its message.  Only what a check has
\* brought may be lost again, to a run that had read the message before, and only while
\* the change is ahead of the stored cursor, so that a later run reads it again.
Overwritten(m) == local[m].by # "run" /\ local[m].at > row.cursor

NeverBackwards ==
  [][\A m \in Msgs : \/ local'[m].at >= local[m].at
                     \/ local'[m].at = 0 /\ Deleted(m)
                     \/ Overwritten(m)]_syncVars

\* The cursor is given up only for a new listing; otherwise it never goes back.
CursorAdvances == [][row'.cursor >= row.cursor \/ row'.cursor = NoCursor]_syncVars
=============================================================================

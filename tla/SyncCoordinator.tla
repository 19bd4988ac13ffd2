-------------------------- MODULE SyncCoordinator --------------------------
(***************************************************************************)
(* The row of sync_states that a synchronization run owns by a lease and   *)
(* a generation: every statement of services/syncCoordinator.ts, as the    *)
(* row it leaves.  The modules of the synchronizers keep the rows.         *)
(*                                                                         *)
(* No statement tells a lease that ran out from one that was given back    *)
(* (a NULL): the row is leased ("live") or not.                            *)
(*                                                                         *)
(* A cursor is a position of the provider's history; positions start at 1  *)
(* and 0 is the column's NULL.  A page checkpoint is the synchronizer's    *)
(* own value.  Reindex requests are numbered; reindex_started_at holds the *)
(* request's own time, so its number is kept for it, and for               *)
(* reindex_finished_at the number of requests that had been made by then.  *)
(***************************************************************************)
EXTENDS Naturals

NoCursor == 0

SyncRow(Pages) ==
  [cursor: Nat, page: Pages, generation: Nat, live: BOOLEAN,
   started: Nat, finished: Nat]

NewSyncRow(noPage) ==
  [cursor |-> NoCursor, page |-> noPage, generation |-> 0, live |-> FALSE,
   started |-> 0, finished |-> 0]

\* Who asks for it is not compared: any run may take a row that nobody leases.
Acquirable(row) == ~row.live

\* Bug: a reindex request does not reset the position.
AcquiredAsIs(row, noPage, requested) ==
  [cursor |-> row.cursor, page |-> row.page, generation |-> row.generation + 1,
   live |-> TRUE, started |-> requested, finished |-> row.finished]

\* Bug: the generation is not counted up.
SameGeneration(row, noPage, requested) ==
  [cursor |-> row.cursor, page |-> row.page, live |-> TRUE, started |-> row.started,
   generation |-> IF row.generation = 0 THEN 1 ELSE row.generation, finished |-> row.finished]

\* A new generation; for the rows of messages a reindex request resets the position.
Acquired(row, noPage, requested) ==
  LET again == requested > row.started
  IN  [cursor |-> IF again THEN NoCursor ELSE row.cursor,
       page |-> IF again THEN noPage ELSE row.page,
       generation |-> row.generation + 1, live |-> TRUE,
       started |-> IF again THEN requested ELSE row.started, finished |-> row.finished]

\* Bug: the lease is looked at, whoever holds it.
HeldByAnyone(row, generation) == row.live

\* The guard of renewal, fence, checkpoint and completion; each of them keeps the lease alive
\* or leaves it so.
Held(row, generation) == row.generation = generation /\ row.live

Checkpointed(row, cursor, page) ==
  [cursor |-> cursor, page |-> page, generation |-> row.generation, live |-> row.live,
   started |-> row.started, finished |-> row.finished]

Completed(row, requested) ==
  [row EXCEPT !.finished = IF row.started # 0 THEN requested ELSE row.finished]

\* Failure and release: the generation alone decides.
GivenUp(row, generation) ==
  IF row.generation = generation THEN [row EXCEPT !.live = FALSE] ELSE row

Expired(row) == [row EXCEPT !.live = FALSE]

\* What the settings page shows as an index that needs nothing (mailIndexDiagnostics).
IndexReady(row, noPage, requested) ==
  /\ row.started >= requested
  /\ requested > 0 => row.finished >= row.started
  /\ row.cursor # NoCursor
  /\ row.page = noPage
=============================================================================

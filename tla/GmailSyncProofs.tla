------------------------- MODULE GmailSyncProofs -------------------------
(***************************************************************************)
(* The messages of a Gmail account, for any runs, mailbox, history, reindex*)
(* requests, expired leases and crashes.                                   *)
(*                                                                         *)
(* Between a change at the provider and the row it ends up in, the change  *)
(* is always in some run's hands: named by the feed and not read, read and *)
(* not applied, or still ahead of a listing.  The invariant says in whose. *)
(* It says so only of the run that holds the lease, and of the checkpoint  *)
(* it left: a run that lost the lease writes nothing any more.             *)
(***************************************************************************)
EXTENDS MCMailSync, MailFlagStateProofs, SequenceTheorems, TLAPS

\* The provider numbers its history, and every message in it has a last event.
HistoryInv ==
  /\ \A e \in events : e.id <= clock
  /\ \A m \in Msgs : Exists(m) =>
       \E e \in events : e.msg = m /\ \A f \in events : f.msg = m => f.id <= e.id

\* A check of a row's visibility has read a row that is hidden, and the message as it was no
\* earlier than the row says.
LookInv(m) ==
  look[m] # NoLook => /\ local[m].hidden
                      /\ look[m].epoch <= Len(baselines)
                      /\ look[m].at >= local[m].at
                      /\ \E e \in events : e.msg = m /\ e.id = look[m].at

\* A row says what some event said, and was synchronized under a baseline there is; a message
\* that a baseline has seen was synchronized under it or a later one, or is hidden.
LocalInv ==
  /\ \A m \in Msgs : local[m].at # 0 => \E e \in events : e.msg = m /\ e.id = local[m].at
  /\ \A m \in Msgs : local[m].at = 0 => local[m] = NoRow
  /\ \A m \in Msgs : local[m].epoch <= Len(baselines)
  /\ \A b \in DOMAIN baselines : \A m \in baselines[b].seen :
       local[m].at # 0 => local[m].epoch >= b \/ local[m].hidden
  /\ \A m \in Msgs : LookInv(m)

\* What a check of the row would store has the change, or is known to be late.
LookTells(e) ==
  \/ look[e.msg] = NoLook
  \/ look[e.msg].epoch # Len(baselines)
  \/ e.kind # "delete" /\ (look[e.msg].at >= e.id \/ Deleted(e.msg))

\* A change has been applied, and no check takes that back.
Done(e) == Applies(e) /\ LookTells(e)

\* Everything that happened up to a position has been applied.
AppliedUpTo(p) == \A e \in events : e.id <= p => Done(e)

\* What a listing s has still to bring or is among the threads in hand: rows that are older than its
\* baseline, and what happened before it.
Kept(s, threads) ==
  /\ \A m \in Msgs : local[m].at # 0 /\ local[m].epoch < s.base =>
       \/ Deleted(m) \/ m \in s.left \/ m \in baselines[s.base].seen
       \/ \E h \in threads : h[1] = m
  /\ \A e \in events : e.id <= s.start /\ e.kind = "delete" =>
       /\ LookTells(e)
       /\ Applies(e) \/ (local[e.msg].epoch < s.base /\ e.msg \notin baselines[s.base].seen)
  /\ \A e \in events : e.id <= s.start /\ e.kind # "delete" =>
       Done(e) \/ e.msg \in s.left \/ \E h \in threads : h[1] = e.msg /\ h[2] >= e.id

\* The same of the feed that a run has read.
FeedKept(upTo, gone, left, threads) ==
  /\ \A e \in events : e.id <= upTo /\ e.kind = "delete" => Done(e) \/ e.msg \in gone
  /\ \A e \in events : e.id <= upTo /\ e.kind # "delete" =>
       Done(e) \/ e.msg \in left \/ \E h \in threads : h[1] = e.msg /\ h[2] >= e.id

Hand(r) == {held[r]} \ {Nothing}

\* A reindex request has been answered by a new listing.
Renewed == /\ Len(baselines) > mark
           /\ \A m \in Msgs : local[m].at # 0 => local[m].epoch > mark \/ local[m].hidden

Requested == row.started = requested

RowInv ==
  /\ row.live => row.generation # 0
  /\ row.page.start <= clock /\ row.page.base <= Len(baselines)
  /\ row.page # NoPage => row.cursor = NoCursor
  /\ row.started <= requested /\ mark <= Len(baselines)
  /\ AppliedUpTo(row.cursor)
  /\ Active(row.page.base) => Kept(row.page, {})
  /\ Requested /\ row.cursor # NoCursor => Renewed
  /\ Requested /\ row.page.base # 0 => row.page.base > mark

\* What a run has read and not applied is newer than the row, unless a check stored the row in
\* the meantime; what of the message is newer, and its deletion, came after the run's own
\* position and the stored one.
InTime(h, r) ==
  /\ local[h[1]].by = "run" => h[2] >= local[h[1]].at
  /\ \A e \in events : e.msg = h[1] /\ (e.kind = "delete" \/ e.id > h[2]) =>
       e.id > cursor[r] /\ e.id > scan[r].start /\ e.id > row.cursor /\ e.id > row.page.start

RunBounds(r) ==
  /\ mine[r] <= row.generation
  /\ stage[r] = "idle" <=> mine[r] = 0
  /\ scan[r].start <= clock /\ scan[r].base <= Len(baselines)
  /\ held[r] # Nothing => stage[r] \in {"threads", "scan"}
  /\ \A h \in Hand(r) : \E e \in events : e.msg = h[1] /\ e.id = h[2]
  /\ \A m \in dels[r] : Deleted(m)
  /\ \A m \in todo[r] : Exists(m)
  /\ stage[r] \in {"scan", "scanned"} => scan[r].base # 0
  /\ stage[r] = "scanned" => ~Active(scan[r].base)

RunWork(r) ==
  /\ \A h \in Hand(r) : InTime(h, r)
  /\ stage[r] \in {"history", "threads"} =>
       row.cursor # NoCursor /\ FeedKept(cursor[r], dels[r], todo[r], Hand(r))
  /\ stage[r] = "baseline" /\ Active(scan[r].base) => Kept(scan[r], {})
  /\ stage[r] = "scan" => Kept(scan[r], Hand(r))
  /\ stage[r] = "scanned" => AppliedUpTo(scan[r].start)
  /\ stage[r] = "commit" => AppliedUpTo(cursor[r])
  /\ Requested /\ stage[r] = "baseline" /\ scan[r].base # 0 => scan[r].base > mark
  /\ Requested /\ stage[r] \in {"scan", "scanned"} => scan[r].base > mark
  /\ Requested /\ stage[r] \in {"scanned", "commit"} => Renewed

RunInv(r) == RunBounds(r) /\ (Fenced(r) => RunWork(r))

Distinct == \A r, q \in Runs : r # q /\ mine[r] = mine[q] => mine[r] = 0

SyncInv == /\ SyncTypeOK /\ HistoryInv /\ LocalInv /\ RowInv /\ Distinct
           /\ \A r \in Runs : RunInv(r)

USE GmailAssumption

-----------------------------------------------------------------------------
(* Facts about the model's operators.                                      *)

\* The last change of a message that exists is an event of it, and no event of it is later.
LEMMA LastChangeIsLast ==
  ASSUME SyncTypeOK, HistoryInv, NEW m \in Msgs, Exists(m)
  PROVE  /\ LastChange(m) \in Nat
         /\ \E e \in events : e.msg = m /\ e.id = LastChange(m)
         /\ \A e \in events : e.msg = m => e.id <= LastChange(m)
  <1>1. PICK last \in events : last.msg = m /\ \A f \in events : f.msg = m => f.id <= last.id
    BY DEF HistoryInv
  <1>2. last.id \in 1..clock /\ clock \in Nat
    BY <1>1 DEF SyncTypeOK, HistoryInv
  <1>3. /\ \E e \in events : e.msg = m /\ e.id = last.id
        /\ \A e \in events : e.msg = m => e.id <= last.id
    BY <1>1
  <1> DEFINE P(i) == /\ \E e \in events : e.msg = m /\ e.id = i
                     /\ \A e \in events : e.msg = m => e.id <= i
  <1>4. \E i \in 1..clock : P(i)
    BY <1>2, <1>3
  <1>5. LastChange(m) = CHOOSE i \in 1..clock : P(i)
    BY DEF LastChange
  <1> HIDE DEF P
  <1>6. LastChange(m) \in 1..clock /\ P(LastChange(m))
    BY <1>4, <1>5, Zenon
  <1> QED BY <1>2, <1>6 DEF P

\* The row that each statement leaves, field by field.
LEMMA AcquiredRow ==
  ASSUME NEW old, NEW noPage, NEW n, NEW new, new = Acquired(old, noPage, n)
  PROVE  /\ new.generation = old.generation + 1 /\ new.live
         /\ new.finished = old.finished
         /\ n > old.started => new.cursor = NoCursor /\ new.page = noPage /\ new.started = n
         /\ ~(n > old.started) => /\ new.cursor = old.cursor /\ new.page = old.page
                                  /\ new.started = old.started
  BY DEF Acquired

LEMMA ExpiredRow ==
  ASSUME NEW old \in SyncRow(Pages), NEW new, new = Expired(old)
  PROVE  /\ new \in SyncRow(Pages)
         /\ new.cursor = old.cursor /\ new.page = old.page /\ new.generation = old.generation
         /\ new.started = old.started /\ new.finished = old.finished /\ new.live = FALSE
  BY DEF Expired, SyncRow

LEMMA GivenUpRow ==
  ASSUME NEW old \in SyncRow(Pages), NEW g, NEW new, new = GivenUp(old, g)
  PROVE  /\ new \in SyncRow(Pages)
         /\ new.cursor = old.cursor /\ new.page = old.page /\ new.generation = old.generation
         /\ new.started = old.started /\ new.finished = old.finished
         /\ new.live => old.live /\ old.generation # g
  BY DEF GivenUp, SyncRow

LEMMA CompletedRow ==
  ASSUME NEW old \in SyncRow(Pages), NEW n \in Nat, NEW new, new = Completed(old, n)
  PROVE  /\ new \in SyncRow(Pages)
         /\ new.cursor = old.cursor /\ new.page = old.page /\ new.generation = old.generation
         /\ new.started = old.started /\ new.live = old.live
  BY DEF Completed, SyncRow

LEMMA CheckpointedRow ==
  ASSUME NEW old \in SyncRow(Pages), NEW to \in Nat, NEW page \in Pages, NEW new,
         new = Checkpointed(old, to, page)
  PROVE  /\ new \in SyncRow(Pages)
         /\ new.cursor = to /\ new.page = page /\ new.generation = old.generation
         /\ new.started = old.started /\ new.finished = old.finished /\ new.live = old.live
  BY DEF Checkpointed, SyncRow

\* A new baseline is active, has seen nothing, and is the only active one.
LEMMA OpenedBaseline ==
  ASSUME SyncTypeOK, NEW r \in Runs, OpenBaseline(r)
  PROVE  /\ baselines' \in Seq(Baseline)
         /\ Len(baselines') = Len(baselines) + 1
         /\ DOMAIN baselines = 1..Len(baselines)
         /\ DOMAIN baselines' = 1..(Len(baselines) + 1)
         /\ \A b \in 1..Len(baselines) : /\ baselines'[b].seen = baselines[b].seen
                                         /\ baselines'[b].status # "active"
         /\ baselines'[Len(baselines) + 1].seen = {}
  <1> DEFINE closed == [b \in DOMAIN baselines |->
                          IF Active(b) THEN [baselines[b] EXCEPT !.status = "abandoned"]
                          ELSE baselines[b]]
             opened == [status |-> "active", seen |-> {}]
  <1>1. /\ baselines \in Seq(Baseline) /\ DOMAIN baselines = 1..Len(baselines)
        /\ Len(baselines) \in Nat
        /\ \A b \in 1..Len(baselines) : baselines[b] \in Baseline
    BY LenProperties, ElementOfSeq DEF SyncTypeOK
  <1>2. \A b \in 1..Len(baselines) :
          /\ closed[b] \in Baseline
          /\ closed[b].seen = baselines[b].seen
          /\ closed[b].status # "active"
    BY <1>1 DEF Baseline, Active
  <1>3. closed \in [1..Len(baselines) -> Baseline]
    BY <1>1, <1>2
  <1> HIDE DEF closed
  <1>4. closed \in Seq(Baseline) /\ Len(closed) = Len(baselines)
    BY <1>1, <1>3
  <1>5. opened \in Baseline
    BY DEF Baseline
  <1>6. baselines' = Append(closed, opened)
    BY DEF OpenBaseline, closed
  <1> HIDE DEF opened
  <1>7. /\ baselines' \in Seq(Baseline) /\ Len(baselines') = Len(closed) + 1
        /\ \A b \in 1..Len(closed) : baselines'[b] = closed[b]
        /\ baselines'[Len(closed) + 1] = opened
    BY <1>4, <1>5, <1>6, AppendProperties
  <1>8. DOMAIN baselines' = 1..Len(baselines')
    BY <1>7, LenProperties
  <1> QED BY <1>1, <1>2, <1>4, <1>7, <1>8 DEF opened

\* One baseline is written and the others stay.
LEMMA WrittenBaseline ==
  ASSUME SyncTypeOK, NEW b \in 1..Len(baselines), NEW new \in Baseline,
         baselines' = [baselines EXCEPT ![b] = new]
  PROVE  /\ baselines' \in Seq(Baseline)
         /\ Len(baselines') = Len(baselines)
         /\ DOMAIN baselines = 1..Len(baselines)
         /\ DOMAIN baselines' = 1..Len(baselines)
         /\ baselines'[b] = new
         /\ \A o \in 1..Len(baselines) : o # b => baselines'[o] = baselines[o]
  <1>1. baselines \in Seq(Baseline)
    BY DEF SyncTypeOK
  <1>2. /\ baselines' \in Seq(Baseline) /\ Len(baselines') = Len(baselines)
        /\ \A j \in 1..Len(baselines) : baselines'[j] = IF j = b THEN new ELSE baselines[j]
    BY <1>1, ExceptSeq
  <1> QED BY <1>1, <1>2, LenProperties

\* A thread of the listing is marked in its baseline as seen.
LEMMA SeenWritten ==
  ASSUME SyncTypeOK, NEW r \in Runs, RunBounds(r), ApplyListed(r)
  PROVE  /\ baselines' \in Seq(Baseline)
         /\ Len(baselines') = Len(baselines) /\ Len(baselines) \in Nat
         /\ DOMAIN baselines = 1..Len(baselines) /\ DOMAIN baselines' = 1..Len(baselines)
         /\ scan[r].base \in 1..Len(baselines)
         /\ \A b \in 1..Len(baselines) :
              /\ baselines'[b].status = baselines[b].status
              /\ b # scan[r].base => baselines'[b].seen = baselines[b].seen
         /\ baselines'[scan[r].base].seen = baselines[scan[r].base].seen \cup {held[r][1]}
  <1> DEFINE b == scan[r].base
             new == [baselines[b] EXCEPT !.seen = @ \cup {held[r][1]}]
  <1>1. Len(baselines) \in Nat /\ b \in 1..Len(baselines) /\ baselines \in Seq(Baseline)
    BY LenProperties, SMTT(30) DEF ApplyListed, RunBounds, SyncTypeOK, Pages
  <1>2. baselines[b] \in Baseline /\ held[r][1] \in Msgs
    BY <1>1, ElementOfSeq DEF ApplyListed, SyncTypeOK
  <1>3. /\ new \in Baseline /\ new.status = baselines[b].status
        /\ new.seen = baselines[b].seen \cup {held[r][1]}
    BY <1>2 DEF Baseline
  <1>4. baselines' = [baselines EXCEPT ![b] = new]
    BY DEF ApplyListed
  <1> HIDE DEF new, b
  <1>5. /\ baselines' \in Seq(Baseline)
        /\ Len(baselines') = Len(baselines)
        /\ DOMAIN baselines = 1..Len(baselines)
        /\ DOMAIN baselines' = 1..Len(baselines)
        /\ baselines'[b] = new
        /\ \A o \in 1..Len(baselines) : o # b => baselines'[o] = baselines[o]
    BY <1>1, <1>3, <1>4, WrittenBaseline
  <1> QED BY <1>1, <1>3, <1>5 DEF b

\* A listing that is over closes its baseline and empties it.
LEMMA BaselineFinished ==
  ASSUME SyncTypeOK, NEW r \in Runs, RunBounds(r), Reconcile(r)
  PROVE  /\ baselines' \in Seq(Baseline)
         /\ Len(baselines') = Len(baselines) /\ Len(baselines) \in Nat
         /\ DOMAIN baselines = 1..Len(baselines) /\ DOMAIN baselines' = 1..Len(baselines)
         /\ scan[r].base \in 1..Len(baselines)
         /\ \A b \in 1..Len(baselines) : b # scan[r].base => baselines'[b] = baselines[b]
         /\ baselines'[scan[r].base].seen = {} /\ baselines'[scan[r].base].status # "active"
  <1> DEFINE b == scan[r].base
             new == [status |-> IF baselines[b].status = "active" THEN "completed"
                                ELSE baselines[b].status,
                     seen |-> {}]
  <1>1. Len(baselines) \in Nat /\ b \in 1..Len(baselines) /\ baselines \in Seq(Baseline)
    BY LenProperties DEF Reconcile, RunBounds, SyncTypeOK, Pages
  <1>2. baselines[b] \in Baseline
    BY <1>1, ElementOfSeq
  <1>3. new \in Baseline /\ new.status # "active" /\ new.seen = {}
    BY <1>2 DEF Baseline
  <1>4. baselines' = [baselines EXCEPT ![b] = new]
    BY DEF Reconcile
  <1> HIDE DEF new, b
  <1>5. /\ baselines' \in Seq(Baseline)
        /\ Len(baselines') = Len(baselines)
        /\ DOMAIN baselines = 1..Len(baselines)
        /\ DOMAIN baselines' = 1..Len(baselines)
        /\ baselines'[b] = new
        /\ \A o \in 1..Len(baselines) : o # b => baselines'[o] = baselines[o]
    BY <1>1, <1>3, <1>4, WrittenBaseline
  <1> QED BY <1>1, <1>3, <1>5 DEF b

\* The rows that a written thread leaves.
LEMMA AppliedRow ==
  ASSUME SyncTypeOK, NEW h \in Msgs \X Nat, local' = Applied(h), Written({h[1]})
  PROVE  /\ local' \in [Msgs -> [at: Nat, epoch: Nat, hidden: BOOLEAN, by: Writers]]
         /\ look' \in [Msgs -> [at: Nat, epoch: Nat]]
         /\ \A x \in Msgs : x # h[1] => local'[x] = local[x] /\ look'[x] = look[x]
         /\ look'[h[1]] = NoLook
         /\ \/ local[h[1]].hidden /\ local'[h[1]] = local[h[1]]
            \/ /\ local'[h[1]].at = h[2] /\ local'[h[1]].epoch = Len(baselines)
               /\ local'[h[1]].by = "run"
  <1> DEFINE new == [at |-> h[2], epoch |-> Len(baselines),
                     hidden |-> local[h[1]].hidden \/ Archived(h), by |-> "run"]
  <1>1. /\ h[1] \in Msgs /\ h[2] \in Nat /\ Len(baselines) \in Nat
        /\ local[h[1]].hidden \in BOOLEAN
        /\ local \in [Msgs -> [at: Nat, epoch: Nat, hidden: BOOLEAN, by: Writers]]
        /\ look \in [Msgs -> [at: Nat, epoch: Nat]]
    BY LenProperties DEF SyncTypeOK
  <1>2. Archived(h) \in BOOLEAN
    BY DEF Archived
  <1>3. new \in [at: Nat, epoch: Nat, hidden: BOOLEAN, by: Writers]
    BY <1>1, <1>2 DEF Writers
  <1>4. new.at = h[2] /\ new.epoch = Len(baselines) /\ new.by = "run"
    OBVIOUS
  <1>5. \/ local[h[1]].hidden /\ local' = local
        \/ local' = [local EXCEPT ![h[1]] = new]
    BY DEF Applied
  <1> HIDE DEF new
  <1>6. look' \in [Msgs -> [at: Nat, epoch: Nat]]
    BY <1>1 DEF Written, NoLook
  <1>7. look'[h[1]] = NoLook /\ \A x \in Msgs : x # h[1] => look'[x] = look[x]
    BY <1>1 DEF Written
  <1>8. CASE local[h[1]].hidden /\ local' = local
    BY <1>1, <1>6, <1>7, <1>8
  <1>9. CASE local' = [local EXCEPT ![h[1]] = new]
    <2>1. local' \in [Msgs -> [at: Nat, epoch: Nat, hidden: BOOLEAN, by: Writers]]
      BY <1>1, <1>3, <1>9
    <2>2. local'[h[1]] = new /\ \A x \in Msgs : x # h[1] => local'[x] = local[x]
      BY <1>1, <1>9
    <2> QED BY <1>4, <1>6, <1>7, <2>1, <2>2
  <1> QED BY <1>5, <1>8, <1>9

-----------------------------------------------------------------------------
(* Types.                                                                  *)

LEMMA SyncTypeStart == SyncInit => SyncTypeOK
  <1> SUFFICES ASSUME SyncInit PROVE SyncTypeOK
    OBVIOUS
  <1>1. NoPage \in Pages
    BY DEF NoPage, Pages, NoCursor
  <1>2. row \in SyncRow(Pages) /\ row.cursor = 0
    BY <1>1 DEF SyncInit, NewSyncRow, SyncRow, NoCursor
  <1>3. events \subseteq [id: 1..LastEvent, msg: Msgs, kind: Kinds]
    BY DEF SyncInit, Kinds
  <1>4. baselines \in Seq(Baseline)
    BY EmptySeq DEF SyncInit
  <1>5. /\ clock \in 1..LastEvent /\ requested \in 0..LastRequest /\ mark \in Nat
        /\ local \in [Msgs -> [at: Nat, epoch: Nat, hidden: BOOLEAN, by: Writers]]
    BY DEF SyncInit, NoRow, Writers
  <1>a. look \in [Msgs -> [at: Nat, epoch: Nat]] /\ filed \in 0..LastFiling
    BY DEF SyncInit, NoLook
  <1>6. /\ stage \in [Runs -> Stages] /\ mine \in [Runs -> Nat]
        /\ cursor \in [Runs -> 0..clock] /\ todo \in [Runs -> SUBSET Msgs]
        /\ dels \in [Runs -> SUBSET Msgs] /\ scan \in [Runs -> Pages]
        /\ held \in [Runs -> (Msgs \X Nat) \cup {Nothing}]
    BY <1>1 DEF SyncInit, Stages, NoCursor
  <1> QED BY <1>2, <1>3, <1>4, <1>5, <1>6, <1>a DEF SyncTypeOK

\* The events of a message are of a message.
LEMMA EventTypes ==
  ASSUME SyncTypeOK, NEW e \in events
  PROVE  /\ e.id \in Nat /\ e.id >= 1 /\ e.msg \in Msgs
         /\ e.kind \in Kinds
  BY DEF SyncTypeOK

LEMMA AnswerType ==
  ASSUME SyncTypeOK, HistoryInv, NEW m \in Msgs, Exists(m)
  PROVE  /\ Answer(m) \in Msgs \X Nat /\ Answer(m) # Nothing
         /\ Answer(m)[1] = m /\ Answer(m)[2] = LastChange(m)
  BY LastChangeIsLast DEF Answer

LEMMA MailboxTypes ==
  ASSUME SyncTypeOK, Mailbox \/ RequestReindex \/ LeaseExpires
  PROVE  SyncTypeOK'
  <1>1. CASE Mailbox
    <2> PICK m \in Msgs, kind \in Kinds : MailboxChanges(m, kind)
      BY <1>1 DEF Mailbox
    <2>1. clock' \in 1..LastEvent /\ clock <= clock' /\ clock \in Nat /\ clock' = clock + 1
      BY DEF MailboxChanges, SyncTypeOK
    <2>2. events' \subseteq [id: 1..LastEvent, msg: Msgs, kind: Kinds]
      BY <2>1 DEF MailboxChanges, SyncTypeOK
    <2>3. row' \in SyncRow(Pages) /\ row'.cursor <= clock'
      BY <2>1 DEF MailboxChanges, SyncTypeOK, stored, SyncRow
    <2>4. cursor' \in [Runs -> 0..clock']
      BY <2>1 DEF MailboxChanges, SyncTypeOK, memory
    <2> QED BY <2>1, <2>2, <2>3, <2>4 DEF MailboxChanges, SyncTypeOK, stored, memory
  <1>2. CASE RequestReindex
    <2>1. Len(baselines) \in Nat
      BY LenProperties DEF SyncTypeOK
    <2> QED BY <1>2, <2>1 DEF RequestReindex, SyncTypeOK, stored, memory
  <1>3. CASE LeaseExpires
    <2>1. row \in SyncRow(Pages) /\ row' = Expired(row)
      BY <1>3 DEF LeaseExpires, SyncTypeOK
    <2>2. row' \in SyncRow(Pages) /\ row'.cursor = row.cursor
      BY <2>1, ExpiredRow
    <2> QED BY <1>3, <2>2 DEF LeaseExpires, SyncTypeOK, provider, memory
  <1> QED BY <1>1, <1>2, <1>3

LEMMA RunTypes ==
  ASSUME SyncTypeOK, HistoryInv, NEW r \in Runs, RunBounds(r),
         \/ Acquire(r) \/ ReadState(r) \/ GiveUp(r) \/ Crash(r)
         \/ CommitCursor(r) \/ FinishRun(r)
  PROVE  SyncTypeOK'
  <1>0. NoPage \in Pages /\ NoCursor \in 0..clock
    BY DEF NoPage, Pages, NoCursor, SyncTypeOK
  <1>a. row \in SyncRow(Pages) /\ requested \in Nat /\ clock \in Nat
    BY DEF SyncTypeOK
  <1>1. CASE Acquire(r)
    <2>1. row' \in SyncRow(Pages) /\ row'.cursor <= clock /\ row'.generation \in Nat
      BY <1>0, <1>a, <1>1 DEF Acquire, Acquired, SyncRow, SyncTypeOK, NoCursor
    <2>2. stage' \in [Runs -> Stages]
      BY <1>1 DEF Acquire, Goto, Stages, SyncTypeOK
    <2>3. mine' \in [Runs -> Nat]
      BY <1>1, <2>1 DEF Acquire, SyncTypeOK
    <2> QED BY <1>1, <2>1, <2>2, <2>3 DEF Acquire, SyncTypeOK, provider
  <1>2. CASE ReadState(r)
    <2>1. stage' \in [Runs -> Stages]
      BY <1>2 DEF ReadState, Goto, Stages, SyncTypeOK
    <2>2. row.cursor \in 0..clock /\ row.page \in Pages
      BY <1>a DEF SyncTypeOK, SyncRow
    <2>3. cursor' \in [Runs -> 0..clock]
      BY <1>2, <2>2 DEF ReadState, SyncTypeOK
    <2>4. scan' \in [Runs -> Pages]
      BY <1>2, <2>2 DEF ReadState, SyncTypeOK
    <2> QED BY <1>2, <2>1, <2>3, <2>4 DEF ReadState, SyncTypeOK, provider, stored
  <1>3. ASSUME Over(r)
        PROVE  /\ stage' \in [Runs -> Stages] /\ mine' \in [Runs -> Nat]
               /\ cursor' \in [Runs -> 0..clock] /\ todo' \in [Runs -> SUBSET Msgs]
               /\ dels' \in [Runs -> SUBSET Msgs] /\ scan' \in [Runs -> Pages]
               /\ held' \in [Runs -> (Msgs \X Nat) \cup {Nothing}]
    BY <1>0, <1>3 DEF Over, Goto, Stages, SyncTypeOK
  <1>4. CASE GiveUp(r)
    <2>1. row' \in SyncRow(Pages) /\ row'.cursor = row.cursor
      <3>1. row' = GivenUp(row, mine[r])
        BY <1>4 DEF GiveUp
      <3> QED BY <1>a, <3>1, GivenUpRow
    <2> QED BY <1>3, <1>4, <2>1 DEF GiveUp, SyncTypeOK, provider
  <1>5. CASE Crash(r)
    BY <1>3, <1>5 DEF Crash, SyncTypeOK, provider, stored
  <1>6. CASE CommitCursor(r)
    <2>1. cursor[r] \in 0..clock /\ cursor[r] \in Nat /\ row' = Checkpointed(row, cursor[r], NoPage)
      BY <1>6 DEF CommitCursor, SyncTypeOK
    <2>2. row' \in SyncRow(Pages) /\ row'.cursor <= clock
      BY <1>0, <1>a, <2>1, CheckpointedRow
    <2>3. stage' \in [Runs -> Stages]
      BY <1>6 DEF CommitCursor, Goto, Stages, SyncTypeOK
    <2> QED BY <1>6, <2>2, <2>3 DEF CommitCursor, SyncTypeOK, provider, memory
  <1>7. CASE FinishRun(r)
    <2>1. row' = Completed(row, requested)
      BY <1>7 DEF FinishRun
    <2>2. row' \in SyncRow(Pages) /\ row'.cursor = row.cursor
      BY <1>a, <2>1, CompletedRow
    <2>3. stage' \in [Runs -> Stages]
      BY <1>7 DEF FinishRun, Goto, Stages, SyncTypeOK
    <2> QED BY <1>7, <2>2, <2>3 DEF FinishRun, SyncTypeOK, provider, memory
  <1> QED BY <1>1, <1>2, <1>4, <1>5, <1>6, <1>7

LEMMA FeedTypes ==
  ASSUME SyncTypeOK, HistoryInv, NEW r \in Runs, RunBounds(r),
         \/ NextPage(r) \/ LastPage(r) \/ CursorExpires(r)
         \/ \E m \in Msgs : FetchThread(r, m)
         \/ ApplyThread(r) \/ ApplyDeletions(r)
  PROVE  SyncTypeOK'
  <1>1. ASSUME NEW to \in 0..clock, NEW where \in Stages, Page(r, to, where)
        PROVE  SyncTypeOK'
    <2>1. Between(cursor[r], to) \subseteq events
      BY DEF Between
    <2>2. /\ {e.msg : e \in Between(cursor[r], to)} \subseteq Msgs
          /\ {e.msg : e \in {d \in Between(cursor[r], to) : d.kind = "delete"}} \subseteq Msgs
      BY <2>1 DEF SyncTypeOK
    <2>3. todo' \in [Runs -> SUBSET Msgs] /\ dels' \in [Runs -> SUBSET Msgs]
      BY <1>1, <2>2 DEF Page, SyncTypeOK
    <2>4. stage' \in [Runs -> Stages] /\ cursor' \in [Runs -> 0..clock]
      BY <1>1 DEF Page, Goto, SyncTypeOK
    <2> QED BY <1>1, <2>3, <2>4 DEF Page, SyncTypeOK, provider, stored
  <1>2. CASE NextPage(r)
    <2>1. PICK to \in cursor[r]..(clock - 1) : Page(r, to, "history")
      BY <1>2 DEF NextPage
    <2>2. to \in 0..clock
      BY DEF SyncTypeOK
    <2> QED BY <1>1, <2>1, <2>2 DEF Stages
  <1>3. CASE LastPage(r)
    <2>1. clock \in 0..clock
      BY DEF SyncTypeOK
    <2> QED BY <1>1, <1>3, <2>1 DEF LastPage, Stages
  <1>4. CASE CursorExpires(r)
    <2>1. NoPage \in Pages /\ NoCursor \in 0..clock /\ "baseline" \in Stages
      BY DEF NoPage, Pages, NoCursor, Stages, SyncTypeOK
    <2>2. stage' \in [Runs -> Stages] /\ cursor' \in [Runs -> 0..clock]
      BY <1>4, <2>1 DEF CursorExpires, Goto, SyncTypeOK
    <2>3. scan' \in [Runs -> Pages]
      BY <1>4, <2>1 DEF CursorExpires, SyncTypeOK
    <2>4. todo' \in [Runs -> SUBSET Msgs] /\ dels' \in [Runs -> SUBSET Msgs]
      BY <1>4 DEF CursorExpires, SyncTypeOK
    <2> QED BY <1>4, <2>2, <2>3, <2>4 DEF CursorExpires, SyncTypeOK, provider, stored
  <1>5. ASSUME NEW m \in Msgs, FetchThread(r, m) PROVE SyncTypeOK'
    <2>1. Answer(m) \in Msgs \X Nat
      BY <1>5, AnswerType DEF FetchThread, RunBounds
    <2>2. held' \in [Runs -> (Msgs \X Nat) \cup {Nothing}]
      BY <1>5, <2>1 DEF FetchThread, SyncTypeOK
    <2> QED BY <1>5, <2>2 DEF FetchThread, SyncTypeOK, provider, stored
  <1>6. CASE ApplyThread(r)
    <2>1. held[r] \in Msgs \X Nat /\ Len(baselines) \in Nat
      BY <1>6, LenProperties DEF ApplyThread, SyncTypeOK
    <2>2. /\ local' \in [Msgs -> [at: Nat, epoch: Nat, hidden: BOOLEAN, by: Writers]]
          /\ look' \in [Msgs -> [at: Nat, epoch: Nat]]
      BY <1>6, <2>1, AppliedRow DEF ApplyThread
    <2>3. held' \in [Runs -> (Msgs \X Nat) \cup {Nothing}]
      BY <1>6 DEF ApplyThread, SyncTypeOK
    <2> QED BY <1>6, <2>2, <2>3 DEF ApplyThread, SyncTypeOK, provider
  <1>7. CASE ApplyDeletions(r)
    <2>1. /\ local' \in [Msgs -> [at: Nat, epoch: Nat, hidden: BOOLEAN, by: Writers]]
          /\ look' \in [Msgs -> [at: Nat, epoch: Nat]]
      BY <1>7 DEF ApplyDeletions, NoRow, NoLook, Written, Writers, SyncTypeOK
    <2> QED BY <1>7, <2>1 DEF ApplyDeletions, SyncTypeOK, provider, Goto, Stages
  <1> QED BY <1>2, <1>3, <1>4, <1>5, <1>6, <1>7

LEMMA ListingTypes ==
  ASSUME SyncTypeOK, HistoryInv, NEW r \in Runs, RunBounds(r),
         \/ ResumeBaseline(r) \/ ReadProfile(r) \/ OpenBaseline(r)
         \/ \E m \in Msgs : ScanThread(r, m)
         \/ ApplyListed(r) \/ PauseBaseline(r) \/ Reconcile(r) \/ SaveBaseline(r)
  PROVE  SyncTypeOK'
  <1>0. /\ Len(baselines) \in Nat /\ scan[r] \in Pages /\ scan[r].start \in 0..clock
        /\ row \in SyncRow(Pages) /\ NoCursor \in Nat
    BY LenProperties DEF SyncTypeOK, RunBounds, Pages, NoCursor
  <1>1. CASE ResumeBaseline(r)
    BY <1>1 DEF ResumeBaseline, SyncTypeOK, provider, stored, memory, Goto, Stages
  <1>2. CASE ReadProfile(r)
    <2>1. [base |-> 0, start |-> clock, left |-> {}] \in Pages
      BY DEF Pages, SyncTypeOK
    <2>2. scan' \in [Runs -> Pages]
      BY <1>2, <2>1 DEF ReadProfile, SyncTypeOK
    <2> QED BY <1>2, <2>2 DEF ReadProfile, SyncTypeOK, provider, stored, Goto, Stages
  <1>3. CASE OpenBaseline(r)
    <2>1. [base |-> Len(baselines) + 1, start |-> scan[r].start, left |-> Listed] \in Pages
      BY <1>0 DEF Pages, Listed
    <2>2. scan' \in [Runs -> Pages]
      BY <1>3, <2>1 DEF OpenBaseline, SyncTypeOK
    <2>3. baselines' \in Seq(Baseline)
      BY <1>3, OpenedBaseline
    <2>4. stage' \in [Runs -> Stages]
      BY <1>3 DEF OpenBaseline, SyncTypeOK, Goto, Stages
    <2> QED BY <1>3, <2>2, <2>3, <2>4 DEF OpenBaseline, SyncTypeOK, provider
  <1>4. ASSUME NEW m \in Msgs, ScanThread(r, m) PROVE SyncTypeOK'
    <2>1. Answer(m) \in Msgs \X Nat
      BY <1>4, AnswerType DEF ScanThread
    <2>2. held' \in [Runs -> (Msgs \X Nat) \cup {Nothing}]
      BY <1>4, <2>1 DEF ScanThread, SyncTypeOK
    <2>3. scan' \in [Runs -> Pages]
      <3>1. scan[r] \in Pages
        BY DEF SyncTypeOK
      <3>2. [scan[r] EXCEPT !.left = @ \ {m}] \in Pages
        BY <3>1 DEF Pages
      <3>3. scan' = [scan EXCEPT ![r] = [scan[r] EXCEPT !.left = @ \ {m}]]
        BY <1>4 DEF ScanThread
      <3> QED BY <3>2, <3>3 DEF SyncTypeOK
    <2> QED BY <1>4, <2>2, <2>3 DEF ScanThread, SyncTypeOK, provider, stored
  <1>5. CASE ApplyListed(r)
    <2>1. held[r] \in Msgs \X Nat /\ scan[r].base \in 1..Len(baselines)
      BY <1>0, <1>5 DEF ApplyListed, SyncTypeOK, RunBounds, Pages
    <2>2. /\ local' \in [Msgs -> [at: Nat, epoch: Nat, hidden: BOOLEAN, by: Writers]]
          /\ look' \in [Msgs -> [at: Nat, epoch: Nat]]
      BY <1>5, <2>1, AppliedRow DEF ApplyListed
    <2>3. held' \in [Runs -> (Msgs \X Nat) \cup {Nothing}]
      BY <1>5 DEF ApplyListed, SyncTypeOK
    <2>4. baselines' \in Seq(Baseline)
      BY <1>5, <2>1, SeenWritten
    <2> QED BY <1>5, <2>2, <2>3, <2>4 DEF ApplyListed, SyncTypeOK, provider
  <1>6. CASE PauseBaseline(r)
    <2>1. row' = Checkpointed(row, NoCursor, scan[r])
      BY <1>6 DEF PauseBaseline
    <2>2. row' \in SyncRow(Pages) /\ row'.cursor = NoCursor
      BY <1>0, <2>1 DEF Checkpointed, SyncRow
    <2> QED BY <1>6, <2>2, SMTT(30) DEF PauseBaseline, SyncTypeOK, provider, memory, Goto, Stages, NoCursor
  <1>7. CASE Reconcile(r)
    <2>1. baselines' \in Seq(Baseline)
      BY <1>7, BaselineFinished
    <2>2. /\ local' \in [Msgs -> [at: Nat, epoch: Nat, hidden: BOOLEAN, by: Writers]]
          /\ look' \in [Msgs -> [at: Nat, epoch: Nat]]
      BY <1>7 DEF Reconcile, NoRow, NoLook, Written, Writers, SyncTypeOK
    <2> QED BY <1>7, <2>1, <2>2 DEF Reconcile, SyncTypeOK, provider, memory, Goto, Stages
  <1>8. CASE SaveBaseline(r)
    <2>1. row' = Checkpointed(row, NoCursor, scan[r])
      BY <1>8 DEF SaveBaseline
    <2>2. row' \in SyncRow(Pages) /\ row'.cursor = NoCursor
      BY <1>0, <2>1 DEF Checkpointed, SyncRow
    <2>3. cursor' \in [Runs -> 0..clock]
      BY <1>0, <1>8 DEF SaveBaseline, SyncTypeOK
    <2> QED BY <1>8, <2>2, <2>3, SMTT(30) DEF SaveBaseline, SyncTypeOK, provider, Goto, Stages, NoCursor
  <1> QED BY <1>1, <1>2, <1>3, <1>4, <1>5, <1>6, <1>7, <1>8

-----------------------------------------------------------------------------
(* What a step of one run leaves as it is.                                 *)

RunSame(q) == /\ stage'[q] = stage[q] /\ mine'[q] = mine[q] /\ cursor'[q] = cursor[q]
              /\ todo'[q] = todo[q] /\ dels'[q] = dels[q] /\ scan'[q] = scan[q]
              /\ held'[q] = held[q]

Reading(r) == \/ ReadState(r) \/ NextPage(r) \/ LastPage(r) \/ CursorExpires(r)
              \/ \E m \in Msgs : FetchThread(r, m) \/ ScanThread(r, m)
              \/ ResumeBaseline(r) \/ ReadProfile(r)

\* The steps that the lease guards.
Writing(r) == \/ ApplyThread(r) \/ ApplyDeletions(r) \/ ApplyListed(r) \/ PauseBaseline(r)
              \/ Reconcile(r) \/ SaveBaseline(r) \/ CommitCursor(r) \/ FinishRun(r)

LEMMA OthersReading ==
  ASSUME NEW r \in Runs, SyncTypeOK, Reading(r)
  PROVE  (\A q \in Runs \ {r} : RunSame(q)) /\ UNCHANGED <<provider, stored, mine>>
  <1>1. CASE ReadState(r) \/ CursorExpires(r) \/ ResumeBaseline(r) \/ ReadProfile(r)
    BY <1>1 DEF ReadState, CursorExpires, ResumeBaseline, ReadProfile, Goto, RunSame, SyncTypeOK,
                memory
  <1>2. CASE NextPage(r) \/ LastPage(r)
    BY <1>2 DEF NextPage, LastPage, Page, Goto, RunSame, SyncTypeOK
  <1>3. ASSUME NEW m \in Msgs, FetchThread(r, m) \/ ScanThread(r, m)
        PROVE  (\A q \in Runs \ {r} : RunSame(q)) /\ UNCHANGED <<provider, stored, mine>>
    BY <1>3 DEF FetchThread, ScanThread, RunSame, SyncTypeOK
  <1> QED BY <1>1, <1>2, <1>3 DEF Reading

LEMMA OthersWriting ==
  ASSUME NEW r \in Runs, SyncTypeOK, Writing(r)
  PROVE  (\A q \in Runs \ {r} : RunSame(q)) /\ UNCHANGED <<provider, mine>> /\ Fenced(r)
  <1>1. CASE ApplyThread(r) \/ ApplyDeletions(r) \/ ApplyListed(r)
    BY <1>1 DEF ApplyThread, ApplyDeletions, ApplyListed, Goto, RunSame, SyncTypeOK
  <1>2. CASE PauseBaseline(r) \/ Reconcile(r) \/ SaveBaseline(r)
    BY <1>2 DEF PauseBaseline, Reconcile, SaveBaseline, Goto, RunSame, SyncTypeOK, memory
  <1>3. CASE CommitCursor(r) \/ FinishRun(r)
    BY <1>3 DEF CommitCursor, FinishRun, Goto, RunSame, SyncTypeOK, memory
  <1> QED BY <1>1, <1>2, <1>3 DEF Writing

\* One run at a time holds the lease.
LEMMA OneIsFenced ==
  ASSUME SyncTypeOK, RowInv, Distinct, NEW r \in Runs, Fenced(r), NEW q \in Runs \ {r}
  PROVE  ~Fenced(q)
  BY DEF Fenced, Held, Distinct, RowInv, SyncTypeOK

\* Nothing that a run's part of the invariant speaks of has changed.
LEMMA RunUntouched ==
  ASSUME NEW q \in Runs, RunInv(q), RunSame(q), UNCHANGED <<provider, stored>>
  PROVE  RunInv(q)'
  <1>1. Hand(q)' = Hand(q) /\ (Fenced(q)' <=> Fenced(q)) /\ (Requested' <=> Requested)
    BY DEF Hand, Fenced, Held, RunSame, stored, provider, Requested
  <1>2. RunBounds(q)'
    BY <1>1 DEF RunInv, RunBounds, RunSame, provider, stored, Active, Deleted, Exists
  <1>3. ASSUME RunWork(q) PROVE RunWork(q)'
    <2>1. \A e \in events : Done(e)' = Done(e) /\ LookTells(e)' = LookTells(e)
                             /\ Applies(e)' = Applies(e)
      BY DEF stored, provider, Done, LookTells, Applies, InRow, Deleted
    <2>2. \A h \in Hand(q) : InTime(h, q)'
      BY <1>1, <1>3 DEF RunWork, RunSame, provider, stored, InTime
    <2>3. stage[q] \in {"history", "threads"} => FeedKept(cursor[q], dels[q], todo[q], Hand(q))'
      BY <1>1, <1>3, <2>1 DEF RunWork, RunSame, provider, FeedKept
    <2>4. /\ stage[q] = "baseline" /\ Active(scan[q].base) => Kept(scan[q], {})'
          /\ stage[q] = "scan" => Kept(scan[q], Hand(q))'
      BY <1>1, <1>3, <2>1 DEF RunWork, RunSame, provider, stored, Kept, Deleted
    <2>5. /\ stage[q] = "scanned" => AppliedUpTo(scan[q].start)'
          /\ stage[q] = "commit" => AppliedUpTo(cursor[q])'
      BY <1>3, <2>1 DEF RunWork, RunSame, provider, AppliedUpTo
    <2>6. Renewed' <=> Renewed
      BY DEF stored, provider, Renewed
    <2> QED
      BY <1>1, <1>3, <2>2, <2>3, <2>4, <2>5, <2>6 DEF RunWork, RunSame, provider, stored, Active
  <1> QED BY <1>1, <1>2, <1>3 DEF RunInv

\* A run without the lease has only its bounds to keep.
LEMMA RunUnfenced ==
  ASSUME NEW q \in Runs, RunBounds(q), RunSame(q), UNCHANGED <<clock, events>>,
         ~Fenced(q)', row.generation <= row'.generation, SyncTypeOK, SyncTypeOK',
         Len(baselines) <= Len(baselines'), 
         \A b \in 1..Len(baselines) : Active(b)' => Active(b)
  PROVE  RunInv(q)'
  <1>1. /\ Len(baselines) \in Nat /\ Len(baselines') \in Nat
        /\ row.generation \in Nat /\ row'.generation \in Nat
        /\ mine[q] \in Nat /\ scan[q].base \in Nat
    BY LenProperties DEF SyncTypeOK, SyncRow, Pages
  <1>2. Hand(q)' = Hand(q)
    BY DEF Hand, RunSame
  <1>3. stage'[q] = "scanned" => ~Active(scan[q].base)'
    BY <1>1 DEF RunBounds, RunSame
  <1>4. (stage[q] = "scanned" => ~Active(scan[q].base))'
    BY <1>3 DEF RunSame, Active
  <1>5. RunBounds(q)'
    BY <1>1, <1>2, <1>4 DEF RunBounds, RunSame, Deleted, Exists
  <1> QED BY <1>5 DEF RunInv

LEMMA StoreUntouched ==
  ASSUME HistoryInv, LocalInv, RowInv, UNCHANGED <<provider, stored>>
  PROVE  HistoryInv' /\ LocalInv' /\ RowInv'
  <1>1. HistoryInv'
    BY DEF HistoryInv, provider, Exists
  <1>2. LocalInv'
    BY DEF LocalInv, LookInv, provider, stored
  <1>3. RowInv'
    BY DEF RowInv, provider, stored, Active, Kept, AppliedUpTo, Done, LookTells, Applies, InRow, Deleted, Renewed,
           Requested
  <1> QED BY <1>1, <1>2, <1>3

-----------------------------------------------------------------------------
(* The mailbox, the user and the lease's clock.                            *)

\* What happens is later than anything a position speaks of, and takes nothing back.
LEMMA ChangeFacts ==
  ASSUME SyncTypeOK, HistoryInv, NEW m \in Msgs, NEW kind \in Kinds,
         MailboxChanges(m, kind)
  PROVE  /\ clock \in Nat /\ clock' = clock + 1
         /\ \A x \in Msgs : (Exists(x) => Exists(x)') /\ (Deleted(x) => Deleted(x)')
         /\ \A e \in events : e \in events' /\ e.id <= clock /\ e.id \in Nat
         /\ \A e \in events' : e \in events \/ (e.id = clock + 1 /\ e.msg = m)
         /\ \E e \in events' : e.id = clock + 1 /\ e.msg = m
         /\ \A e \in events : /\ Applies(e) => Applies(e)'
                              /\ LookTells(e) => LookTells(e)'
         /\ UNCHANGED <<requested, mark, filed, row, baselines, local, look, stage, mine,
                        cursor, todo, dels, scan, held>>
  <1> DEFINE new == [id |-> clock + 1, msg |-> m, kind |-> kind]
  <1>1. /\ clock \in Nat /\ clock' = clock + 1 /\ events' = events \cup {new}
        /\ UNCHANGED <<requested, mark, filed, row, baselines, local, look, stage, mine,
                       cursor, todo, dels, scan, held>>
    BY DEF MailboxChanges, SyncTypeOK, stored, memory
  <1>2. new.id = clock + 1 /\ new.msg = m
    OBVIOUS
  <1>3. \A e \in events : e.id <= clock /\ e.id \in Nat /\ e.msg \in Msgs
    BY DEF HistoryInv, SyncTypeOK
  <1> HIDE DEF new
  <1>4. \A x \in Msgs : (Exists(x) => Exists(x)') /\ (Deleted(x) => Deleted(x)')
    BY <1>1 DEF Exists, Deleted
  <1>5. \A e \in events : /\ Applies(e) => Applies(e)'
                          /\ LookTells(e) => LookTells(e)'
    BY <1>1, <1>3, <1>4 DEF Done, LookTells, Applies, InRow
  <1>6. new \in events' /\ \A e \in events' : e \in events \/ e = new
    BY <1>1
  <1>7. \E e \in events' : e.id = clock + 1 /\ e.msg = m
    BY <1>2, <1>6
  <1>8. \A e \in events' : e \in events \/ (e.id = clock + 1 /\ e.msg = m)
    BY <1>2, <1>6
  <1>9. \A e \in events : e \in events' /\ e.id <= clock /\ e.id \in Nat
    BY <1>1, <1>3
  <1> QED BY <1>1, <1>4, <1>5, <1>7, <1>8, <1>9

LEMMA ChangeStep ==
  ASSUME SyncInv, NEW m \in Msgs, NEW kind \in Kinds, MailboxChanges(m, kind)
  PROVE  SyncInv'
  <1>1. SyncTypeOK /\ HistoryInv /\ LocalInv /\ RowInv /\ Distinct
    BY DEF SyncInv
  <1>2. SyncTypeOK'
    BY <1>1, MailboxTypes DEF Mailbox
  <1>3. /\ clock \in Nat /\ clock' = clock + 1
        /\ \A x \in Msgs : (Exists(x) => Exists(x)') /\ (Deleted(x) => Deleted(x)')
        /\ \A e \in events : e \in events' /\ e.id <= clock /\ e.id \in Nat
        /\ \A e \in events' : e \in events \/ (e.id = clock + 1 /\ e.msg = m)
        /\ \E e \in events' : e.id = clock + 1 /\ e.msg = m
        /\ \A e \in events : /\ Applies(e) => Applies(e)'
                             /\ LookTells(e) => LookTells(e)'
        /\ UNCHANGED <<requested, mark, filed, row, baselines, local, look, stage, mine,
                       cursor, todo, dels, scan, held>>
    BY <1>1, ChangeFacts
  <1>4. \A p \in 0..clock : \A e \in events' : e.id <= p => e \in events
    BY <1>3
  <1>5. \A p \in 0..clock : AppliedUpTo(p) => AppliedUpTo(p)'
    BY <1>3, <1>4 DEF AppliedUpTo, Done
  <1>6. \A e \in events' : e \notin events => e.id > clock
    BY <1>3
  <1>7. HistoryInv'
    <2>1. \A e \in events' : e.id <= clock'
      BY <1>3
    <2>2. ASSUME NEW x \in Msgs, Exists(x)'
          PROVE  \E e \in events' : e.msg = x /\ \A f \in events' : f.msg = x => f.id <= e.id
      <3>1. CASE x = m
        BY <1>3, <3>1
      <3>2. CASE x # m
        <4>1. Exists(x)
          BY <1>3, <2>2, <3>2 DEF Exists
        <4> QED BY <1>1, <1>3, <3>2, <4>1 DEF HistoryInv
      <3> QED BY <3>1, <3>2
    <2> QED BY <2>1, <2>2 DEF HistoryInv
  <1>8. LocalInv'
    BY <1>1, <1>3 DEF LocalInv, LookInv
  <1>9. row.page \in Pages /\ row.page.start \in 0..clock /\ row.cursor \in 0..clock
    BY <1>1 DEF SyncTypeOK, SyncRow, Pages, RowInv
  <1>10. RowInv'
    <2>1. AppliedUpTo(row.cursor)'
      BY <1>1, <1>3, <1>4, <1>9 DEF RowInv, AppliedUpTo, Done
    <2>2. (Active(row.page.base) => Kept(row.page, {}))'
      <3>1. Active(row.page.base) => Kept(row.page, {})
        BY <1>1 DEF RowInv
      <3>2. \A e \in events' : e.id <= row.page.start => e \in events
        BY <1>4, <1>9
      <3> QED BY <1>3, <3>1, <3>2 DEF Kept, Active, Done
    <2>3. (Requested /\ row.cursor # NoCursor => Renewed)'
      BY <1>1, <1>3 DEF RowInv, Requested, Renewed
    <2> QED BY <1>1, <1>3, <1>9, <2>1, <2>2, <2>3 DEF RowInv, Requested
  <1>11. Distinct'
    BY <1>1, <1>3 DEF Distinct
  <1>12. ASSUME NEW q \in Runs PROVE RunInv(q)'
    <2>1. /\ scan[q] \in Pages /\ scan[q].start \in 0..clock /\ cursor[q] \in 0..clock
          /\ dels[q] \subseteq Msgs /\ todo[q] \subseteq Msgs /\ RunBounds(q)
      BY <1>1 DEF SyncTypeOK, SyncInv, RunInv, RunBounds, Pages
    <2>2. Hand(q)' = Hand(q) /\ (Fenced(q)' <=> Fenced(q)) /\ (Requested' <=> Requested)
      BY <1>3 DEF Hand, Fenced, Requested
    <2>3. RunBounds(q)'
      BY <1>3, <2>1, <2>2 DEF RunBounds, Active
    <2>4. ASSUME RunWork(q) PROVE RunWork(q)'
      <3>1. (\A h \in Hand(q) : InTime(h, q))'
        BY <1>3, <1>6, <1>9, <2>1, <2>2, <2>4 DEF RunWork, InTime
      <3>2. (stage[q] \in {"history", "threads"} =>
               row.cursor # NoCursor /\ FeedKept(cursor[q], dels[q], todo[q], Hand(q)))'
        <4>1. \A e \in events' : e.id <= cursor[q] => e \in events
          BY <1>4, <2>1
        <4> QED BY <1>3, <2>2, <2>4, <4>1 DEF RunWork, FeedKept, Done
      <3>3. \A e \in events' : e.id <= scan[q].start => e \in events
        BY <1>4, <2>1
      <3>4. (stage[q] = "baseline" /\ Active(scan[q].base) => Kept(scan[q], {}))'
        BY <1>3, <2>4, <3>3 DEF RunWork, Active, Kept, Done
      <3>5. (stage[q] = "scan" => Kept(scan[q], Hand(q)))'
        BY <1>3, <2>2, <2>4, <3>3 DEF RunWork, Kept, Done
      <3>6. (stage[q] = "scanned" => AppliedUpTo(scan[q].start))'
        BY <1>3, <2>4, <3>3 DEF RunWork, AppliedUpTo, Done
      <3>7. (stage[q] = "commit" => AppliedUpTo(cursor[q]))'
        BY <1>3, <1>4, <2>1, <2>4 DEF RunWork, AppliedUpTo, Done
      <3>8. /\ (Requested /\ stage[q] = "baseline" /\ scan[q].base # 0 => scan[q].base > mark)'
            /\ (Requested /\ stage[q] \in {"scan", "scanned"} => scan[q].base > mark)'
            /\ (Requested /\ stage[q] \in {"scanned", "commit"} => Renewed)'
        BY <1>3, <2>2, <2>4 DEF RunWork, Renewed
      <3> QED BY <3>1, <3>2, <3>4, <3>5, <3>6, <3>7, <3>8 DEF RunWork
    <2> QED BY <2>2, <2>3, <2>4 DEF RunInv, SyncInv
  <1> QED BY <1>2, <1>7, <1>8, <1>10, <1>11, <1>12 DEF SyncInv

LEMMA RequestStep ==
  ASSUME SyncInv, RequestReindex
  PROVE  SyncInv'
  <1>1. SyncTypeOK /\ HistoryInv /\ LocalInv /\ RowInv /\ Distinct
    BY DEF SyncInv
  <1>2. SyncTypeOK'
    BY <1>1, MailboxTypes
  <1>3. /\ UNCHANGED <<clock, events, filed, row, baselines, local, look, stage, mine,
                       cursor, todo, dels, scan, held>>
        /\ requested' = requested + 1 /\ mark' = Len(baselines)
    BY DEF RequestReindex, stored, memory
  <1>4. requested \in Nat /\ row.started \in Nat /\ row.started <= requested
        /\ Len(baselines) \in Nat
    BY <1>1, LenProperties DEF SyncTypeOK, SyncRow, RowInv
  <1>5. ~Requested'
    BY <1>3, <1>4 DEF Requested
  <1>6. HistoryInv' /\ LocalInv' /\ Distinct'
    BY <1>1, <1>3 DEF HistoryInv, LocalInv, LookInv, Distinct, Exists
  <1>7. RowInv'
    BY <1>1, <1>3, <1>4, <1>5 DEF RowInv, Active, Kept, AppliedUpTo, Done, LookTells, Applies, InRow, Deleted
  <1>8. ASSUME NEW q \in Runs PROVE RunInv(q)'
    <2>1. Hand(q)' = Hand(q) /\ (Fenced(q)' <=> Fenced(q))
      BY <1>3 DEF Hand, Fenced
    <2>2. RunBounds(q)'
      BY <1>3, <2>1 DEF SyncInv, RunInv, RunBounds, Active, Deleted, Exists
    <2>3. ASSUME RunWork(q) PROVE RunWork(q)'
      <3>1. \A e \in events : Done(e)' = Done(e) /\ LookTells(e)' = LookTells(e)
                               /\ Applies(e)' = Applies(e)
        BY <1>3 DEF Done, LookTells, Applies, InRow, Deleted
      <3>2. \A h \in Hand(q) : InTime(h, q)'
        BY <1>3, <2>1, <2>3 DEF RunWork, InTime
      <3>3. stage[q] \in {"history", "threads"} => FeedKept(cursor[q], dels[q], todo[q], Hand(q))'
        BY <1>3, <2>1, <2>3, <3>1 DEF RunWork, FeedKept
      <3>4. /\ stage[q] = "baseline" /\ Active(scan[q].base) => Kept(scan[q], {})'
            /\ stage[q] = "scan" => Kept(scan[q], Hand(q))'
        BY <1>3, <2>1, <2>3, <3>1 DEF RunWork, Kept, Deleted
      <3>5. /\ stage[q] = "scanned" => AppliedUpTo(scan[q].start)'
            /\ stage[q] = "commit" => AppliedUpTo(cursor[q])'
        BY <1>3, <2>3, <3>1 DEF RunWork, AppliedUpTo
      <3> QED BY <1>3, <1>5, <2>1, <2>3, <3>2, <3>3, <3>4, <3>5 DEF RunWork, Active
    <2> QED BY <2>1, <2>2, <2>3 DEF SyncInv, RunInv
  <1> QED BY <1>2, <1>6, <1>7, <1>8 DEF SyncInv

\* The row has lost its lease, or never had it: what it says of the position stays.
LEMMA RowUnleased ==
  ASSUME LocalInv, RowInv, HistoryInv, UNCHANGED <<provider, baselines, local, look>>,
         row'.cursor = row.cursor, row'.page = row.page, row'.generation = row.generation,
         row'.started = row.started, row'.live => row.live
  PROVE  LocalInv' /\ RowInv' /\ HistoryInv'
  <1>1. LocalInv' /\ HistoryInv'
    BY DEF LocalInv, LookInv, HistoryInv, provider, Exists
  <1>2. RowInv'
    BY DEF RowInv, provider, Active, Kept, AppliedUpTo, Done, LookTells, Applies, InRow, Deleted, Renewed, Requested
  <1> QED BY <1>1, <1>2

LEMMA ExpiryStep ==
  ASSUME SyncInv, LeaseExpires
  PROVE  SyncInv'
  <1>1. SyncTypeOK /\ HistoryInv /\ LocalInv /\ RowInv /\ Distinct
    BY DEF SyncInv
  <1>2. SyncTypeOK'
    BY <1>1, MailboxTypes
  <1>3. row \in SyncRow(Pages) /\ row' = Expired(row)
    BY <1>1 DEF SyncTypeOK, LeaseExpires
  <1>4. /\ row'.cursor = row.cursor /\ row'.page = row.page /\ row'.generation = row.generation
        /\ row'.started = row.started /\ row'.live = FALSE
    BY <1>3, ExpiredRow
  <1>5. UNCHANGED <<provider, baselines, local, look, stage, memory>>
    BY DEF LeaseExpires
  <1>6. LocalInv' /\ RowInv' /\ HistoryInv'
    BY <1>1, <1>4, <1>5, RowUnleased
  <1>7. Distinct'
    BY <1>1, <1>5 DEF Distinct, memory
  <1>8. ASSUME NEW q \in Runs PROVE RunInv(q)'
    <2>1. RunBounds(q) /\ RunSame(q) /\ UNCHANGED <<clock, events, baselines>>
      BY <1>5 DEF SyncInv, RunInv, RunSame, memory, provider
    <2>2. ~Fenced(q)'
      BY <1>4 DEF Fenced, Held
    <2>3. row.generation <= row'.generation /\ Len(baselines) <= Len(baselines')
      BY <1>1, <1>4, <2>1, LenProperties DEF SyncTypeOK, SyncRow
    <2>4. \A b \in 1..Len(baselines) : Active(b)' => Active(b)
      BY <2>1 DEF Active
    <2> QED BY <1>1, <1>2, <2>1, <2>2, <2>3, <2>4, RunUnfenced
  <1> QED BY <1>2, <1>6, <1>7, <1>8 DEF SyncInv

-----------------------------------------------------------------------------
(* The beginning and the end of a run.                                     *)

LEMMA AcquireStep ==
  ASSUME SyncInv, NEW r \in Runs, Acquire(r)
  PROVE  SyncInv'
  <1>1. /\ SyncTypeOK /\ HistoryInv /\ LocalInv /\ RowInv /\ Distinct
        /\ \A q \in Runs : RunBounds(q)
    BY DEF SyncInv, RunInv
  <1>2. SyncTypeOK'
    BY <1>1, RunTypes
  <1>3. /\ UNCHANGED <<provider, baselines, local, look, cursor, todo, dels, scan, held>>
        /\ stage' = [stage EXCEPT ![r] = "leased"]
        /\ mine' = [mine EXCEPT ![r] = row'.generation]
        /\ stage[r] = "idle"
        /\ row' = Acquired(row, NoPage, requested)
    BY DEF Acquire, Goto
  <1>4. /\ row'.generation = row.generation + 1 /\ row'.live
        /\ requested > row.started =>
             row'.cursor = NoCursor /\ row'.page = NoPage /\ row'.started = requested
        /\ ~(requested > row.started) =>
             row'.cursor = row.cursor /\ row'.page = row.page /\ row'.started = row.started
    BY <1>3, AcquiredRow
  <1>5. /\ row.generation \in Nat /\ row.started \in Nat /\ requested \in Nat /\ clock \in Nat
        /\ Len(baselines) \in Nat /\ mine \in [Runs -> Nat] /\ stage \in [Runs -> Stages]
        /\ \A e \in events : e.id >= 1 /\ e.id \in Nat
    BY <1>1, LenProperties DEF SyncTypeOK, SyncRow
  <1>6. HistoryInv' /\ LocalInv'
    BY <1>1, <1>3 DEF HistoryInv, LocalInv, LookInv, Exists, provider
  <1>7. RowInv'
    <2>1. CASE requested > row.started
      <3>1. AppliedUpTo(row.cursor)'
        BY <1>3, <1>4, <1>5, <2>1 DEF AppliedUpTo, NoCursor, provider
      <3>2. row'.page.base = 0 /\ row'.page.start = 0
        BY <1>4, <2>1 DEF NoPage, NoCursor
      <3>3. ~Active(row.page.base)'
        BY <1>3, <1>5, <3>2, LenProperties, <1>2 DEF Active, SyncTypeOK
      <3> QED BY <1>1, <1>3, <1>4, <1>5, <2>1, <3>1, <3>2, <3>3 DEF RowInv, provider
    <2>2. CASE ~(requested > row.started)
      <3>1. (Requested' <=> Requested) /\ row.started = requested
        BY <1>1, <1>3, <1>4, <1>5, <2>2 DEF Requested, RowInv, provider
      <3>2. AppliedUpTo(row.cursor)'
        BY <1>1, <1>3, <1>4, <2>2 DEF RowInv, AppliedUpTo, Done, LookTells, Applies, InRow, Deleted, provider
      <3>3. (Active(row.page.base) => Kept(row.page, {}))'
        BY <1>1, <1>3, <1>4, <2>2 DEF RowInv, Active, Kept, Done, LookTells, Applies, InRow, Deleted, provider
      <3> QED BY <1>1, <1>3, <1>4, <1>5, <2>2, <3>1, <3>2, <3>3 DEF RowInv, provider, Renewed
    <2> QED BY <2>1, <2>2
  <1>8. Distinct'
    BY <1>1, <1>3, <1>4, <1>5 DEF Distinct, RunBounds
  <1>9. ASSUME NEW q \in Runs, q # r PROVE RunInv(q)'
    <2>1. /\ RunBounds(q) /\ RunSame(q) /\ UNCHANGED <<clock, events, baselines>>
          /\ mine[q] <= row.generation /\ mine'[q] = mine[q]
      BY <1>1, <1>3, <1>9 DEF RunSame, provider, RunBounds
    <2>2. ~Fenced(q)'
      BY <1>4, <1>5, <2>1 DEF Fenced, Held
    <2>3. row.generation <= row'.generation /\ Len(baselines) <= Len(baselines')
      BY <1>4, <1>5, <2>1
    <2>4. \A b \in 1..Len(baselines) : Active(b)' => Active(b)
      BY <2>1 DEF Active
    <2> QED BY <1>1, <1>2, <2>1, <2>2, <2>3, <2>4, RunUnfenced
  <1>10. RunInv(r)'
    <2>1. stage'[r] = "leased" /\ mine'[r] = row'.generation /\ row'.generation # 0
          /\ row'.generation \in Nat
      BY <1>3, <1>4, <1>5
    <2>2. held[r] = Nothing /\ Hand(r)' = {}
      BY <1>1, <1>3 DEF RunBounds, Hand
    <2>3. RunBounds(r)'
      BY <1>1, <1>3, <2>1, <2>2 DEF RunBounds, provider, Deleted, Exists
    <2>4. RunWork(r)'
      BY <2>1, <2>2 DEF RunWork
    <2> QED BY <2>3, <2>4 DEF RunInv
  <1> QED BY <1>2, <1>6, <1>7, <1>8, <1>9, <1>10 DEF SyncInv

LEMMA OverStep ==
  ASSUME SyncInv, NEW r \in Runs, GiveUp(r) \/ Crash(r)
  PROVE  SyncInv'
  <1>1. /\ SyncTypeOK /\ HistoryInv /\ LocalInv /\ RowInv /\ Distinct
        /\ \A q \in Runs : RunInv(q)
    BY DEF SyncInv
  <1>2. SyncTypeOK'
    BY <1>1, RunTypes DEF RunInv
  <1>3. /\ UNCHANGED <<provider, baselines, local, look>>
        /\ row'.cursor = row.cursor /\ row'.page = row.page /\ row'.generation = row.generation
        /\ row'.started = row.started
        /\ row'.live => row.live
        /\ row' # row => row.generation = mine[r]
    <2>1. CASE GiveUp(r)
      <3>1. row \in SyncRow(Pages) /\ row' = GivenUp(row, mine[r])
        BY <1>1, <2>1 DEF SyncTypeOK, GiveUp
      <3>2. row' # row => row.generation = mine[r]
        BY <3>1 DEF GivenUp
      <3>3. /\ row'.cursor = row.cursor /\ row'.page = row.page
            /\ row'.generation = row.generation /\ row'.started = row.started
            /\ row'.live => row.live
        BY <3>1, GivenUpRow
      <3> QED BY <2>1, <3>2, <3>3 DEF GiveUp
    <2>2. CASE Crash(r)
      BY <2>2 DEF Crash, stored
    <2> QED BY <2>1, <2>2
  <1>4. LocalInv' /\ RowInv' /\ HistoryInv'
    BY <1>1, <1>3, RowUnleased
  <1>5. Over(r)
    BY DEF GiveUp, Crash
  <1>6. /\ stage'[r] = "idle" /\ mine'[r] = 0 /\ cursor'[r] = NoCursor /\ todo'[r] = {}
        /\ dels'[r] = {} /\ scan'[r] = NoPage /\ held'[r] = Nothing
        /\ \A q \in Runs \ {r} : RunSame(q)
    BY <1>1, <1>5 DEF Over, Goto, SyncTypeOK, RunSame
  <1>7. Distinct'
    BY <1>1, <1>6 DEF Distinct, RunSame
  <1>8. ASSUME NEW q \in Runs, q # r PROVE RunInv(q)'
    <2>1. RunInv(q) /\ RunSame(q)
      BY <1>1, <1>6, <1>8
    <2>2. CASE row' = row
      BY <1>3, <2>1, <2>2, RunUntouched DEF stored
    <2>3. CASE row' # row
      <3>1. /\ mine[q] # row.generation \/ ~row.live
            /\ row.generation \in Nat /\ Len(baselines) \in Nat
        BY <1>1, <1>3, <1>8, <2>3, LenProperties
           DEF Distinct, RowInv, SyncTypeOK, SyncRow
      <3>2. ~Fenced(q)'
        BY <1>3, <2>1, <3>1 DEF Fenced, Held, RunSame
      <3>3. /\ row.generation <= row'.generation /\ Len(baselines) <= Len(baselines')
            /\ UNCHANGED <<clock, events>>
        BY <1>3, <3>1 DEF provider
      <3>4. \A b \in 1..Len(baselines) : Active(b)' => Active(b)
        BY <1>3 DEF Active
      <3> QED BY <1>1, <1>2, <2>1, <3>2, <3>3, <3>4, RunUnfenced DEF RunInv
    <2> QED BY <2>2, <2>3
  <1>9. RunInv(r)'
    <2>1. ~Fenced(r)'
      BY <1>4, <1>6 DEF Fenced, Held, RowInv
    <2>2. Hand(r)' = {}
      BY <1>6 DEF Hand
    <2>3. /\ row'.generation \in Nat /\ Len(baselines') \in Nat /\ clock' \in Nat
          /\ scan'[r].start = 0 /\ scan'[r].base = 0
      BY <1>2, <1>6, LenProperties DEF SyncTypeOK, SyncRow, NoPage, NoCursor
    <2>4. RunBounds(r)'
      BY <1>6, <2>2, <2>3 DEF RunBounds
    <2> QED BY <2>1, <2>4 DEF RunInv
  <1> QED BY <1>2, <1>4, <1>7, <1>8, <1>9 DEF SyncInv

-----------------------------------------------------------------------------
(* Reading: what the run takes in hand.                                    *)

LEMMA ReadStateStep ==
  ASSUME SyncInv, NEW r \in Runs, ReadState(r)
  PROVE  RunInv(r)'
  <1>1. SyncTypeOK /\ HistoryInv /\ RowInv /\ RunBounds(r)
    BY DEF SyncInv, RunInv
  <1>2. /\ stage[r] = "leased" /\ UNCHANGED <<provider, stored, mine, todo, dels, held>>
        /\ cursor'[r] = row.cursor /\ scan'[r] = row.page
        /\ row.cursor = NoCursor => stage'[r] = "baseline"
        /\ row.cursor # NoCursor => stage'[r] = "history"
    BY <1>1 DEF ReadState, SyncTypeOK, Goto
  <1>3. Hand(r)' = {} /\ held[r] = Nothing
    BY <1>1, <1>2 DEF Hand, RunBounds
  <1>4. (Requested' <=> Requested) /\ (Fenced(r)' <=> Fenced(r))
    BY <1>2 DEF Requested, Fenced, Held, provider, stored
  <1>5. RunBounds(r)'
    BY <1>1, <1>2, <1>3 DEF RunBounds, RowInv, provider, stored, Deleted, Exists
  <1>6. RunWork(r)'
    <2>1. (stage[r] \in {"history", "threads"} =>
             row.cursor # NoCursor /\ FeedKept(cursor[r], dels[r], todo[r], Hand(r)))'
      BY <1>1, <1>2 DEF RowInv, AppliedUpTo, FeedKept, Done, LookTells, Applies, InRow, provider, stored, Deleted
    <2>2. (stage[r] = "baseline" /\ Active(scan[r].base) => Kept(scan[r], {}))'
      BY <1>1, <1>2 DEF RowInv, Kept, Done, LookTells, Applies, InRow, provider, stored, Deleted, Active
    <2>3. (Requested /\ stage[r] = "baseline" /\ scan[r].base # 0 => scan[r].base > mark)'
      BY <1>1, <1>2, <1>4 DEF RowInv, provider
    <2> QED BY <1>2, <1>3, <2>1, <2>2, <2>3 DEF RunWork
  <1> QED BY <1>5, <1>6 DEF RunInv

LEMMA PageStep ==
  ASSUME SyncInv, NEW r \in Runs, NEW to \in 0..clock, cursor[r] <= to,
         NEW where \in {"history", "threads"}, Page(r, to, where)
  PROVE  RunInv(r)'
  <1>1. SyncTypeOK /\ HistoryInv /\ RunBounds(r) /\ (Fenced(r) => RunWork(r))
    BY DEF SyncInv, RunInv
  <1>2. /\ stage[r] = "history" /\ stage'[r] = where
        /\ UNCHANGED <<provider, stored, mine, scan, held>>
        /\ cursor'[r] = to
        /\ todo'[r] = todo[r] \cup {e.msg : e \in Between(cursor[r], to)}
        /\ dels'[r] = dels[r] \cup
                        {e.msg : e \in {d \in Between(cursor[r], to) : d.kind = "delete"}}
    BY <1>1 DEF Page, SyncTypeOK, Goto
  <1>3. Hand(r)' = {} /\ held[r] = Nothing /\ Hand(r) = {}
    BY <1>1, <1>2 DEF Hand, RunBounds
  <1>4. Fenced(r)' <=> Fenced(r)
    BY <1>2 DEF Fenced, Held, stored
  <1>5. RunBounds(r)'
    <2>1. \A m \in dels'[r] : Deleted(m)
      BY <1>1, <1>2 DEF RunBounds, Deleted, Between
    <2>2. \A m \in todo'[r] : Exists(m)
      BY <1>1, <1>2 DEF RunBounds, Exists, Between
    <2>3. events' = events
      BY <1>2 DEF provider
    <2>4. (\A m \in dels[r] : Deleted(m))' /\ (\A m \in todo[r] : Exists(m))'
      BY <2>1, <2>2, <2>3 DEF Deleted, Exists
    <2> QED BY <1>1, <1>2, <1>3, <2>4 DEF RunBounds, provider, stored
  <1>6. ASSUME Fenced(r) PROVE RunWork(r)'
    <2>1. row.cursor # NoCursor /\ FeedKept(cursor[r], dels[r], todo[r], {})
      BY <1>1, <1>2, <1>3, <1>6 DEF RunWork
    <2>2. \A e \in events : e.id <= to => e.id <= cursor[r] \/ e \in Between(cursor[r], to)
      BY <1>1 DEF Between, SyncTypeOK
    <2>3. \A e \in events : e.id <= to /\ e.kind = "delete" =>
            Done(e) \/ e.msg \in dels'[r]
      BY <1>2, <2>1, <2>2 DEF FeedKept
    <2>4. \A e \in events : e.id <= to /\ e.kind # "delete" => Done(e) \/ e.msg \in todo'[r]
      BY <1>2, <2>1, <2>2 DEF FeedKept
    <2>5. FeedKept(cursor[r], dels[r], todo[r], Hand(r))'
      BY <1>2, <2>3, <2>4 DEF FeedKept, Done, LookTells, Applies, InRow, Deleted, provider, stored
    <2> QED BY <1>2, <1>3, <2>1, <2>5 DEF RunWork, stored
  <1> QED BY <1>4, <1>5, <1>6 DEF RunInv

LEMMA CursorExpiresStep ==
  ASSUME SyncInv, NEW r \in Runs, CursorExpires(r)
  PROVE  RunInv(r)'
  <1>1. SyncTypeOK /\ RunBounds(r) /\ Len(baselines) \in Nat /\ DOMAIN baselines = 1..Len(baselines)
    BY LenProperties DEF SyncInv, RunInv, SyncTypeOK
  <1>2. /\ stage[r] = "history" /\ stage'[r] = "baseline"
        /\ UNCHANGED <<provider, stored, mine, held>>
        /\ todo'[r] = {} /\ dels'[r] = {} /\ scan'[r] = NoPage
    BY <1>1 DEF CursorExpires, SyncTypeOK, Goto
  <1>3. Hand(r)' = {} /\ held[r] = Nothing
    BY <1>1, <1>2 DEF Hand, RunBounds
  <1>4. scan'[r].base = 0 /\ scan'[r].start = 0 /\ ~Active(scan[r].base)' /\ clock \in Nat
    BY <1>1, <1>2 DEF NoPage, NoCursor, Active, stored, SyncTypeOK
  <1>5. RunBounds(r)'
    BY <1>1, <1>2, <1>3, <1>4 DEF RunBounds, provider, stored
  <1>6. RunWork(r)'
    BY <1>2, <1>3, <1>4 DEF RunWork
  <1> QED BY <1>5, <1>6 DEF RunInv

\* An answer of the provider is newer than the row, and of a message that is still there.
LEMMA AnswerInTime ==
  ASSUME SyncTypeOK, HistoryInv, LocalInv, NEW m \in Msgs, Exists(m), ~Deleted(m), NEW r \in Runs
  PROVE  /\ InTime(Answer(m), r)
         /\ \E e \in events : e.msg = m /\ e.id = Answer(m)[2]
         /\ \A e \in events : e.msg = m => e.id <= Answer(m)[2]
  <1>1. /\ Answer(m)[1] = m /\ Answer(m)[2] = LastChange(m)
        /\ LastChange(m) \in Nat
        /\ \E e \in events : e.msg = m /\ e.id = LastChange(m)
        /\ \A e \in events : e.msg = m => e.id <= LastChange(m)
    BY AnswerType, LastChangeIsLast
  <1>2. local[m].at \in Nat
    BY DEF SyncTypeOK
  <1>3. local[m].at <= LastChange(m)
    BY <1>1, <1>2 DEF LocalInv
  <1>4. LastChange(m) >= local[m].at
    BY <1>1, <1>2, <1>3
  <1>5. \A e \in events : e.msg = m => e.kind # "delete" /\ ~(e.id > LastChange(m))
    BY <1>1, EventTypes DEF Deleted
  <1> QED BY <1>1, <1>4, <1>5 DEF InTime

LEMMA FetchThreadStep ==
  ASSUME SyncInv, NEW r \in Runs, NEW m \in Msgs, FetchThread(r, m)
  PROVE  RunInv(r)'
  <1>1. /\ SyncTypeOK /\ HistoryInv /\ LocalInv /\ RunBounds(r) /\ (Fenced(r) => RunWork(r))
        /\ Exists(m)
    BY DEF SyncInv, RunInv, FetchThread, RunBounds
  <1>2. /\ stage[r] = "threads" /\ held[r] = Nothing
        /\ UNCHANGED <<provider, stored, stage, mine, cursor, dels, scan>>
        /\ todo'[r] = todo[r] \ {m}
        /\ Deleted(m) => held'[r] = Nothing
        /\ ~Deleted(m) => held'[r] = Answer(m)
    BY <1>1 DEF FetchThread, SyncTypeOK
  <1>3. /\ Hand(r) = {}
        /\ Deleted(m) => Hand(r)' = {}
        /\ ~Deleted(m) => Hand(r)' = {Answer(m)}
        /\ Answer(m)[1] = m
    BY <1>1, <1>2, AnswerType DEF Hand
  <1>4. (Fenced(r)' <=> Fenced(r)) /\ (Requested' <=> Requested)
    BY <1>2 DEF Fenced, Held, stored, provider, Requested
  <1>5. RunBounds(r)'
    <2>1. (\A h \in Hand(r) : \E e \in events : e.msg = h[1] /\ e.id = h[2])'
      BY <1>1, <1>2, <1>3, AnswerInTime DEF provider
    <2> QED BY <1>1, <1>2, <2>1 DEF RunBounds, provider, stored, Deleted, Exists
  <1>6. ASSUME Fenced(r) PROVE RunWork(r)'
    <2>1. row.cursor # NoCursor /\ FeedKept(cursor[r], dels[r], todo[r], {})
      BY <1>1, <1>2, <1>3, <1>6 DEF RunWork
    <2>2. (\A h \in Hand(r) : InTime(h, r))'
      <3>1. ~Deleted(m) => InTime(Answer(m), r)
        BY <1>1, AnswerInTime
      <3> QED BY <1>2, <1>3, <3>1 DEF InTime, provider, stored
    <2>3. ASSUME NEW e \in events, e.id <= cursor[r], e.kind # "delete"
          PROVE  \/ Done(e) \/ e.msg \in todo'[r]
                 \/ \E h \in Hand(r)' : h[1] = e.msg /\ h[2] >= e.id
      <3>1. Done(e) \/ e.msg \in todo[r]
        BY <2>1, <2>3 DEF FeedKept
      <3>2. CASE e.msg = m /\ Deleted(m)
        BY <2>3, <3>2 DEF Done, LookTells, Applies, InRow
      <3>3. CASE e.msg = m /\ ~Deleted(m)
        <4>1. /\ \A f \in events : f.msg = m => f.id <= Answer(m)[2]
              /\ Answer(m)[2] \in Nat /\ e.id \in Nat
          BY <1>1, <3>3, AnswerInTime, AnswerType, EventTypes
        <4> QED BY <1>3, <3>3, <4>1
      <3> QED BY <1>2, <3>1, <3>2, <3>3
    <2>4. FeedKept(cursor[r], dels[r], todo[r], Hand(r))'
      BY <1>2, <2>1, <2>3 DEF FeedKept, Done, LookTells, Applies, InRow, Deleted, provider, stored
    <2> QED BY <1>2, <2>1, <2>2, <2>4 DEF RunWork, stored
  <1> QED BY <1>4, <1>5, <1>6 DEF RunInv

LEMMA ScanThreadStep ==
  ASSUME SyncInv, NEW r \in Runs, NEW m \in Msgs, ScanThread(r, m)
  PROVE  RunInv(r)'
  <1>1. /\ SyncTypeOK /\ HistoryInv /\ LocalInv /\ RunBounds(r) /\ (Fenced(r) => RunWork(r))
        /\ Exists(m) /\ scan[r] \in Pages
    BY DEF SyncInv, RunInv, ScanThread, SyncTypeOK
  <1>2. /\ stage[r] = "scan" /\ held[r] = Nothing
        /\ UNCHANGED <<provider, stored, stage, mine, cursor, dels, todo>>
        /\ scan'[r].base = scan[r].base /\ scan'[r].start = scan[r].start
        /\ scan'[r].left = scan[r].left \ {m}
        /\ Deleted(m) => held'[r] = Nothing
        /\ ~Deleted(m) => held'[r] = Answer(m)
    BY <1>1 DEF ScanThread, SyncTypeOK, Pages
  <1>3. /\ Hand(r) = {}
        /\ Deleted(m) => Hand(r)' = {}
        /\ ~Deleted(m) => Hand(r)' = {Answer(m)}
        /\ Answer(m)[1] = m
    BY <1>1, <1>2, AnswerType DEF Hand
  <1>4. (Fenced(r)' <=> Fenced(r)) /\ (Requested' <=> Requested)
    BY <1>2 DEF Fenced, Held, stored, provider, Requested
  <1>5. RunBounds(r)'
    <2>1. (\A h \in Hand(r) : \E e \in events : e.msg = h[1] /\ e.id = h[2])'
      BY <1>1, <1>2, <1>3, AnswerInTime DEF provider
    <2> QED BY <1>1, <1>2, <2>1 DEF RunBounds, provider, stored, Deleted, Exists
  <1>6. ASSUME Fenced(r) PROVE RunWork(r)'
    <2>1. Kept(scan[r], {}) /\ (Requested => scan[r].base > mark)
      BY <1>1, <1>2, <1>3, <1>6 DEF RunWork
    <2>2. (\A h \in Hand(r) : InTime(h, r))'
      <3>1. ~Deleted(m) => InTime(Answer(m), r)
        BY <1>1, AnswerInTime
      <3> QED BY <1>2, <1>3, <3>1 DEF InTime, provider, stored
    <2>3. ASSUME NEW e \in events, e.id <= scan[r].start, e.kind # "delete"
          PROVE  \/ Done(e) \/ e.msg \in scan'[r].left
                 \/ \E h \in Hand(r)' : h[1] = e.msg /\ h[2] >= e.id
      <3>1. Done(e) \/ e.msg \in scan[r].left
        BY <2>1, <2>3 DEF Kept
      <3>2. CASE e.msg = m /\ Deleted(m)
        BY <2>3, <3>2 DEF Done, LookTells, Applies, InRow
      <3>3. CASE e.msg = m /\ ~Deleted(m)
        <4>1. /\ \A f \in events : f.msg = m => f.id <= Answer(m)[2]
              /\ Answer(m)[2] \in Nat /\ e.id \in Nat
          BY <1>1, <3>3, AnswerInTime, AnswerType, EventTypes
        <4> QED BY <1>3, <3>3, <4>1
      <3> QED BY <1>2, <3>1, <3>2, <3>3
    <2>4. ASSUME NEW x \in Msgs, local[x].at # 0, local[x].epoch < scan[r].base
          PROVE  \/ Deleted(x) \/ x \in scan'[r].left \/ x \in baselines[scan[r].base].seen
                 \/ \E h \in Hand(r)' : h[1] = x
      BY <1>2, <1>3, <2>1, <2>4 DEF Kept
    <2>5. Kept(scan[r], Hand(r))'
      BY <1>2, <2>1, <2>3, <2>4 DEF Kept, Done, LookTells, Applies, InRow, Deleted, provider, stored
    <2> QED BY <1>2, <1>4, <2>1, <2>2, <2>5 DEF RunWork, provider
  <1> QED BY <1>4, <1>5, <1>6 DEF RunInv

LEMMA BaselineReadStep ==
  ASSUME SyncInv, NEW r \in Runs, ResumeBaseline(r) \/ ReadProfile(r)
  PROVE  RunInv(r)'
  <1>1. /\ SyncTypeOK /\ RunBounds(r) /\ (Fenced(r) => RunWork(r))
        /\ Len(baselines) \in Nat /\ DOMAIN baselines = 1..Len(baselines) /\ clock \in Nat
    BY LenProperties, SMTT(30) DEF SyncInv, RunInv, SyncTypeOK
  <1>2. CASE ResumeBaseline(r)
    <2>1. /\ stage[r] = "baseline" /\ stage'[r] = "scan" /\ Active(scan[r].base)
          /\ UNCHANGED <<provider, stored, mine, cursor, todo, dels, scan, held>>
      BY <1>1, <1>2 DEF ResumeBaseline, SyncTypeOK, Goto, memory
    <2>2. Hand(r)' = {} /\ held[r] = Nothing /\ scan[r].base # 0
      BY <1>1, <2>1 DEF Hand, RunBounds, Active
    <2>3. RunBounds(r)'
      BY <1>1, <2>1, <2>2 DEF RunBounds, provider, stored, Deleted, Exists
    <2>4. (Fenced(r)' <=> Fenced(r)) /\ (Requested' <=> Requested)
      BY <2>1 DEF Fenced, Held, stored, provider, Requested
    <2>5. ASSUME Fenced(r) PROVE RunWork(r)'
      <3>1. Kept(scan[r], {}) /\ (Requested => scan[r].base > mark)
        BY <1>1, <2>1, <2>2, <2>5 DEF RunWork
      <3>2. Kept(scan[r], Hand(r))'
        BY <2>1, <2>2, <3>1 DEF Kept, Done, LookTells, Applies, InRow, Deleted, provider, stored
      <3> QED BY <2>1, <2>2, <2>4, <3>1, <3>2 DEF RunWork, provider
    <2> QED BY <2>3, <2>4, <2>5 DEF RunInv
  <1>3. CASE ReadProfile(r)
    <2>1. /\ stage[r] = "baseline" /\ stage'[r] = "open"
          /\ UNCHANGED <<provider, stored, mine, cursor, todo, dels, held>>
          /\ scan'[r].base = 0 /\ scan'[r].start = clock
      BY <1>1, <1>3 DEF ReadProfile, SyncTypeOK, Goto
    <2>2. Hand(r)' = {} /\ held[r] = Nothing
      BY <1>1, <2>1 DEF Hand, RunBounds
    <2>3. RunBounds(r)'
      BY <1>1, <2>1, <2>2 DEF RunBounds, provider, stored, Deleted, Exists
    <2>4. RunWork(r)'
      BY <2>1, <2>2 DEF RunWork
    <2> QED BY <2>3, <2>4 DEF RunInv
  <1> QED BY <1>2, <1>3

LEMMA ReadingStep ==
  ASSUME SyncInv, NEW r \in Runs, Reading(r)
  PROVE  SyncInv'
  <1>1. /\ SyncTypeOK /\ HistoryInv /\ LocalInv /\ RowInv /\ Distinct
        /\ \A q \in Runs : RunInv(q)
    BY DEF SyncInv
  <1>2. UNCHANGED <<provider, stored, mine>>
    BY <1>1, OthersReading
  <1>3. SyncTypeOK'
    BY <1>1, RunTypes, FeedTypes, ListingTypes DEF Reading, RunInv
  <1>4. RunInv(r)'
    <2>1. CASE NextPage(r)
      <3>1. PICK to \in cursor[r]..(clock - 1) : Page(r, to, "history")
        BY <2>1 DEF NextPage
      <3>2. to \in 0..clock /\ cursor[r] <= to
        BY <1>1 DEF SyncTypeOK
      <3> QED BY <3>1, <3>2, PageStep
    <2>2. CASE LastPage(r)
      <3>1. clock \in 0..clock /\ cursor[r] <= clock
        BY <1>1 DEF SyncTypeOK
      <3> QED BY <2>2, <3>1, PageStep DEF LastPage
    <2> QED BY <2>1, <2>2, ReadStateStep, CursorExpiresStep, FetchThreadStep, ScanThreadStep,
               BaselineReadStep DEF Reading
  <1>5. \A q \in Runs : q # r => RunInv(q)'
    BY <1>1, <1>2, OthersReading, RunUntouched
  <1>6. Distinct'
    BY <1>1, <1>2 DEF Distinct
  <1> QED BY <1>1, <1>2, <1>3, <1>4, <1>5, <1>6, StoreUntouched DEF SyncInv

-----------------------------------------------------------------------------
(* Writing: what the run with the lease puts into the store.               *)

\* Whoever else is running has no lease, and goes on without it.
LEMMA OthersWithoutLease ==
  ASSUME SyncInv, NEW r \in Runs, Writing(r), SyncTypeOK',
         row'.generation = row.generation, row'.live = row.live,
         Len(baselines') = Len(baselines),
         \A b \in 1..Len(baselines) : Active(b)' => Active(b)
  PROVE  HistoryInv' /\ Distinct' /\ \A q \in Runs \ {r} : RunInv(q)'
  <1>1. /\ SyncTypeOK /\ HistoryInv /\ RowInv /\ Distinct /\ \A q \in Runs : RunBounds(q)
        /\ (\A q \in Runs \ {r} : RunSame(q)) /\ UNCHANGED <<provider, mine>> /\ Fenced(r)
    BY OthersWriting DEF SyncInv, RunInv
  <1>2. HistoryInv' /\ Distinct'
    BY <1>1 DEF HistoryInv, Distinct, provider, Exists
  <1>3. ASSUME NEW q \in Runs \ {r} PROVE RunInv(q)'
    <2>1. ~Fenced(q)
      BY <1>1, <1>3, OneIsFenced
    <2>2. ~Fenced(q)' /\ RunSame(q) /\ RunBounds(q) /\ UNCHANGED <<clock, events>>
      BY <1>1, <2>1 DEF Fenced, Held, RunSame, provider
    <2>3. row.generation <= row'.generation /\ Len(baselines) <= Len(baselines')
      BY <1>1, LenProperties DEF SyncTypeOK, SyncRow
    <2> QED BY <1>1, <2>2, <2>3, RunUnfenced
  <1> QED BY <1>2, <1>3

\* A thread is applied, or left to the check of a hidden row: what the run's own position and
\* the stored one speak of is in the row then, or the row is hidden.
LEMMA AppliedFacts ==
  ASSUME SyncInv, NEW r \in Runs, Fenced(r), held[r] # Nothing, local' = Applied(held[r]),
         Written({held[r][1]}), UNCHANGED provider, Len(baselines') = Len(baselines)
  PROVE  /\ held[r][1] \in Msgs
         /\ \A e \in events : (\/ e.id <= cursor[r] \/ e.id <= scan[r].start
                               \/ e.id <= row.cursor \/ e.id <= row.page.start)
              => (e.msg # held[r][1] \/ (e.kind # "delete" /\ Done(e)'))
         /\ \E e \in events : e.msg = held[r][1] /\ e.id = held[r][2]
         /\ \/ local[held[r][1]].hidden /\ local'[held[r][1]] = local[held[r][1]]
            \/ /\ local'[held[r][1]].at = held[r][2]
               /\ local'[held[r][1]].epoch = Len(baselines)
         /\ \A x \in Msgs : x # held[r][1] => local'[x] = local[x] /\ look'[x] = look[x]
         /\ look'[held[r][1]] = NoLook
         /\ \A e \in events : e.msg # held[r][1] =>
              (Applies(e) => Applies(e)') /\ (LookTells(e) => LookTells(e)')
  <1> DEFINE m == held[r][1]
  <1>1. /\ SyncTypeOK /\ held[r] \in Msgs \X Nat /\ Hand(r) = {held[r]}
        /\ RunBounds(r) /\ RunWork(r)
    BY DEF SyncInv, SyncTypeOK, Hand, RunInv
  <1>2. /\ InTime(held[r], r)
        /\ \E e \in events : e.msg = held[r][1] /\ e.id = held[r][2]
    BY <1>1 DEF RunWork, RunBounds
  <1>3. /\ m \in Msgs /\ held[r][2] \in Nat
        /\ \A x \in Msgs : x # m => local'[x] = local[x] /\ look'[x] = look[x]
        /\ look'[m] = NoLook
        /\ \/ local[m].hidden /\ local'[m] = local[m]
           \/ /\ local'[m].at = held[r][2] /\ local'[m].epoch = Len(baselines)
              /\ local'[m].by = "run"
    BY <1>1, AppliedRow
  <1>4. \A e \in events : e.msg \in Msgs /\ e.id \in Nat
    BY <1>1, EventTypes
  <1>5. /\ cursor[r] \in Nat /\ scan[r].start \in Nat /\ row.cursor \in Nat
        /\ row.page.start \in Nat
    BY <1>1, SMTT(30) DEF SyncTypeOK, SyncRow, Pages
  <1>6. \A e \in events : e.msg # m =>
              (Applies(e) => Applies(e)') /\ (LookTells(e) => LookTells(e)')
    BY <1>3, <1>4 DEF Applies, InRow, LookTells, Deleted, provider
  <1>7. ASSUME NEW e \in events, e.msg = m,
               \/ e.id <= cursor[r] \/ e.id <= scan[r].start
               \/ e.id <= row.cursor \/ e.id <= row.page.start
        PROVE  e.kind # "delete" /\ Done(e)'
    <2>1. e.kind # "delete" /\ e.id <= held[r][2]
      BY <1>2, <1>3, <1>4, <1>5, <1>7 DEF InTime
    <2>2. Applies(e)'
      BY <1>3, <1>4, <1>7, <2>1 DEF Applies, InRow, provider
    <2>3. LookTells(e)'
      BY <1>3, <1>7 DEF LookTells
    <2> QED BY <2>1, <2>2, <2>3 DEF Done
  <1> QED BY <1>2, <1>3, <1>6, <1>7

\* What is kept in the store, when the baselines have seen at most the message applied.
LEMMA AppliedStore ==
  ASSUME SyncInv, NEW r \in Runs, Fenced(r), held[r] # Nothing, local' = Applied(held[r]),
         Written({held[r][1]}), UNCHANGED <<provider, row>>,
         DOMAIN baselines = 1..Len(baselines), DOMAIN baselines' = 1..Len(baselines),
         Len(baselines') = Len(baselines),
         \A b \in 1..Len(baselines) : /\ baselines'[b].status = baselines[b].status
                                      /\ baselines[b].seen \subseteq baselines'[b].seen
                                      /\ baselines'[b].seen \subseteq
                                           baselines[b].seen \cup {held[r][1]}
  PROVE  LocalInv' /\ RowInv'
  <1> DEFINE m == held[r][1]
  <1>1. /\ SyncTypeOK /\ LocalInv /\ RowInv
        /\ Len(baselines) \in Nat
        /\ row.cursor \in Nat /\ row.page.start \in Nat
        /\ \A e \in events : e.msg \in Msgs /\ e.id \in Nat /\ e.id >= 1
    BY LenProperties, EventTypes DEF SyncInv, SyncTypeOK, SyncRow, Pages
  <1>2. /\ m \in Msgs
        /\ \A e \in events : e.id <= row.cursor \/ e.id <= row.page.start
             => e.msg # m \/ (e.kind # "delete" /\ Done(e)')
        /\ \E e \in events : e.msg = m /\ e.id = held[r][2]
        /\ \/ local[m].hidden /\ local'[m] = local[m]
           \/ local'[m].at = held[r][2] /\ local'[m].epoch = Len(baselines)
        /\ \A x \in Msgs : x # m => local'[x] = local[x] /\ look'[x] = look[x]
        /\ look'[m] = NoLook
        /\ \A e \in events : e.msg # m =>
              (Applies(e) => Applies(e)') /\ (LookTells(e) => LookTells(e)')
    BY AppliedFacts
  <1> HIDE DEF m
  <1>3. \A e \in events : (e.id <= row.cursor \/ e.id <= row.page.start) /\ Done(e) => Done(e)'
    BY <1>2 DEF Done
  <1>4. LocalInv'
    <2>1. ASSUME NEW b \in 1..Len(baselines), NEW x \in baselines'[b].seen, local'[x].at # 0
          PROVE  local'[x].epoch >= b \/ local'[x].hidden
      <3>1. CASE x = m
        BY <1>1, <1>2, <3>1
      <3>2. CASE x # m
        <4>1. x \in baselines[b].seen
          BY <2>1, <3>2 DEF m
        <4>2. baselines[b] \in Baseline
          BY <1>1, ElementOfSeq DEF SyncTypeOK
        <4>3. x \in Msgs
          BY <4>1, <4>2 DEF Baseline
        <4> QED BY <1>1, <1>2, <2>1, <3>2, <4>1, <4>3 DEF LocalInv
      <3> QED BY <3>1, <3>2
    <2>2. \A x \in Msgs : local'[x].at # 0 => \E e \in events : e.msg = x /\ e.id = local'[x].at
      BY <1>1, <1>2 DEF LocalInv
    <2>3. \A x \in Msgs : local'[x].epoch <= Len(baselines)
      BY <1>1, <1>2 DEF LocalInv
    <2>4. \A x \in Msgs : local'[x].at = 0 => local'[x] = NoRow
      BY <1>1, <1>2 DEF LocalInv
    <2>5. ASSUME NEW x \in Msgs PROVE LookInv(x)'
      <3>1. CASE x = m
        BY <1>2, <3>1 DEF LookInv, NoLook
      <3>2. CASE x # m
        BY <1>1, <1>2, <3>2 DEF LookInv, NoLook, LocalInv, provider
      <3> QED BY <3>1, <3>2
    <2> QED BY <2>1, <2>2, <2>3, <2>4, <2>5 DEF LocalInv, provider, NoRow
  <1>5. RowInv'
    <2>1. AppliedUpTo(row.cursor)'
      BY <1>1, <1>3 DEF RowInv, AppliedUpTo, provider
    <2>2. (Active(row.page.base) => Kept(row.page, {}))'
      <3> SUFFICES ASSUME Active(row.page.base)' PROVE Kept(row.page, {})'
        OBVIOUS
      <3>1. Active(row.page.base) /\ row.page.base \in 1..Len(baselines)
        BY <1>1 DEF Active
      <3>2. Kept(row.page, {})
        BY <1>1, <3>1 DEF RowInv
      <3>3. \A x \in Msgs : local'[x].at # 0 /\ local'[x].epoch < row.page.base =>
              Deleted(x) \/ x \in row.page.left \/ x \in baselines'[row.page.base].seen
        BY <1>1, <1>2, <3>1, <3>2 DEF Kept
      <3>4. \A e \in events : e.id <= row.page.start /\ e.kind = "delete" =>
              /\ LookTells(e)'
              /\ \/ Applies(e)'
                 \/ /\ local'[e.msg].epoch < row.page.base
                    /\ e.msg \notin baselines'[row.page.base].seen
        BY <1>1, <1>2, <3>1, <3>2 DEF Kept, m
      <3>5. \A e \in events : e.id <= row.page.start /\ e.kind # "delete" =>
              Done(e)' \/ e.msg \in row.page.left
        BY <1>3, <3>2 DEF Kept
      <3> QED BY <3>3, <3>4, <3>5 DEF Kept, provider, Deleted
    <2>3. Renewed => Renewed'
      <3>1. Renewed => /\ Len(baselines) > mark
                       /\ \A x \in Msgs : local'[x].at # 0 =>
                                              local'[x].epoch > mark \/ local'[x].hidden
        BY <1>2 DEF Renewed
      <3> QED BY <3>1 DEF Renewed, provider
    <2>4. (Requested /\ row.cursor # NoCursor => Renewed)'
      BY <1>1, <2>3 DEF RowInv, Requested, provider
    <2> QED BY <1>1, <2>1, <2>2, <2>4 DEF RowInv, Requested, provider
  <1> QED BY <1>4, <1>5

LEMMA ApplyThreadStep ==
  ASSUME SyncInv, NEW r \in Runs, ApplyThread(r)
  PROVE  SyncInv'
  <1>1. /\ SyncTypeOK /\ HistoryInv /\ RowInv /\ RunBounds(r) /\ RunWork(r) /\ Fenced(r)
        /\ DOMAIN baselines = 1..Len(baselines)
    BY LenProperties DEF SyncInv, RunInv, ApplyThread, SyncTypeOK
  <1>2. /\ stage[r] = "threads" /\ held[r] # Nothing /\ local' = Applied(held[r])
        /\ Written({held[r][1]})
        /\ UNCHANGED <<provider, row, baselines, stage, mine, cursor, todo, dels, scan>>
        /\ held'[r] = Nothing
    BY <1>1 DEF ApplyThread, SyncTypeOK
  <1>3. SyncTypeOK'
    BY <1>1, FeedTypes
  <1>4. LocalInv' /\ RowInv'
    BY <1>1, <1>2, AppliedStore
  <1>5. HistoryInv' /\ Distinct' /\ \A q \in Runs \ {r} : RunInv(q)'
    BY <1>2, <1>3, OthersWithoutLease DEF Writing, Active
  <1>6. Hand(r)' = {} /\ Hand(r) = {held[r]}
    BY <1>2 DEF Hand
  <1>7. RunBounds(r)'
    BY <1>1, <1>2, <1>6 DEF RunBounds, provider, Deleted, Exists
  <1>8. RunWork(r)'
    <2>1. /\ \A e \in events : e.id <= cursor[r] =>
               e.msg # held[r][1] \/ (e.kind # "delete" /\ Done(e)')
          /\ \A e \in events : e.msg # held[r][1] =>
              (Applies(e) => Applies(e)') /\ (LookTells(e) => LookTells(e)')
      BY <1>1, <1>2, AppliedFacts
    <2>2. row.cursor # NoCursor /\ FeedKept(cursor[r], dels[r], todo[r], {held[r]})
      BY <1>1, <1>2, <1>6 DEF RunWork
    <2>3. \A e \in events : e.id <= cursor[r] /\ Done(e) => Done(e)'
      BY <2>1 DEF Done
    <2>4. \A e \in events : e.id <= cursor[r] /\ e.kind = "delete" =>
            Done(e)' \/ e.msg \in dels[r]
      BY <2>2, <2>3 DEF FeedKept
    <2>5. \A e \in events : e.id <= cursor[r] /\ e.kind # "delete" =>
            Done(e)' \/ e.msg \in todo[r]
      BY <2>1, <2>2, <2>3 DEF FeedKept
    <2>6. FeedKept(cursor[r], dels[r], todo[r], Hand(r))'
      BY <1>2, <2>4, <2>5 DEF FeedKept, provider
    <2> QED BY <1>2, <1>6, <2>2, <2>6 DEF RunWork
  <1> QED BY <1>3, <1>4, <1>5, <1>7, <1>8 DEF SyncInv, RunInv

LEMMA ApplyListedStep ==
  ASSUME SyncInv, NEW r \in Runs, ApplyListed(r)
  PROVE  SyncInv'
  <1> DEFINE b == scan[r].base
             m == held[r][1]
  <1>1. /\ SyncTypeOK /\ HistoryInv /\ RowInv /\ RunBounds(r) /\ RunWork(r) /\ Fenced(r)
    BY DEF SyncInv, RunInv, ApplyListed
  <1>2. /\ stage[r] = "scan" /\ held[r] # Nothing /\ local' = Applied(held[r])
        /\ Written({held[r][1]})
        /\ UNCHANGED <<provider, row, stage, mine, cursor, todo, dels, scan>>
        /\ held'[r] = Nothing
    BY <1>1 DEF ApplyListed, SyncTypeOK
  <1>3. SyncTypeOK'
    BY <1>1, ListingTypes
  <1>4. /\ Len(baselines') = Len(baselines) /\ Len(baselines) \in Nat
        /\ DOMAIN baselines = 1..Len(baselines) /\ DOMAIN baselines' = 1..Len(baselines)
        /\ b \in 1..Len(baselines)
        /\ \A o \in 1..Len(baselines) :
             /\ baselines'[o].status = baselines[o].status
             /\ o # b => baselines'[o].seen = baselines[o].seen
        /\ baselines'[b].seen = baselines[b].seen \cup {m}
    BY <1>1, SeenWritten
  <1>5. LocalInv' /\ RowInv'
    <2>1. \A o \in 1..Len(baselines) : /\ baselines'[o].status = baselines[o].status
                                       /\ baselines[o].seen \subseteq baselines'[o].seen
                                       /\ baselines'[o].seen \subseteq baselines[o].seen \cup {m}
      BY <1>4
    <2> QED BY <1>1, <1>2, <1>4, <2>1, AppliedStore
  <1>6. \A o \in 1..Len(baselines) : Active(o)' => Active(o)
    BY <1>4 DEF Active
  <1>7. HistoryInv' /\ Distinct' /\ \A q \in Runs \ {r} : RunInv(q)'
    BY <1>2, <1>3, <1>4, <1>6, OthersWithoutLease DEF Writing
  <1>8. Hand(r)' = {} /\ Hand(r) = {held[r]}
    BY <1>2 DEF Hand
  <1>9. RunBounds(r)'
    BY <1>1, <1>2, <1>4, <1>8 DEF RunBounds, provider, Deleted, Exists
  <1>10. RunWork(r)'
    <2>1. /\ m \in Msgs
          /\ \A e \in events : e.id <= scan[r].start =>
               e.msg # m \/ (e.kind # "delete" /\ Done(e)')
          /\ \/ local'[m] = local[m]
             \/ local'[m].epoch = Len(baselines)
          /\ \A x \in Msgs : x # m => local'[x] = local[x]
          /\ \A e \in events : e.msg # m =>
              (Applies(e) => Applies(e)') /\ (LookTells(e) => LookTells(e)')
      BY <1>1, <1>2, <1>4, AppliedFacts
    <2>2. Kept(scan[r], {held[r]}) /\ (Requested => b > mark)
      BY <1>1, <1>2, <1>8 DEF RunWork
    <2>3. \A e \in events : e.id <= scan[r].start /\ Done(e) => Done(e)'
      BY <2>1 DEF Done
    <2>4. \A x \in Msgs : local'[x].at # 0 /\ local'[x].epoch < b =>
            Deleted(x) \/ x \in scan[r].left \/ x \in baselines'[b].seen
      BY <1>4, <2>1, <2>2 DEF Kept
    <2>5. \A e \in events : e.id <= scan[r].start /\ e.kind = "delete" =>
            /\ LookTells(e)'
            /\ Applies(e)' \/ (local'[e.msg].epoch < b /\ e.msg \notin baselines'[b].seen)
      <3>1. \A e \in events : e.msg \in Msgs
        BY <1>1, EventTypes
      <3> QED BY <1>4, <2>1, <2>2, <3>1 DEF Kept
    <2>6. \A e \in events : e.id <= scan[r].start /\ e.kind # "delete" =>
            Done(e)' \/ e.msg \in scan[r].left
      BY <2>1, <2>2, <2>3 DEF Kept
    <2>7. Kept(scan[r], Hand(r))'
      BY <1>2, <2>4, <2>5, <2>6 DEF Kept, provider, Deleted
    <2> QED BY <1>2, <1>8, <2>2, <2>7 DEF RunWork, Requested, provider
  <1> QED BY <1>3, <1>5, <1>7, <1>9, <1>10 DEF SyncInv, RunInv

\* Rows that leave take nothing that is still there: what applied, applies.
LEMMA ClearedStore ==
  ASSUME SyncTypeOK, LocalInv, RowInv, UNCHANGED <<provider, row>>,
         DOMAIN baselines = 1..Len(baselines), DOMAIN baselines' = 1..Len(baselines),
         Len(baselines') = Len(baselines),
         \A b \in 1..Len(baselines) : /\ baselines'[b].seen \subseteq baselines[b].seen
                                      /\ Active(b)' => /\ Active(b)
                                                       /\ baselines'[b].seen = baselines[b].seen,
         \A x \in Msgs : \/ local'[x] = local[x] /\ look'[x] = look[x]
                         \/ local'[x] = NoRow /\ look'[x] = NoLook /\ Deleted(x)
  PROVE  /\ LocalInv' /\ RowInv'
         /\ \A e \in events : Done(e) => Done(e)'
         /\ \A e \in events : LookTells(e) => LookTells(e)'
         /\ \A x \in Msgs : local'[x].at # 0 => local'[x] = local[x]
  <1>1. /\ Len(baselines) \in Nat
        /\ \A e \in events : e.msg \in Msgs /\ e.id \in Nat /\ e.id >= 1
        /\ \A b \in 1..Len(baselines) : baselines[b].seen \subseteq Msgs
    <2>1. baselines \in Seq(Baseline)
      BY DEF SyncTypeOK
    <2>2. \A b \in 1..Len(baselines) : baselines[b] \in Baseline
      BY <2>1, ElementOfSeq
    <2> QED BY <2>1, <2>2, LenProperties, EventTypes DEF Baseline
  <1>2. \A x \in Msgs : local'[x].at # 0 => local'[x] = local[x]
    BY DEF NoRow
  <1>3. \A e \in events : Applies(e) => Applies(e)'
    BY <1>1 DEF Applies, InRow, provider, Deleted, NoRow
  <1>4. \A e \in events : LookTells(e) => LookTells(e)'
    BY <1>1 DEF LookTells, provider, Deleted
  <1>a. \A e \in events : Done(e) => Done(e)'
    BY <1>3, <1>4 DEF Done
  <1>5. LocalInv'
    <2>1. \A x \in Msgs : local'[x].at # 0 => \E e \in events : e.msg = x /\ e.id = local'[x].at
      BY <1>2 DEF LocalInv
    <2>2. \A x \in Msgs : local'[x].epoch <= Len(baselines)
      BY <1>1 DEF LocalInv, NoRow
    <2>3. \A b \in 1..Len(baselines) : \A x \in baselines'[b].seen :
            local'[x].at # 0 => local'[x].epoch >= b \/ local'[x].hidden
      BY <1>1, <1>2 DEF LocalInv
    <2>4. \A x \in Msgs : local'[x].at = 0 => local'[x] = NoRow
      BY DEF LocalInv
    <2>5. ASSUME NEW x \in Msgs PROVE LookInv(x)'
      <3>1. CASE look'[x] = NoLook
        BY <3>1 DEF LookInv, NoLook
      <3>2. CASE local'[x] = local[x] /\ look'[x] = look[x]
        BY <3>2 DEF LookInv, NoLook, LocalInv, provider
      <3> QED BY <3>1, <3>2
    <2> QED BY <2>1, <2>2, <2>3, <2>4, <2>5 DEF LocalInv, provider, NoRow
  <1>6. RowInv'
    <2>1. AppliedUpTo(row.cursor)'
      BY <1>a DEF RowInv, AppliedUpTo, provider
    <2>2. (Active(row.page.base) => Kept(row.page, {}))'
      <3> SUFFICES ASSUME Active(row.page.base)' PROVE Kept(row.page, {})'
        OBVIOUS
      <3>1. /\ row.page.base \in 1..Len(baselines) /\ Kept(row.page, {})
            /\ baselines'[row.page.base].seen = baselines[row.page.base].seen
        BY DEF RowInv, Active
      <3>2. \A x \in Msgs : local'[x].at # 0 /\ local'[x].epoch < row.page.base =>
              Deleted(x) \/ x \in row.page.left \/ x \in baselines'[row.page.base].seen
        BY <1>2, <3>1 DEF Kept
      <3>3. \A e \in events : e.id <= row.page.start /\ e.kind = "delete" =>
              /\ LookTells(e)'
              /\ \/ Applies(e)'
                 \/ /\ local'[e.msg].epoch < row.page.base
                    /\ e.msg \notin baselines'[row.page.base].seen
        <4>1. \A e \in events : e.kind = "delete" /\ local'[e.msg] = NoRow => Applies(e)'
          BY DEF Applies, InRow, NoRow, provider
        <4> QED BY <1>1, <1>3, <1>4, <3>1, <4>1 DEF Kept
      <3>4. \A e \in events : e.id <= row.page.start /\ e.kind # "delete" =>
              Done(e)' \/ e.msg \in row.page.left
        BY <1>a, <3>1 DEF Kept
      <3> QED BY <3>2, <3>3, <3>4 DEF Kept, provider, Deleted
    <2>3. (Requested /\ row.cursor # NoCursor => Renewed)'
      BY <1>2 DEF RowInv, Requested, Renewed, provider
    <2> QED BY <2>1, <2>2, <2>3 DEF RowInv, Requested, provider
  <1> QED BY <1>2, <1>4, <1>5, <1>6, <1>a

LEMMA ApplyDeletionsStep ==
  ASSUME SyncInv, NEW r \in Runs, ApplyDeletions(r)
  PROVE  SyncInv'
  <1>1. /\ SyncTypeOK /\ HistoryInv /\ RowInv /\ LocalInv
        /\ RunBounds(r) /\ RunWork(r) /\ Fenced(r)
        /\ DOMAIN baselines = 1..Len(baselines)
    BY LenProperties DEF SyncInv, RunInv, ApplyDeletions, SyncTypeOK
  <1>2. /\ stage[r] = "threads" /\ todo[r] = {} /\ held[r] = Nothing
        /\ UNCHANGED <<provider, row, baselines, mine, cursor, todo, scan, held>>
        /\ dels'[r] = {} /\ stage'[r] = "commit"
        /\ \A x \in Msgs :
             /\ x \in dels[r] => local'[x] = NoRow /\ look'[x] = NoLook
             /\ x \notin dels[r] => local'[x] = local[x] /\ look'[x] = look[x]
    BY <1>1 DEF ApplyDeletions, SyncTypeOK, Goto, Written
  <1>3. SyncTypeOK'
    BY <1>1, FeedTypes
  <1>4. \A x \in Msgs : \/ local'[x] = local[x] /\ look'[x] = look[x]
                        \/ local'[x] = NoRow /\ look'[x] = NoLook /\ Deleted(x)
    BY <1>1, <1>2 DEF RunBounds
  <1>5. /\ LocalInv' /\ RowInv'
        /\ \A e \in events : Done(e) => Done(e)'
        /\ \A x \in Msgs : local'[x].at # 0 => local'[x] = local[x]
    BY <1>1, <1>2, <1>4, ClearedStore DEF Active
  <1>6. HistoryInv' /\ Distinct' /\ \A q \in Runs \ {r} : RunInv(q)'
    BY <1>2, <1>3, OthersWithoutLease DEF Writing, Active
  <1>7. Hand(r)' = {} /\ Hand(r) = {}
    BY <1>2 DEF Hand
  <1>8. RunBounds(r)'
    BY <1>1, <1>2, <1>7 DEF RunBounds, provider, Deleted, Exists
  <1>9. RunWork(r)'
    <2>1. row.cursor # NoCursor /\ FeedKept(cursor[r], dels[r], {}, {})
      BY <1>1, <1>2, <1>7 DEF RunWork
    <2>2. ASSUME NEW e \in events, e.id <= cursor[r] PROVE Done(e)'
      <3>1. CASE Done(e)
        BY <1>5, <3>1
      <3>2. CASE ~Done(e)
        <4>1. e.msg \in Msgs /\ e.kind = "delete" /\ e.msg \in dels[r]
          BY <1>1, <2>1, <2>2, <3>2, EventTypes DEF FeedKept
        <4>2. local'[e.msg] = NoRow /\ look'[e.msg] = NoLook
          BY <1>2, <4>1
        <4> QED BY <4>1, <4>2 DEF Done, LookTells, Applies, InRow, NoRow
      <3> QED BY <3>1, <3>2
    <2>3. AppliedUpTo(cursor[r])'
      BY <1>2, <2>2 DEF AppliedUpTo, provider
    <2>4. Requested' => Renewed'
      BY <1>2, <1>5, <2>1 DEF RowInv, Requested, provider
    <2> QED BY <1>2, <1>7, <2>3, <2>4 DEF RunWork
  <1> QED BY <1>3, <1>5, <1>6, <1>8, <1>9 DEF SyncInv, RunInv

\* When the listing is over, the rows it leaves behind are of messages that are gone, and the
\* others were synchronized under its baseline or a later one.
LEMMA ReconcileStep ==
  ASSUME SyncInv, NEW r \in Runs, Reconcile(r)
  PROVE  SyncInv'
  <1> DEFINE b == scan[r].base
  <1>1. /\ SyncTypeOK /\ HistoryInv /\ RowInv /\ LocalInv
        /\ RunBounds(r) /\ RunWork(r) /\ Fenced(r)
    BY DEF SyncInv, RunInv, Reconcile
  <1>2. /\ stage[r] = "scan" /\ held[r] = Nothing
        /\ UNCHANGED <<provider, row, mine, cursor, todo, dels, scan, held>>
        /\ stage'[r] = "scanned"
        /\ \A x \in scan[r].left : Deleted(x)
        /\ \A x \in Msgs : IF local[x].epoch < b /\ x \notin baselines[b].seen
                           THEN local'[x] = NoRow /\ look'[x] = NoLook
                           ELSE local'[x] = local[x] /\ look'[x] = look[x]
    BY <1>1 DEF Reconcile, SyncTypeOK, Goto, memory, ListingOver, Unlisted, Written
  <1>3. SyncTypeOK'
    BY <1>1, ListingTypes
  <1>4. /\ Len(baselines') = Len(baselines) /\ Len(baselines) \in Nat
        /\ DOMAIN baselines = 1..Len(baselines) /\ DOMAIN baselines' = 1..Len(baselines)
        /\ b \in 1..Len(baselines)
        /\ \A o \in 1..Len(baselines) : o # b => baselines'[o] = baselines[o]
        /\ baselines'[b].seen = {} /\ baselines'[b].status # "active"
    BY <1>1, BaselineFinished
  <1>5. Hand(r)' = {} /\ Hand(r) = {}
    BY <1>2 DEF Hand
  <1>6. Kept(scan[r], {}) /\ (Requested => b > mark)
    BY <1>1, <1>2, <1>5 DEF RunWork
  <1>7. ASSUME NEW x \in Msgs
        PROVE  \/ local'[x] = local[x] /\ look'[x] = look[x]
               \/ local'[x] = NoRow /\ look'[x] = NoLook /\ Deleted(x)
    <2>1. CASE local[x].at = 0
      <3>1. local[x] = NoRow
        BY <1>1, <2>1 DEF LocalInv
      <3>2. look[x] = NoLook
        BY <1>1, <3>1 DEF LocalInv, LookInv, NoRow
      <3> QED BY <1>2, <3>1, <3>2
    <2>2. CASE local[x].at # 0
      BY <1>2, <1>6, <2>2 DEF Kept
    <2> QED BY <2>1, <2>2
  <1>8. \A o \in 1..Len(baselines) : /\ baselines'[o].seen \subseteq baselines[o].seen
                                     /\ Active(o)' => /\ Active(o)
                                                      /\ baselines'[o].seen = baselines[o].seen
    BY <1>4 DEF Active
  <1>9. /\ LocalInv' /\ RowInv'
        /\ \A e \in events : Done(e) => Done(e)'
        /\ \A e \in events : LookTells(e) => LookTells(e)'
        /\ \A x \in Msgs : local'[x].at # 0 => local'[x] = local[x]
    BY <1>1, <1>2, <1>4, <1>7, <1>8, ClearedStore
  <1>10. HistoryInv' /\ Distinct' /\ \A q \in Runs \ {r} : RunInv(q)'
    BY <1>2, <1>3, <1>4, <1>8, OthersWithoutLease DEF Writing
  <1>11. RunBounds(r)'
    BY <1>1, <1>2, <1>4, <1>5 DEF RunBounds, provider, Deleted, Exists, Active
  <1>12. RunWork(r)'
    <2>1. ASSUME NEW e \in events, e.id <= scan[r].start PROVE Done(e)'
      <3>1. e.msg \in Msgs
        BY <1>1, EventTypes
      <3>2. CASE Done(e)
        BY <1>9, <3>2
      <3>3. CASE ~Done(e) /\ e.kind = "delete"
        <4>1. /\ LookTells(e)
              /\ local[e.msg].epoch < b /\ e.msg \notin baselines[b].seen
          BY <1>6, <2>1, <3>3 DEF Kept, Done
        <4>2. local'[e.msg] = NoRow /\ LookTells(e)'
          BY <1>2, <1>9, <3>1, <4>1
        <4> QED BY <3>3, <4>2 DEF Done, Applies, InRow, NoRow
      <3>4. CASE ~Done(e) /\ e.kind # "delete"
        <4>1. Deleted(e.msg)
          BY <1>2, <1>6, <2>1, <3>4 DEF Kept
        <4>2. Applies(e) /\ LookTells(e)
          BY <3>4, <4>1 DEF Applies, InRow, LookTells
        <4> QED BY <3>4, <4>2 DEF Done
      <3> QED BY <3>2, <3>3, <3>4
    <2>2. AppliedUpTo(scan[r].start)'
      BY <1>2, <2>1 DEF AppliedUpTo, provider
    <2>3. ASSUME Requested PROVE Renewed'
      <3>1. b > mark /\ b <= Len(baselines) /\ b \in Nat /\ mark \in Nat
        BY <1>1, <1>4, <1>6, <2>3 DEF SyncTypeOK
      <3>2. ASSUME NEW x \in Msgs, local'[x].at # 0 PROVE local'[x].epoch > mark \/ local'[x].hidden
        <4>1. /\ local'[x] = local[x] /\ local[x].at # 0 /\ local[x].epoch \in Nat
              /\ ~(local[x].epoch < b /\ x \notin baselines[b].seen)
          BY <1>1, <1>2, <1>9, <3>2 DEF NoRow, SyncTypeOK
        <4>2. local[x].epoch >= b \/ local[x].hidden
          BY <1>1, <1>4, <3>1, <4>1 DEF LocalInv
        <4> QED BY <3>1, <4>1, <4>2
      <3> QED BY <1>2, <1>4, <3>1, <3>2 DEF Renewed, provider
    <2> QED BY <1>2, <1>5, <1>6, <2>2, <2>3 DEF RunWork, Requested, provider
  <1> QED BY <1>3, <1>9, <1>10, <1>11, <1>12 DEF SyncInv, RunInv

\* The run stores its position: only the row changes, and only its cursor and its page.
LEMMA CheckpointStep ==
  ASSUME SyncInv, NEW r \in Runs, PauseBaseline(r) \/ SaveBaseline(r) \/ CommitCursor(r)
  PROVE  SyncInv'
  <1>1. /\ SyncTypeOK /\ HistoryInv /\ RowInv /\ LocalInv
        /\ RunBounds(r) /\ RunWork(r) /\ Fenced(r)
        /\ scan[r] \in Pages /\ cursor[r] \in Nat /\ NoPage \in Pages /\ NoCursor = 0
        /\ row \in SyncRow(Pages)
        /\ \A e \in events : e.id \in Nat /\ e.id >= 1
    <2>1. SyncTypeOK /\ HistoryInv /\ RowInv /\ LocalInv /\ RunInv(r) /\ Fenced(r)
      BY DEF SyncInv, PauseBaseline, SaveBaseline, CommitCursor
    <2>2. scan[r] \in Pages /\ cursor[r] \in Nat /\ row \in SyncRow(Pages)
      BY <2>1 DEF SyncTypeOK
    <2>3. NoPage \in Pages /\ NoCursor = 0
      BY DEF NoPage, Pages, NoCursor
    <2> QED BY <2>1, <2>2, <2>3, EventTypes DEF RunInv
  <1>2. SyncTypeOK'
    BY <1>1, RunTypes, ListingTypes
  <1>3. /\ UNCHANGED <<provider, baselines, local, look, mine, todo, dels, scan, held>>
        /\ row'.generation = row.generation /\ row'.live = row.live
        /\ row'.started = row.started
    <2>1. PICK to \in Nat, page \in Pages : row' = Checkpointed(row, to, page)
      BY <1>1 DEF PauseBaseline, SaveBaseline, CommitCursor
    <2>2. /\ row'.generation = row.generation /\ row'.live = row.live
          /\ row'.started = row.started
      BY <2>1 DEF Checkpointed
    <2>3. UNCHANGED <<provider, baselines, local, look, mine, todo, dels, scan, held>>
      BY DEF PauseBaseline, SaveBaseline, CommitCursor, memory
    <2> QED BY <2>2, <2>3
  <1>4. HistoryInv' /\ Distinct' /\ \A q \in Runs \ {r} : RunInv(q)'
    BY <1>2, <1>3, OthersWithoutLease DEF Writing, Active
  <1>5. LocalInv' /\ (Requested' <=> Requested)
    BY <1>1, <1>3 DEF LocalInv, LookInv, provider, Requested
  <1>6. CASE PauseBaseline(r)
    <2>1. /\ stage[r] = "scan" /\ held[r] = Nothing
          /\ stage'[r] \in {"scan", "release"}
          /\ row'.cursor = 0 /\ row'.page = scan[r]
      <3>1. row' = Checkpointed(row, NoCursor, scan[r])
        BY <1>6 DEF PauseBaseline
      <3>2. row'.cursor = NoCursor /\ row'.page = scan[r]
        BY <3>1 DEF Checkpointed
      <3>3. /\ stage[r] = "scan" /\ held[r] = Nothing
            /\ stage'[r] \in {"scan", "release"}
        BY <1>1, <1>6 DEF PauseBaseline, Goto, SyncTypeOK, RunBounds
      <3> QED BY <1>1, <3>2, <3>3
    <2>2. Hand(r) = {} /\ Hand(r)' = {}
      BY <1>3, <2>1 DEF Hand
    <2>3. Kept(scan[r], {}) /\ (Requested => scan[r].base > mark)
      BY <1>1, <2>1, <2>2 DEF RunWork
    <2>4. Kept(row.page, {})'
      BY <1>3, <2>1, <2>3 DEF Kept, provider, Done, LookTells, Applies, InRow, Deleted
    <2>5. AppliedUpTo(row.cursor)'
      BY <1>1, <1>3, <2>1 DEF AppliedUpTo, provider
    <2>6. RowInv'
      BY <1>1, <1>3, <1>5, <2>1, <2>3, <2>4, <2>5 DEF RowInv, RunBounds, provider, Requested
    <2>7. RunBounds(r)'
      BY <1>1, <1>3, <2>1, <2>2 DEF RunBounds, provider, Deleted, Exists
    <2>8. Kept(scan[r], {})' /\ (Requested' => scan'[r].base > mark')
      BY <1>3, <1>5, <2>1, <2>3, <2>4 DEF provider
    <2>9. RunWork(r)'
      BY <2>1, <2>2, <2>8 DEF RunWork
    <2> QED BY <1>2, <1>4, <1>5, <2>6, <2>7, <2>9 DEF SyncInv, RunInv
  <1>7. CASE SaveBaseline(r)
    <2>1. /\ stage[r] = "scanned" /\ held[r] = Nothing /\ stage'[r] = "commit"
          /\ row'.cursor = 0 /\ row'.page = scan[r] /\ cursor'[r] = scan[r].start
      <3>1. row' = Checkpointed(row, NoCursor, scan[r])
        BY <1>7 DEF SaveBaseline
      <3>2. row'.cursor = NoCursor /\ row'.page = scan[r]
        BY <3>1 DEF Checkpointed
      <3>3. /\ stage[r] = "scanned" /\ held[r] = Nothing /\ stage'[r] = "commit"
            /\ cursor'[r] = scan[r].start
        BY <1>1, <1>7 DEF SaveBaseline, Goto, SyncTypeOK, RunBounds
      <3> QED BY <1>1, <3>2, <3>3
    <2>2. Hand(r) = {} /\ Hand(r)' = {}
      BY <1>3, <2>1 DEF Hand
    <2>3. /\ AppliedUpTo(scan[r].start) /\ ~Active(scan[r].base)
          /\ Requested => Renewed /\ scan[r].base > mark
      BY <1>1, <2>1, <2>2 DEF RunWork, RunBounds
    <2>4. ~Active(row.page.base)'
      BY <1>3, <2>1, <2>3 DEF Active
    <2>5. AppliedUpTo(row.cursor)'
      BY <1>1, <1>3, <2>1 DEF AppliedUpTo, provider
    <2>6. RowInv'
      BY <1>1, <1>3, <1>5, <2>1, <2>3, <2>4, <2>5 DEF RowInv, RunBounds, provider, Requested
    <2>7. RunBounds(r)'
      BY <1>1, <1>3, <2>1, <2>2 DEF RunBounds, provider, Deleted, Exists
    <2>8. AppliedUpTo(cursor[r])'
      BY <1>3, <2>1, <2>3 DEF AppliedUpTo, provider, Done, LookTells, Applies, InRow, Deleted
    <2>9. RunWork(r)'
      BY <1>3, <1>5, <2>1, <2>2, <2>3, <2>8 DEF RunWork, Renewed, provider
    <2> QED BY <1>2, <1>4, <1>5, <2>6, <2>7, <2>9 DEF SyncInv, RunInv
  <1>8. CASE CommitCursor(r)
    <2>1. /\ stage[r] = "commit" /\ held[r] = Nothing /\ stage'[r] = "finish"
          /\ row'.cursor = cursor[r] /\ row'.page = NoPage
      <3>1. row' = Checkpointed(row, cursor[r], NoPage)
        BY <1>8 DEF CommitCursor
      <3>2. row'.cursor = cursor[r] /\ row'.page = NoPage
        BY <3>1 DEF Checkpointed
      <3>3. /\ stage[r] = "commit" /\ held[r] = Nothing /\ stage'[r] = "finish"
        BY <1>1, <1>8 DEF CommitCursor, Goto, SyncTypeOK, RunBounds
      <3> QED BY <1>1, <3>2, <3>3
    <2>2. Hand(r) = {} /\ Hand(r)' = {}
      BY <1>3, <2>1 DEF Hand
    <2>3. AppliedUpTo(cursor[r]) /\ (Requested => Renewed)
      BY <1>1, <2>1 DEF RunWork
    <2>4. /\ ~Active(row.page.base)' /\ row'.page.base = 0 /\ row'.page.start = 0
          /\ clock \in Nat /\ Len(baselines) \in Nat
      BY <1>1, <1>3, <2>1, LenProperties DEF Active, NoPage, SyncTypeOK
    <2>5. AppliedUpTo(row.cursor)'
      BY <1>3, <2>1, <2>3 DEF AppliedUpTo, provider, Done, LookTells, Applies, InRow, Deleted
    <2>6. RowInv'
      BY <1>1, <1>3, <1>5, <2>1, <2>3, <2>4, <2>5 DEF RowInv, Renewed, provider
    <2>7. RunBounds(r)'
      BY <1>1, <1>3, <2>1, <2>2 DEF RunBounds, provider, Deleted, Exists
    <2>8. RunWork(r)'
      BY <2>1, <2>2 DEF RunWork
    <2> QED BY <1>2, <1>4, <1>5, <2>6, <2>7, <2>8 DEF SyncInv, RunInv
  <1> QED BY <1>6, <1>7, <1>8

LEMMA FinishRunStep ==
  ASSUME SyncInv, NEW r \in Runs, FinishRun(r)
  PROVE  SyncInv'
  <1>1. /\ SyncTypeOK /\ HistoryInv /\ RowInv /\ LocalInv /\ RunBounds(r) /\ Fenced(r)
        /\ row \in SyncRow(Pages) /\ requested \in Nat
    BY DEF SyncInv, RunInv, FinishRun, SyncTypeOK
  <1>2. SyncTypeOK'
    BY <1>1, RunTypes
  <1>3. /\ stage[r] = "finish" /\ stage'[r] = "release" /\ row' = Completed(row, requested)
        /\ UNCHANGED <<provider, baselines, local, look, mine, cursor, todo, dels, scan, held>>
    BY <1>1 DEF FinishRun, Goto, SyncTypeOK, memory
  <1>4. /\ row'.cursor = row.cursor /\ row'.page = row.page /\ row'.generation = row.generation
        /\ row'.started = row.started /\ row'.live = row.live
    BY <1>1, <1>3, CompletedRow, SMTT(30)
  <1>5. HistoryInv' /\ Distinct' /\ \A q \in Runs \ {r} : RunInv(q)'
    BY <1>2, <1>3, <1>4, OthersWithoutLease DEF Writing, Active
  <1>6. LocalInv' /\ RowInv'
    BY <1>1, <1>3, <1>4, RowUnleased
  <1>7. Hand(r)' = {} /\ held[r] = Nothing
    BY <1>1, <1>3 DEF Hand, RunBounds
  <1>8. RunBounds(r)'
    BY <1>1, <1>3, <1>4, <1>7 DEF RunBounds, provider, Deleted, Exists
  <1>9. RunWork(r)'
    BY <1>3, <1>7 DEF RunWork
  <1> QED BY <1>2, <1>5, <1>6, <1>8, <1>9 DEF SyncInv, RunInv

-----------------------------------------------------------------------------
(* A new baseline, which any run may open: also one that lost the lease,   *)
(* and abandons the baseline of the run that has it.                       *)

LEMMA OpenBaselineStep ==
  ASSUME SyncInv, NEW r \in Runs, OpenBaseline(r)
  PROVE  SyncInv'
  <1>1. /\ SyncTypeOK /\ HistoryInv /\ LocalInv /\ RowInv /\ Distinct
        /\ \A q \in Runs : RunBounds(q) /\ (Fenced(q) => RunWork(q))
    BY DEF SyncInv, RunInv
  <1>2. SyncTypeOK'
    BY <1>1, ListingTypes
  <1>3. /\ Len(baselines') = Len(baselines) + 1
        /\ DOMAIN baselines = 1..Len(baselines) /\ DOMAIN baselines' = 1..(Len(baselines) + 1)
        /\ \A b \in 1..Len(baselines) : /\ baselines'[b].seen = baselines[b].seen
                                        /\ baselines'[b].status # "active"
        /\ baselines'[Len(baselines) + 1].seen = {}
    BY <1>1, OpenedBaseline
  <1>4. /\ stage[r] = "open" /\ stage'[r] = "scan"
        /\ UNCHANGED <<provider, row, local, look, mine, cursor, todo, dels, held>>
        /\ scan'[r].base = Len(baselines) + 1 /\ scan'[r].start = scan[r].start
        /\ scan'[r].left = Listed
        /\ \A q \in Runs \ {r} : RunSame(q)
    BY <1>1 DEF OpenBaseline, Goto, SyncTypeOK, RunSame
  <1>5. /\ Len(baselines) \in Nat /\ mark \in Nat
        /\ \A x \in Msgs : local[x].epoch \in Nat
        /\ \A e \in events : e.msg \in Msgs /\ e.id \in Nat /\ e.id >= 1
    BY <1>1, LenProperties, EventTypes DEF SyncTypeOK
  <1>6. HistoryInv' /\ Distinct'
    BY <1>1, <1>4 DEF HistoryInv, Exists, provider, Distinct
  <1>7. LocalInv'
    <2>1. \A x \in Msgs : local[x].epoch <= Len(baselines')
      BY <1>1, <1>3, <1>5 DEF LocalInv
    <2>2. \A b \in DOMAIN baselines' : \A x \in baselines'[b].seen :
            local[x].at # 0 => local[x].epoch >= b \/ local[x].hidden
      <3>1. \A b \in DOMAIN baselines' : b = Len(baselines) + 1 \/ b \in 1..Len(baselines)
        BY <1>3, <1>5
      <3> QED BY <1>1, <1>3, <3>1 DEF LocalInv
    <2>3. ASSUME NEW x \in Msgs PROVE LookInv(x)'
      <3>1. look[x].epoch \in Nat
        BY <1>1 DEF SyncTypeOK
      <3> QED BY <1>1, <1>3, <1>4, <1>5, <3>1 DEF LocalInv, LookInv, NoLook, provider
    <2> QED BY <1>1, <1>4, <2>1, <2>2, <2>3 DEF LocalInv, provider, NoRow
  <1>a. ASSUME NEW e \in events PROVE LookTells(e)' /\ (Applies(e) => Applies(e)')
    <2>1. look[e.msg] = NoLook \/ look[e.msg].epoch <= Len(baselines)
      BY <1>1, <1>5 DEF LocalInv, LookInv
    <2>2. look[e.msg].epoch \in Nat
      BY <1>1, <1>5 DEF SyncTypeOK
    <2>3. LookTells(e)'
      BY <1>3, <1>4, <1>5, <2>1, <2>2 DEF LookTells, NoLook
    <2> QED BY <1>4, <2>3 DEF Applies, InRow, Deleted, provider
  <1>b. \A e \in events : Done(e) => Done(e)'
    BY <1>a DEF Done
  <1>8. Renewed => Renewed'
    BY <1>3, <1>4, <1>5 DEF Renewed, provider
  <1>9. \A b \in 1..Len(baselines) : ~Active(b)'
    BY <1>3 DEF Active
  <1>10. /\ ~Active(row.page.base)' /\ row.page.base \in Nat
         /\ \A q \in Runs : scan[q].base \in Nat /\ scan[q].start \in Nat
    <2>1. /\ row.page.base \in Nat /\ row.page.base <= Len(baselines)
          /\ \A q \in Runs : scan[q].base \in Nat /\ scan[q].start \in Nat
      BY <1>1 DEF SyncTypeOK, SyncRow, Pages, RowInv
    <2>2. ~Active(row.page.base)'
      BY <1>3, <1>4, <1>5, <1>9, <2>1 DEF Active
    <2> QED BY <2>1, <2>2
  <1>11. RowInv'
    <2>1. AppliedUpTo(row.cursor)'
      BY <1>1, <1>4, <1>b DEF RowInv, AppliedUpTo, provider
    <2>2. mark <= Len(baselines') /\ row.page.base <= Len(baselines')
      BY <1>1, <1>3, <1>5, <1>10 DEF RowInv
    <2> QED BY <1>1, <1>4, <1>8, <1>10, <2>1, <2>2 DEF RowInv, Requested, provider
  <1>12. ASSUME NEW q \in Runs \ {r} PROVE RunInv(q)'
    <2>1. /\ RunBounds(q) /\ RunSame(q) /\ scan[q].base <= Len(baselines)
          /\ scan[q].base \in Nat
      BY <1>1, <1>4, <1>10 DEF RunBounds
    <2>2. ~Active(scan[q].base)'
      BY <1>3, <1>5, <1>9, <2>1 DEF Active, RunSame
    <2>3. /\ Hand(q)' = Hand(q) /\ (Fenced(q)' <=> Fenced(q)) /\ (Requested' <=> Requested)
      BY <1>4, <2>1 DEF Hand, Fenced, Held, Requested, RunSame, provider
    <2>4. RunBounds(q)'
      BY <1>3, <1>4, <1>5, <2>1, <2>2, <2>3 DEF RunBounds, RunSame, provider, Deleted, Exists
    <2>5. ASSUME Fenced(q) PROVE RunWork(q)'
      <3>1. RunWork(q)
        BY <1>1, <2>5
      <3>2. (\A h \in Hand(q) : InTime(h, q))'
        BY <1>4, <2>1, <2>3, <3>1 DEF RunWork, InTime, RunSame, provider
      <3>3. (stage[q] \in {"history", "threads"} =>
               row.cursor # NoCursor /\ FeedKept(cursor[q], dels[q], todo[q], Hand(q)))'
        BY <1>4, <1>b, <2>1, <2>3, <3>1 DEF RunWork, FeedKept, RunSame, provider
      <3>4. (stage[q] = "scan" => Kept(scan[q], Hand(q)))'
        <4>1. stage[q] = "scan" => scan[q].base \in 1..Len(baselines)
          BY <2>1 DEF RunBounds
        <4> QED BY <1>3, <1>4, <1>a, <1>b, <2>1, <2>3, <3>1, <4>1
                DEF RunWork, Kept, RunSame, provider, Deleted
      <3>5. (stage[q] = "scanned" => AppliedUpTo(scan[q].start))'
            /\ (stage[q] = "commit" => AppliedUpTo(cursor[q]))'
        BY <1>4, <1>b, <2>1, <3>1 DEF RunWork, AppliedUpTo, RunSame, provider
      <3>6. /\ (Requested /\ stage[q] = "baseline" /\ scan[q].base # 0 => scan[q].base > mark)'
            /\ (Requested /\ stage[q] \in {"scan", "scanned"} => scan[q].base > mark)'
            /\ (Requested /\ stage[q] \in {"scanned", "commit"} => Renewed)'
        BY <1>4, <1>8, <2>1, <2>3, <3>1 DEF RunWork, RunSame, provider
      <3> QED BY <2>2, <3>2, <3>3, <3>4, <3>5, <3>6 DEF RunWork
    <2> QED BY <2>3, <2>4, <2>5 DEF RunInv
  <1>13. RunInv(r)'
    <2>1. held[r] = Nothing /\ Hand(r)' = {}
      BY <1>1, <1>4 DEF RunBounds, Hand
    <2>2. RunBounds(r)'
      BY <1>1, <1>3, <1>4, <1>5, <2>1 DEF RunBounds, provider, Deleted, Exists
    <2>3. RunWork(r)'
      <3>1. \A x \in Msgs : local[x].at # 0 => Deleted(x) \/ x \in Listed
        BY <1>1 DEF LocalInv, Listed, Exists
      <3>2. \A e \in events : e.kind # "delete" => Applies(e) \/ e.msg \in Listed
        BY <1>5 DEF Applies, InRow, Listed, Exists
      <3>a. \A e \in events : e.kind # "delete" => Done(e)' \/ e.msg \in Listed
        BY <1>a, <3>2 DEF Done
      <3>3. \A x \in Msgs : local[x].epoch < Len(baselines) + 1
        BY <1>1, <1>5 DEF LocalInv
      <3>4. Kept(scan[r], {})'
        BY <1>3, <1>4, <1>5, <1>a, <3>1, <3>3, <3>a DEF Kept, provider, Deleted
      <3>5. Len(baselines) + 1 > mark
        BY <1>1, <1>5 DEF RowInv
      <3> QED BY <1>4, <2>1, <3>4, <3>5 DEF RunWork, provider
    <2> QED BY <2>2, <2>3 DEF RunInv
  <1> QED BY <1>2, <1>6, <1>7, <1>11, <1>12, <1>13 DEF SyncInv

-----------------------------------------------------------------------------
(* Hidden rows: steps that no lease fences.                                *)

LEMMA UnfencedTypes ==
  ASSUME SyncTypeOK, HistoryInv, LocalInv, NEW m \in Msgs, Unfenced(m)
  PROVE  /\ SyncTypeOK'
         /\ UNCHANGED <<clock, events, requested, mark, row, baselines, stage, memory>>
         /\ \A x \in Msgs : x # m => local'[x] = local[x] /\ look'[x] = look[x]
  <1> DEFINE Local == [at: Nat, epoch: Nat, hidden: BOOLEAN, by: Writers]
  <1>1. /\ Len(baselines) \in Nat /\ filed \in Nat
        /\ local \in [Msgs -> Local] /\ look \in [Msgs -> [at: Nat, epoch: Nat]]
    BY LenProperties DEF SyncTypeOK
  <1>2. ASSUME NEW ms, Written(ms) PROVE look' \in [Msgs -> [at: Nat, epoch: Nat]]
    BY <1>1, <1>2 DEF Written, NoLook
  <1>3. CASE Hide(m)
    <2>1. PICK synced \in {local[m].epoch, Len(baselines)} :
            local' = [local EXCEPT ![m] = [at |-> local[m].at, epoch |-> synced,
                                           hidden |-> TRUE, by |-> local[m].by]]
      BY <1>3 DEF Hide
    <2>2. /\ local[m].at \in Nat /\ local[m].by \in Writers /\ synced \in Nat
      BY <1>1
    <2>3. [at |-> local[m].at, epoch |-> synced, hidden |-> TRUE, by |-> local[m].by] \in Local
      BY <2>2
    <2>4. local' \in [Msgs -> Local] /\ filed' \in 0..LastFiling
      BY <1>1, <1>3, <2>1, <2>3 DEF Hide
    <2>5. \A x \in Msgs : x # m => local'[x] = local[x] /\ look'[x] = look[x]
      BY <1>1, <1>3, <2>1 DEF Hide, Written
    <2> QED BY <1>2, <1>3, <2>4, <2>5 DEF Hide, SyncTypeOK, memory
  <1>4. CASE Move(m)
    <2>1. [at |-> local[m].at, epoch |-> Len(baselines), hidden |-> FALSE, by |-> "app"] \in Local
      BY <1>1 DEF Writers
    <2>2. local' \in [Msgs -> Local] /\ filed' \in 0..LastFiling
      BY <1>1, <1>4, <2>1 DEF Move
    <2>3. \A x \in Msgs : x # m => local'[x] = local[x] /\ look'[x] = look[x]
      BY <1>1, <1>4 DEF Move, Written
    <2> QED BY <1>2, <1>4, <2>2, <2>3 DEF Move, SyncTypeOK, memory
  <1>5. CASE CheckReads(m)
    <2>1. Exists(m)
      BY <1>5 DEF CheckReads, LocalInv, NoRow, Exists
    <2> LastChange(m) \in Nat
      BY <2>1, LastChangeIsLast
    <2>2. look' \in [Msgs -> [at: Nat, epoch: Nat]]
      BY <1>1, <1>5, <2>1 DEF CheckReads
    <2>3. \A x \in Msgs : x # m => local'[x] = local[x] /\ look'[x] = look[x]
      BY <1>1, <1>5 DEF CheckReads
    <2> QED BY <1>5, <2>2, <2>3 DEF CheckReads, SyncTypeOK, provider, memory
  <1>6. CASE CheckStores(m)
    <2> DEFINE by == IF look[m].epoch = Len(baselines) THEN "check" ELSE "late"
               shut == Archived(<<m, look[m].at>>)
    <2>1. look[m].at \in Nat /\ by \in Writers /\ shut \in BOOLEAN
      BY <1>1 DEF Writers, Archived
    <2>2. local' = [local EXCEPT ![m] = [at |-> look[m].at, epoch |-> Len(baselines),
                                         hidden |-> shut, by |-> by]]
      BY <1>6 DEF CheckStores
    <2> HIDE DEF by, shut
    <2>3. [at |-> look[m].at, epoch |-> Len(baselines), hidden |-> shut, by |-> by] \in Local
      BY <1>1, <2>1
    <2>4. local' \in [Msgs -> Local]
      BY <1>1, <2>2, <2>3
    <2>5. \A x \in Msgs : x # m => local'[x] = local[x] /\ look'[x] = look[x]
      BY <1>1, <1>6, <2>2 DEF CheckStores, Written
    <2> QED BY <1>2, <1>6, <2>4, <2>5 DEF CheckStores, SyncTypeOK, provider, memory
  <1>7. CASE CheckFails(m)
    BY <1>1, <1>2, <1>7 DEF CheckFails, Written, SyncTypeOK, provider, memory
  <1> QED BY <1>3, <1>4, <1>5, <1>6, <1>7 DEF Unfenced

\* What such a step does to its row: it takes back nothing that was done, and whatever a check
\* has read in time has everything that was done.
LEMMA UnfencedRow ==
  ASSUME SyncInv, NEW m \in Msgs, Unfenced(m)
  PROVE  /\ local'[m].at = 0 => local'[m] = local[m]
         /\ local'[m].at # 0 => \E e \in events : e.msg = m /\ e.id = local'[m].at
         /\ local'[m].at # 0 => local[m].at # 0
         /\ local'[m].epoch \in {local[m].epoch, Len(baselines)}
         /\ \/ local'[m] = local[m] \/ local'[m].hidden \/ local'[m].epoch = Len(baselines)
         /\ local'[m].by = "run" => local[m].by = "run" /\ local'[m].at = local[m].at
         /\ local'[m].at >= local[m].at
         /\ LookInv(m)'
  <1>1. SyncTypeOK /\ HistoryInv /\ LocalInv /\ LookInv(m)
    BY DEF SyncInv, LocalInv
  <1>2. /\ Len(baselines) \in Nat /\ local[m].at \in Nat /\ look[m].at \in Nat
        /\ local \in [Msgs -> [at: Nat, epoch: Nat, hidden: BOOLEAN, by: Writers]]
        /\ look \in [Msgs -> [at: Nat, epoch: Nat]]
        /\ \A e \in events : e.id \in Nat /\ e.id >= 1
    BY <1>1, LenProperties, EventTypes DEF SyncTypeOK
  <1>3. ASSUME look'[m] = NoLook PROVE LookInv(m)'
    BY <1>3 DEF LookInv, NoLook
  <1>4. CASE Hide(m)
    <2>1. look'[m] = NoLook /\ local[m].at # 0
      BY <1>2, <1>4 DEF Hide, Written
    <2>2. /\ local'[m].at = local[m].at /\ local'[m].hidden /\ local'[m].by = local[m].by
          /\ local'[m].epoch \in {local[m].epoch, Len(baselines)}
      BY <1>2, <1>4 DEF Hide
    <2> QED BY <1>1, <1>2, <1>3, <2>1, <2>2 DEF LocalInv
  <1>5. CASE Move(m)
    <2>1. look'[m] = NoLook /\ local[m].at # 0
      BY <1>2, <1>5 DEF Move, Written
    <2>2. /\ local'[m].at = local[m].at /\ local'[m].by = "app"
          /\ local'[m].epoch = Len(baselines)
      BY <1>2, <1>5 DEF Move
    <2> QED BY <1>1, <1>2, <1>3, <2>1, <2>2 DEF LocalInv
  <1>6. CASE CheckReads(m)
    <2>1. local' = local /\ local[m].hidden /\ UNCHANGED <<events, baselines>>
      BY <1>6 DEF CheckReads, provider
    <2>2. local[m].at # 0
      BY <1>1, <2>1 DEF LocalInv, NoRow
    <2>3. PICK e \in events : e.msg = m /\ e.id = local[m].at
      BY <1>1, <2>2 DEF LocalInv
    <2>4. /\ LastChange(m) \in Nat /\ LastChange(m) >= local[m].at
          /\ \E f \in events : f.msg = m /\ f.id = LastChange(m)
      BY <1>1, <1>2, <2>3, LastChangeIsLast DEF Exists
    <2>5. look'[m].at = LastChange(m) /\ look'[m].epoch = Len(baselines)
      BY <1>2, <1>6 DEF CheckReads
    <2>6. LookInv(m)'
      BY <1>2, <2>1, <2>4, <2>5 DEF LookInv
    <2> QED BY <1>1, <1>2, <2>1, <2>2, <2>6 DEF LocalInv
  <1>7. CASE CheckStores(m)
    <2>1. /\ local[m].hidden /\ look[m].at >= local[m].at
          /\ \E e \in events : e.msg = m /\ e.id = look[m].at
      BY <1>1, <1>7 DEF CheckStores, LookInv
    <2>2. look'[m] = NoLook
      BY <1>2, <1>7 DEF CheckStores, Written
    <2>3. /\ local'[m].at = look[m].at /\ local'[m].epoch = Len(baselines)
          /\ local'[m].by # "run"
      BY <1>2, <1>7 DEF CheckStores
    <2>4. local[m].at # 0 /\ look[m].at # 0
      BY <1>1, <1>2, <2>1 DEF LocalInv, NoRow
    <2> QED BY <1>2, <1>3, <2>1, <2>2, <2>3, <2>4
  <1>8. CASE CheckFails(m)
    <2>1. look'[m] = NoLook /\ local' = local
      BY <1>2, <1>8 DEF CheckFails, Written
    <2> QED BY <1>1, <1>2, <1>3, <2>1 DEF LocalInv
  <1> QED BY <1>4, <1>5, <1>6, <1>7, <1>8 DEF Unfenced

LEMMA UnfencedDone ==
  ASSUME SyncInv, NEW m \in Msgs, Unfenced(m), NEW e \in events
  PROVE  /\ Done(e) => Done(e)'
         /\ LookTells(e) => /\ LookTells(e)'
                            /\ Applies(e)' \/ local'[e.msg] = local[e.msg]
  <1>1. /\ SyncTypeOK /\ HistoryInv /\ LocalInv /\ LookInv(m)
        /\ e.msg \in Msgs /\ e.id \in Nat
    BY EventTypes DEF SyncInv, LocalInv
  <1>2. /\ UNCHANGED <<events, baselines>>
        /\ \A x \in Msgs : x # m => local'[x] = local[x] /\ look'[x] = look[x]
    BY <1>1, UnfencedTypes
  <1>3. /\ Len(baselines) \in Nat /\ local[m].at \in Nat /\ look[m].at \in Nat
        /\ local \in [Msgs -> [at: Nat, epoch: Nat, hidden: BOOLEAN, by: Writers]]
        /\ look \in [Msgs -> [at: Nat, epoch: Nat]]
    BY <1>1, LenProperties DEF SyncTypeOK
  <1>4. CASE e.msg # m
    BY <1>1, <1>2, <1>4 DEF Done, LookTells, Applies, InRow, Deleted
  <1>5. ASSUME e.msg = m, look'[m] = NoLook PROVE LookTells(e)'
    BY <1>5 DEF LookTells
  <1>6. CASE e.msg = m /\ (Hide(m) \/ Move(m))
    <2>1. look'[m] = NoLook /\ (local'[m].hidden \/ local'[m].by = "app")
      BY <1>3, <1>6 DEF Hide, Move, Written
    <2>2. Applies(e)'
      BY <1>6, <2>1 DEF Applies
    <2> QED BY <1>5, <1>6, <2>1, <2>2 DEF Done
  <1>7. CASE e.msg = m /\ CheckReads(m)
    <2>1. /\ local' = local /\ ~Deleted(m)
          /\ look'[m].at = LastChange(m)
      BY <1>3, <1>7 DEF CheckReads
    <2>2. e.kind # "delete" /\ LastChange(m) \in Nat /\ LastChange(m) >= e.id
      BY <1>1, <1>7, <2>1, LastChangeIsLast DEF Deleted, Exists
    <2>3. LookTells(e)'
      BY <1>7, <2>1, <2>2 DEF LookTells
    <2>4. Applies(e) => Applies(e)'
      BY <1>2, <2>1 DEF Applies, InRow, Deleted
    <2> QED BY <1>7, <2>1, <2>3, <2>4 DEF Done
  <1>8. CASE e.msg = m /\ CheckStores(m)
    <2>1. look'[m] = NoLook
      BY <1>3, <1>8 DEF CheckStores, Written
    <2>2. /\ local'[m].at = look[m].at
          /\ look[m].epoch # Len(baselines) => local'[m].by = "late"
      BY <1>3, <1>8 DEF CheckStores
    <2>3. LookTells(e) => Applies(e)'
      <3>1. look[m] # NoLook
        BY <1>8 DEF CheckStores
      <3> QED BY <1>2, <1>8, <2>2, <3>1 DEF LookTells, Applies, InRow, Deleted
    <2> QED BY <1>5, <1>8, <2>1, <2>3 DEF Done
  <1>9. CASE e.msg = m /\ CheckFails(m)
    <2>1. look'[m] = NoLook /\ local' = local
      BY <1>3, <1>9 DEF CheckFails, Written
    <2>2. Applies(e) => Applies(e)'
      BY <1>2, <2>1 DEF Applies, InRow, Deleted
    <2> QED BY <1>5, <1>9, <2>1, <2>2 DEF Done
  <1> QED BY <1>4, <1>6, <1>7, <1>8, <1>9 DEF Unfenced

\* What a listing had still to bring before such a step, it has still to bring after it.
StaysKept(s, threads) ==
  /\ \A m \in Msgs : local'[m].at # 0 /\ local'[m].epoch < s.base =>
       \/ Deleted(m) \/ m \in s.left \/ m \in baselines[s.base].seen
       \/ \E h \in threads : h[1] = m
  /\ \A e \in events : e.id <= s.start /\ e.kind = "delete" =>
       /\ LookTells(e)'
       /\ Applies(e)' \/ (local'[e.msg].epoch < s.base /\ e.msg \notin baselines[s.base].seen)
  /\ \A e \in events : e.id <= s.start /\ e.kind # "delete" =>
       Done(e)' \/ e.msg \in s.left \/ \E h \in threads : h[1] = e.msg /\ h[2] >= e.id

LEMMA UnfencedStep ==
  ASSUME SyncInv, NEW m \in Msgs, Unfenced(m)
  PROVE  SyncInv'
  <1>1. /\ SyncTypeOK /\ HistoryInv /\ LocalInv /\ RowInv /\ Distinct
        /\ \A q \in Runs : RunBounds(q) /\ (Fenced(q) => RunWork(q))
    BY DEF SyncInv, RunInv
  <1>2. /\ SyncTypeOK'
        /\ UNCHANGED <<clock, events, requested, mark, row, baselines, stage, memory>>
        /\ \A x \in Msgs : x # m => local'[x] = local[x] /\ look'[x] = look[x]
    BY <1>1, UnfencedTypes
  <1>3. /\ local'[m].at = 0 => local'[m] = local[m]
        /\ local'[m].at # 0 => \E e \in events : e.msg = m /\ e.id = local'[m].at
        /\ local'[m].at # 0 => local[m].at # 0
        /\ local'[m].epoch \in {local[m].epoch, Len(baselines)}
        /\ \/ local'[m] = local[m] \/ local'[m].hidden \/ local'[m].epoch = Len(baselines)
        /\ local'[m].by = "run" => local[m].by = "run" /\ local'[m].at = local[m].at
        /\ LookInv(m)'
    BY UnfencedRow
  <1>4. \A e \in events : /\ e.msg \in Msgs
                          /\ Done(e) => Done(e)'
                          /\ LookTells(e) => LookTells(e)'
                          /\ LookTells(e) => Applies(e)' \/ local'[e.msg] = local[e.msg]
    BY <1>1, UnfencedDone, EventTypes
  <1>5. /\ Len(baselines) \in Nat /\ mark \in Nat /\ DOMAIN baselines = 1..Len(baselines)
        /\ \A x \in Msgs : local[x].epoch \in Nat /\ local[x].epoch <= Len(baselines)
        /\ \A b \in 1..Len(baselines) : baselines[b].seen \subseteq Msgs
    <2>1. baselines \in Seq(Baseline) /\ DOMAIN baselines = 1..Len(baselines)
      BY <1>1, LenProperties DEF SyncTypeOK
    <2>2. \A b \in 1..Len(baselines) : baselines[b] \in Baseline
      BY <2>1, ElementOfSeq
    <2>3. \A b \in 1..Len(baselines) : baselines[b].seen \subseteq Msgs
      BY <2>2 DEF Baseline
    <2>4. \A x \in Msgs : local[x].epoch \in Nat /\ local[x].epoch <= Len(baselines)
      BY <1>1 DEF LocalInv, SyncTypeOK
    <2> QED BY <1>1, <2>1, <2>3, <2>4, LenProperties DEF SyncTypeOK
  <1>6. HistoryInv' /\ Distinct'
    BY <1>1, <1>2 DEF HistoryInv, Distinct, Exists, memory
  <1>7. \A p \in Nat : \A x \in Msgs : p <= Len(baselines) /\ local'[x].at # 0 =>
          /\ local'[x].epoch < p => local[x].at # 0 /\ local[x].epoch < p
          /\ local[x].epoch >= p \/ local[x].hidden => local'[x].epoch >= p \/ local'[x].hidden
    <2>1. ASSUME NEW p \in Nat, NEW x \in Msgs, p <= Len(baselines), local'[x].at # 0
          PROVE  /\ local'[x].epoch < p => local[x].at # 0 /\ local[x].epoch < p
                 /\ local[x].epoch >= p \/ local[x].hidden =>
                      local'[x].epoch >= p \/ local'[x].hidden
      <3>1. CASE x # m
        BY <1>2, <2>1, <3>1
      <3>2. CASE x = m
        BY <1>3, <1>5, <2>1, <3>2
      <3> QED BY <3>1, <3>2
    <2> QED BY <2>1
  <1>8. LocalInv'
    <2>1. \A b \in 1..Len(baselines) : \A x \in baselines[b].seen :
            local'[x].at # 0 => local'[x].epoch >= b \/ local'[x].hidden
      <3>1. ASSUME NEW b \in 1..Len(baselines), NEW x \in baselines[b].seen, local'[x].at # 0
            PROVE  local'[x].epoch >= b \/ local'[x].hidden
        <4>1. x \in Msgs /\ b \in Nat /\ b <= Len(baselines)
          BY <1>5, <3>1
        <4>2. local[x].at # 0
          BY <1>2, <1>3, <3>1, <4>1
        <4>3. local[x].epoch >= b \/ local[x].hidden
          BY <1>1, <1>5, <3>1, <4>2 DEF LocalInv
        <4> QED BY <1>7, <3>1, <4>1, <4>3
      <3> QED BY <3>1
    <2>2. \A x \in Msgs : local'[x].at # 0 => \E e \in events : e.msg = x /\ e.id = local'[x].at
      BY <1>1, <1>2, <1>3 DEF LocalInv
    <2>3. \A x \in Msgs : local'[x].at = 0 => local'[x] = NoRow
      BY <1>1, <1>2, <1>3 DEF LocalInv
    <2>4. \A x \in Msgs : local'[x].epoch <= Len(baselines)
      BY <1>1, <1>2, <1>3, <1>5 DEF LocalInv
    <2>5. ASSUME NEW x \in Msgs PROVE LookInv(x)'
      <3>1. CASE x = m
        BY <1>3, <3>1
      <3>2. CASE x # m
        BY <1>1, <1>2, <3>2 DEF LocalInv, LookInv, NoLook
      <3> QED BY <3>1, <3>2
    <2> QED BY <1>2, <1>5, <2>1, <2>2, <2>3, <2>4, <2>5 DEF LocalInv, NoRow
  <1>9. Renewed => Renewed'
    <2>1. ASSUME Renewed, NEW x \in Msgs, local'[x].at # 0
          PROVE  local'[x].epoch > mark \/ local'[x].hidden
      <3>1. CASE x # m
        BY <1>2, <2>1, <3>1 DEF Renewed
      <3>2. CASE x = m
        BY <1>3, <1>5, <2>1, <3>2 DEF Renewed
      <3> QED BY <3>1, <3>2
    <2> QED BY <1>2, <2>1 DEF Renewed
  <1>10. ASSUME NEW s, s.base \in Nat, s.base <= Len(baselines), NEW threads, Kept(s, threads)
         PROVE  StaysKept(s, threads)
    <2>1. \A x \in Msgs : local'[x].at # 0 /\ local'[x].epoch < s.base =>
            \/ Deleted(x) \/ x \in s.left \/ x \in baselines[s.base].seen
            \/ \E h \in threads : h[1] = x
      BY <1>7, <1>10 DEF Kept
    <2>2. ASSUME NEW e \in events, e.id <= s.start, e.kind = "delete"
          PROVE  /\ LookTells(e)'
                 /\ \/ Applies(e)'
                    \/ local'[e.msg].epoch < s.base /\ e.msg \notin baselines[s.base].seen
      <3>1. /\ LookTells(e)
            /\ \/ Applies(e)
               \/ local[e.msg].epoch < s.base /\ e.msg \notin baselines[s.base].seen
        BY <1>10, <2>2 DEF Kept
      <3>2. Applies(e) => Applies(e)'
        BY <1>4, <3>1 DEF Done
      <3> QED BY <1>4, <3>1, <3>2
    <2>3. \A e \in events : e.id <= s.start /\ e.kind # "delete" =>
            \/ Done(e)' \/ e.msg \in s.left
            \/ \E h \in threads : h[1] = e.msg /\ h[2] >= e.id
      BY <1>4, <1>10 DEF Kept
    <2> QED BY <2>1, <2>2, <2>3 DEF StaysKept
  <1>11. RowInv'
    <2>1. AppliedUpTo(row.cursor)'
      BY <1>1, <1>2, <1>4 DEF RowInv, AppliedUpTo
    <2>2. (Active(row.page.base) => Kept(row.page, {}))'
      <3>1. row.page.base \in Nat /\ row.page.base <= Len(baselines)
        BY <1>1 DEF RowInv, SyncTypeOK, SyncRow, Pages
      <3>2. Active(row.page.base)' => Kept(row.page, {})
        BY <1>1, <1>2 DEF RowInv, Active
      <3>3. Active(row.page.base)' => StaysKept(row.page, {})
        BY <1>10, <3>1, <3>2
      <3> QED BY <1>2, <3>3 DEF Kept, StaysKept, Deleted
    <2> QED BY <1>1, <1>2, <1>9, <2>1, <2>2 DEF RowInv, Requested
  <1>12. ASSUME NEW q \in Runs PROVE RunInv(q)'
    <2>1. /\ RunSame(q) /\ RunBounds(q) /\ Hand(q)' = Hand(q)
          /\ (Fenced(q)' <=> Fenced(q)) /\ (Requested' <=> Requested)
      BY <1>1, <1>2 DEF RunSame, memory, Hand, Fenced, Requested
    <2>2. /\ scan[q].base \in Nat /\ scan[q].base <= Len(baselines)
          /\ Hand(q) \subseteq Msgs \X Nat
      BY <1>1 DEF RunBounds, SyncTypeOK, Pages, Hand
    <2>3. RunBounds(q)'
      BY <1>2, <2>1 DEF RunBounds, RunSame, Active, Deleted, Exists
    <2>4. ASSUME RunWork(q) PROVE RunWork(q)'
      <3>1. (\A h \in Hand(q) : InTime(h, q))'
        <4>1. ASSUME NEW h \in Hand(q), local'[h[1]].by = "run"
              PROVE  local[h[1]].by = "run" /\ local'[h[1]].at = local[h[1]].at
          BY <1>2, <1>3, <2>2, <4>1
        <4> QED BY <1>2, <2>1, <2>4, <4>1 DEF RunWork, InTime, RunSame
      <3>2. (stage[q] \in {"history", "threads"} =>
               row.cursor # NoCursor /\ FeedKept(cursor[q], dels[q], todo[q], Hand(q)))'
        BY <1>2, <1>4, <2>1, <2>4 DEF RunWork, FeedKept, RunSame
      <3>3. (stage[q] = "baseline" /\ Active(scan[q].base) => Kept(scan[q], {}))'
        <4>1. scan[q].base \in Nat /\ scan[q].base <= Len(baselines)
          BY <2>2
        <4>2. stage[q] = "baseline" /\ Active(scan[q].base) => StaysKept(scan[q], {})
          BY <1>10, <2>4, <4>1 DEF RunWork
        <4> QED BY <1>2, <2>1, <4>2 DEF Kept, StaysKept, RunSame, Active, Deleted
      <3>4. (stage[q] = "scan" => Kept(scan[q], Hand(q)))'
        <4>1. scan[q].base \in Nat /\ scan[q].base <= Len(baselines)
          BY <2>2
        <4>2. stage[q] = "scan" => StaysKept(scan[q], Hand(q))
          BY <1>10, <2>4, <4>1 DEF RunWork
        <4> QED BY <1>2, <2>1, <4>2 DEF Kept, StaysKept, RunSame, Deleted
      <3>5. /\ (stage[q] = "scanned" => AppliedUpTo(scan[q].start))'
            /\ (stage[q] = "commit" => AppliedUpTo(cursor[q]))'
        BY <1>2, <1>4, <2>1, <2>4 DEF RunWork, AppliedUpTo, RunSame
      <3>6. /\ (Requested /\ stage[q] = "baseline" /\ scan[q].base # 0 => scan[q].base > mark)'
            /\ (Requested /\ stage[q] \in {"scan", "scanned"} => scan[q].base > mark)'
            /\ (Requested /\ stage[q] \in {"scanned", "commit"} => Renewed)'
        BY <1>2, <1>9, <2>1, <2>4 DEF RunWork, RunSame
      <3> QED BY <3>1, <3>2, <3>3, <3>4, <3>5, <3>6 DEF RunWork
    <2> QED BY <1>1, <2>1, <2>3, <2>4 DEF RunInv
  <1> QED BY <1>2, <1>6, <1>8, <1>11, <1>12 DEF SyncInv

-----------------------------------------------------------------------------
(* The theorems.                                                           *)

LEMMA SyncInvStart == SyncInit => SyncInv
  <1> SUFFICES ASSUME SyncInit PROVE SyncInv
    OBVIOUS
  <1>1. SyncTypeOK
    BY SyncTypeStart
  <1>2. /\ clock = 1 /\ requested = 0 /\ mark = 0 /\ baselines = <<>>
        /\ row.cursor = 0 /\ row.generation = 0 /\ row.live = FALSE /\ row.started = 0
        /\ row.page = NoPage /\ NoPage.base = 0 /\ NoPage.start = 0
        /\ \A m \in Msgs : local[m] = NoRow /\ local[m].at = 0 /\ local[m].epoch = 0
        /\ \A m \in Msgs : look[m] = NoLook
        /\ \A e \in events : e.id = 1 /\ e.msg \in Msgs
    BY DEF SyncInit, NewSyncRow, NoRow, NoPage, NoCursor
  <1>3. \A q \in Runs : /\ stage[q] = "idle" /\ mine[q] = 0 /\ todo[q] = {} /\ dels[q] = {}
                        /\ scan[q] = NoPage /\ held[q] = Nothing
    BY DEF SyncInit
  <1>4. Len(baselines) = 0 /\ DOMAIN baselines = {}
    BY <1>2
  <1>5. HistoryInv
    BY <1>2 DEF HistoryInv, Exists
  <1>6. LocalInv
    BY <1>2, <1>4 DEF LocalInv, LookInv
  <1>7. RowInv
    BY <1>2, <1>4 DEF RowInv, AppliedUpTo, Active, NoCursor
  <1>8. Distinct
    BY <1>3 DEF Distinct
  <1>9. ASSUME NEW q \in Runs PROVE RunInv(q)
    <2>1. Hand(q) = {}
      BY <1>3 DEF Hand
    <2>2. RunBounds(q)
      BY <1>2, <1>3, <1>4, <2>1 DEF RunBounds
    <2>3. ~Fenced(q)
      BY <1>2 DEF Fenced, Held
    <2> QED BY <2>2, <2>3 DEF RunInv
  <1> QED BY <1>1, <1>5, <1>6, <1>7, <1>8, <1>9 DEF SyncInv

LEMMA SyncInvStutter == SyncInv /\ UNCHANGED syncVars => SyncInv'
  <1> SUFFICES ASSUME SyncInv, UNCHANGED syncVars PROVE SyncInv'
    OBVIOUS
  <1>1. UNCHANGED <<provider, stored, stage, memory>>
    BY DEF syncVars
  <1>2. SyncTypeOK'
    BY <1>1 DEF SyncInv, SyncTypeOK, provider, stored, memory
  <1>3. HistoryInv' /\ LocalInv' /\ RowInv'
    BY <1>1, StoreUntouched DEF SyncInv
  <1>4. Distinct'
    BY <1>1 DEF SyncInv, Distinct, memory
  <1>5. \A q \in Runs : RunInv(q)'
    <2>1. \A q \in Runs : RunSame(q) /\ RunInv(q)
      BY <1>1 DEF RunSame, memory, SyncInv
    <2> QED BY <1>1, <2>1, RunUntouched
  <1> QED BY <1>2, <1>3, <1>4, <1>5 DEF SyncInv

LEMMA SyncInvStep == SyncInv /\ [SyncNext]_syncVars => SyncInv'
  <1> SUFFICES ASSUME SyncInv, [SyncNext]_syncVars PROVE SyncInv'
    OBVIOUS
  <1>1. CASE Mailbox
    BY <1>1, ChangeStep DEF Mailbox
  <1>2. CASE RequestReindex
    BY <1>2, RequestStep
  <1>3. CASE LeaseExpires
    BY <1>3, ExpiryStep
  <1>4. ASSUME NEW r \in Runs, RunStep(r) PROVE SyncInv'
    <2>1. CASE Reading(r)
      BY <2>1, ReadingStep
    <2>2. CASE Writing(r)
      BY <2>2, ApplyThreadStep, ApplyDeletionsStep, ApplyListedStep, CheckpointStep,
         ReconcileStep, FinishRunStep DEF Writing
    <2>3. CASE Acquire(r)
      BY <2>3, AcquireStep
    <2>4. CASE OpenBaseline(r)
      BY <2>4, OpenBaselineStep
    <2>5. CASE GiveUp(r) \/ Crash(r)
      BY <2>5, OverStep
    <2> QED BY <1>4, <2>1, <2>2, <2>3, <2>4, <2>5 DEF RunStep, Reading, Writing
  <1>5. CASE UNCHANGED syncVars
    BY <1>5, SyncInvStutter
  <1>6. CASE \E m \in Msgs : Unfenced(m)
    BY <1>6, UnfencedStep
  <1> QED BY <1>1, <1>2, <1>3, <1>4, <1>5, <1>6 DEF SyncNext

\* Whatever the runs, the mailbox and the leases do, each change at the provider that is not in
\* the store yet is in somebody's hands, and only the lease decides whose writes count.
THEOREM SyncInvariant == SyncSpec => []SyncInv
  <1>1. SyncInit => SyncInv
    BY SyncInvStart
  <1>2. SyncInv /\ [SyncNext]_syncVars => SyncInv'
    BY SyncInvStep
  <1> QED BY <1>1, <1>2, PTL DEF SyncSpec

\* Type correctness of the synchronization.
THEOREM SyncTypes == SyncSpec => []SyncTypeOK
  <1>1. SyncInv => SyncTypeOK
    BY DEF SyncInv
  <1> QED BY <1>1, SyncInvariant, PTL

\* The stored cursor passes over no change that the store does not show.
THEOREM CursorSkipsNothing == SyncSpec => []NothingSkipped
  <1>1. SyncInv => NothingSkipped
    BY DEF SyncInv, RowInv, AppliedUpTo, NothingSkipped, Done
  <1> QED BY <1>1, SyncInvariant, PTL

\* An index is shown as ready only when every row was read anew after the last request.
THEOREM ReadyWasEarned == SyncSpec => []ReadyIsEarned
  <1>1. SyncInv => ReadyIsEarned
    <2> SUFFICES ASSUME SyncInv, IndexReady(row, NoPage, requested), requested > 0
                 PROVE  \A m \in Msgs :
                          local[m].at # 0 => local[m].epoch > mark \/ local[m].hidden
      BY DEF ReadyIsEarned
    <2>1. row.started \in Nat /\ requested \in Nat
      BY DEF SyncInv, SyncTypeOK, SyncRow
    <2>2. Requested /\ row.cursor # NoCursor
      BY <2>1 DEF SyncInv, RowInv, IndexReady, Requested
    <2> QED BY <2>2 DEF SyncInv, RowInv, Renewed
  <1> QED BY <1>1, SyncInvariant, PTL

\* A step never makes a message's row older, unless a check has stored it and the stored cursor
\* has not come so far, and lets it go only when the message is deleted.
LEMMA StepNotBackwards ==
  ASSUME SyncInv, [SyncNext]_syncVars, NEW m \in Msgs
  PROVE  \/ local'[m].at >= local[m].at \/ (local'[m].at = 0 /\ Deleted(m))
         \/ Overwritten(m)
  <1>1. SyncTypeOK /\ local[m].at \in Nat
    BY DEF SyncInv, SyncTypeOK
  <1>2. CASE local' = local
    BY <1>1, <1>2
  <1>3. ASSUME NEW r \in Runs, ApplyThread(r) \/ ApplyListed(r)
        PROVE  local'[m].at >= local[m].at \/ Overwritten(m)
    <2>1. /\ Fenced(r) /\ held[r] # Nothing /\ local' = Applied(held[r])
          /\ Written({held[r][1]})
      BY <1>3 DEF ApplyThread, ApplyListed
    <2>2. /\ held[r] \in Msgs \X Nat /\ InTime(held[r], r) /\ LocalInv
          /\ row.cursor \in Nat
      BY <2>1 DEF SyncInv, SyncTypeOK, SyncRow, RunInv, RunWork, Hand
    <2>3. /\ \A x \in Msgs : x # held[r][1] => local'[x] = local[x]
          /\ \/ local'[held[r][1]] = local[held[r][1]]
             \/ local'[held[r][1]].at = held[r][2]
      BY <1>1, <2>1, <2>2, AppliedRow
    <2>4. CASE m = held[r][1] /\ held[r][2] < local[m].at
      <3>1. local[m].by # "run" /\ local[m].at # 0
        BY <1>1, <2>2, <2>4 DEF InTime
      <3>2. PICK e \in events : e.msg = m /\ e.id = local[m].at
        BY <2>2, <3>1 DEF LocalInv
      <3>3. local[m].at > row.cursor
        BY <1>1, <2>2, <2>4, <3>2 DEF InTime
      <3> QED BY <3>1, <3>3 DEF Overwritten
    <2> QED BY <1>1, <2>2, <2>3, <2>4
  <1>4. ASSUME NEW r \in Runs, ApplyDeletions(r)
        PROVE  local'[m] = local[m] \/ (local'[m].at = 0 /\ Deleted(m))
    BY <1>4 DEF ApplyDeletions, SyncInv, RunInv, RunBounds, NoRow
  <1>5. ASSUME NEW r \in Runs, Reconcile(r)
        PROVE  local'[m] = local[m] \/ (local'[m].at = 0 /\ (Deleted(m) \/ local[m].at = 0))
    <2>1. /\ stage[r] = "scan" /\ Hand(r) = {} /\ RunWork(r)
          /\ \A x \in scan[r].left : Deleted(x)
      BY <1>5 DEF Reconcile, Hand, SyncInv, RunInv, ListingOver
    <2>2. Kept(scan[r], {})
      BY <2>1 DEF RunWork
    <2>3. local'[m] = IF Unlisted(r, m) THEN NoRow ELSE local[m]
      BY <1>5 DEF Reconcile
    <2> QED BY <2>1, <2>2, <2>3 DEF Kept, Unlisted, NoRow
  <1>6. ASSUME NEW r \in Runs, RunStep(r)
        PROVE  \/ local' = local
               \/ ApplyThread(r) \/ ApplyListed(r) \/ ApplyDeletions(r) \/ Reconcile(r)
    BY <1>6 DEF RunStep, Acquire, ReadState, NextPage, LastPage, Page, CursorExpires,
       FetchThread, ScanThread, ResumeBaseline, ReadProfile, OpenBaseline, PauseBaseline,
       SaveBaseline, CommitCursor, FinishRun, GiveUp, Crash, stored
  <1>7. CASE Mailbox \/ RequestReindex \/ LeaseExpires \/ UNCHANGED syncVars
    <2>1. local' = local
      BY <1>7 DEF Mailbox, MailboxChanges, RequestReindex, LeaseExpires, syncVars, stored
    <2> QED BY <1>2, <2>1
  <1>8. ASSUME NEW r \in Runs, RunStep(r)
        PROVE  \/ local'[m].at >= local[m].at \/ (local'[m].at = 0 /\ Deleted(m))
               \/ Overwritten(m)
    BY <1>1, <1>2, <1>3, <1>4, <1>5, <1>6, <1>8
  <1>9. ASSUME NEW x \in Msgs, Unfenced(x) PROVE local'[m].at >= local[m].at
    <2>1. CASE m = x
      BY <1>9, <2>1, UnfencedRow
    <2>2. CASE m # x
      BY <1>1, <1>9, <2>2, UnfencedTypes DEF SyncInv
    <2> QED BY <2>1, <2>2
  <1> QED BY <1>7, <1>8, <1>9 DEF SyncNext

\* The rows of messages never go back, whichever run writes them.
THEOREM RowsNeverGoBack == SyncSpec => NeverBackwards
  <1>1. SyncInv /\ [SyncNext]_syncVars =>
          [\A m \in Msgs : \/ local'[m].at >= local[m].at
                           \/ local'[m].at = 0 /\ Deleted(m)
                           \/ Overwritten(m)]_syncVars
    BY StepNotBackwards
  <1> QED BY <1>1, SyncInvariant, PTL DEF SyncSpec, NeverBackwards

-----------------------------------------------------------------------------
(* The stored cursor.                                                      *)

Feeding == {"history", "threads", "commit"}

\* Whoever may store a position has it from the stored one onwards.
CursorAhead == \A r \in Runs : Fenced(r) /\ stage[r] \in Feeding => cursor[r] >= row.cursor

\* A run that stands still stays ahead while nobody moves the stored cursor.
LEMMA StillAhead ==
  ASSUME CursorAhead, NEW q \in Runs, RunSame(q), row'.cursor = row.cursor,
         row'.generation = row.generation, row'.live => row.live
  PROVE  Fenced(q)' /\ stage'[q] \in Feeding => cursor'[q] >= row'.cursor
  BY DEF CursorAhead, RunSame, Fenced, Held

LEMMA ReadingAhead ==
  ASSUME SyncInv, CursorAhead, NEW r \in Runs, Reading(r)
  PROVE  CursorAhead' /\ row' = row
  <1>a. SyncTypeOK
    BY DEF SyncInv
  <1>b. row.cursor \in Nat /\ cursor[r] \in Nat
    BY <1>a DEF SyncTypeOK, SyncRow
  <1>c. (\A q \in Runs \ {r} : RunSame(q)) /\ row' = row /\ mine' = mine
    BY <1>a, OthersReading DEF stored
  <1>1. /\ SyncTypeOK /\ (\A q \in Runs \ {r} : RunSame(q)) /\ row' = row /\ mine' = mine
        /\ row.cursor \in Nat /\ cursor[r] \in Nat
    BY <1>a, <1>b, <1>c
  <1>2. ASSUME Fenced(r)', stage'[r] \in Feeding PROVE cursor'[r] >= row'.cursor
    <2>1. Fenced(r)
      BY <1>1, <1>2 DEF Fenced
    <2>2. CASE ReadState(r)
      BY <1>1, <2>2 DEF ReadState, SyncTypeOK
    <2>3. ASSUME NEW to \in Nat, NEW where, to >= cursor[r], Page(r, to, where)
          PROVE  cursor'[r] >= row'.cursor
      <3>1. stage[r] = "history" /\ cursor'[r] = to
        BY <1>1, <2>3 DEF Page, SyncTypeOK
      <3>2. cursor[r] >= row.cursor
        BY <2>1, <3>1 DEF CursorAhead, Feeding
      <3> QED BY <1>1, <2>3, <3>1, <3>2
    <2>4. CASE NextPage(r) \/ LastPage(r)
      <3>1. clock \in Nat /\ cursor[r] <= clock
        BY <1>1 DEF SyncTypeOK
      <3>2. \A to \in cursor[r]..(clock - 1) : to \in Nat /\ to >= cursor[r]
        BY <1>1, <3>1
      <3> QED BY <2>3, <2>4, <3>1, <3>2 DEF NextPage, LastPage
    <2>5. CASE CursorExpires(r) \/ ResumeBaseline(r) \/ ReadProfile(r)
      BY <1>1, <1>2, <2>5 DEF CursorExpires, ResumeBaseline, ReadProfile, Goto, Feeding, SyncTypeOK
    <2>6. CASE \E m \in Msgs : FetchThread(r, m) \/ ScanThread(r, m)
      BY <1>1, <1>2, <2>1, <2>6 DEF FetchThread, ScanThread, CursorAhead
    <2> QED BY <1>2, <2>2, <2>4, <2>5, <2>6, Reading(r) DEF Reading
  <1>3. ASSUME NEW q \in Runs \ {r}, Fenced(q)', stage'[q] \in Feeding
        PROVE  cursor'[q] >= row'.cursor
    BY <1>1, <1>3, StillAhead
  <1> QED BY <1>1, <1>2, <1>3 DEF CursorAhead

LEMMA WritingAhead ==
  ASSUME SyncInv, CursorAhead, NEW r \in Runs, Writing(r)
  PROVE  CursorAhead' /\ (row'.cursor >= row.cursor \/ row'.cursor = NoCursor)
  <1>a. SyncTypeOK /\ RowInv /\ Distinct
    BY DEF SyncInv
  <1>b. /\ row \in SyncRow(Pages) /\ row.cursor \in Nat /\ cursor[r] \in Nat
        /\ scan[r] \in Pages /\ requested \in Nat
    BY <1>a DEF SyncTypeOK, SyncRow
  <1>c. NoPage \in Pages /\ NoCursor \in Nat
    BY DEF NoPage, Pages, NoCursor
  <1>d. Fenced(r) /\ mine' = mine
    BY <1>a, OthersWriting
  <1>e. \A q \in Runs \ {r} : ~Fenced(q)
    BY <1>a, <1>d, OneIsFenced
  <1>1. /\ SyncTypeOK /\ Fenced(r) /\ mine' = mine
        /\ row.cursor \in Nat /\ cursor[r] \in Nat
        /\ \A q \in Runs \ {r} : ~Fenced(q)
    BY <1>a, <1>b, <1>d, <1>e
  <1>f. ASSUME NEW to \in Nat, NEW page \in Pages, row' = Checkpointed(row, to, page)
        PROVE  row'.cursor = to /\ row'.generation = row.generation /\ row'.live = row.live
    BY <1>f DEF Checkpointed
  <1>g. ASSUME FinishRun(r)
        PROVE  /\ row'.cursor = row.cursor /\ row'.generation = row.generation
               /\ row'.live = row.live
    <2>1. row \in SyncRow(Pages) /\ requested \in Nat
      BY <1>b
    <2>2. row' = Completed(row, requested)
      BY <1>g DEF FinishRun
    <2> QED BY <2>1, <2>2, CompletedRow
  <1>2. CASE ApplyThread(r) \/ ApplyDeletions(r) \/ ApplyListed(r) \/ Reconcile(r)
    <2>1. row' = row /\ cursor' = cursor
      BY <1>2 DEF ApplyThread, ApplyDeletions, ApplyListed, Reconcile, memory
    <2>2. stage'[r] \in Feeding => stage[r] \in Feeding
      BY <1>1, <1>2 DEF ApplyThread, ApplyDeletions, ApplyListed, Reconcile, Goto, Feeding,
                        SyncTypeOK
    <2>3. \A q \in Runs : Fenced(q)' => q = r
      BY <1>1, <2>1 DEF Fenced
    <2> QED BY <1>1, <2>1, <2>2, <2>3 DEF CursorAhead
  <1>3. CASE PauseBaseline(r) \/ SaveBaseline(r) \/ CommitCursor(r) \/ FinishRun(r)
    <2>1. row'.generation = row.generation /\ row'.live = row.live
      BY <1>3, <1>b, <1>c, <1>f, <1>g DEF PauseBaseline, SaveBaseline, CommitCursor
    <2>2. \A q \in Runs : Fenced(q)' => q = r
      BY <1>1, <2>1 DEF Fenced, Held
    <2>3. CASE PauseBaseline(r) \/ SaveBaseline(r)
      <3>1. row'.cursor = NoCursor
        BY <2>3, <1>b, <1>c, <1>f DEF PauseBaseline, SaveBaseline
      <3>2. cursor'[r] \in Nat
        BY <1>1, <2>3 DEF PauseBaseline, SaveBaseline, memory, SyncTypeOK, Pages
      <3> QED BY <2>2, <3>1, <3>2 DEF CursorAhead, NoCursor
    <2>4. CASE CommitCursor(r)
      <3>1. row'.cursor = cursor[r] /\ cursor[r] >= row.cursor
        BY <2>4, <1>b, <1>c, <1>f DEF CommitCursor, CursorAhead, Feeding
      <3>2. stage'[r] \notin Feeding
        BY <1>1, <2>4 DEF CommitCursor, Goto, Feeding, SyncTypeOK
      <3> QED BY <2>2, <3>1, <3>2 DEF CursorAhead
    <2>5. CASE FinishRun(r)
      <3>1. row'.cursor = row.cursor
        BY <2>5, <1>g
      <3>2. stage'[r] \notin Feeding
        BY <1>1, <2>5 DEF FinishRun, Goto, Feeding, SyncTypeOK
      <3> QED BY <1>1, <2>2, <3>1, <3>2 DEF CursorAhead
    <2> QED BY <1>3, <2>3, <2>4, <2>5
  <1> QED BY <1>2, <1>3 DEF Writing

LEMMA LeaseAhead ==
  ASSUME SyncInv, CursorAhead, NEW r \in Runs,
         Acquire(r) \/ OpenBaseline(r) \/ GiveUp(r) \/ Crash(r) \/ LeaseExpires
  PROVE  CursorAhead' /\ (row'.cursor >= row.cursor \/ row'.cursor = NoCursor)
  <1>1. /\ SyncTypeOK /\ row \in SyncRow(Pages) /\ row.cursor \in Nat /\ row.generation \in Nat
        /\ \A q \in Runs : mine[q] \in Nat /\ mine[q] <= row.generation
    BY DEF SyncInv, SyncTypeOK, SyncRow, RunInv, RunBounds
  <1>2. CASE Acquire(r)
    <2>1. /\ row'.generation = row.generation + 1
          /\ row'.cursor = row.cursor \/ row'.cursor = NoCursor
      BY <1>2, AcquiredRow DEF Acquire
    <2>2. stage'[r] = "leased" /\ \A q \in Runs \ {r} : mine'[q] = mine[q]
      BY <1>1, <1>2 DEF Acquire, Goto, SyncTypeOK
    <2>3. \A q \in Runs \ {r} : ~Fenced(q)'
      BY <1>1, <2>1, <2>2 DEF Fenced, Held
    <2> QED BY <1>1, <2>1, <2>2, <2>3 DEF CursorAhead, Feeding
  <1>3. CASE LeaseExpires
    <2>1. row'.cursor = row.cursor /\ row'.live = FALSE
      BY <1>1, <1>3, ExpiredRow DEF LeaseExpires
    <2> QED BY <1>1, <2>1 DEF CursorAhead, Fenced, Held
  <1>4. CASE OpenBaseline(r) \/ GiveUp(r) \/ Crash(r)
    <2>1. /\ row'.cursor = row.cursor /\ row'.generation = row.generation
          /\ row'.live => row.live
      BY <1>1, <1>4, GivenUpRow DEF OpenBaseline, GiveUp, Crash, stored
    <2>2. stage'[r] \notin Feeding /\ \A q \in Runs \ {r} : RunSame(q)
      BY <1>1, <1>4, SMTT(30) DEF OpenBaseline, GiveUp, Crash, Over, Goto, Feeding, RunSame, SyncTypeOK
    <2>3. \A q \in Runs \ {r} : Fenced(q)' /\ stage'[q] \in Feeding => cursor'[q] >= row'.cursor
      BY <2>1, <2>2, StillAhead
    <2> QED BY <1>1, <2>1, <2>2, <2>3 DEF CursorAhead
  <1> QED BY <1>2, <1>3, <1>4

LEMMA CursorStep ==
  ASSUME SyncInv, CursorAhead, [SyncNext]_syncVars
  PROVE  CursorAhead' /\ (row'.cursor >= row.cursor \/ row'.cursor = NoCursor)
  <1>1. row.cursor \in Nat
    BY DEF SyncInv, SyncTypeOK, SyncRow
  <1>2. CASE Mailbox \/ RequestReindex \/ UNCHANGED syncVars \/ \E m \in Msgs : Unfenced(m)
    <2>1. row' = row /\ cursor' = cursor /\ stage' = stage /\ mine' = mine
      BY <1>2 DEF Mailbox, MailboxChanges, RequestReindex, syncVars, stored, memory,
                  Unfenced, Hide, Move, CheckReads, CheckStores, CheckFails
    <2> QED BY <1>1, <2>1 DEF CursorAhead, Fenced
  <1>3. CASE LeaseExpires
    <2>1. CASE Runs = {}
      <3>1. row'.cursor = row.cursor
        BY <1>3, ExpiredRow DEF LeaseExpires, SyncInv, SyncTypeOK
      <3> QED BY <1>1, <2>1, <3>1 DEF CursorAhead
    <2>2. CASE Runs # {}
      BY <1>3, <2>2, LeaseAhead
    <2> QED BY <2>1, <2>2
  <1>4. ASSUME NEW r \in Runs, RunStep(r)
        PROVE  CursorAhead' /\ (row'.cursor >= row.cursor \/ row'.cursor = NoCursor)
    <2>1. CASE Reading(r)
      BY <1>1, <2>1, ReadingAhead
    <2>2. CASE Writing(r)
      BY <2>2, WritingAhead
    <2>3. CASE Acquire(r) \/ OpenBaseline(r) \/ GiveUp(r) \/ Crash(r)
      BY <2>3, LeaseAhead
    <2> QED BY <1>4, <2>1, <2>2, <2>3 DEF RunStep, Reading, Writing
  <1> QED BY <1>2, <1>3, <1>4 DEF SyncNext

\* The stored cursor never goes back: it is given up for a new listing, or moves on.  A run that
\* was overtaken stores nothing, and whoever stores has read the cursor under the same lease.
THEOREM CursorNeverGoesBack == SyncSpec => CursorAdvances
  <1>1. SyncInit => CursorAhead
    BY DEF SyncInit, CursorAhead, Feeding
  <1>2. SyncInv /\ CursorAhead /\ [SyncNext]_syncVars =>
          CursorAhead' /\ [row'.cursor >= row.cursor \/ row'.cursor = NoCursor]_syncVars
    BY CursorStep
  <1> QED BY <1>1, <1>2, SyncInvariant, PTL DEF SyncSpec, CursorAdvances

-----------------------------------------------------------------------------
(* The synchronization beside the flag, as TLC runs them: each step is one  *)
(* of a part and leaves the other alone.                                    *)

\* A behaviour of the run is one of each part, so the theorems about the parts hold of it.
THEOREM MailSyncIsItsParts == MailSyncSpec => SyncSpec /\ FlagSpec
  <1>1. MailSyncInit => SyncInit /\ FlagInit
    BY DEF MailSyncInit
  <1>2. [MailSyncNext]_mailSyncVars => [SyncNext]_syncVars /\ [FlagNext]_flagVars
    BY DEF MailSyncNext, mailSyncVars
  <1> QED BY <1>1, <1>2, PTL DEF MailSyncSpec, SyncSpec, FlagSpec

\* Types of the synchronization and of the flag.
THEOREM MailSyncTypes == MailSyncSpec => []MailSyncTypeOK
  <1>1. SyncTypeOK /\ FlagTypeOK => MailSyncTypeOK
    BY DEF MailSyncTypeOK
  <1> QED BY <1>1, MailSyncIsItsParts, SyncTypes, FlagTypeCorrect, PTL
=============================================================================

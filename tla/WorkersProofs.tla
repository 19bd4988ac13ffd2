---------------------------- MODULE WorkersProofs ----------------------------
(*****************************************************************************)
(* What the smaller workers keep, each of them in a part of its own: the     *)
(* synchronization hints, the keyed serializer, and the connection of an     *)
(* account, which queues its updates in the serializer.                      *)
(*****************************************************************************)
EXTENDS MCWorkers, MailFlagStateProofs, CalendarInvitationsProofs, SequenceTheorems, TLAPS

-----------------------------------------------------------------------------
(*****************************************************************************)
(* The hints, for any passes of the worker and any numbers of notifications  *)
(* and failures.  The types hold always; the rest until a claim grows old    *)
(* under a pass that is still at work, which is remembered in outlived.      *)
(*****************************************************************************)

Working(d) == work[d] # "idle"

\* Whoever is at work has claimed the row there is, and nobody else has.
HolderInv ==
  \A d \in Drainers : Working(d) =>
    /\ id[d] = hint.id /\ hint.exists /\ hint.claimed /\ ~hint.old
    /\ \A e \in Drainers : Working(e) => d = e

\* Without a newer notification, its synchronization began after all of them.
CoverInv ==
  \A d \in Drainers :
    /\ work[d] \in {"syncing", "done"} /\ ~hint.newer => since[d] = notes
    /\ work[d] = "done" => since[d] <= covered

\* So it is while no claim has been outlived.
HoldsAlone == HolderInv /\ CoverInv /\ NothingForgotten
Alone == HintTypeOK /\ HoldsAlone

HintInv == HintTypeOK /\ (~outlived => HoldsAlone)

-----------------------------------------------------------------------------
LEMMA HintInitInv == HintInit => Alone
  <1> SUFFICES ASSUME HintInit PROVE Alone
    OBVIOUS
  <1>1. HintTypeOK
    <2>1. hint \in Hints
      BY DEF HintInit, Hints
    <2>2. notes = 0 /\ covered = 0 /\ hint.id = 0 /\ upsets = 0 /\ outlived \in BOOLEAN
      BY DEF HintInit
    <2>3. 0 \in 0..LastNote /\ 0 \in 0..LastUpset /\ 0 \in 0..0 /\ 0 <= 0
      BY HintAssumption
    <2>4. /\ work \in [Drainers -> {"idle", "claimed", "syncing", "done", "kept", "failed"}]
          /\ id \in [Drainers -> 0..0] /\ since \in [Drainers -> 0..0]
      BY <2>3 DEF HintInit
    <2> QED BY <2>1, <2>2, <2>3, <2>4 DEF HintTypeOK
  <1>2. HolderInv /\ CoverInv /\ NothingForgotten
    BY DEF HintInit, HolderInv, CoverInv, NothingForgotten, Working
  <1> QED BY <1>1, <1>2 DEF Alone, HoldsAlone

LEMMA HintFields ==
  ASSUME HintTypeOK
  PROVE  /\ hint.id \in Nat /\ hint.exists \in BOOLEAN /\ hint.claimed \in BOOLEAN
         /\ hint.old \in BOOLEAN /\ hint.newer \in BOOLEAN /\ hint.id <= notes
         /\ notes \in Nat /\ covered \in Nat /\ covered <= notes
         /\ \A d \in Drainers : since[d] \in Nat /\ since[d] <= notes /\ id[d] \in Nat
  BY HintAssumption DEF HintTypeOK, Hints

-----------------------------------------------------------------------------
(* Types.                                                                  *)

LEMMA NotifyType == HintTypeOK /\ Notify => HintTypeOK'
  <1> SUFFICES ASSUME HintTypeOK, Notify PROVE HintTypeOK'
    OBVIOUS
  <1>1. /\ notes' = notes + 1 /\ notes' \in 0..LastNote /\ notes \in Nat
        /\ UNCHANGED <<covered, work, id, since, upsets>>
    BY HintAssumption DEF Notify, HintTypeOK
  <1>2. hint' \in Hints /\ hint'.id <= notes' /\ hint.id <= hint'.id /\ hint.id \in Nat
    <2>1. CASE hint.exists
      <3>1. hint' = [hint EXCEPT !.newer = TRUE]
        BY <2>1 DEF Notify
      <3>2. hint' \in Hints /\ hint'.id = hint.id
        BY <3>1, HintFields DEF HintTypeOK, Hints
      <3> QED BY <1>1, <3>2, HintFields
    <2>2. CASE ~hint.exists
      BY <1>1, <2>2, HintFields DEF Notify, Hints
    <2> QED BY <2>1, <2>2
  <1>3. covered' \in 0..notes' /\ 0..notes \subseteq 0..notes' /\ 0..hint.id \subseteq 0..hint'.id
    BY <1>1, <1>2, HintFields DEF Hints
  <1>4. id' \in [Drainers -> 0..hint'.id] /\ since' \in [Drainers -> 0..notes']
    BY <1>1, <1>3 DEF HintTypeOK
  <1>5. outlived' \in BOOLEAN
    BY DEF Notify
  <1> QED BY <1>1, <1>2, <1>3, <1>4, <1>5 DEF HintTypeOK

LEMMA RowMoves ==
  ASSUME HintTypeOK, hint' \in Hints, hint'.id = hint.id, UNCHANGED <<notes, covered>>, outlived' \in BOOLEAN,
         work' \in [Drainers -> {"idle", "claimed", "syncing", "done", "kept", "failed"}],
         id' \in [Drainers -> 0..hint.id], since' \in [Drainers -> 0..notes],
         upsets' \in 0..LastUpset
  PROVE  HintTypeOK'
  BY DEF HintTypeOK

LEMMA RestsType ==
  ASSUME HintTypeOK, NEW d \in Drainers, Rests(d)
  PROVE  /\ work' \in [Drainers -> {"idle", "claimed", "syncing", "done", "kept", "failed"}]
         /\ id' \in [Drainers -> 0..hint.id] /\ since' \in [Drainers -> 0..notes]
  <1>1. 0 \in 0..hint.id /\ 0 \in 0..notes
    BY HintFields
  <1> QED BY <1>1 DEF HintTypeOK, Rests

LEMMA HintTypeStep == HintTypeOK /\ [HintNext]_hintVars => HintTypeOK'
  <1> SUFFICES ASSUME HintTypeOK, [HintNext]_hintVars PROVE HintTypeOK'
    OBVIOUS
  <1> USE HintAssumption
  <1>1. CASE Notify
    BY <1>1, NotifyType
  <1>2. CASE ClaimGrowsOld
    <2>1. hint' = [hint EXCEPT !.old = TRUE]
      BY <1>2 DEF ClaimGrowsOld
    <2>2. hint' \in Hints /\ hint'.id = hint.id
      BY <2>1, HintFields DEF HintTypeOK, Hints
    <2> QED BY <1>2, <2>2 DEF ClaimGrowsOld, HintTypeOK
  <1>3. ASSUME NEW d \in Drainers, ClaimHint(d) PROVE HintTypeOK'
    <2>1. hint' \in Hints /\ hint'.id = hint.id
      BY <1>3, HintFields DEF ClaimHint, Hints
    <2>2. hint.id \in 0..hint.id
      BY HintFields
    <2> QED BY <1>3, <2>1, <2>2 DEF ClaimHint, HintTypeOK
  <1>4. ASSUME NEW d \in Drainers, BeginSync(d) PROVE HintTypeOK'
    <2>1. notes \in 0..notes
      BY HintFields
    <2> QED BY <1>4, <2>1 DEF BeginSync, HintTypeOK
  <1>5. ASSUME NEW d \in Drainers, SyncReturns(d) PROVE HintTypeOK'
    <2>1. covered' \in 0..notes
      BY <1>5, HintFields DEF SyncReturns, HintTypeOK
    <2> QED BY <1>5, <2>1 DEF SyncReturns, HintTypeOK
  <1>6. ASSUME NEW d \in Drainers, SyncThrows(d) PROVE HintTypeOK'
    BY <1>6 DEF SyncThrows, Upset, HintTypeOK
  <1>7. ASSUME NEW d \in Drainers, ClearHint(d) PROVE HintTypeOK'
    <2>1. hint' \in Hints /\ hint'.id = hint.id
      BY <1>7, HintFields DEF ClearHint, Gone, Hints
    <2>2. Rests(d) /\ UNCHANGED <<notes, covered, upsets, outlived>>
      BY <1>7 DEF ClearHint
    <2> QED BY <2>1, <2>2, RestsType, RowMoves DEF HintTypeOK
  <1>8. ASSUME NEW d \in Drainers, KeepHint(d) PROVE HintTypeOK'
    BY <1>8 DEF KeepHint, HintTypeOK
  <1>9. ASSUME NEW d \in Drainers, FreeHint(d) PROVE HintTypeOK'
    <2>1. hint' \in Hints /\ hint'.id = hint.id
      BY <1>9, HintFields DEF FreeHint, Unclaimed, Hints, HintTypeOK
    <2>2. Rests(d) /\ UNCHANGED <<notes, covered, upsets, outlived>>
      BY <1>9 DEF FreeHint
    <2> QED BY <2>1, <2>2, RestsType, RowMoves DEF HintTypeOK
  <1>10. ASSUME NEW d \in Drainers, DrainerDies(d) PROVE HintTypeOK'
    <2>1. Rests(d) /\ UNCHANGED <<notes, covered, hint, outlived>> /\ upsets' \in 0..LastUpset
      BY <1>10 DEF DrainerDies, Upset, HintTypeOK
    <2> QED BY <2>1, RestsType, RowMoves DEF HintTypeOK
  <1>11. CASE UNCHANGED hintVars
    BY <1>11 DEF hintVars, HintTypeOK
  <1> QED
    BY <1>1, <1>2, <1>3, <1>4, <1>5, <1>6, <1>7, <1>8, <1>9, <1>10, <1>11 DEF HintNext, DrainStep

-----------------------------------------------------------------------------
(* The holder of the row, and what its synchronization covers.             *)

LEMMA NotifyHolds == Alone /\ Notify => HoldsAlone'
  <1> SUFFICES ASSUME Alone, Notify PROVE HoldsAlone'
    OBVIOUS
  <1>1. HintTypeOK /\ HolderInv /\ CoverInv
    BY DEF Alone, HoldsAlone
  <1>2. /\ notes' = notes + 1
        /\ UNCHANGED <<covered, work, id, since, upsets>>
    BY DEF Notify
  <1>3. hint'.exists /\ hint'.newer
    BY <1>1, HintFields DEF Notify, HintTypeOK, Hints
  <1>4. ASSUME hint.exists
        PROVE  hint'.id = hint.id /\ hint'.claimed = hint.claimed /\ hint'.old = hint.old
    BY <1>1, <1>4, HintFields DEF Notify, HintTypeOK, Hints
  <1>5. HolderInv'
    BY <1>1, <1>2, <1>3, <1>4 DEF HolderInv, Working
  <1>6. CoverInv'
    BY <1>1, <1>2, <1>3 DEF CoverInv
  <1>7. NothingForgotten'
    BY <1>3 DEF NothingForgotten
  <1> QED BY <1>5, <1>6, <1>7 DEF HoldsAlone

LEMMA GrowsOldHolds == Alone /\ ClaimGrowsOld /\ ~outlived' => HoldsAlone'
  <1> SUFFICES ASSUME Alone, ClaimGrowsOld, ~outlived' PROVE HoldsAlone'
    OBVIOUS
  <1>1. HintTypeOK /\ HolderInv /\ CoverInv /\ NothingForgotten
    BY DEF Alone, HoldsAlone
  <1>2. hint'.exists = hint.exists /\ hint'.newer = hint.newer
    BY <1>1, HintFields DEF ClaimGrowsOld, HintTypeOK, Hints
  <1>3. UNCHANGED <<notes, covered, work, id, since>> /\ AtWork = {}
    BY DEF ClaimGrowsOld
  <1>4. \A d \in Drainers : ~Working(d)
    BY <1>1, <1>3 DEF AtWork, HolderInv, Working
  <1> QED BY <1>1, <1>2, <1>3, <1>4 DEF HoldsAlone, HolderInv, CoverInv, NothingForgotten, Working

LEMMA ClaimHolds ==
  ASSUME Alone, NEW d \in Drainers, ClaimHint(d)
  PROVE  HoldsAlone'
  <1>1. HintTypeOK /\ HolderInv /\ CoverInv /\ NothingForgotten
    BY DEF Alone, HoldsAlone
  <1>2. /\ hint'.id = hint.id /\ hint'.exists /\ hint'.claimed /\ ~hint'.old
        /\ UNCHANGED <<notes, covered, since, upsets>>
        /\ work' = [work EXCEPT ![d] = "claimed"] /\ id' = [id EXCEPT ![d] = hint.id]
    BY DEF ClaimHint
  <1>3. \A e \in Drainers : ~Working(e)
    BY <1>1 DEF ClaimHint, HintClaimable, HolderInv, Working
  <1>4. \A e \in Drainers : (e = d => work'[e] = "claimed" /\ id'[e] = hint.id)
                            /\ (e # d => work'[e] = "idle")
    BY <1>1, <1>2, <1>3 DEF HintTypeOK, Working
  <1>5. HolderInv'
    BY <1>2, <1>4 DEF HolderInv, Working
  <1>6. CoverInv'
    BY <1>4 DEF CoverInv
  <1>7. NothingForgotten'
    BY <1>2 DEF NothingForgotten
  <1> QED BY <1>5, <1>6, <1>7 DEF HoldsAlone

\* A step of the holder that leaves the row and the notifications alone.
LEMMA HolderMoves ==
  ASSUME Alone, NEW d \in Drainers, Working(d),
         UNCHANGED <<notes, hint, id>>, covered' >= covered, covered' \in Nat,
         \A e \in Drainers : e # d => work'[e] = work[e],
         work'[d] \in {"syncing", "done"} /\ ~hint.newer => since'[d] = notes,
         work'[d] = "done" => since'[d] <= covered'
  PROVE  HoldsAlone'
  <1>1. HintTypeOK /\ HolderInv /\ CoverInv /\ NothingForgotten
    BY DEF Alone, HoldsAlone
  <1>2. \A e \in Drainers : e # d => work'[e] = "idle"
    BY <1>1 DEF HolderInv, Working
  <1>3. HolderInv'
    BY <1>1, <1>2 DEF HolderInv, Working
  <1>4. CoverInv'
    BY <1>1, <1>2 DEF CoverInv
  <1>5. NothingForgotten'
    BY <1>1, HintFields DEF NothingForgotten
  <1> QED BY <1>3, <1>4, <1>5 DEF HoldsAlone

\* The holder lets go of the row: it is deleted only when everything was covered.
LEMMA HolderRests ==
  ASSUME Alone, NEW d \in Drainers, Working(d), Rests(d), UNCHANGED <<notes, covered>>,
         hint'.exists \/ notes <= covered
  PROVE  HoldsAlone'
  <1>1. HintTypeOK /\ HolderInv
    BY DEF Alone, HoldsAlone
  <1>2. \A e \in Drainers : work'[e] = "idle"
    BY <1>1 DEF HolderInv, Working, Rests, HintTypeOK
  <1>3. HolderInv' /\ CoverInv'
    BY <1>2 DEF HolderInv, CoverInv, Working
  <1>4. NothingForgotten'
    BY <1>1, HintFields DEF NothingForgotten
  <1> QED BY <1>3, <1>4 DEF HoldsAlone

LEMMA HintHolds == Alone /\ [HintNext]_hintVars /\ ~outlived' => HoldsAlone'
  <1> SUFFICES ASSUME Alone, [HintNext]_hintVars, ~outlived' PROVE HoldsAlone'
    OBVIOUS
  <1>0. HintTypeOK /\ HolderInv /\ CoverInv /\ NothingForgotten
    BY DEF Alone, HoldsAlone
  <1>1. CASE Notify
    BY <1>1, NotifyHolds
  <1>2. CASE ClaimGrowsOld
    BY <1>2, GrowsOldHolds
  <1>3. ASSUME NEW d \in Drainers, ClaimHint(d) PROVE HoldsAlone'
    BY <1>3, ClaimHolds
  <1>4. ASSUME NEW d \in Drainers, BeginSync(d) PROVE HoldsAlone'
    <2>1. /\ Working(d) /\ work'[d] = "syncing" /\ since'[d] = notes
          /\ \A e \in Drainers : e # d => work'[e] = work[e]
          /\ UNCHANGED <<notes, covered, hint, id>> /\ covered \in Nat /\ covered >= covered
      BY <1>0, <1>4, HintFields DEF BeginSync, HintTypeOK, Working
    <2> QED BY <2>1, HolderMoves
  <1>5. ASSUME NEW d \in Drainers, SyncReturns(d) PROVE HoldsAlone'
    <2>1. /\ Working(d) /\ work'[d] = "done" /\ since'[d] = since[d]
          /\ \A e \in Drainers : e # d => work'[e] = work[e]
          /\ UNCHANGED <<notes, hint, id>>
          /\ ~hint.newer => since[d] = notes
      BY <1>0, <1>5 DEF SyncReturns, HintTypeOK, Working, CoverInv
    <2>2. covered' \in Nat /\ covered' >= covered /\ since[d] <= covered'
      BY <1>0, <1>5, HintFields DEF SyncReturns
    <2> QED BY <2>1, <2>2, HolderMoves
  <1>6. ASSUME NEW d \in Drainers, SyncThrows(d) PROVE HoldsAlone'
    <2>1. /\ Working(d) /\ work'[d] = "failed"
          /\ \A e \in Drainers : e # d => work'[e] = work[e]
          /\ UNCHANGED <<notes, covered, hint, id>> /\ covered \in Nat /\ covered >= covered
      BY <1>0, <1>6, HintFields DEF SyncThrows, HintTypeOK, Working
    <2> QED BY <2>1, HolderMoves
  <1>7. ASSUME NEW d \in Drainers, ClearHint(d) PROVE HoldsAlone'
    <2>1. Working(d) /\ Rests(d) /\ UNCHANGED <<notes, covered>> /\ work[d] = "done" /\ ~hint.newer
      BY <1>7 DEF ClearHint, UpToDate, Working
    <2>2. notes <= covered
      BY <1>0, <2>1 DEF CoverInv
    <2> QED BY <2>1, <2>2, HolderRests
  <1>8. ASSUME NEW d \in Drainers, KeepHint(d) PROVE HoldsAlone'
    <2>1. /\ Working(d) /\ work'[d] = "kept"
          /\ \A e \in Drainers : e # d => work'[e] = work[e]
          /\ UNCHANGED <<notes, covered, hint, id>> /\ covered \in Nat /\ covered >= covered
      BY <1>0, <1>8, HintFields DEF KeepHint, HintTypeOK, Working
    <2> QED BY <2>1, HolderMoves
  <1>9. ASSUME NEW d \in Drainers, FreeHint(d) PROVE HoldsAlone'
    <2>1. Working(d) /\ Rests(d) /\ UNCHANGED <<notes, covered>>
      BY <1>9 DEF FreeHint, Working
    <2>2. hint'.exists
      BY <1>0, <1>9, <2>1 DEF FreeHint, Unclaimed, HolderInv
    <2> QED BY <2>1, <2>2, HolderRests
  <1>10. ASSUME NEW d \in Drainers, DrainerDies(d) PROVE HoldsAlone'
    <2>1. Working(d) /\ Rests(d) /\ UNCHANGED <<notes, covered, hint>>
      BY <1>10 DEF DrainerDies, Working
    <2>2. hint'.exists
      BY <1>0, <2>1 DEF HolderInv
    <2> QED BY <2>1, <2>2, HolderRests
  <1>11. CASE UNCHANGED hintVars
    BY <1>0, <1>11 DEF hintVars, HoldsAlone, HolderInv, CoverInv, NothingForgotten, Working
  <1> QED
    BY <1>1, <1>2, <1>3, <1>4, <1>5, <1>6, <1>7, <1>8, <1>9, <1>10, <1>11 DEF HintNext, DrainStep

\* A row that is made while no pass is at work starts anew.
LEMMA FreshHolds ==
  ASSUME HintTypeOK, Notify, \A d \in Drainers : ~Working(d)
  PROVE  HoldsAlone'
  <1>1. hint'.exists /\ work' = work
    BY HintFields DEF Notify, HintTypeOK, Hints
  <1> QED BY <1>1 DEF HoldsAlone, HolderInv, CoverInv, NothingForgotten, Working

LEMMA HintStep == HintInv /\ [HintNext]_hintVars => HintInv'
  <1> SUFFICES ASSUME HintInv, [HintNext]_hintVars PROVE HintInv'
    OBVIOUS
  <1>1. HintTypeOK /\ HintTypeOK'
    BY HintTypeStep DEF HintInv
  <1>2. CASE ~outlived
    BY <1>1, <1>2, HintHolds DEF HintInv, Alone
  <1>3. ASSUME outlived, ~outlived'
        PROVE  Notify /\ \A d \in Drainers : ~Working(d)
    BY <1>3 DEF HintNext, DrainStep, Notify, ClaimGrowsOld, ClaimHint, BeginSync, SyncReturns,
                SyncThrows, ClearHint, KeepHint, FreeHint, DrainerDies, hintVars, Working
  <1> QED BY <1>1, <1>2, <1>3, FreshHolds DEF HintInv

-----------------------------------------------------------------------------
\* Rows, claims and counters stay in their sets, also when claims are outlived.
THEOREM HintTypeCorrect == HintSpec => []HintTypeOK
  <1>1. HintInit => HintTypeOK
    BY HintInitInv DEF Alone
  <1> QED BY <1>1, HintTypeStep, PTL DEF HintSpec

\* Who works on the row, and what its synchronization covers, until a claim is outlived.
THEOREM HintInvariant == HintSpec => []HintInv
  <1>1. HintInit => HintInv
    BY HintInitInv DEF HintInv, Alone
  <1> QED BY <1>1, HintStep, PTL DEF HintSpec

\* A notification's row stays until a synchronization that began after it has completed,
\* unless a claim has grown old under a pass at work.
THEOREM HintNothingForgotten == HintSpec => []ForgottenOnlyOutlived
  <1>1. HintInv => ForgottenOnlyOutlived
    BY DEF HintInv, HoldsAlone, ForgottenOnlyOutlived
  <1> QED BY <1>1, HintInvariant, PTL

\* No two passes of the worker synchronize the scope at the same time, unless a claim has
\* grown old under one of them.
THEOREM HintOneSyncAtATime == HintSpec => []OneSyncUnlessOutlived
  <1>1. HintInv => OneSyncUnlessOutlived
    BY DEF HintInv, HoldsAlone, HolderInv, OneSyncUnlessOutlived, OneSyncAtATime, Working
  <1> QED BY <1>1, HintInvariant, PTL

-----------------------------------------------------------------------------
(*****************************************************************************)
(* The serializer, for any operations and keys.                              *)
(*                                                                           *)
(* InTurn is not inductive: that an operation may start when its             *)
(* predecessor is over says something about all earlier ones only because    *)
(* the tail it was chained to was the last of its key, or no tail was        *)
(* there and they were over.                                                 *)
(*****************************************************************************)

\* An operation is submitted once.
OrderInv ==
  /\ \A i \in DOMAIN order : phase[order[i]] # "new"
  /\ \A i, j \in DOMAIN order : order[i] = order[j] => i = j

\* The map holds the last operation of its key, unless all of them are over.
TailInv ==
  \A k \in Keys :
    /\ tails[k] = NoOp => \A i \in DOMAIN order : keyOf[order[i]] = k => Over(order[i])
    /\ tails[k] # NoOp =>
         /\ phase[tails[k]] # "cleared"
         /\ \E i \in DOMAIN order :
              /\ order[i] = tails[k] /\ keyOf[order[i]] = k
              /\ \A j \in DOMAIN order : keyOf[order[j]] = k => j <= i

\* What an operation that waits is chained to comes after everything that is not over.
ChainInv ==
  \A i, j \in DOMAIN order :
    i < j /\ keyOf[order[i]] = keyOf[order[j]] /\ phase[order[j]] = "queued" /\ ~Over(order[i]) =>
      \E m \in DOMAIN order :
        i <= m /\ m < j /\ order[m] = prev[order[j]] /\ keyOf[order[m]] = keyOf[order[j]]

SerializerInv == SerializerTypeOK /\ OrderInv /\ TailInv /\ ChainInv /\ InTurn

-----------------------------------------------------------------------------
LEMMA SerializerInitInv == SerializerInit => SerializerInv
  BY SerializerAssumption
     DEF SerializerInit, SerializerInv, SerializerTypeOK, OrderInv, TailInv, ChainInv, InTurn, Over

LEMMA SubmitInv ==
  ASSUME SerializerInv, NEW o \in Ops, Submit(o)
  PROVE  SerializerInv'
  <1> DEFINE n == Len(order) + 1
  <1> USE SerializerAssumption
  <1>1. /\ phase[o] = "new" /\ phase' = [phase EXCEPT ![o] = "queued"]
        /\ prev' = [prev EXCEPT ![o] = tails[keyOf[o]]]
        /\ tails' = [tails EXCEPT ![keyOf[o]] = o]
        /\ order' = Append(order, o) /\ keyOf' = keyOf
    BY DEF Submit
  <1>2. /\ tails \in [Keys -> Ops \cup {NoOp}] /\ prev \in [Ops -> Ops \cup {NoOp}]
        /\ phase \in [Ops -> {"new", "queued", "running", "settled", "cleared"}]
        /\ keyOf \in [Ops -> Keys] /\ order \in Seq(Ops)
    BY DEF SerializerInv, SerializerTypeOK
  <1>3. /\ n \in Nat /\ DOMAIN order = 1..(n - 1) /\ DOMAIN order' = 1..n
        /\ order'[n] = o /\ \A i \in DOMAIN order : order'[i] = order[i] /\ order[i] \in Ops
    BY <1>1, <1>2
  <1> HIDE DEF n
  <1>4. \A i \in DOMAIN order : order[i] # o /\ phase'[order[i]] = phase[order[i]]
                                /\ prev'[order[i]] = prev[order[i]] /\ i # n /\ i < n
                                /\ order'[i] # o /\ phase'[order'[i]] = phase[order[i]]
    BY <1>1, <1>2, <1>3 DEF SerializerInv, OrderInv
  <1>5. \A i \in DOMAIN order' : i \in DOMAIN order \/ i = n
    BY <1>3
  <1>6. SerializerTypeOK'
    BY <1>1, <1>2 DEF SerializerTypeOK
  <1>7. OrderInv'
    BY <1>1, <1>2, <1>3, <1>4, <1>5 DEF SerializerInv, OrderInv
  <1>8. TailInv'
    <2> SUFFICES ASSUME NEW k \in Keys
                 PROVE  /\ tails'[k] = NoOp =>
                             \A i \in DOMAIN order' : keyOf'[order'[i]] = k => Over(order[i])'
                        /\ tails'[k] # NoOp =>
                             /\ phase'[tails'[k]] # "cleared"
                             /\ \E i \in DOMAIN order' :
                                  /\ order'[i] = tails'[k] /\ keyOf'[order'[i]] = k
                                  /\ \A j \in DOMAIN order' : keyOf'[order'[j]] = k => j <= i
      BY DEF TailInv
    <2>1. CASE k = keyOf[o]
      <3>1. tails'[k] = o /\ phase'[o] = "queued"
        BY <1>1, <1>2, <2>1
      <3>2. /\ n \in DOMAIN order' /\ order'[n] = tails'[k] /\ keyOf'[order'[n]] = k
            /\ \A j \in DOMAIN order' : j <= n
        BY <1>1, <1>2, <1>3, <2>1, <3>1
      <3> QED BY <3>1, <3>2
    <2>2. CASE k # keyOf[o]
      <3>1. tails'[k] = tails[k] /\ keyOf'[order'[n]] # k
        BY <1>1, <1>2, <1>3, <2>2
      <3>2. CASE tails[k] = NoOp
        BY <1>1, <1>3, <1>4, <1>5, <3>1, <3>2 DEF SerializerInv, TailInv, Over
      <3>3. CASE tails[k] # NoOp
        <4>1. PICK i \in DOMAIN order :
                /\ order[i] = tails[k] /\ keyOf[order[i]] = k
                /\ \A j \in DOMAIN order : keyOf[order[j]] = k => j <= i
          BY <3>3 DEF SerializerInv, TailInv
        <4>2. phase'[tails'[k]] # "cleared"
          BY <1>4, <3>1, <3>3, <4>1 DEF SerializerInv, TailInv
        <4>3. i \in DOMAIN order' /\ order'[i] = tails'[k] /\ keyOf'[order'[i]] = k
          BY <1>1, <1>3, <3>1, <4>1
        <4>4. \A j \in DOMAIN order' : keyOf'[order'[j]] = k => j <= i
          BY <1>1, <1>3, <1>5, <3>1, <4>1
        <4> QED BY <4>2, <4>3, <4>4, <3>1, <3>3
      <3> QED BY <3>2, <3>3
    <2> QED BY <2>1, <2>2
  <1>9. ChainInv'
    <2> SUFFICES ASSUME NEW i \in DOMAIN order', NEW j \in DOMAIN order', i < j,
                        keyOf'[order'[i]] = keyOf'[order'[j]], phase'[order'[j]] = "queued",
                        ~Over(order[i])'
                 PROVE  \E m \in DOMAIN order' :
                          /\ i <= m /\ m < j /\ order'[m] = prev'[order'[j]]
                          /\ keyOf'[order'[m]] = keyOf'[order'[j]]
      BY DEF ChainInv
    <2>1. i \in DOMAIN order /\ ~Over(order[i])
      BY <1>1, <1>3, <1>4, <1>5 DEF Over
    <2>2. CASE j = n
      <3> DEFINE k == keyOf[o]
      <3>1. k \in Keys /\ keyOf[order[i]] = k /\ prev'[order'[j]] = tails[k]
        BY <1>1, <1>2, <1>3, <2>1, <2>2
      <3>2. tails[k] # NoOp
        BY <2>1, <3>1 DEF SerializerInv, TailInv
      <3>3. PICK m \in DOMAIN order : /\ order[m] = tails[k] /\ keyOf[order[m]] = k
                                      /\ \A l \in DOMAIN order : keyOf[order[l]] = k => l <= m
        BY <3>1, <3>2 DEF SerializerInv, TailInv
      <3>4. m \in DOMAIN order' /\ i <= m /\ m < j /\ order'[m] = tails[k] /\ keyOf'[order'[m]] = k
        BY <1>1, <1>3, <1>4, <2>1, <2>2, <3>1, <3>3
      <3> QED BY <1>1, <1>3, <2>2, <3>1, <3>4
    <2>3. CASE j \in DOMAIN order
      <3>1. PICK m \in DOMAIN order : /\ i <= m /\ m < j /\ order[m] = prev[order[j]]
                                      /\ keyOf[order[m]] = keyOf[order[j]]
        BY <1>1, <1>3, <1>4, <2>1, <2>3 DEF SerializerInv, ChainInv
      <3> QED BY <1>1, <1>3, <1>4, <2>3, <3>1
    <2> QED BY <1>5, <2>2, <2>3
  <1>10. InTurn'
    <2> SUFFICES ASSUME NEW i \in DOMAIN order', NEW j \in DOMAIN order', i < j,
                        keyOf'[order'[i]] = keyOf'[order'[j]], phase'[order'[j]] # "queued"
                 PROVE  Over(order[i])'
      BY DEF InTurn
    <2>1. i \in DOMAIN order /\ j \in DOMAIN order
      BY <1>1, <1>2, <1>3, <1>5
    <2> QED BY <1>1, <1>3, <1>4, <2>1 DEF SerializerInv, InTurn, Over
  <1> QED BY <1>6, <1>7, <1>8, <1>9, <1>10 DEF SerializerInv

\* A started operation finds all earlier ones of its key over: its predecessor was the last of
\* them that was not, or there was none.
LEMMA StartInv ==
  ASSUME SerializerInv, NEW o \in Ops, Start(o)
  PROVE  SerializerInv'
  <1> USE SerializerAssumption
  <1>1. /\ phase[o] = "queued" /\ (prev[o] # NoOp => Over(prev[o]))
        /\ phase' = [phase EXCEPT ![o] = "running"]
        /\ tails' = tails /\ prev' = prev /\ keyOf' = keyOf /\ order' = order
    BY DEF Start
  <1>2. /\ tails \in [Keys -> Ops \cup {NoOp}] /\ prev \in [Ops -> Ops \cup {NoOp}]
        /\ phase \in [Ops -> {"new", "queued", "running", "settled", "cleared"}]
        /\ keyOf \in [Ops -> Keys] /\ order \in Seq(Ops)
    BY DEF SerializerInv, SerializerTypeOK
  <1>3. SerializerTypeOK' /\ OrderInv'
    BY <1>1, <1>2 DEF SerializerInv, SerializerTypeOK, OrderInv
  <1>4. /\ \A p : Over(p) => Over(p)'
        /\ \A i \in DOMAIN order : order[i] \in Ops /\ i \in Nat
        /\ \A i \in DOMAIN order : Over(order[i])' => Over(order[i])
    BY <1>1, <1>2 DEF Over
  <1>5. TailInv'
    BY <1>1, <1>2, <1>4 DEF SerializerInv, TailInv
  <1>6. ChainInv'
    BY <1>1, <1>2, <1>4 DEF SerializerInv, ChainInv
  <1>7. InTurn'
    <2> SUFFICES ASSUME NEW i \in DOMAIN order, NEW j \in DOMAIN order, i < j,
                        keyOf[order[i]] = keyOf[order[j]], phase'[order[j]] # "queued"
                 PROVE  Over(order[i])
      BY <1>1, <1>4 DEF InTurn
    <2>1. CASE order[j] # o
      BY <1>1, <1>2, <1>4, <2>1 DEF SerializerInv, InTurn
    <2>2. CASE order[j] = o
      <3> SUFFICES ASSUME ~Over(order[i]) PROVE FALSE
        OBVIOUS
      <3>1. PICK m \in DOMAIN order : /\ i <= m /\ m < j /\ order[m] = prev[o]
                                      /\ keyOf[order[m]] = keyOf[o]
        BY <1>1, <2>2 DEF SerializerInv, ChainInv
      <3>2. Over(order[m]) /\ phase[order[m]] # "queued"
        BY <1>1, <1>4, <3>1 DEF Over
      <3>3. i = m \/ i < m
        BY <1>4, <3>1
      <3> QED BY <2>2, <3>1, <3>2, <3>3 DEF SerializerInv, InTurn
    <2> QED BY <2>1, <2>2
  <1> QED BY <1>3, <1>5, <1>6, <1>7 DEF SerializerInv

LEMMA SettleInv ==
  ASSUME SerializerInv, NEW o \in Ops, Settle(o)
  PROVE  SerializerInv'
  <1> USE SerializerAssumption
  <1>1. /\ phase[o] = "running" /\ phase' = [phase EXCEPT ![o] = "settled"]
        /\ tails' = tails /\ prev' = prev /\ keyOf' = keyOf /\ order' = order
    BY DEF Settle
  <1>2. /\ tails \in [Keys -> Ops \cup {NoOp}] /\ prev \in [Ops -> Ops \cup {NoOp}]
        /\ phase \in [Ops -> {"new", "queued", "running", "settled", "cleared"}]
        /\ keyOf \in [Ops -> Keys] /\ order \in Seq(Ops)
    BY DEF SerializerInv, SerializerTypeOK
  <1>3. SerializerTypeOK' /\ OrderInv'
    BY <1>1, <1>2 DEF SerializerInv, SerializerTypeOK, OrderInv
  <1>4. /\ \A i \in DOMAIN order : order[i] \in Ops /\ (Over(order[i]) => Over(order[i])')
        /\ \A i \in DOMAIN order : phase'[order[i]] = "queued" <=> phase[order[i]] = "queued"
    BY <1>1, <1>2 DEF Over
  <1>5. TailInv'
    BY <1>1, <1>2, <1>4 DEF SerializerInv, TailInv
  <1>6. ChainInv'
    BY <1>1, <1>2, <1>4 DEF SerializerInv, ChainInv
  <1>7. InTurn'
    BY <1>1, <1>4 DEF SerializerInv, InTurn
  <1> QED BY <1>3, <1>5, <1>6, <1>7 DEF SerializerInv

\* A tail that is dropped was the last of its key; it is over, and so are those before it.
LEMMA ClearInv ==
  ASSUME SerializerInv, NEW o \in Ops, Clear(o)
  PROVE  SerializerInv'
  <1> USE SerializerAssumption
  <1>1. /\ phase[o] = "settled" /\ phase' = [phase EXCEPT ![o] = "cleared"]
        /\ tails' = IF tails[keyOf[o]] = o THEN [tails EXCEPT ![keyOf[o]] = NoOp] ELSE tails
        /\ prev' = prev /\ keyOf' = keyOf /\ order' = order
    BY DEF Clear
  <1>2. /\ tails \in [Keys -> Ops \cup {NoOp}] /\ prev \in [Ops -> Ops \cup {NoOp}]
        /\ phase \in [Ops -> {"new", "queued", "running", "settled", "cleared"}]
        /\ keyOf \in [Ops -> Keys] /\ order \in Seq(Ops)
    BY DEF SerializerInv, SerializerTypeOK
  <1>3. SerializerTypeOK' /\ OrderInv'
    BY <1>1, <1>2 DEF SerializerInv, SerializerTypeOK, OrderInv
  <1>4. /\ \A i \in DOMAIN order : order[i] \in Ops /\ (Over(order[i]) <=> Over(order[i])')
        /\ \A i \in DOMAIN order : phase'[order[i]] = "queued" <=> phase[order[i]] = "queued"
        /\ \A i \in DOMAIN order : i \in Nat
    BY <1>1, <1>2 DEF Over
  <1>5. TailInv'
    <2> SUFFICES ASSUME NEW k \in Keys
                 PROVE  /\ tails'[k] = NoOp =>
                             \A i \in DOMAIN order : keyOf[order[i]] = k => Over(order[i])
                        /\ tails'[k] # NoOp =>
                             /\ phase'[tails'[k]] # "cleared"
                             /\ \E i \in DOMAIN order :
                                  /\ order[i] = tails'[k] /\ keyOf[order[i]] = k
                                  /\ \A j \in DOMAIN order : keyOf[order[j]] = k => j <= i
      BY <1>1, <1>4 DEF TailInv
    <2>1. CASE tails[k] = o
      <3>1. PICK i \in DOMAIN order : /\ order[i] = o /\ keyOf[o] = k
                                      /\ \A j \in DOMAIN order : keyOf[order[j]] = k => j <= i
        BY <2>1 DEF SerializerInv, TailInv
      <3>2. tails'[k] = NoOp
        BY <1>1, <1>2, <2>1, <3>1
      <3>3. Over(o) /\ phase[o] # "queued"
        BY <1>1 DEF Over
      <3>4. ASSUME NEW j \in DOMAIN order, keyOf[order[j]] = k PROVE Over(order[j])
        <4>1. j = i \/ j < i
          BY <1>4, <3>1, <3>4
        <4> QED BY <3>1, <3>3, <3>4, <4>1 DEF SerializerInv, InTurn
      <3> QED BY <3>2, <3>4
    <2>2. CASE tails[k] # o
      <3>1. tails'[k] = tails[k]
        BY <1>1, <1>2, <2>2
      <3> QED BY <1>1, <1>2, <2>2, <3>1 DEF SerializerInv, TailInv
    <2> QED BY <2>1, <2>2
  <1>6. ChainInv'
    BY <1>1, <1>2, <1>4 DEF SerializerInv, ChainInv
  <1>7. InTurn'
    BY <1>1, <1>4 DEF SerializerInv, InTurn
  <1> QED BY <1>3, <1>5, <1>6, <1>7 DEF SerializerInv

LEMMA SerializerStutter ==
  ASSUME SerializerInv, UNCHANGED serializerVars
  PROVE  SerializerInv'
  BY DEF serializerVars, SerializerInv, SerializerTypeOK, OrderInv, TailInv, ChainInv, InTurn, Over

LEMMA SerializerStepInv == SerializerInv /\ [SerializerNext]_serializerVars => SerializerInv'
  BY SubmitInv, StartInv, SettleInv, ClearInv, SerializerStutter DEF SerializerNext

LEMMA SerializerInvIdle == SerializerInv => IdleKeysAreDropped
  <1> SUFFICES ASSUME SerializerInv, NEW k \in Keys, tails[k] # NoOp
               PROVE  \E o \in Ops : keyOf[o] = k /\ phase[o] \notin {"new", "cleared"}
    BY DEF IdleKeysAreDropped
  <1>1. PICK i \in DOMAIN order : order[i] = tails[k] /\ keyOf[order[i]] = k
    BY DEF SerializerInv, TailInv
  <1>2. tails[k] \in Ops /\ phase[tails[k]] \notin {"new", "cleared"}
    BY <1>1 DEF SerializerInv, SerializerTypeOK, OrderInv, TailInv
  <1> QED BY <1>1, <1>2

-----------------------------------------------------------------------------
THEOREM SerializerInvariant == SerializerSpec => []SerializerInv
  BY SerializerInitInv, SerializerStepInv, PTL DEF SerializerSpec

\* Tails, predecessors and states stay in their sets.
THEOREM SerializerTypeCorrect == SerializerSpec => []SerializerTypeOK
  <1>1. SerializerInv => SerializerTypeOK
    BY DEF SerializerInv
  <1> QED BY <1>1, SerializerInvariant, PTL

\* Operations of one key run one at a time and in the order in which they were submitted.
THEOREM SerializerInTurn == SerializerSpec => []InTurn
  <1>1. SerializerInv => InTurn
    BY DEF SerializerInv
  <1> QED BY <1>1, SerializerInvariant, PTL

\* The map holds nothing for a key whose operations are all over and cleaned up.
THEOREM SerializerDropsIdleKeys == SerializerSpec => []IdleKeysAreDropped
  BY SerializerInvIdle, SerializerInvariant, PTL

-----------------------------------------------------------------------------
(*****************************************************************************)
(* The connection of an account, for any number of updates and of other      *)
(* runs: it has one client at most, and updates are carried out in turn.     *)
(*                                                                           *)
(* That a run which installs its client finds the map empty is due to the    *)
(* one place in connectingAccounts: it has emptied the map itself, or seen   *)
(* it empty, since it took the place, and nobody else installs.              *)
(*****************************************************************************)

ConnectionFunctions ==
  /\ DOMAIN at = Actors /\ DOMAIN after = Actors /\ DOMAIN client = Actors
  /\ DOMAIN copy = Actors /\ DOMAIN phase = Ops

\* The place in connectingAccounts is taken exactly while its holder connects.
Mutex ==
  /\ connecting \in Actors \cup {NoOne}
  /\ \A x \in Actors : Connects(x) <=> connecting = x

\* What is open is in the map, and whoever is about to install finds none.
OneClient ==
  /\ open \subseteq {connection} /\ NoClient \notin open
  /\ \A x \in Actors :
       /\ at[x] \in {"handshake", "setup", "rehandshake"} => connection = NoClient
       /\ at[x] = "logout" /\ after[x] = "handshake" => connection \in {NoClient, client[x]}

\* A logout leads on to one of these, and an update is at work while its operation runs.
Places ==
  /\ \A x \in Actors : at[x] = "logout" => after[x] \in {"idle", "select", "handshake", "end"}
  /\ \A o \in Ops : at[o] # "idle" => phase[o] = "running"

\* A client is opened with the settings of a row.
Copies ==
  /\ row \in Rows
  /\ \A x \in Actors : Connects(x) /\ at[x] \notin {"read", "setup"} => copy[x] \in Rows

ConnInv == Copies /\ ConnectionFunctions /\ Mutex /\ OneClient /\ Places

USE ConnectionAssumption DEF Actors

-----------------------------------------------------------------------------
(* The connection and the queue: each step of the one is a step of the     *)
(* other or leaves it alone.                                               *)

LEMMA QueueSteps == [ConnectionNext]_connectionVars => [SerializerNext]_serializerVars
  <1> SUFFICES ASSUME [ConnectionNext]_connectionVars PROVE [SerializerNext]_serializerVars
    OBVIOUS
  <1>1. ASSUME NEW o \in Ops, Commit(o) \/ OpStep(o) PROVE [SerializerNext]_serializerVars
    <2>1. CASE Queue(o) \/ StartOp(o) \/ EndOp(o) \/ Cleanup(o)
      BY <2>1 DEF Queue, StartOp, EndOp, Cleanup, SerializerNext
    <2>2. CASE Commit(o) \/ Select(o)
      BY <2>2 DEF Commit, Select
    <2> QED BY <1>1, <2>1, <2>2 DEF OpStep
  <1>2. ASSUME NEW x \in Actors, ConnectStep(x) \/ HandshakeFails(x) PROVE UNCHANGED serializerVars
    BY <1>2 DEF ConnectStep, HandshakeFails, LogoutEnds, Lock, ReadRow, SwitchOff, Handshake,
                Confirm,
                Withdrawn, Arm, Setup, Rehandshake, ClearError,
                DisconnectDisabled
  <1>3. ASSUME NEW x \in Others, CheckStep(x) \/ ReconnectRoute(x) PROVE UNCHANGED serializerVars
    BY <1>3 DEF CheckStep, ReconnectRoute, HealthCheck, DisabledIsFound, Tick
  <1>4. ASSUME NEW c \in open, ServerCloses(c) PROVE UNCHANGED serializerVars
    BY <1>4 DEF ServerCloses
  <1>5. CASE UNCHANGED connectionVars
    BY <1>5 DEF connectionVars
  <1> QED BY <1>1, <1>2, <1>3, <1>4, <1>5 DEF ConnectionNext

-----------------------------------------------------------------------------
(* One place, one client.                                                  *)

LEMMA ConnStart == ConnectionInit => ConnInv
  BY DEF ConnectionInit, ManagerInit, SerializerInit, Rows, ConnInv, ConnectionFunctions, Mutex,
         OneClient,
         Places, Copies, Connects

\* The steps that leave the connections and the place in connectingAccounts alone.
LEMMA QueueMoves ==
  ASSUME ConnInv, NEW o \in Ops, Commit(o) \/ Queue(o) \/ Select(o) \/ EndOp(o) \/ Cleanup(o)
  PROVE  ConnInv'
  <1>1. CASE Commit(o)
    BY <1>1 DEF Commit, Updated, Rows, serializerVars, net, ConnInv, ConnectionFunctions, Mutex,
                OneClient, Places, Copies, Connects
  <1>2. CASE Queue(o)
    BY <1>2 DEF Queue, Submit, managerVars, net, ConnInv, ConnectionFunctions, Mutex, OneClient,
                Places, Copies, Connects
  <1>3. CASE Select(o)
    BY <1>3 DEF Select, Proceeds, serializerVars, net, ConnInv, ConnectionFunctions, Mutex,
                OneClient, Places, Copies, Connects
  <1>4. CASE EndOp(o)
    BY <1>4 DEF EndOp, Settle, Proceeds, net, ConnInv, ConnectionFunctions, Mutex, OneClient,
                Places, Copies, Connects
  <1>5. CASE Cleanup(o)
    BY <1>5 DEF Cleanup, Clear, managerVars, net, ConnInv, ConnectionFunctions, Mutex, OneClient,
                Places, Copies, Connects
  <1> QED BY <1>1, <1>2, <1>3, <1>4, <1>5

\* Whoever disconnects waits for the client it found.
LEMMA Disconnects ==
  ASSUME ConnInv, NEW x \in Actors, NEW next \in {"idle", "select", "handshake", "end"},
         Disconnect(x, next), UNCHANGED <<row, copy, connecting, net>>, DOMAIN phase' = Ops,
         next = "handshake" <=> connecting = x, next = "handshake" => copy[x] \in Rows,
         \A o \in Ops : phase'[o] = phase[o] \/ (o = x /\ phase'[o] = "running"),
         x \in Ops => phase'[x] = "running"
  PROVE  ConnInv'
  <1>1. CASE connection = NoClient
    BY <1>1 DEF Disconnect, Proceeds, net, ConnInv, ConnectionFunctions, Mutex, OneClient, Places,
                Copies, Connects
  <1>2. CASE connection # NoClient
    BY <1>2 DEF Disconnect, Proceeds, net, ConnInv, ConnectionFunctions, Mutex, OneClient, Places,
                Copies, Connects
  <1> QED BY <1>1, <1>2

LEMMA Starts ==
  ASSUME ConnInv, NEW o \in Ops, StartOp(o)
  PROVE  ConnInv'
  <1>1. at[o] = "idle" /\ connecting # o
    BY DEF StartOp, Start, ConnInv, Places, Mutex, Connects
  <1>2. /\ phase' = [phase EXCEPT ![o] = "running"] /\ UNCHANGED <<row, copy, connecting, net>>
        /\ Disconnect(o, "end") \/ Disconnect(o, "select")
    BY DEF StartOp, Start
  <1>3. DOMAIN phase' = Ops /\ phase'[o] = "running"
        /\ \A p \in Ops : phase'[p] = phase[p] \/ (p = o /\ phase'[p] = "running")
    BY <1>2 DEF ConnInv, ConnectionFunctions
  <1> QED BY <1>1, <1>2, <1>3, Disconnects

\* The steps of a run that is at work and goes on, or returns.
LEMMA Locks ==
  ASSUME ConnInv, NEW x \in Actors,
         \/ Lock(x) \/ ReadRow(x) \/ Confirm(x) \/ Arm(x) \/ Setup(x) \/ HandshakeFails(x)
         \/ ClearError(x)
  PROVE  ConnInv'
  <1>1. CASE Lock(x)
    BY <1>1 DEF Lock, Back, Proceeds, serializerVars, net, ConnInv, ConnectionFunctions, Mutex,
                OneClient, Places, Copies, Connects
  <1>2. CASE ReadRow(x)
    BY <1>2 DEF ReadRow, Unlock, Return, Back, Proceeds, serializerVars, net, ConnInv,
                ConnectionFunctions, Mutex,
                OneClient, Places, Copies, Connects
  <1>3. CASE Confirm(x)
    BY <1>3 DEF Confirm, Proceeds, serializerVars, net, ConnInv, ConnectionFunctions, Mutex,
                OneClient, Places, Copies, Connects
  <1>4. CASE Arm(x)
    BY <1>4 DEF Arm, Unlock, Return, Back, Proceeds, serializerVars, net, ConnInv,
                ConnectionFunctions, Mutex,
                OneClient, Places, Copies, Connects
  <1>5. CASE Setup(x)
    BY <1>5 DEF Setup, Unlock, Return, Back, Proceeds, serializerVars, net, ConnInv,
                ConnectionFunctions, Mutex,
                OneClient, Places, Copies, Connects
  <1>6. CASE HandshakeFails(x)
    BY <1>6 DEF HandshakeFails, Unlock, Return, Back, Proceeds, serializerVars, net, ConnInv,
                ConnectionFunctions,
                Mutex, OneClient, Places, Copies, Connects
  <1>7. CASE ClearError(x)
    BY <1>7 DEF ClearError, Unlock, Return, Back, Proceeds, serializerVars, net, ConnInv,
                ConnectionFunctions,
                Mutex, OneClient, Places, Copies, Connects
  <1> QED BY <1>1, <1>2, <1>3, <1>4, <1>5, <1>6, <1>7

\* Only the holder of the place installs a client, into an empty map.
LEMMA Installs ==
  ASSUME ConnInv, NEW x \in Actors, Handshake(x) \/ Rehandshake(x)
  PROVE  ConnInv'
  <1> DEFINE new == Opened(x)
  <1>1. /\ connection = NoClient /\ open' = open \cup {new} /\ connection' = new
        /\ FreeIds # {} /\ connecting = x /\ \A y \in Actors : Connects(y) => y = x
    BY DEF Handshake, Rehandshake, Install, ConnInv, Mutex, OneClient, Connects
  <1>0. new # NoClient
    <2>1. copy[x] \in Rows
      BY DEF Handshake, Rehandshake, ConnInv, Copies, Connects
    <2>2. (CHOOSE i \in FreeIds : TRUE) \in Nat
      BY <1>1 DEF FreeIds
    <2>3. new \in [id: Nat, settings: Nat, host: Nat]
      BY <2>1, <2>2 DEF Opened, Rows
    <2> QED BY <2>3
  <1> HIDE DEF new
  <1>2. \A y \in Actors : y # x => ~Connects(y)
    BY <1>1
  <1>3. /\ at' = [at EXCEPT ![x] = at'[x]] /\ at'[x] \in {"sync", "clear"}
        /\ client' = [client EXCEPT ![x] = new] /\ UNCHANGED <<row, copy, after, connecting, phase>>
    BY DEF Handshake, Rehandshake, Proceeds, serializerVars, new, ConnInv, ConnectionFunctions
  <1>4. /\ \A y \in Actors : y # x => at'[y] = at[y] /\ client'[y] = client[y]
        /\ DOMAIN at' = Actors /\ DOMAIN client' = Actors
    BY <1>3 DEF ConnInv, ConnectionFunctions
  <1>5. Mutex' /\ OneClient'
    BY <1>1, <1>2, <1>0, <1>3, <1>4 DEF ConnInv, Mutex, OneClient, Connects
  <1>6. Places'
    <2>1. at[x] # "idle"
      BY DEF Handshake, Rehandshake
    <2> QED BY <1>3, <1>4, <2>1 DEF ConnInv, Places
  <1>7. Copies' /\ DOMAIN copy' = Actors
    <2>1. copy[x] \in Rows
      BY DEF Handshake, Rehandshake, ConnInv, Copies, Connects
    <2> QED BY <1>2, <1>3, <1>4, <2>1 DEF ConnInv, ConnectionFunctions, Copies, Connects
  <1> QED BY <1>3, <1>4, <1>5, <1>6, <1>7 DEF ConnInv, ConnectionFunctions

\* A client that is closed leaves the map, and whoever waited for it goes on.
LEMMA Closes ==
  ASSUME ConnInv, NEW c, Closed(c), Resumed(c), UNCHANGED <<serializerVars, row, copy, connecting>>
  PROVE  ConnInv'
  BY DEF Closed, Resumed, Waiting, serializerVars, ConnInv, ConnectionFunctions, Mutex, OneClient,
         Places, Copies,
         Connects

LEMMA Withdraws ==
  ASSUME ConnInv, NEW x \in Actors, Withdrawn(x)
  PROVE  ConnInv'
  BY DEF Withdrawn, Closed, Waiting, Back, serializerVars, ConnInv, ConnectionFunctions, Mutex,
         OneClient,
         Places, Copies, Connects

LEMMA Checks ==
  ASSUME ConnInv, NEW x \in Others, CheckStep(x) \/ ReconnectRoute(x)
  PROVE  ConnInv'
  <1>1. at[x] = "idle" /\ x \in Actors /\ x \notin Ops
    BY DEF CheckStep, ReconnectRoute, HealthCheck, DisabledIsFound, Tick
  <1>2. CASE HealthCheck(x) \/ ReconnectRoute(x) \/ DisabledIsFound(x)
    BY <1>1, <1>2 DEF HealthCheck, ReconnectRoute, DisabledIsFound, Proceeds, serializerVars, net, ConnInv,
                      ConnectionFunctions,
                      Mutex, OneClient, Places, Copies, Connects
  <1>3. CASE Tick(x)
    BY <1>1, <1>3 DEF Tick, Proceeds, serializerVars, net, ConnInv, ConnectionFunctions, Mutex,
                      OneClient,
                      Places, Copies, Connects
  <1> QED BY <1>2, <1>3 DEF CheckStep

LEMMA ConnInductive == ConnInv /\ [ConnectionNext]_connectionVars => ConnInv'
  <1> SUFFICES ASSUME ConnInv, [ConnectionNext]_connectionVars PROVE ConnInv'
    OBVIOUS
  <1>1. ASSUME NEW o \in Ops, Commit(o) \/ OpStep(o) PROVE ConnInv'
    BY <1>1, QueueMoves, Starts DEF OpStep
  <1>2. ASSUME NEW x \in Actors, ConnectStep(x) \/ HandshakeFails(x) PROVE ConnInv'
    <2>1. CASE LogoutEnds(x)
      BY <2>1, Closes DEF LogoutEnds
    <2>2. CASE SwitchOff(x)
      <3>1. /\ Disconnect(x, "handshake") /\ UNCHANGED <<row, copy, connecting, net, phase>> /\ at[x] = "off"
        BY <2>2 DEF SwitchOff, serializerVars
      <3>2. /\ DOMAIN phase' = Ops /\ connecting = x /\ copy[x] \in Rows /\ (x \in Ops => phase'[x] = "running")
            /\ \A o \in Ops : phase'[o] = phase[o]
        BY <3>1 DEF ConnInv, ConnectionFunctions, Mutex, Places, Copies, Connects
      <3> QED BY <3>1, <3>2, Disconnects
    <2>3. CASE DisconnectDisabled(x)
      <3>1. /\ Disconnect(x, "idle") /\ UNCHANGED <<row, copy, connecting, net, phase>> /\ at[x] = "leave"
        BY <2>3 DEF DisconnectDisabled, serializerVars
      <3>2. /\ DOMAIN phase' = Ops /\ connecting # x /\ (x \in Ops => phase'[x] = "running")
            /\ \A o \in Ops : phase'[o] = phase[o]
        BY <3>1 DEF ConnInv, ConnectionFunctions, Mutex, Places, Connects
      <3> QED BY <3>1, <3>2, Disconnects
    <2> QED BY <1>2, <2>1, <2>2, <2>3, Locks, Installs, Withdraws DEF ConnectStep
  <1>3. ASSUME NEW x \in Others, CheckStep(x) \/ ReconnectRoute(x) PROVE ConnInv'
    BY <1>3, Checks
  <1>4. ASSUME NEW c \in open, ServerCloses(c) PROVE ConnInv'
    BY <1>4, Closes DEF ServerCloses
  <1>5. CASE UNCHANGED connectionVars
    BY <1>5 DEF connectionVars, serializerVars, managerVars, net, ConnInv, ConnectionFunctions,
                Mutex,
                OneClient, Places, Copies, Connects
  <1> QED BY <1>1, <1>2, <1>3, <1>4, <1>5 DEF ConnectionNext

-----------------------------------------------------------------------------
\* Of all the clients that updates, checks and reconnects open for an account, the one in the
\* map is the only one that is open, unless somebody is logging it out.
THEOREM ConnectionNoOrphans == ConnectionSpec => []NoOrphans
  <1>1. ConnInv => NoOrphans
    BY DEF ConnInv, OneClient, NoOrphans
  <1> QED BY <1>1, ConnStart, ConnInductive, PTL DEF ConnectionSpec

\* The manager uses the serializer as it is meant to be used.
THEOREM ConnectionUsesSerializer == ConnectionSpec => UsesSerializer
  <1>1. ConnectionInit => SerializerInit
    BY DEF ConnectionInit
  <1> QED BY <1>1, QueueSteps, PTL DEF ConnectionSpec, UsesSerializer

\* The operations of an account's updates run in the order in which they were queued.
THEOREM ConnectionInTurn == ConnectionSpec => []InTurn
  <1>1. ConnectionSpec => SerializerSpec
    BY ConnectionUsesSerializer DEF UsesSerializer, SerializerSpec
  <1> QED BY <1>1, SerializerInTurn, PTL
-----------------------------------------------------------------------------
(* Types of the connection.                                                *)

AtSteps == {"idle", "logout", "select", "lock", "read", "off", "handshake", "sync", "arm", "setup",
            "rehandshake", "clear", "leave", "end"}
AfterSteps == {"idle", "select", "handshake", "end"}

\* Every open client, and every client in a run's hands or in the map, is one of the ids there are.
ManagerTypes ==
  /\ row \in Rows /\ kind \in [Ops -> Kinds \cup {"none"}]
  /\ at \in [Actors -> AtSteps] /\ after \in [Actors -> AfterSteps]
  /\ copy \in [Actors -> Rows \cup {NoClient}]
  /\ client \in [Actors -> Clients \cup {NoClient}]
  /\ connection \in Clients \cup {NoClient} /\ open \subseteq Clients
  /\ timer \in BOOLEAN /\ refusals \in 0..LastRefusal

LEMMA RefusalTypes ==
  ASSUME ManagerTypes, Refusal \/ UNCHANGED refusals
  PROVE  refusals' \in 0..LastRefusal
  BY DEF ManagerTypes, Refusal

\* The steps that change no client.
LEMMA MoveTypes ==
  ASSUME ManagerTypes, UNCHANGED <<after, copy, client, net>>,
         NEW x \in Actors, NEW where \in AtSteps, at' = [at EXCEPT ![x] = where] \/ UNCHANGED at,
         row' \in Rows, kind' \in [Ops -> Kinds \cup {"none"}], timer' \in BOOLEAN,
         refusals' \in 0..LastRefusal
  PROVE  ManagerTypes'
  BY DEF ManagerTypes, net

LEMMA DisconnectTypes ==
  ASSUME ManagerTypes, NEW x \in Actors, NEW next \in AfterSteps, Disconnect(x, next),
         UNCHANGED <<row, kind, copy, net, refusals>>
  PROVE  ManagerTypes'
  <1>1. client' \in [Actors -> Clients \cup {NoClient}] /\ timer' \in BOOLEAN
    BY DEF Disconnect, ManagerTypes
  <1>2. at' \in [Actors -> AtSteps] /\ after' \in [Actors -> AfterSteps]
    BY DEF Disconnect, Proceeds, ManagerTypes, AtSteps, AfterSteps
  <1> QED BY <1>1, <1>2 DEF ManagerTypes, net

LEMMA ReturnTypes ==
  ASSUME ManagerTypes, NEW x \in Actors, Return(x), UNCHANGED <<row, kind, after>>,
         connection' \in Clients \cup {NoClient}, open' \subseteq Clients, timer' \in BOOLEAN,
         refusals' \in 0..LastRefusal
  PROVE  ManagerTypes'
  <1>1. Back(x) \in AtSteps
    BY DEF Back, AtSteps
  <1> QED BY <1>1 DEF Return, Proceeds, ManagerTypes

LEMMA OpenedTypes ==
  ASSUME ConnInv, ManagerTypes, NEW x \in Actors, at[x] \in {"handshake", "rehandshake"},
         FreeIds # {}
  PROVE  Opened(x) \in Clients
  <1>1. copy[x] \in Rows
    BY DEF ConnInv, Copies, Connects
  <1>2. (CHOOSE i \in FreeIds : TRUE) \in 1..LastClient
    BY DEF FreeIds
  <1> QED BY <1>1, <1>2 DEF Opened, Rows, Clients

LEMMA ClosedTypes ==
  ASSUME ManagerTypes, NEW c, Closed(c)
  PROVE  /\ connection' \in Clients \cup {NoClient} /\ open' \subseteq Clients
         /\ after' \in [Actors -> AfterSteps]
  BY DEF Closed, ManagerTypes, AfterSteps

LEMMA ResumedTypes ==
  ASSUME ManagerTypes, NEW c, Closed(c), Resumed(c), UNCHANGED <<row, kind, copy, timer>>,
         refusals' \in 0..LastRefusal
  PROVE  ManagerTypes'
  <1>1. /\ connection' \in Clients \cup {NoClient} /\ open' \subseteq Clients
        /\ after' \in [Actors -> AfterSteps]
    BY ClosedTypes
  <1>2. at' \in [Actors -> AtSteps] /\ client' \in [Actors -> Clients \cup {NoClient}]
    BY DEF Resumed, ManagerTypes, AtSteps, AfterSteps
  <1> QED BY <1>1, <1>2 DEF ManagerTypes

LEMMA UpdateTypes ==
  ASSUME ManagerTypes, NEW o \in Ops, Commit(o) \/ OpStep(o)
  PROVE  ManagerTypes'
  <1>1. CASE Commit(o)
    <2>1. PICK update \in Updates :
            /\ row' = Updated(update)
            /\ kind' = [kind EXCEPT ![o] = CASE update = "disable" -> "disconnect"
                                            [] row'.enabled -> "reconnect"
                                            [] OTHER -> "nothing"]
      BY <1>1 DEF Commit
    <2>2. row' \in Rows
      BY <2>1 DEF Updated, ManagerTypes, Rows
    <2>3. kind' \in [Ops -> Kinds \cup {"none"}]
      BY <2>1 DEF ManagerTypes, Kinds
    <2> QED BY <1>1, <2>2, <2>3 DEF Commit, ManagerTypes, net
  <1>2. CASE Queue(o) \/ Cleanup(o)
    BY <1>2 DEF Queue, Cleanup, ManagerTypes, managerVars, net
  <1>3. CASE StartOp(o)
    <2>1. (IF kind[o] = "disconnect" THEN "end" ELSE "select") \in AfterSteps
      BY DEF AfterSteps
    <2> QED BY <1>3, <2>1, DisconnectTypes DEF StartOp
  <1>4. CASE Select(o)
    <2>1. (IF row.enabled THEN "lock" ELSE "end") \in AtSteps
      BY DEF AtSteps
    <2> QED BY <1>4, <2>1, MoveTypes DEF Select, Proceeds, ManagerTypes
  <1>5. CASE EndOp(o)
    BY <1>5, MoveTypes DEF EndOp, Proceeds, ManagerTypes, AtSteps
  <1> QED BY <1>1, <1>2, <1>3, <1>4, <1>5 DEF OpStep

LEMMA ConnectTypes ==
  ASSUME ConnInv, ManagerTypes, NEW x \in Actors, ConnectStep(x) \/ HandshakeFails(x)
  PROVE  ManagerTypes'
  <1>1. CASE LogoutEnds(x)
    BY <1>1, ResumedTypes DEF LogoutEnds, ManagerTypes
  <1>2. CASE Lock(x)
    <2>1. PICK where \in AtSteps : at' = [at EXCEPT ![x] = where]
      BY <1>2 DEF Lock, Proceeds, Back, AtSteps
    <2> QED BY <1>2, <2>1, MoveTypes DEF Lock, ManagerTypes
  <1>3. CASE ReadRow(x) \/ Setup(x)
    <2>1. CASE row.enabled
      <3>1. PICK where \in AtSteps : at' = [at EXCEPT ![x] = where]
        BY <1>3, <2>1 DEF ReadRow, Setup, Proceeds, AtSteps
      <3>2. /\ copy' = [copy EXCEPT ![x] = row]
            /\ UNCHANGED <<row, kind, after, client, net, timer, refusals>>
        BY <1>3, <2>1 DEF ReadRow, Setup
      <3> QED BY <3>1, <3>2 DEF ManagerTypes, net
    <2>2. CASE ~row.enabled
      BY <1>3, <2>2, ReturnTypes DEF ReadRow, Setup, Unlock, ManagerTypes, net
    <2> QED BY <2>1, <2>2
  <1>4. CASE SwitchOff(x)
    BY <1>4, DisconnectTypes DEF SwitchOff, AfterSteps
  <1>5. CASE Handshake(x)
    <2>1. Opened(x) \in Clients
      BY <1>5, OpenedTypes DEF Handshake
    <2> QED BY <1>5, <2>1 DEF Handshake, Install, Proceeds, ManagerTypes, AtSteps
  <1>6. CASE Confirm(x)
    BY <1>6, MoveTypes DEF Confirm, Proceeds, ManagerTypes, AtSteps
  <1>7. CASE Withdrawn(x)
    <2>1. /\ connection' \in Clients \cup {NoClient} /\ open' \subseteq Clients
          /\ after' \in [Actors -> AfterSteps]
      BY <1>7, ClosedTypes DEF Withdrawn
    <2>2. Back(x) \in AtSteps /\ AfterSteps \subseteq AtSteps
      BY DEF Back, AtSteps, AfterSteps
    <2>3. at' \in [Actors -> AtSteps] /\ client' \in [Actors -> Clients \cup {NoClient}]
      BY <1>7, <2>2 DEF Withdrawn, ManagerTypes
    <2> QED BY <1>7, <2>1, <2>3 DEF Withdrawn, ManagerTypes
  <1>8. CASE Arm(x)
    BY <1>8, ReturnTypes DEF Arm, Unlock, ManagerTypes, net
  <1>9. CASE Rehandshake(x)
    <2>1. Opened(x) \in Clients
      BY <1>9, OpenedTypes DEF Rehandshake
    <2> QED BY <1>9, <2>1 DEF Rehandshake, Install, Proceeds, ManagerTypes, AtSteps
  <1>10. CASE HandshakeFails(x)
    BY <1>10, ReturnTypes, RefusalTypes DEF HandshakeFails, Unlock, ManagerTypes, net
  <1>11. CASE ClearError(x)
    BY <1>11, ReturnTypes DEF ClearError, Unlock, ManagerTypes, net
  <1>12. CASE DisconnectDisabled(x)
    BY <1>12, DisconnectTypes DEF DisconnectDisabled, AfterSteps
  <1> QED BY <1>1, <1>2, <1>3, <1>4, <1>5, <1>6, <1>7, <1>8, <1>9, <1>10, <1>11, <1>12
          DEF ConnectStep

LEMMA CheckTypes ==
  ASSUME ManagerTypes, NEW x \in Others, CheckStep(x) \/ ReconnectRoute(x)
  PROVE  ManagerTypes'
  <1> USE DEF HealthCheck, DisabledIsFound, Tick, ReconnectRoute, CheckStep
  <1>1. PICK where \in AtSteps : at' = [at EXCEPT ![x] = where]
    BY DEF Proceeds, AtSteps
  <1>2. refusals' \in 0..LastRefusal
    BY RefusalTypes
  <1> QED BY <1>1, <1>2, MoveTypes DEF ManagerTypes

LEMMA TypesInductive ==
  ConnInv /\ ManagerTypes /\ [ConnectionNext]_connectionVars => ManagerTypes'
  <1> SUFFICES ASSUME ConnInv, ManagerTypes, [ConnectionNext]_connectionVars PROVE ManagerTypes'
    OBVIOUS
  <1>1. ASSUME NEW c \in open, ServerCloses(c) PROVE ManagerTypes'
    BY <1>1, ResumedTypes, RefusalTypes DEF ServerCloses
  <1>2. CASE UNCHANGED connectionVars
    BY <1>2 DEF connectionVars, managerVars, net, ManagerTypes
  <1> QED BY <1>1, <1>2, UpdateTypes, ConnectTypes, CheckTypes DEF ConnectionNext

LEMMA TypesStart == ManagerInit => ManagerTypes
  <1> SUFFICES ASSUME ManagerInit PROVE ManagerTypes
    OBVIOUS
  <1>1. row \in Rows /\ refusals \in 0..LastRefusal
    BY DEF ManagerInit, Rows
  <1>2. /\ kind \in [Ops -> Kinds \cup {"none"}]
        /\ at \in [Actors -> AtSteps] /\ after \in [Actors -> AfterSteps]
        /\ timer \in BOOLEAN
    BY DEF ManagerInit, AtSteps, AfterSteps
  <1>3. /\ copy \in [Actors -> Rows \cup {NoClient}]
        /\ client \in [Actors -> Clients \cup {NoClient}]
        /\ connection \in Clients \cup {NoClient} /\ open \subseteq Clients
    BY DEF ManagerInit
  <1> QED BY <1>1, <1>2, <1>3 DEF ManagerTypes

LEMMA TypesComplete == ConnInv /\ ManagerTypes => ConnectionTypeOK
  BY DEF ConnInv, Mutex, ManagerTypes, ConnectionTypeOK, AtSteps, AfterSteps

\* The row, the runs, the clients and the map stay in their sets, and the account's place is taken
\* exactly while somebody connects.
THEOREM ConnectionTypes == ConnectionSpec => []ConnectionTypeOK
  <1>1. ConnectionInit => ConnInv /\ ManagerTypes
    BY ConnStart, TypesStart DEF ConnectionInit
  <1>2. (ConnInv /\ ManagerTypes) /\ [ConnectionNext]_connectionVars => (ConnInv /\ ManagerTypes)'
    BY ConnInductive, TypesInductive
  <1> QED BY <1>1, <1>2, TypesComplete, PTL DEF ConnectionSpec
-----------------------------------------------------------------------------
(* The workers side by side, as TLC runs them: each step is one of a part   *)
(* and leaves the others alone, so what is proved of a part holds of all.   *)

LEMMA PartSteps ==
  ASSUME [WorkersNext]_workersVars
  PROVE  /\ [HintNext]_hintVars /\ [FlagNext]_flagVars /\ [InvitationNext]_invitationVars
         /\ [SerializerNext]_serializerVars
         /\ \/ [ConnectionNext]_connectionVars /\ UNCHANGED part
            \/ part = "serializer" /\ UNCHANGED <<part, managerVars>>
  <1>1. CASE /\ part = "connection" /\ ConnectionNext
             /\ UNCHANGED <<part, hintVars, flagVars, invitationVars>>
    BY <1>1, QueueSteps
  <1>2. CASE part = "serializer" /\ SerializerNext
             /\ UNCHANGED <<part, hintVars, flagVars, managerVars, invitationVars>>
    BY <1>2
  <1>3. UNCHANGED connectionVars => UNCHANGED serializerVars
    BY DEF connectionVars
  <1> QED BY <1>1, <1>2, <1>3 DEF WorkersNext, workersVars

\* A behaviour of the run is one of each part, so the theorems about the parts hold of it.
THEOREM WorkersAreTheirParts ==
  WorkersSpec => HintSpec /\ FlagSpec /\ InvitationSpec /\ SerializerSpec
  <1>1. WorkersInit => HintInit /\ FlagInit /\ InvitationInit /\ SerializerInit
    BY DEF WorkersInit
  <1>2. [WorkersNext]_workersVars =>
          /\ [HintNext]_hintVars /\ [FlagNext]_flagVars /\ [InvitationNext]_invitationVars
          /\ [SerializerNext]_serializerVars
    BY PartSteps
  <1> QED BY <1>1, <1>2, PTL DEF WorkersSpec, HintSpec, FlagSpec, InvitationSpec, SerializerSpec

\* The queue may be used by others than the account, while the manager stands still.
Managed == ManagerTypes /\ Mutex /\ (part # "serializer" => ConnInv)

\* Types of all the workers: hints, flags, the queue, the connection and the invitations.
THEOREM WorkersTypes == WorkersSpec => []WorkersTypeOK
  <1>1. WorkersInit => Managed
    <2>1. ManagerInit => Mutex
      BY DEF ManagerInit, Mutex, Connects
    <2> QED BY <2>1, ConnStart, TypesStart DEF WorkersInit, ConnectionInit, Managed
  <1>2. Managed /\ [WorkersNext]_workersVars => Managed'
    <2> SUFFICES ASSUME Managed, [WorkersNext]_workersVars PROVE Managed'
      OBVIOUS
    <2>1. CASE [ConnectionNext]_connectionVars /\ UNCHANGED part /\ part # "serializer"
      <3>1. ConnInv' /\ ManagerTypes'
        BY <2>1, ConnInductive, TypesInductive DEF Managed
      <3> QED BY <2>1, <3>1 DEF Managed, ConnInv
    <2>2. CASE part = "serializer" /\ UNCHANGED <<part, managerVars>>
      BY <2>2 DEF Managed, ManagerTypes, Mutex, Connects, managerVars, net
    <2>3. part = "serializer" => UNCHANGED <<part, managerVars>>
      BY DEF WorkersNext, workersVars, connectionVars
    <2> QED BY <2>1, <2>2, <2>3, PartSteps
  <1>3. Managed => ConnectionTypeOK
    BY DEF Managed, Mutex, ManagerTypes, ConnectionTypeOK, AtSteps, AfterSteps
  <1>4. WorkersSpec => []Managed
    BY <1>1, <1>2, PTL DEF WorkersSpec
  <1>5. WorkersSpec => /\ []HintTypeOK /\ []FlagTypeOK /\ []InvitationTypeOK
                       /\ []SerializerTypeOK
    BY WorkersAreTheirParts, HintTypeCorrect, FlagTypeCorrect, InvitationTypes,
       SerializerTypeCorrect, PTL
  <1>6. /\ HintTypeOK /\ FlagTypeOK /\ InvitationTypeOK /\ SerializerTypeOK /\ ConnectionTypeOK
        => WorkersTypeOK
    BY DEF WorkersTypeOK
  <1> QED BY <1>3, <1>4, <1>5, <1>6, PTL
=============================================================================

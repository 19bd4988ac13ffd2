---------------------- MODULE CalendarInvitationsProofs ----------------------
(***************************************************************************)
(* What the invitations keep, for any attendees, workers, changes and      *)
(* troubles.                                                               *)
(*                                                                         *)
(* That a row owes exactly what is missing rests on the worker at it: only *)
(* the holder of its claim may be sending, only what the row says, and     *)
(* only once it is marked uncertain, which nobody else can claim.  That    *)
(* the calendars agree rests on the sequence numbers: what a later change  *)
(* asks for has a higher one than everything before, and the two mails of  *)
(* one change, which may share a number, leave in their order.             *)
(***************************************************************************)
EXTENDS CalendarInvitations, SequenceTheorems, TLAPS

\* A row's actions are a cancellation, a request, or both in this order.
InOrder(actions) ==
  /\ \A i \in DOMAIN actions : actions[i].to # {}
  /\ \A i, j \in DOMAIN actions :
       i < j => actions[i].method = "CANCEL" /\ actions[j].method = "REQUEST"

Exact(r, row) ==
  IF row.status = "uncertain"
  THEN /\ Asked(r) \ got \subseteq LettersIn(r, row.actions)
       /\ LettersIn(r, row.actions) \cap got \subseteq LettersOf(r, Head(row.actions))
  ELSE LettersIn(r, row.actions) = Asked(r) \ got

\* As long as it has to cancel, a row has invited nobody.
CancelsFirst(r, row) ==
  (\E i \in DOMAIN row.actions : row.actions[i].method = "CANCEL") =>
    \A letter \in got : letter.row = r => letter.method # "REQUEST"

RowInv(r, row) ==
  /\ InOrder(row.actions)
  /\ row.status = "sent" <=> row.actions = <<>>
  /\ CancelsFirst(r, row)
  /\ Exact(r, row)

\* Whoever has the claim has the row's actions in hand, and only it can be sending.
HandInv(w) ==
  /\ stage[w] # "idle" => job[w] \in DOMAIN outbox
  /\ stage[w] # "idle" /\ Row(w).token = w => todo[w] = Row(w).actions
  /\ stage[w] \in {"renew", "prepare", "begin"} /\ Row(w).token = w => Row(w).status = "processing"
  /\ stage[w] \in {"dispatch", "answer"} => Row(w).status = "uncertain" /\ Row(w).token = w

SentInv(w) ==
  /\ stage[w] = "dispatch" => LettersIn(job[w], todo[w]) = Asked(job[w]) \ got
  /\ stage[w] = "answer" /\ answer[w].known =>
       /\ LettersIn(job[w], StillOwed(w)) = Asked(job[w]) \ got
       /\ answer[w].rejected \subseteq Head(todo[w]).to

Member(a) == event.exists /\ event.invited /\ a \in event.people

\* What has been asked for is numbered, and no two changes share a number.
NumberInv ==
  /\ event.sequence <= edits
  /\ \A l \in asked : /\ l.row \in DOMAIN outbox
                      /\ event.exists => l.sequence <= event.sequence
  /\ \A l, m \in asked : l.sequence = m.sequence => l.row = m.row
  /\ event.exists /\ event.sequence = 0 /\ ~HadInvitation => asked = {}

\* The last letter asked for says whether the attendee takes part.
LastWord(a) ==
  IF Member(a)
  THEN \E l \in asked : l.who = a /\ l.method = "REQUEST" /\ l.sequence = event.sequence
  ELSE \A l \in asked : l.who = a /\ l.method = "REQUEST" =>
         \E m \in asked : m.who = a /\ l.sequence < m.sequence

\* A calendar shows the letter with the highest number, the request if there are two.
ViewInv(a) ==
  /\ \A l \in got : l.who = a => l.sequence <= view[a].sequence
  /\ view[a].sequence = 0 \/ \E l \in got : l.who = a /\ l.sequence = view[a].sequence
  /\ view[a].invited <=>
       \E l \in got : l.who = a /\ l.method = "REQUEST" /\ l.sequence = view[a].sequence

RowsInv == \A r \in DOMAIN outbox : RowInv(r, outbox[r])
HandsInv == \A w \in Workers : HandInv(w) /\ SentInv(w)
LettersInv == NumberInv /\ \A a \in Attendees : LastWord(a) /\ ViewInv(a)

InvitationInv == InvitationTypeOK /\ RowsInv /\ HandsInv /\ LettersInv

USE InvitationAssumption

-----------------------------------------------------------------------------
(* Letters and actions.                                                    *)

LEMMA LetterOf ==
  ASSUME NEW r, NEW action \in Actions
  PROVE  \A l : l \in LettersOf(r, action) =>
           /\ l.row = r /\ l.method = action.method /\ l.sequence = action.sequence
           /\ l.who \in action.to
BY DEF LettersOf, Actions

LEMMA OfLetter ==
  ASSUME NEW r, NEW action \in Actions, NEW a \in action.to
  PROVE  \E l \in LettersOf(r, action) :
           /\ l.row = r /\ l.method = action.method /\ l.sequence = action.sequence
           /\ l.who = a
<1>1. [row |-> r, method |-> action.method, sequence |-> action.sequence, who |-> a]
        \in LettersOf(r, action)
  BY DEF LettersOf
<1> QED
  BY <1>1

LEMMA LettersTyped ==
  ASSUME NEW r \in 1..LastEdit, NEW action \in Actions
  PROVE  LettersOf(r, action) \subseteq Letters
BY DEF LettersOf, Actions, Letters, Sequences

LEMMA NoLetters == ASSUME NEW r PROVE LettersIn(r, <<>>) = {}
BY DEF LettersIn

LEMMA LettersSplit ==
  ASSUME NEW r, NEW actions \in Seq(Actions), actions # <<>>
  PROVE  /\ Head(actions) \in Actions /\ Tail(actions) \in Seq(Actions)
         /\ LettersIn(r, actions) = LettersOf(r, Head(actions)) \cup LettersIn(r, Tail(actions))
<1>1. /\ Head(actions) \in Actions /\ Tail(actions) \in Seq(Actions) /\ Len(actions) \in Nat \ {0}
      /\ actions[1] = Head(actions) /\ DOMAIN actions = 1..Len(actions)
      /\ DOMAIN Tail(actions) = 1..(Len(actions) - 1)
      /\ \A i \in 1..(Len(actions) - 1) : Tail(actions)[i] = actions[i + 1]
  OBVIOUS
<1>2. ASSUME NEW l \in LettersIn(r, actions)
      PROVE  l \in LettersOf(r, Head(actions)) \cup LettersIn(r, Tail(actions))
  <2>1. PICK i \in 1..Len(actions) : l \in LettersOf(r, actions[i])
    BY <1>1, <1>2 DEF LettersIn
  <2>2. CASE i = 1
    BY <2>1, <2>2, <1>1
  <2>3. CASE i # 1
    <3>1. i - 1 \in 1..(Len(actions) - 1) /\ Tail(actions)[i - 1] = actions[i]
      BY <2>3, <1>1
    <3> QED
      BY <3>1, <2>1, <1>1 DEF LettersIn
  <2> QED
    BY <2>2, <2>3
<1>3. LettersOf(r, Head(actions)) \subseteq LettersIn(r, actions)
  BY <1>1 DEF LettersIn
<1>4. ASSUME NEW l \in LettersIn(r, Tail(actions))
      PROVE  l \in LettersIn(r, actions)
  <2>1. PICK i \in 1..(Len(actions) - 1) : l \in LettersOf(r, Tail(actions)[i])
    BY <1>1, <1>4 DEF LettersIn
  <2>2. i + 1 \in 1..Len(actions) /\ actions[i + 1] = Tail(actions)[i]
    BY <1>1
  <2> QED
    BY <2>1, <2>2, <1>1 DEF LettersIn
<1> QED
  BY <1>1, <1>2, <1>3, <1>4

LEMMA LaterActions ==
  ASSUME NEW actions \in Seq(Actions), Len(actions) > 1
  PROVE  Tail(actions) \in Seq(Actions) /\ Tail(actions) # <<>>
<1>1. actions # <<>> /\ Len(actions) \in Nat
  BY EmptySeq
<1>2. Tail(actions) \in Seq(Actions)
  BY <1>1
<1>3. Len(Tail(actions)) = Len(actions) - 1
  BY <1>1
<1> DEFINE n == Len(actions)
          k == Len(Tail(actions))
<1>4. n \in Nat /\ n > 1 /\ k = n - 1
  BY <1>1, <1>3
<1>5. k # 0
  <2> HIDE DEF n, k
  <2> QED
    BY ONLY <1>4
<1> QED
  BY <1>2, <1>5, EmptySeq

\* The letters of the later actions are requests, those of the first then cancellations.
LEMMA TailIsRequest ==
  ASSUME NEW r, NEW actions \in Seq(Actions), actions # <<>>, InOrder(actions)
  PROVE  /\ InOrder(Tail(actions))
         /\ Head(actions).to # {}
         /\ \A i \in DOMAIN Tail(actions) :
              Tail(actions)[i].method = "REQUEST" /\ Head(actions).method = "CANCEL"
         /\ \A l \in LettersIn(r, Tail(actions)) :
              l.method = "REQUEST" /\ Head(actions).method = "CANCEL"
<1>1. /\ Head(actions) \in Actions /\ Tail(actions) \in Seq(Actions) /\ Len(actions) \in Nat \ {0}
      /\ actions[1] = Head(actions) /\ DOMAIN actions = 1..Len(actions)
      /\ DOMAIN Tail(actions) = 1..(Len(actions) - 1)
      /\ \A i \in 1..(Len(actions) - 1) : /\ Tail(actions)[i] = actions[i + 1]
                                          /\ Tail(actions)[i] \in Actions
  OBVIOUS
<1>2. InOrder(Tail(actions))
  <2>1. \A i \in 1..(Len(actions) - 1) : i + 1 \in DOMAIN actions
    BY <1>1
  <2>2. ASSUME NEW i \in DOMAIN Tail(actions)
        PROVE  Tail(actions)[i].to # {}
    BY <2>1, <1>1 DEF InOrder
  <2>3. ASSUME NEW i \in DOMAIN Tail(actions), NEW j \in DOMAIN Tail(actions), i < j
        PROVE  Tail(actions)[i].method = "CANCEL" /\ Tail(actions)[j].method = "REQUEST"
    <3>1. i + 1 \in DOMAIN actions /\ j + 1 \in DOMAIN actions /\ i + 1 < j + 1
      BY <2>1, <2>3, <1>1
    <3>2. actions[i + 1].method = "CANCEL" /\ actions[j + 1].method = "REQUEST"
      BY <3>1 DEF InOrder
    <3> QED
      BY <3>2, <1>1
  <2> QED
    BY <2>2, <2>3 DEF InOrder
<1>3. ASSUME NEW i \in DOMAIN Tail(actions)
      PROVE  Tail(actions)[i].method = "REQUEST" /\ Head(actions).method = "CANCEL"
  BY <1>1 DEF InOrder
<1>4. ASSUME NEW l \in LettersIn(r, Tail(actions))
      PROVE  l.method = "REQUEST" /\ Head(actions).method = "CANCEL"
  <2>1. PICK i \in DOMAIN Tail(actions) : l \in LettersOf(r, Tail(actions)[i])
    BY DEF LettersIn
  <2>2. l.method = Tail(actions)[i].method
    BY <2>1, <1>1, LetterOf
  <2> QED
    BY <2>2, <1>3
<1> QED
  BY <1>1, <1>2, <1>3, <1>4 DEF InOrder

\* What is stored of a mail that some have rejected.
Retry(actions, people) == <<[Head(actions) EXCEPT !.to = people]>> \o Tail(actions)

LEMMA RetryShape ==
  ASSUME NEW r, NEW actions \in Seq(Actions), actions # <<>>, NEW people \in SUBSET Attendees
  PROVE  /\ [Head(actions) EXCEPT !.to = people] \in Actions
         /\ Retry(actions, people) \in Seq(Actions) /\ Retry(actions, people) # <<>>
         /\ LettersIn(r, Retry(actions, people)) =
              LettersOf(r, [Head(actions) EXCEPT !.to = people]) \cup LettersIn(r, Tail(actions))
<1> DEFINE first == [Head(actions) EXCEPT !.to = people]
<1>1. Head(actions) \in Actions /\ Tail(actions) \in Seq(Actions)
  BY LettersSplit
<1>2. first \in Actions
  BY <1>1 DEF Actions
<1> HIDE DEF first
<1>3. <<first>> \o Tail(actions) \in Seq(Actions) /\ <<first>> \o Tail(actions) # <<>>
  BY <1>1, <1>2
<1>4. Head(<<first>> \o Tail(actions)) = first /\ Tail(<<first>> \o Tail(actions)) = Tail(actions)
  BY <1>1, <1>2
<1>5. LettersIn(r, <<first>> \o Tail(actions)) =
        LettersOf(r, first) \cup LettersIn(r, Tail(actions))
  <2> DEFINE new == <<first>> \o Tail(actions)
  <2> HIDE DEF new
  <2>1. new \in Seq(Actions) /\ new # <<>> /\ Head(new) = first /\ Tail(new) = Tail(actions)
    BY <1>3, <1>4 DEF new
  <2>2. LettersIn(r, new) = LettersOf(r, Head(new)) \cup LettersIn(r, Tail(new))
    BY <2>1, LettersSplit
  <2> QED
    BY <2>1, <2>2 DEF new
<1> QED
  BY <1>2, <1>3, <1>5 DEF Retry, first

LEMMA RetryInOrder ==
  ASSUME NEW actions \in Seq(Actions), actions # <<>>, InOrder(actions),
         NEW people \in SUBSET Attendees, people # {}
  PROVE  /\ InOrder(Retry(actions, people))
         /\ (\E i \in DOMAIN Retry(actions, people) : Retry(actions, people)[i].method = "CANCEL")
              => \E i \in DOMAIN actions : actions[i].method = "CANCEL"
<1> DEFINE new == Retry(actions, people)
<1>1. /\ Head(actions) \in Actions /\ Tail(actions) \in Seq(Actions) /\ Len(actions) \in Nat \ {0}
      /\ actions[1] = Head(actions) /\ DOMAIN actions = 1..Len(actions)
      /\ \A i \in 1..(Len(actions) - 1) : Tail(actions)[i] = actions[i + 1]
      /\ DOMAIN Tail(actions) = 1..(Len(actions) - 1)
  OBVIOUS
<1>2. [Head(actions) EXCEPT !.to = people].to = people
      /\ [Head(actions) EXCEPT !.to = people].method = actions[1].method
  BY <1>1 DEF Actions
<1>3. /\ DOMAIN new = 1..Len(actions)
      /\ new[1] = [Head(actions) EXCEPT !.to = people]
      /\ \A i \in 1..Len(actions) : i # 1 => new[i] = actions[i]
  <2> DEFINE first == [Head(actions) EXCEPT !.to = people]
  <2>1. new = <<first>> \o Tail(actions)
    BY DEF Retry
  <2> HIDE DEF first, new
  <2>2. Len(<<first>>) = 1 /\ Len(Tail(actions)) = Len(actions) - 1 /\ <<first>>[1] = first
    BY <1>1
  <2>3. /\ DOMAIN new = 1..Len(actions)
        /\ new[1] = first
        /\ \A i \in 1..Len(actions) : i # 1 => new[i] = Tail(actions)[i - 1]
    BY <2>1, <2>2, <1>1
  <2>4. \A i \in 1..Len(actions) : i # 1 => Tail(actions)[i - 1] = actions[i]
    BY <1>1
  <2> QED
    BY <2>3, <2>4 DEF first
<1> HIDE DEF new
<1>4. \A i \in DOMAIN new : new[i].method = actions[i].method /\ new[i].to # {}
  BY <1>1, <1>2, <1>3 DEF InOrder
<1>5. InOrder(new)
  BY <1>1, <1>3, <1>4 DEF InOrder
<1> QED
  BY <1>1, <1>3, <1>4, <1>5 DEF new

-----------------------------------------------------------------------------
(* What a step of a worker leaves as it is.                                *)

LEMMA RowPut ==
  ASSUME outbox \in Seq(OutboxRows), NEW r \in DOMAIN outbox, NEW row \in OutboxRows,
         outbox' = [outbox EXCEPT ![r] = row]
  PROVE  /\ outbox' \in Seq(OutboxRows) /\ Len(outbox') = Len(outbox)
         /\ DOMAIN outbox' = DOMAIN outbox
         /\ \A i \in DOMAIN outbox : outbox'[i] = IF i = r THEN row ELSE outbox[i]
OBVIOUS

LEMMA LettersKept ==
  ASSUME LettersInv, UNCHANGED <<event, asked, got, view, edits>>,
         DOMAIN outbox \subseteq DOMAIN outbox'
  PROVE  LettersInv'
<1>1. NumberInv'
  BY DEF LettersInv, NumberInv, HadInvitation
<1>2. \A a \in Attendees : LastWord(a)' /\ ViewInv(a)'
  BY DEF LettersInv, LastWord, ViewInv, Member
<1> QED
  BY <1>1, <1>2 DEF LettersInv

LEMMA RowKept ==
  ASSUME NEW r, NEW row, RowInv(r, row), UNCHANGED <<asked, got>>
  PROVE  RowInv(r, row)'
BY DEF RowInv, CancelsFirst, Exact, Asked

LEMMA RowsPut ==
  ASSUME outbox \in Seq(OutboxRows), RowsInv, UNCHANGED <<asked, got>>,
         NEW r \in DOMAIN outbox, NEW row \in OutboxRows, RowInv(r, row),
         outbox' = [outbox EXCEPT ![r] = row]
  PROVE  RowsInv'
<1>1. /\ DOMAIN outbox' = DOMAIN outbox
      /\ \A i \in DOMAIN outbox : outbox'[i] = IF i = r THEN row ELSE outbox[i]
  BY RowPut
<1>2. \A i \in DOMAIN outbox : RowInv(i, outbox'[i])
  BY <1>1 DEF RowsInv
<1> QED
  BY <1>1, <1>2 DEF RowsInv, RowInv, CancelsFirst, Exact, Asked

LEMMA RowsKept ==
  ASSUME RowsInv, UNCHANGED <<outbox, asked, got>>
  PROVE  RowsInv'
BY DEF RowsInv, RowInv, CancelsFirst, Exact, Asked

\* A worker keeps what it has unless the row is taken from it.
LEMMA HandKept ==
  ASSUME NEW q \in Workers, HandInv(q), SentInv(q), UNCHANGED <<asked, got>>,
         stage'[q] = stage[q], job'[q] = job[q], todo'[q] = todo[q], answer'[q] = answer[q],
         DOMAIN outbox \subseteq DOMAIN outbox',
         stage[q] # "idle" => /\ outbox'[job[q]].token = outbox[job[q]].token
                              /\ outbox'[job[q]].status = outbox[job[q]].status
                              /\ outbox'[job[q]].actions = outbox[job[q]].actions
  PROVE  HandInv(q)' /\ SentInv(q)'
<1>1. HandInv(q)'
  BY DEF HandInv, Row
<1>2. SentInv(q)'
  BY DEF SentInv, StillOwed, Asked
<1> QED
  BY <1>1, <1>2

LEMMA HandLost ==
  ASSUME NEW q \in Workers, HandInv(q), SentInv(q), UNCHANGED <<asked, got>>,
         stage'[q] = stage[q], job'[q] = job[q], todo'[q] = todo[q], answer'[q] = answer[q],
         DOMAIN outbox \subseteq DOMAIN outbox',
         outbox[job[q]].token # q \/ outbox[job[q]].status # "uncertain",
         outbox'[job[q]].token # q
  PROVE  HandInv(q)' /\ SentInv(q)'
BY DEF HandInv, SentInv, Row

LEMMA HandEmpty ==
  ASSUME NEW q \in Workers, stage'[q] = "idle"
  PROVE  HandInv(q)' /\ SentInv(q)'
BY DEF HandInv, SentInv

\* A step of one worker, which changes nothing but its own variables and, as long as it has the
\* claim, its row.
LEMMA WorkerMoves ==
  ASSUME InvitationInv, NEW w \in Workers, stage[w] # "idle",
         UNCHANGED <<event, asked, got, view, edits>>, troubles' \in 0..LastTrouble,
         stage' \in [Workers -> {"idle", "renew", "prepare", "begin", "dispatch", "answer"}],
         job' \in [Workers -> 0..Len(outbox)], todo' \in [Workers -> Seq(Actions)],
         answer' \in [Workers -> [known: BOOLEAN, rejected: SUBSET Attendees]],
         \A q \in Workers \ {w} : /\ stage'[q] = stage[q] /\ job'[q] = job[q]
                                 /\ todo'[q] = todo[q] /\ answer'[q] = answer[q],
         \/ outbox' = outbox
         \/ \E row \in OutboxRows :
              /\ Row(w).token = w /\ outbox' = [outbox EXCEPT ![job[w]] = row]
              /\ row.token \in {w, NoWorker} /\ RowInv(job[w], row),
         HandInv(w)' /\ SentInv(w)'
  PROVE  InvitationInv'
<1>1. /\ outbox \in Seq(OutboxRows) /\ Len(outbox) <= edits /\ job[w] \in DOMAIN outbox
      /\ RowsInv /\ LettersInv /\ \A q \in Workers : HandInv(q) /\ SentInv(q)
  BY DEF InvitationInv, InvitationTypeOK, HandsInv, HandInv
<1>2. CASE outbox' = outbox
  <2>1. \A q \in Workers : HandInv(q)' /\ SentInv(q)'
    BY <1>1, <1>2, HandKept
  <2>2. RowsInv' /\ LettersInv'
    BY <1>1, <1>2, RowsKept, LettersKept
  <2>3. InvitationTypeOK'
    BY <1>2 DEF InvitationInv, InvitationTypeOK
  <2> QED
    BY <2>1, <2>2, <2>3 DEF InvitationInv, HandsInv
<1>3. ASSUME NEW row \in OutboxRows, Row(w).token = w, outbox' = [outbox EXCEPT ![job[w]] = row],
             row.token \in {w, NoWorker}, RowInv(job[w], row)
      PROVE  InvitationInv'
  <2>1. /\ outbox' \in Seq(OutboxRows) /\ Len(outbox') = Len(outbox)
        /\ DOMAIN outbox' = DOMAIN outbox
        /\ \A i \in DOMAIN outbox : outbox'[i] = IF i = job[w] THEN row ELSE outbox[i]
    BY <1>1, <1>3, RowPut
  <2>2. ASSUME NEW q \in Workers
        PROVE  HandInv(q)' /\ SentInv(q)'
    <3>1. CASE q = w
      BY <3>1
    <3>2. CASE q # w /\ stage[q] # "idle" /\ job[q] = job[w]
      <4>1. outbox[job[q]].token # q /\ outbox'[job[q]].token # q
        BY <1>1, <1>3, <2>1, <3>2 DEF Row
      <4> QED
        BY <1>1, <2>1, <3>2, <4>1, HandLost
    <3>3. CASE q # w /\ (stage[q] = "idle" \/ job[q] # job[w])
      <4>1. stage[q] # "idle" => job[q] \in DOMAIN outbox
        BY <1>1 DEF HandInv
      <4>2. stage[q] # "idle" => outbox'[job[q]] = outbox[job[q]]
        BY <2>1, <3>3, <4>1
      <4> QED
        BY <1>1, <2>1, <3>3, <4>2, HandKept
    <3> QED
      BY <3>1, <3>2, <3>3
  <2>3. RowsInv' /\ LettersInv'
    BY <1>1, <1>3, <2>1, RowsPut, LettersKept
  <2>4. InvitationTypeOK'
    BY <2>1 DEF InvitationInv, InvitationTypeOK
  <2> QED
    BY <2>2, <2>3, <2>4 DEF InvitationInv, HandsInv
<1> QED
  BY <1>2, <1>3

-----------------------------------------------------------------------------
(* The steps of a worker.                                                  *)

LEMMA WorkerLeaves ==
  ASSUME InvitationInv, NEW w \in Workers, stage[w] # "idle", Leaves(w),
         UNCHANGED <<event, asked, got, view, edits>>, troubles' \in 0..LastTrouble,
         \/ outbox' = outbox
         \/ \E row \in OutboxRows :
              /\ Row(w).token = w /\ outbox' = [outbox EXCEPT ![job[w]] = row]
              /\ row.token \in {w, NoWorker} /\ RowInv(job[w], row)
  PROVE  InvitationInv'
<1>1. /\ stage' \in [Workers -> {"idle", "renew", "prepare", "begin", "dispatch", "answer"}]
      /\ job' \in [Workers -> 0..Len(outbox)] /\ todo' \in [Workers -> Seq(Actions)]
      /\ answer' \in [Workers -> [known: BOOLEAN, rejected: SUBSET Attendees]]
      /\ \A q \in Workers \ {w} : /\ stage'[q] = stage[q] /\ job'[q] = job[q]
                                 /\ todo'[q] = todo[q] /\ answer'[q] = answer[q]
      /\ stage'[w] = "idle"
  <2>1. <<>> \in Seq(Actions) /\ 0 \in 0..Len(outbox)
    BY DEF InvitationInv, InvitationTypeOK
  <2> QED
    BY <2>1 DEF InvitationInv, InvitationTypeOK, Leaves, Silence
<1>2. HandInv(w)' /\ SentInv(w)'
  BY <1>1, HandEmpty
<1> QED
  BY <1>1, <1>2, WorkerMoves

\* What holds of a worker and its row while it is at it.
LEMMA RowAtWork ==
  ASSUME InvitationInv, NEW w \in Workers, stage[w] # "idle"
  PROVE  /\ job[w] \in DOMAIN outbox /\ job[w] \in 1..LastEdit /\ Row(w) \in OutboxRows
         /\ Row(w).status \in {"sending", "processing", "uncertain", "failed", "sent"}
         /\ Row(w).actions \in Seq(Actions) /\ Row(w).attempts \in Nat
         /\ Row(w).attempts + 1 \in Nat
         /\ RowInv(job[w], Row(w)) /\ HandInv(w) /\ SentInv(w)
         /\ todo[w] \in Seq(Actions)
         /\ answer[w] \in [known: BOOLEAN, rejected: SUBSET Attendees]
         /\ troubles \in 0..LastTrouble /\ troubles \in Nat
<1>1. /\ outbox \in Seq(OutboxRows) /\ Len(outbox) <= edits /\ edits \in 0..LastEdit
      /\ HandInv(w) /\ SentInv(w) /\ RowsInv /\ todo[w] \in Seq(Actions)
      /\ answer[w] \in [known: BOOLEAN, rejected: SUBSET Attendees]
      /\ troubles \in 0..LastTrouble
  BY DEF InvitationInv, InvitationTypeOK, HandsInv
<1>2. job[w] \in DOMAIN outbox
  BY <1>1 DEF HandInv
<1>3. Row(w) \in OutboxRows /\ job[w] \in 1..LastEdit
  BY <1>1, <1>2 DEF Row
<1>4. Row(w).attempts \in Nat /\ Row(w).actions \in Seq(Actions)
      /\ Row(w).status \in {"sending", "processing", "uncertain", "failed", "sent"}
  BY <1>3 DEF OutboxRows
<1> QED
  BY <1>1, <1>2, <1>3, <1>4 DEF RowsInv, Row

LEMMA NewRow ==
  ASSUME NEW status \in {"sending", "processing", "uncertain", "failed", "sent"},
         NEW actions \in Seq(Actions), NEW token \in Workers \cup {NoWorker},
         NEW live \in BOOLEAN, NEW attempts \in Nat
  PROVE  [status |-> status, actions |-> actions, token |-> token, live |-> live,
          attempts |-> attempts] \in OutboxRows
BY DEF OutboxRows

LEMMA TroubleTyped ==
  ASSUME troubles \in 0..LastTrouble, Trouble PROVE troubles' \in 0..LastTrouble
BY DEF Trouble

LEMMA RenewInv ==
  ASSUME InvitationInv, NEW w \in Workers, Renew(w) \/ Prepare(w)
  PROVE  InvitationInv'
<1>1. stage[w] \in {"renew", "prepare"} /\ stage[w] # "idle"
      /\ UNCHANGED <<event, outbox, asked, got, view, edits, troubles>>
  BY DEF Renew, Prepare
<1>2. troubles' \in 0..LastTrouble /\ HandInv(w)
  BY <1>1, RowAtWork
<1>3. CASE Leaves(w)
  BY <1>1, <1>2, <1>3, WorkerLeaves
<1>4. CASE /\ UNCHANGED <<job, todo, answer>>
           /\ stage' = [stage EXCEPT ![w] = "prepare"] \/ stage' = [stage EXCEPT ![w] = "begin"]
  <2>1. /\ stage' \in [Workers -> {"idle", "renew", "prepare", "begin", "dispatch", "answer"}]
        /\ job' \in [Workers -> 0..Len(outbox)] /\ todo' \in [Workers -> Seq(Actions)]
        /\ answer' \in [Workers -> [known: BOOLEAN, rejected: SUBSET Attendees]]
        /\ stage'[w] \in {"prepare", "begin"}
        /\ \A q \in Workers \ {w} : stage'[q] = stage[q]
    BY <1>4 DEF InvitationInv, InvitationTypeOK
  <2>2. HandInv(w)' /\ SentInv(w)'
    BY <1>1, <1>2, <1>4, <2>1 DEF HandInv, SentInv, Row
  <2> QED
    BY <1>1, <1>2, <1>4, <2>1, <2>2, WorkerMoves
<1> QED
  BY <1>3, <1>4 DEF Renew, Prepare, Goes

LEMMA BeginInv ==
  ASSUME InvitationInv, NEW w \in Workers, BeginDispatch(w)
  PROVE  InvitationInv'
<1>1. stage[w] = "begin" /\ UNCHANGED <<event, asked, got, view, edits, troubles>>
  BY DEF BeginDispatch
<1>2. /\ job[w] \in DOMAIN outbox /\ Row(w) \in OutboxRows /\ HandInv(w)
      /\ RowInv(job[w], Row(w)) /\ troubles' \in 0..LastTrouble
  BY <1>1, RowAtWork
<1>3. CASE Leaves(w) /\ UNCHANGED outbox
  BY <1>1, <1>2, <1>3, WorkerLeaves
<1>4. CASE /\ Holds(w, {"processing"}) /\ Stores(w, [Row(w) EXCEPT !.status = "uncertain"])
           /\ Goes(w, "dispatch") /\ UNCHANGED <<job, todo, answer>>
  <2> DEFINE row == [Row(w) EXCEPT !.status = "uncertain"]
  <2>1. row \in OutboxRows /\ row.actions = Row(w).actions /\ row.token = w
        /\ row.status = "uncertain" /\ Row(w).token = w /\ Row(w).status = "processing"
    BY <1>2, <1>4 DEF OutboxRows, Holds
  <2>2. outbox' = [outbox EXCEPT ![job[w]] = row]
    BY <1>4 DEF Stores
  <2> HIDE DEF row
  <2>3. RowInv(job[w], row)
    BY <1>2, <2>1 DEF RowInv, CancelsFirst, Exact
  <2>4. /\ stage' \in [Workers -> {"idle", "renew", "prepare", "begin", "dispatch", "answer"}]
        /\ job' \in [Workers -> 0..Len(outbox)] /\ todo' \in [Workers -> Seq(Actions)]
        /\ answer' \in [Workers -> [known: BOOLEAN, rejected: SUBSET Attendees]]
        /\ stage'[w] = "dispatch" /\ \A q \in Workers \ {w} : stage'[q] = stage[q]
    BY <1>4 DEF InvitationInv, InvitationTypeOK, Goes
  <2>5. outbox \in Seq(OutboxRows)
    BY DEF InvitationInv, InvitationTypeOK
  <2>6. Row(w)' = row /\ DOMAIN outbox' = DOMAIN outbox
    BY <1>2, <1>4, <2>1, <2>2, <2>5, RowPut DEF Row
  <2>7. todo[w] = Row(w).actions /\ todo'[w] = todo[w] /\ job'[w] = job[w]
    BY <1>1, <1>2, <1>4, <2>1 DEF HandInv
  <2>8. HandInv(w)'
    BY <1>2, <2>1, <2>4, <2>6, <2>7 DEF HandInv
  <2>9. LettersIn(job[w], todo[w]) = Asked(job[w]) \ got
    BY <1>2, <2>1, <2>7 DEF RowInv, Exact
  <2>10. SentInv(w)'
    BY <1>1, <2>4, <2>7, <2>9 DEF SentInv, Asked
  <2> QED
    BY <1>1, <1>2, <1>4, <2>1, <2>2, <2>3, <2>4, <2>8, <2>10, WorkerMoves
<1> QED
  BY <1>3, <1>4 DEF BeginDispatch

LEMMA MarkFailedInv ==
  ASSUME InvitationInv, NEW w \in Workers, stage[w] # "idle", NEW actions \in Seq(Actions),
         MarkFailed(w, actions), troubles' \in 0..LastTrouble,
         Row(w).token = w =>
           /\ InOrder(actions) /\ actions # <<>>
           /\ (\E i \in DOMAIN actions : actions[i].method = "CANCEL") =>
                \E i \in DOMAIN Row(w).actions : Row(w).actions[i].method = "CANCEL"
           /\ LettersIn(job[w], actions) = Asked(job[w]) \ got
  PROVE  InvitationInv'
<1>1. Leaves(w) /\ UNCHANGED <<event, asked, got, view, edits>>
  BY DEF MarkFailed
<1>2. CASE UNCHANGED outbox
  BY <1>1, <1>2, WorkerLeaves
<1>3. CASE Holds(w, {"processing", "uncertain"})
  <2> DEFINE row == [status |-> "failed", actions |-> actions, token |-> NoWorker,
                     live |-> FALSE, attempts |-> Row(w).attempts + 1]
  <2>1. Row(w).attempts + 1 \in Nat /\ RowInv(job[w], Row(w))
    BY RowAtWork
  <2>2. row \in OutboxRows
    BY <2>1, NewRow
  <2>3. outbox' = [outbox EXCEPT ![job[w]] = row]
    BY <1>3 DEF MarkFailed, Stores
  <2>4. row.actions = actions /\ row.status = "failed" /\ row.token = NoWorker
    OBVIOUS
  <2> HIDE DEF row
  <2>5. Row(w).token = w
    BY <1>3 DEF Holds
  <2>6. RowInv(job[w], row)
    BY <2>1, <2>4, <2>5 DEF RowInv, CancelsFirst, Exact
  <2> QED
    BY <1>1, <2>2, <2>3, <2>4, <2>5, <2>6, WorkerLeaves
<1> QED
  BY <1>2, <1>3 DEF MarkFailed

LEMMA PrepareFailsInv ==
  ASSUME InvitationInv, NEW w \in Workers, PrepareFails(w)
  PROVE  InvitationInv'
<1>1. stage[w] = "prepare" /\ MarkFailed(w, todo[w]) /\ Trouble
  BY DEF PrepareFails
<1>2. /\ troubles \in 0..LastTrouble /\ todo[w] \in Seq(Actions) /\ HandInv(w)
      /\ RowInv(job[w], Row(w))
  BY <1>1, RowAtWork
<1>3. troubles' \in 0..LastTrouble
  BY <1>1, <1>2, TroubleTyped
<1>4. ASSUME Row(w).token = w
      PROVE  /\ todo[w] = Row(w).actions /\ InOrder(todo[w]) /\ todo[w] # <<>>
             /\ LettersIn(job[w], todo[w]) = Asked(job[w]) \ got
  BY <1>1, <1>2, <1>4 DEF HandInv, RowInv, Exact
<1> QED
  BY <1>1, <1>2, <1>3, <1>4, MarkFailedInv

\* An answer that is known: the row is the worker's, and its actions are in hand.
LEMMA Answered ==
  ASSUME InvitationInv, NEW w \in Workers, stage[w] = "answer", answer[w].known
  PROVE  /\ Row(w).token = w /\ Row(w).status = "uncertain" /\ todo[w] = Row(w).actions
         /\ todo[w] \in Seq(Actions) /\ todo[w] # <<>> /\ InOrder(todo[w])
         /\ LettersIn(job[w], StillOwed(w)) = Asked(job[w]) \ got
         /\ answer[w].rejected \in SUBSET Attendees
<1>1. /\ HandInv(w) /\ SentInv(w) /\ RowInv(job[w], Row(w)) /\ todo[w] \in Seq(Actions)
      /\ answer[w] \in [known: BOOLEAN, rejected: SUBSET Attendees]
  BY RowAtWork
<1>2. Row(w).token = w /\ Row(w).status = "uncertain" /\ todo[w] = Row(w).actions
  BY <1>1 DEF HandInv
<1> QED
  BY <1>1, <1>2 DEF RowInv, SentInv

LEMMA RejectedInv ==
  ASSUME InvitationInv, NEW w \in Workers, Rejected(w)
  PROVE  InvitationInv'
<1>1. /\ stage[w] = "answer" /\ answer[w].known /\ answer[w].rejected # {}
      /\ MarkFailed(w, StillOwed(w)) /\ UNCHANGED troubles
  BY DEF Rejected
<1>2. /\ todo[w] = Row(w).actions /\ todo[w] \in Seq(Actions) /\ todo[w] # <<>>
      /\ InOrder(todo[w]) /\ LettersIn(job[w], StillOwed(w)) = Asked(job[w]) \ got
      /\ answer[w].rejected \in SUBSET Attendees
  BY <1>1, Answered
<1>3. StillOwed(w) = Retry(todo[w], answer[w].rejected)
  BY DEF StillOwed, Retry
<1>4. StillOwed(w) \in Seq(Actions) /\ StillOwed(w) # <<>>
  BY <1>2, <1>3, RetryShape
<1>5. /\ InOrder(StillOwed(w))
      /\ (\E i \in DOMAIN StillOwed(w) : StillOwed(w)[i].method = "CANCEL")
           => \E i \in DOMAIN todo[w] : todo[w][i].method = "CANCEL"
  BY <1>1, <1>2, <1>3, RetryInOrder
<1>6. troubles' \in 0..LastTrouble
  BY <1>1, RowAtWork
<1> QED
  BY <1>1, <1>2, <1>4, <1>5, <1>6, MarkFailedInv

\* When the mail is taken by all, the later actions are what is owed.
LEMMA TakenOwes ==
  ASSUME InvitationInv, NEW w \in Workers, Taken(w)
  PROVE  LettersIn(job[w], Tail(todo[w])) = Asked(job[w]) \ got
<1>1. stage[w] = "answer" /\ answer[w].known /\ answer[w].rejected = {}
  BY DEF Taken
<1>2. /\ todo[w] \in Seq(Actions) /\ todo[w] # <<>>
      /\ LettersIn(job[w], StillOwed(w)) = Asked(job[w]) \ got
  BY <1>1, Answered
<1>3. StillOwed(w) = Retry(todo[w], {})
  BY <1>1 DEF StillOwed, Retry
<1>4. /\ [Head(todo[w]) EXCEPT !.to = {}] \in Actions
      /\ LettersIn(job[w], StillOwed(w)) =
           LettersOf(job[w], [Head(todo[w]) EXCEPT !.to = {}]) \cup LettersIn(job[w], Tail(todo[w]))
  BY <1>2, <1>3, RetryShape
<1>5. Head(todo[w]) \in Actions
  BY <1>2, LettersSplit
<1>6. LettersOf(job[w], [Head(todo[w]) EXCEPT !.to = {}]) = {}
  BY <1>5 DEF LettersOf, Actions
<1> QED
  BY <1>2, <1>4, <1>6

LEMMA CheckpointInv ==
  ASSUME InvitationInv, NEW w \in Workers, Checkpoint(w)
  PROVE  InvitationInv'
<1>1. /\ Taken(w) /\ Len(todo[w]) > 1 /\ stage[w] = "answer" /\ answer[w].known
      /\ UNCHANGED <<event, asked, got, view, edits, troubles>>
  BY DEF Checkpoint, Taken
<1>2. /\ job[w] \in DOMAIN outbox /\ Row(w).attempts \in Nat /\ RowInv(job[w], Row(w))
      /\ HandInv(w) /\ troubles' \in 0..LastTrouble
  BY <1>1, RowAtWork
<1>3. CASE Leaves(w) /\ UNCHANGED outbox
  BY <1>1, <1>2, <1>3, WorkerLeaves
<1>4. CASE /\ Stores(w, [status |-> "processing", actions |-> Tail(todo[w]), token |-> w,
                         live |-> TRUE, attempts |-> Row(w).attempts])
           /\ todo' = [todo EXCEPT ![w] = Tail(todo[w])]
           /\ answer' = [answer EXCEPT ![w] = Silence]
           /\ Goes(w, "renew") /\ UNCHANGED job
  <2> DEFINE row == [status |-> "processing", actions |-> Tail(todo[w]), token |-> w,
                     live |-> TRUE, attempts |-> Row(w).attempts]
  <2>1. /\ Row(w).token = w /\ todo[w] \in Seq(Actions) /\ todo[w] # <<>> /\ InOrder(todo[w])
    BY <1>1, Answered
  <2>2. Tail(todo[w]) \in Seq(Actions) /\ Tail(todo[w]) # <<>>
    BY <1>1, <2>1, LaterActions
  <2>3. row \in OutboxRows
    BY <1>2, <2>2, NewRow
  <2>4. row.actions = Tail(todo[w]) /\ row.status = "processing" /\ row.token = w
    OBVIOUS
  <2>5. outbox' = [outbox EXCEPT ![job[w]] = row]
    BY <1>4 DEF Stores
  <2> HIDE DEF row
  <2>6. /\ InOrder(Tail(todo[w]))
        /\ \A i \in DOMAIN Tail(todo[w]) : Tail(todo[w])[i].method = "REQUEST"
    BY <2>1, TailIsRequest
  <2>7. LettersIn(job[w], Tail(todo[w])) = Asked(job[w]) \ got
    BY <1>1, TakenOwes
  <2>8. RowInv(job[w], row)
    BY <2>2, <2>4, <2>6, <2>7 DEF RowInv, CancelsFirst, Exact
  <2>9. /\ stage' \in [Workers -> {"idle", "renew", "prepare", "begin", "dispatch", "answer"}]
        /\ job' \in [Workers -> 0..Len(outbox)] /\ todo' \in [Workers -> Seq(Actions)]
        /\ answer' \in [Workers -> [known: BOOLEAN, rejected: SUBSET Attendees]]
        /\ stage'[w] = "renew" /\ todo'[w] = Tail(todo[w]) /\ job'[w] = job[w]
        /\ \A q \in Workers \ {w} : /\ stage'[q] = stage[q] /\ job'[q] = job[q]
                                   /\ todo'[q] = todo[q] /\ answer'[q] = answer[q]
    BY <1>4, <2>2 DEF InvitationInv, InvitationTypeOK, Goes, Silence
  <2>10. outbox \in Seq(OutboxRows)
    BY DEF InvitationInv, InvitationTypeOK
  <2>11. Row(w)' = row /\ DOMAIN outbox' = DOMAIN outbox
    BY <1>2, <2>3, <2>5, <2>9, <2>10, RowPut DEF Row
  <2>12. HandInv(w)' /\ SentInv(w)'
    BY <1>2, <2>4, <2>9, <2>11 DEF HandInv, SentInv
  <2> QED
    BY <1>1, <1>2, <2>1, <2>3, <2>4, <2>5, <2>8, <2>9, <2>12, WorkerMoves
<1> QED
  BY <1>3, <1>4 DEF Checkpoint

LEMMA CompleteInv ==
  ASSUME InvitationInv, NEW w \in Workers, CompleteDelivery(w)
  PROVE  InvitationInv'
<1>1. /\ Taken(w) /\ Len(todo[w]) = 1 /\ stage[w] = "answer" /\ answer[w].known
      /\ Leaves(w) /\ UNCHANGED <<event, asked, got, view, edits, troubles>>
  BY DEF CompleteDelivery, Taken
<1>2. /\ Row(w).attempts + 1 \in Nat /\ troubles' \in 0..LastTrouble
  BY <1>1, RowAtWork
<1>3. CASE UNCHANGED outbox
  BY <1>1, <1>2, <1>3, WorkerLeaves
<1>4. CASE Stores(w, [status |-> "sent", actions |-> <<>>, token |-> NoWorker, live |-> FALSE,
                      attempts |-> Row(w).attempts + 1])
  <2> DEFINE row == [status |-> "sent", actions |-> <<>>, token |-> NoWorker, live |-> FALSE,
                     attempts |-> Row(w).attempts + 1]
  <2>1. Row(w).token = w /\ todo[w] \in Seq(Actions)
    BY <1>1, Answered
  <2>2. <<>> \in Seq(Actions) /\ Tail(todo[w]) = <<>>
    <3>1. todo[w] # <<>>
      BY <1>1, Answered
    <3>2. Tail(todo[w]) \in Seq(Actions) /\ Len(Tail(todo[w])) = 0
      BY <1>1, <2>1, <3>1
    <3> QED
      BY <3>2, EmptySeq
  <2>3. row \in OutboxRows
    BY <1>2, <2>2, NewRow
  <2>4. row.actions = <<>> /\ row.status = "sent" /\ row.token = NoWorker
    OBVIOUS
  <2>5. outbox' = [outbox EXCEPT ![job[w]] = row]
    BY <1>4 DEF Stores
  <2> HIDE DEF row
  <2>6. LettersIn(job[w], <<>>) = Asked(job[w]) \ got
    BY <1>1, <2>2, TakenOwes
  <2>7. RowInv(job[w], row)
    BY <2>4, <2>6 DEF RowInv, CancelsFirst, Exact, InOrder
  <2> QED
    BY <1>1, <1>2, <2>1, <2>3, <2>4, <2>5, <2>7, WorkerLeaves
<1> QED
  BY <1>3, <1>4 DEF CompleteDelivery

LEMMA LeavingInv ==
  ASSUME InvitationInv, NEW w \in Workers, StaysUncertain(w) \/ WorkerDies(w)
  PROVE  InvitationInv'
<1>1. /\ stage[w] # "idle" /\ Leaves(w) /\ UNCHANGED <<event, outbox, asked, got, view, edits>>
      /\ UNCHANGED troubles \/ Trouble
  BY DEF StaysUncertain, WorkerDies
<1>2. troubles' \in 0..LastTrouble
  BY <1>1, RowAtWork, TroubleTyped
<1> QED
  BY <1>1, <1>2, WorkerLeaves

LEMMA ClaimInv ==
  ASSUME InvitationInv, NEW w \in Workers, NEW r \in DOMAIN outbox, ClaimRow(w, r)
  PROVE  InvitationInv'
<1> DEFINE row == [status |-> "processing", actions |-> outbox[r].actions, token |-> w,
                   live |-> TRUE, attempts |-> outbox[r].attempts]
<1>1. /\ outbox \in Seq(OutboxRows) /\ outbox[r] \in OutboxRows /\ RowInv(r, outbox[r])
      /\ RowsInv /\ LettersInv /\ r \in 0..Len(outbox)
      /\ \A q \in Workers : HandInv(q) /\ SentInv(q)
  BY DEF InvitationInv, InvitationTypeOK, RowsInv, HandsInv
<1>2. /\ outbox[r].status \in {"sending", "failed", "processing"}
      /\ UNCHANGED <<event, answer, asked, got, view, edits, troubles>>
      /\ outbox' = [outbox EXCEPT ![r] = row] /\ stage' = [stage EXCEPT ![w] = "renew"]
      /\ job' = [job EXCEPT ![w] = r] /\ todo' = [todo EXCEPT ![w] = outbox[r].actions]
  BY DEF ClaimRow, Deliverable, Claimed, Abandoned, Goes
<1>3. outbox[r].actions \in Seq(Actions) /\ outbox[r].attempts \in Nat
  BY <1>1 DEF OutboxRows
<1>4. row \in OutboxRows
  BY <1>3, NewRow
<1>5. row.actions = outbox[r].actions /\ row.status = "processing" /\ row.token = w
  OBVIOUS
<1> HIDE DEF row
<1>6. RowInv(r, row)
  BY <1>1, <1>2, <1>5 DEF RowInv, CancelsFirst, Exact
<1>7. /\ outbox' \in Seq(OutboxRows) /\ Len(outbox') = Len(outbox)
      /\ DOMAIN outbox' = DOMAIN outbox
      /\ \A i \in DOMAIN outbox : outbox'[i] = IF i = r THEN row ELSE outbox[i]
  BY <1>1, <1>2, <1>4, RowPut
<1>8. /\ stage' \in [Workers -> {"idle", "renew", "prepare", "begin", "dispatch", "answer"}]
      /\ job' \in [Workers -> 0..Len(outbox)] /\ todo' \in [Workers -> Seq(Actions)]
      /\ stage'[w] = "renew" /\ job'[w] = r /\ todo'[w] = outbox[r].actions
      /\ \A q \in Workers \ {w} : /\ stage'[q] = stage[q] /\ job'[q] = job[q]
                                 /\ todo'[q] = todo[q] /\ answer'[q] = answer[q]
  BY <1>1, <1>2, <1>3 DEF InvitationInv, InvitationTypeOK
<1>9. InvitationTypeOK'
  BY <1>2, <1>7, <1>8 DEF InvitationInv, InvitationTypeOK
<1>10. RowsInv' /\ LettersInv'
  BY <1>1, <1>2, <1>4, <1>6, <1>7, RowsPut, LettersKept
<1>11. ASSUME NEW q \in Workers
       PROVE  HandInv(q)' /\ SentInv(q)'
  <2>1. CASE q = w
    BY <1>5, <1>7, <1>8, <2>1 DEF HandInv, SentInv, Row
  <2>2. CASE q # w /\ stage[q] # "idle" /\ job[q] = r
    <3>1. outbox[job[q]].status # "uncertain" /\ outbox'[job[q]].token # q
      BY <1>2, <1>5, <1>7, <2>2
    <3> QED
      BY <1>1, <1>2, <1>7, <1>8, <2>2, <3>1, HandLost
  <2>3. CASE q # w /\ (stage[q] = "idle" \/ job[q] # r)
    <3>1. stage[q] # "idle" => job[q] \in DOMAIN outbox
      BY <1>1 DEF HandInv
    <3>2. stage[q] # "idle" => outbox'[job[q]] = outbox[job[q]]
      BY <1>7, <2>3, <3>1
    <3> QED
      BY <1>1, <1>2, <1>7, <1>8, <2>3, <3>2, HandKept
  <2> QED
    BY <2>1, <2>2, <2>3
<1> QED
  BY <1>9, <1>10, <1>11 DEF InvitationInv, HandsInv

LEMMA ExpiresInv ==
  ASSUME InvitationInv, NEW r \in DOMAIN outbox, ClaimExpires(r)
  PROVE  InvitationInv'
<1> DEFINE row == [outbox[r] EXCEPT !.live = FALSE]
<1>1. /\ outbox \in Seq(OutboxRows) /\ outbox[r] \in OutboxRows /\ RowInv(r, outbox[r])
      /\ RowsInv /\ LettersInv /\ troubles \in 0..LastTrouble
      /\ \A q \in Workers : HandInv(q) /\ SentInv(q)
  BY DEF InvitationInv, InvitationTypeOK, RowsInv, HandsInv
<1>2. /\ UNCHANGED <<event, stage, job, todo, answer, asked, got, view, edits>>
      /\ outbox' = [outbox EXCEPT ![r].live = FALSE]
  BY DEF ClaimExpires
<1>3. outbox' = [outbox EXCEPT ![r] = row]
  BY <1>1, <1>2
<1>4. /\ row \in OutboxRows /\ row.actions = outbox[r].actions /\ row.status = outbox[r].status
      /\ row.token = outbox[r].token
  BY <1>1 DEF OutboxRows
<1> HIDE DEF row
<1>5. RowInv(r, row)
  BY <1>1, <1>4 DEF RowInv, CancelsFirst, Exact
<1>6. /\ outbox' \in Seq(OutboxRows) /\ Len(outbox') = Len(outbox)
      /\ DOMAIN outbox' = DOMAIN outbox
      /\ \A i \in DOMAIN outbox : outbox'[i] = IF i = r THEN row ELSE outbox[i]
  BY <1>1, <1>3, <1>4, RowPut
<1>7. troubles' \in 0..LastTrouble
  BY <1>1, TroubleTyped DEF ClaimExpires
<1>8. InvitationTypeOK'
  BY <1>2, <1>6, <1>7 DEF InvitationInv, InvitationTypeOK
<1>9. RowsInv' /\ LettersInv'
  BY <1>1, <1>2, <1>3, <1>4, <1>5, <1>6, RowsPut, LettersKept
<1>10. ASSUME NEW q \in Workers
       PROVE  HandInv(q)' /\ SentInv(q)'
  <2>1. stage[q] # "idle" => job[q] \in DOMAIN outbox
    BY <1>1 DEF HandInv
  <2>2. stage[q] # "idle" => /\ outbox'[job[q]].token = outbox[job[q]].token
                             /\ outbox'[job[q]].status = outbox[job[q]].status
                             /\ outbox'[job[q]].actions = outbox[job[q]].actions
    BY <1>4, <1>6, <2>1
  <2> QED
    BY <1>1, <1>2, <1>6, <2>2, HandKept
<1> QED
  BY <1>8, <1>9, <1>10 DEF InvitationInv, HandsInv

-----------------------------------------------------------------------------
(* A mail is taken.                                                        *)

\* Reads, letter by letter: the new calendar of an attendee agrees with what was taken.
LEMMA ReadsLetter ==
  ASSUME NEW a \in Attendees, ViewInv(a), NEW action \in Actions, NEW r \in Nat,
         view \in [Attendees -> [sequence: Sequences, invited: BOOLEAN]],
         got \subseteq Letters,
         got' = got \cup LettersOf(r, action),
         view' = [b \in Attendees |-> Reads(b, action)],
         action.method = "CANCEL" =>
           \A l \in got : l.who = a /\ l.method = "REQUEST" => l.sequence # action.sequence
  PROVE  ViewInv(a)'
<1>1. view'[a] = Reads(a, action)
  OBVIOUS
<1>2. /\ action.sequence \in Nat /\ view[a].sequence \in Nat /\ action.to \subseteq Attendees
      /\ action.method \in {"REQUEST", "CANCEL"} /\ view[a].invited \in BOOLEAN
      /\ \A l \in got : l.sequence \in Nat
  BY DEF Actions, Sequences, Letters
<1>3. \A l \in LettersOf(r, action) :
        l.method = action.method /\ l.sequence = action.sequence /\ l.who \in action.to
  BY LetterOf
<1>4. CASE a \in action.to /\ action.sequence >= view[a].sequence
  <2>1. view'[a].sequence = action.sequence /\ view'[a].invited = (action.method = "REQUEST")
    BY <1>1, <1>4 DEF Reads
  <2>2. PICK letter \in LettersOf(r, action) :
          letter.method = action.method /\ letter.sequence = action.sequence /\ letter.who = a
    BY <1>4, OfLetter
  <2>3. \A l \in got' : l.who = a => l.sequence <= view'[a].sequence
    <3>1. \A l \in got : l.who = a => l.sequence <= view[a].sequence
      BY DEF ViewInv
    <3> QED
      BY <3>1, <2>1, <1>2, <1>3, <1>4
  <2>4. CASE action.method = "REQUEST"
    BY <2>1, <2>2, <2>3, <2>4 DEF ViewInv
  <2>5. CASE action.method = "CANCEL"
    <3>1. \A l \in got' : l.who = a /\ l.method = "REQUEST" => l.sequence # view'[a].sequence
      BY <2>1, <2>5, <1>3
    <3> QED
      BY <2>1, <2>2, <2>3, <2>5, <3>1 DEF ViewInv
  <2> QED
    BY <1>2, <2>4, <2>5
<1>5. CASE ~(a \in action.to /\ action.sequence >= view[a].sequence)
  <2>1. view'[a] = view[a]
    BY <1>1, <1>5 DEF Reads
  <2>2. \A l \in LettersOf(r, action) :
          l.who = a => l.sequence <= view[a].sequence /\ l.sequence # view[a].sequence
    BY <1>2, <1>3, <1>5
  <2>3. \A l \in got' : l.who = a => l.sequence <= view'[a].sequence
    BY <2>1, <2>2 DEF ViewInv
  <2>4. view'[a].sequence = 0 \/ \E l \in got' : l.who = a /\ l.sequence = view'[a].sequence
    BY <2>1 DEF ViewInv
  <2>5. view'[a].invited <=>
          \E l \in got' : l.who = a /\ l.method = "REQUEST" /\ l.sequence = view'[a].sequence
    BY <2>1, <2>2 DEF ViewInv
  <2> QED
    BY <2>3, <2>4, <2>5 DEF ViewInv
<1> QED
  BY <1>4, <1>5

LEMMA RowElsewhere ==
  ASSUME NEW i, NEW row \in OutboxRows, RowInv(i, row), asked' = asked,
         got \subseteq got', \A l \in got' : l.row = i => l \in got
  PROVE  RowInv(i, row)'
<1>1. \A l \in LettersIn(i, row.actions) : l.row = i
  BY LetterOf DEF LettersIn, OutboxRows
<1>2. Asked(i)' \ got' = Asked(i) \ got
  BY DEF Asked
<1>3. LettersIn(i, row.actions) \cap got' = LettersIn(i, row.actions) \cap got
  BY <1>1
<1>4. Exact(i, row)'
  BY <1>2, <1>3 DEF RowInv, Exact
<1>5. CancelsFirst(i, row)'
  BY DEF RowInv, CancelsFirst
<1> QED
  BY <1>4, <1>5 DEF RowInv

\* What the server has taken of the mail is what the row owes less.
LEMMA OwesLess ==
  ASSUME NEW r \in Nat, NEW actions \in Seq(Actions), actions # <<>>, InOrder(actions),
         NEW taken \in SUBSET Head(actions).to
  PROVE  LettersIn(r, Retry(actions, Head(actions).to \ taken)) =
           LettersIn(r, actions) \ LettersOf(r, [Head(actions) EXCEPT !.to = taken])
<1> DEFINE first == Head(actions)
           rest == first.to \ taken
<1>1. /\ first \in Actions
      /\ LettersIn(r, actions) = LettersOf(r, first) \cup LettersIn(r, Tail(actions))
  BY LettersSplit
<1>2. rest \in SUBSET Attendees /\ taken \in SUBSET Attendees
  BY <1>1 DEF Actions
<1>3. LettersIn(r, Retry(actions, rest)) =
        LettersOf(r, [first EXCEPT !.to = rest]) \cup LettersIn(r, Tail(actions))
  BY <1>2, RetryShape
<1>4. LettersOf(r, [first EXCEPT !.to = rest]) =
        LettersOf(r, first) \ LettersOf(r, [first EXCEPT !.to = taken])
  BY <1>1 DEF LettersOf, Actions
<1>5. [first EXCEPT !.to = taken] \in Actions /\ [first EXCEPT !.to = taken].method = first.method
  BY <1>1, <1>2 DEF Actions
<1>6. \A l \in LettersOf(r, [first EXCEPT !.to = taken]) : l.method = first.method
  <2> DEFINE part == [first EXCEPT !.to = taken]
  <2> HIDE DEF part
  <2>1. part \in Actions /\ part.method = first.method
    BY <1>5 DEF part
  <2>2. \A l \in LettersOf(r, part) : l.method = first.method
    BY <2>1, LetterOf
  <2> QED
    BY <2>2 DEF part
<1>7. \A l \in LettersIn(r, Tail(actions)) : l.method = "REQUEST" /\ first.method = "CANCEL"
  BY TailIsRequest
<1> QED
  BY <1>1, <1>3, <1>4, <1>6, <1>7

LEMMA DispatchInv ==
  ASSUME InvitationInv, NEW w \in Workers, Dispatch(w)
  PROVE  InvitationInv'
<1> DEFINE r == job[w]
           first == Head(todo[w])
<1>1. /\ stage[w] = "dispatch" /\ stage' = [stage EXCEPT ![w] = "answer"]
      /\ UNCHANGED <<event, outbox, job, todo, asked, edits>>
  BY DEF Dispatch, Goes
<1>2. PICK taken \in SUBSET first.to, known \in BOOLEAN :
        /\ IF known /\ taken = first.to THEN UNCHANGED troubles ELSE Trouble
        /\ got' = got \cup LettersOf(r, [first EXCEPT !.to = taken])
        /\ view' = [a \in Attendees |-> Reads(a, [first EXCEPT !.to = taken])]
        /\ answer' = [answer EXCEPT ![w] = IF ~known THEN Silence
                                           ELSE [known |-> TRUE, rejected |-> first.to \ taken]]
  BY DEF Dispatch
<1>3. /\ r \in DOMAIN outbox /\ r \in 1..LastEdit /\ Row(w) \in OutboxRows
      /\ RowInv(r, Row(w)) /\ HandInv(w) /\ SentInv(w) /\ todo[w] \in Seq(Actions)
      /\ troubles \in 0..LastTrouble
  BY <1>1, RowAtWork
<1>4. /\ Row(w).token = w /\ Row(w).status = "uncertain" /\ todo[w] = Row(w).actions
      /\ LettersIn(r, todo[w]) = Asked(r) \ got
  BY <1>1, <1>3 DEF HandInv, SentInv
<1>5. todo[w] # <<>> /\ InOrder(todo[w])
  BY <1>3, <1>4 DEF RowInv
<1>6. /\ first \in Actions
      /\ LettersIn(r, todo[w]) = LettersOf(r, first) \cup LettersIn(r, Tail(todo[w]))
  BY <1>3, <1>5, LettersSplit
<1> DEFINE part == [first EXCEPT !.to = taken]
           new == LettersOf(r, part)
<1>7. /\ part \in Actions /\ part.to = taken /\ part.method = first.method
      /\ part.sequence = first.sequence /\ taken \subseteq Attendees
  BY <1>6 DEF Actions
<1>8. new \subseteq LettersOf(r, first)
  BY <1>6, <1>7 DEF LettersOf
<1> HIDE DEF part
<1>9. \A l \in new : /\ l.row = r /\ l.method = first.method /\ l.sequence = first.sequence
  BY <1>7, LetterOf
<1>10. new \subseteq asked /\ new \subseteq Asked(r) \ got
  BY <1>4, <1>6, <1>8 DEF Asked
<1>11. got' = got \cup new
  BY <1>2 DEF part
<1> HIDE DEF new
<1>12. InvitationTypeOK'
  <2>1. got' \subseteq asked
    BY <1>10, <1>11 DEF InvitationInv, InvitationTypeOK
  <2>2. view' \in [Attendees -> [sequence: Sequences, invited: BOOLEAN]]
    <3>1. \A a \in Attendees : Reads(a, part) \in [sequence: Sequences, invited: BOOLEAN]
      BY <1>7 DEF Reads, Actions, InvitationInv, InvitationTypeOK
    <3> QED
      BY <1>2, <3>1 DEF part
  <2>3. answer' \in [Workers -> [known: BOOLEAN, rejected: SUBSET Attendees]]
    <3>1. first.to \ taken \in SUBSET Attendees
      BY <1>6 DEF Actions
    <3> QED
      BY <1>2, <3>1 DEF Silence, InvitationInv, InvitationTypeOK
  <2>4. troubles' \in 0..LastTrouble
    BY <1>2, <1>3, TroubleTyped
  <2>5. stage' \in [Workers -> {"idle", "renew", "prepare", "begin", "dispatch", "answer"}]
    BY <1>1 DEF InvitationInv, InvitationTypeOK
  <2> QED
    BY <1>1, <2>1, <2>2, <2>3, <2>4, <2>5 DEF InvitationInv, InvitationTypeOK
<1>13. RowsInv'
  <2>1. ASSUME NEW i \in DOMAIN outbox, i # r
        PROVE  RowInv(i, outbox[i])'
    <3>1. outbox[i] \in OutboxRows /\ RowInv(i, outbox[i])
      BY DEF InvitationInv, InvitationTypeOK, RowsInv
    <3>2. RowInv(i, outbox[i]) /\ \A l \in got' : l.row = i => l \in got
      BY <1>9, <1>11, <2>1, <3>1
    <3>3. \A row \in OutboxRows : RowInv(i, row) => RowInv(i, row)'
      BY <1>1, <1>11, <3>2, RowElsewhere
    <3> QED
      BY <1>1, <3>1, <3>3 DEF RowInv, CancelsFirst, Exact, Asked
  <2>2. RowInv(r, outbox[r])'
    <3> DEFINE row == outbox[r]
    <3>1. row = Row(w) /\ row.status = "uncertain" /\ row.actions = todo[w] /\ RowInv(r, row)
      BY <1>3, <1>4 DEF Row
    <3> HIDE DEF row
    <3>2. Asked(r) \ got' \subseteq LettersIn(r, row.actions)
      BY <1>4, <1>11, <3>1
    <3>3. LettersIn(r, row.actions) \cap got' \subseteq LettersOf(r, Head(row.actions))
      BY <1>4, <1>8, <1>11, <3>1
    <3>4. ASSUME NEW i \in DOMAIN row.actions, row.actions[i].method = "CANCEL"
          PROVE  \A l \in got' : l.row = r => l.method # "REQUEST"
      <4>1. first.method = "CANCEL"
        <5>1. CASE i = 1
          BY <1>3, <1>5, <3>1, <3>4, <5>1
        <5>2. CASE i # 1
          <6>1. 1 \in DOMAIN row.actions /\ 1 < i
            BY <1>3, <1>5, <3>1, <3>4, <5>2
          <6> QED
            BY <1>5, <3>1, <3>4, <6>1 DEF InOrder
        <5> QED
          BY <5>1, <5>2
      <4>2. \A l \in got : l.row = r => l.method # "REQUEST"
        BY <3>1, <3>4 DEF RowInv, CancelsFirst
      <4> QED
        BY <1>9, <1>11, <4>1, <4>2
    <3>5. (InOrder(row.actions) /\ (row.status = "sent" <=> row.actions = <<>>))
      BY <3>1 DEF RowInv
    <3> QED
      BY <1>1, <3>1, <3>2, <3>3, <3>4, <3>5 DEF RowInv, CancelsFirst, Exact, Asked, row
  <2> QED
    BY <1>1, <2>1, <2>2 DEF RowsInv
<1>14. LettersInv'
  <2>1. NumberInv /\ \A a \in Attendees : LastWord(a) /\ ViewInv(a)
    BY DEF InvitationInv, LettersInv
  <2>2. NumberInv' /\ \A a \in Attendees : LastWord(a)'
    BY <1>1, <2>1 DEF NumberInv, LastWord, Member, HadInvitation
  <2>3. ASSUME NEW a \in Attendees
        PROVE  ViewInv(a)'
    <3>1. ASSUME part.method = "CANCEL", NEW l \in got, l.who = a, l.method = "REQUEST",
                 l.sequence = part.sequence
          PROVE  FALSE
      <4>1. PICK b \in first.to : TRUE
        BY <1>3, <1>5, TailIsRequest
      <4>2. PICK m \in LettersOf(r, first) : m.row = r /\ m.sequence = first.sequence
        BY <1>6, <4>1, OfLetter
      <4>3. m \in asked /\ l \in asked
        BY <1>4, <1>6, <4>2 DEF Asked, InvitationInv, InvitationTypeOK
      <4>4. l.row = r
        BY <1>7, <2>1, <3>1, <4>2, <4>3 DEF NumberInv
      <4>5. \E i \in DOMAIN Row(w).actions : Row(w).actions[i].method = "CANCEL"
        BY <1>3, <1>4, <1>5, <1>7, <3>1
      <4> QED
        BY <1>3, <3>1, <4>4, <4>5 DEF RowInv, CancelsFirst
    <3>2. got \subseteq Letters /\ r \in Nat
          /\ view \in [Attendees -> [sequence: Sequences, invited: BOOLEAN]]
      BY <1>3 DEF InvitationInv, InvitationTypeOK
    <3>3. got' = got \cup LettersOf(r, part) /\ view' = [b \in Attendees |-> Reads(b, part)]
      BY <1>2 DEF part
    <3> QED
      BY <1>7, <2>1, <3>1, <3>2, <3>3, ReadsLetter
  <2> QED
    BY <2>2, <2>3 DEF LettersInv
<1>15. ASSUME NEW q \in Workers
       PROVE  HandInv(q)' /\ SentInv(q)'
  <2>1. HandInv(q) /\ SentInv(q)
    BY DEF InvitationInv, HandsInv
  <2>2. CASE q = w
    <3>1. stage'[w] = "answer"
      BY <1>1 DEF InvitationInv, InvitationTypeOK
    <3>2. HandInv(w)'
      BY <1>1, <1>3, <1>4, <3>1 DEF HandInv, Row
    <3>3. ASSUME answer'[w].known
          PROVE  /\ Asked(r) \ got' = LettersIn(r,
                      <<[Head(todo[w]) EXCEPT !.to = answer'[w].rejected]>> \o Tail(todo[w]))
                 /\ answer'[w].rejected \subseteq Head(todo[w]).to
      <4>1. answer'[w] = IF ~known THEN Silence
                        ELSE [known |-> TRUE, rejected |-> first.to \ taken]
        BY <1>2 DEF InvitationInv, InvitationTypeOK
      <4>2. answer'[w].rejected = first.to \ taken
        BY <3>3, <4>1 DEF Silence
      <4>3. LettersIn(r, Retry(todo[w], first.to \ taken)) = LettersIn(r, todo[w]) \ new
        <5>1. r \in Nat
          BY <1>3
        <5> QED
          BY <5>1, <1>3, <1>5, OwesLess DEF new, part
      <4> QED
        BY <1>4, <1>11, <4>2, <4>3 DEF Retry
    <3> QED
      BY <1>1, <2>2, <3>1, <3>2, <3>3 DEF SentInv, StillOwed, Asked
  <2>3. CASE q # w
    <3>1. stage'[q] = stage[q] /\ answer'[q] = answer[q]
      BY <1>1, <1>2, <2>3 DEF InvitationInv, InvitationTypeOK
    <3>2. HandInv(q)'
      BY <1>1, <2>1, <3>1 DEF HandInv, Row
    <3>3. stage[q] \in {"dispatch", "answer"} => job[q] # r
      BY <1>4, <2>1, <2>3 DEF HandInv, Row
    <3>4. stage[q] \in {"dispatch", "answer"} => Asked(job[q]) \ got' = Asked(job[q]) \ got
      BY <1>9, <1>11, <3>3 DEF Asked
    <3> QED
      BY <1>1, <2>1, <3>1, <3>2, <3>4 DEF SentInv, StillOwed, Asked
  <2> QED
    BY <2>2, <2>3
<1> QED
  BY <1>12, <1>13, <1>14, <1>15 DEF InvitationInv, HandsInv

-----------------------------------------------------------------------------
(* The changes of the event.                                               *)

LEMMA Stored ==
  ASSUME InvitationInv, NEW actions \in Seq(Actions), Store(actions)
  PROVE  /\ edits < LastEdit /\ edits' = edits + 1 /\ edits \in Nat
         /\ UNCHANGED <<stage, job, todo, answer, got, view, troubles>>
         /\ asked' = asked \cup LettersIn(Len(outbox) + 1, actions)
         /\ DOMAIN outbox \subseteq DOMAIN outbox' /\ Len(outbox) + 1 \notin DOMAIN outbox
         /\ Len(outbox') <= edits' /\ outbox' \in Seq(OutboxRows)
         /\ Len(outbox) <= Len(outbox') /\ Len(outbox) \in Nat
         /\ \A i \in DOMAIN outbox : outbox'[i] = outbox[i]
         /\ actions = <<>> => UNCHANGED outbox
         /\ actions # <<>> =>
              /\ DOMAIN outbox' = DOMAIN outbox \cup {Len(outbox) + 1}
              /\ outbox'[Len(outbox) + 1] = [status |-> "sending", actions |-> actions,
                                             token |-> NoWorker, live |-> FALSE, attempts |-> 0]
<1>1. /\ edits < LastEdit /\ edits' = edits + 1
      /\ UNCHANGED <<stage, job, todo, answer, got, view, troubles>>
  BY DEF Store
<1>2. /\ outbox \in Seq(OutboxRows) /\ Len(outbox) <= edits /\ edits \in Nat
      /\ Len(outbox) \in Nat /\ DOMAIN outbox = 1..Len(outbox)
  BY DEF InvitationInv, InvitationTypeOK
<1>3. CASE actions = <<>>
  <2>1. UNCHANGED <<outbox, asked>> /\ LettersIn(Len(outbox) + 1, actions) = {}
    BY <1>3, NoLetters DEF Store
  <2> QED
    BY <1>1, <1>2, <1>3, <2>1
<1>4. CASE actions # <<>>
  <2> DEFINE row == [status |-> "sending", actions |-> actions,
                     token |-> NoWorker, live |-> FALSE, attempts |-> 0]
  <2>1. outbox' = Append(outbox, row) /\ asked' = asked \cup LettersIn(Len(outbox) + 1, actions)
    BY <1>4 DEF Store
  <2>2. row \in OutboxRows
    BY NewRow
  <2> HIDE DEF row
  <2>3. /\ outbox' \in Seq(OutboxRows) /\ Len(outbox') = Len(outbox) + 1
        /\ outbox'[Len(outbox) + 1] = row
        /\ \A i \in 1..Len(outbox) : outbox'[i] = outbox[i]
        /\ DOMAIN outbox' = 1..(Len(outbox) + 1)
    BY <1>2, <2>1, <2>2
  <2>4. DOMAIN outbox' = DOMAIN outbox \cup {Len(outbox) + 1}
    BY <1>2, <2>3
  <2>5. Len(outbox) + 1 \notin DOMAIN outbox /\ Len(outbox') <= edits'
    BY <1>1, <1>2, <2>3
  <2>6. \A i \in DOMAIN outbox : outbox'[i] = outbox[i]
    BY <1>2, <2>3
  <2>7. Len(outbox) <= Len(outbox') /\ outbox' \in Seq(OutboxRows)
    BY <1>2, <2>3
  <2> QED
    BY <1>1, <1>2, <1>4, <2>1, <2>3, <2>4, <2>5, <2>6, <2>7 DEF row
<1> QED
  BY <1>3, <1>4

\* A change stores a new row and leaves the others and the workers alone.
LEMMA StoreInv ==
  ASSUME InvitationInv, NEW actions \in Seq(Actions), InOrder(actions), Store(actions),
         event' \in [exists: BOOLEAN, invited: BOOLEAN, people: SUBSET Attendees,
                     sequence: Sequences],
         LettersInv'
  PROVE  InvitationInv'
<1>0. PICK n : n = Len(outbox) + 1
  OBVIOUS
<1> DEFINE new == LettersIn(n, actions)
<1>1. /\ edits < LastEdit /\ edits' = edits + 1 /\ edits \in Nat
      /\ UNCHANGED <<stage, job, todo, answer, got, view, troubles>>
      /\ asked' = asked \cup new
      /\ DOMAIN outbox \subseteq DOMAIN outbox' /\ n \notin DOMAIN outbox
      /\ Len(outbox') <= edits' /\ outbox' \in Seq(OutboxRows)
      /\ Len(outbox) <= Len(outbox') /\ Len(outbox) \in Nat
      /\ \A i \in DOMAIN outbox : outbox'[i] = outbox[i]
      /\ actions = <<>> => UNCHANGED outbox
      /\ actions # <<>> =>
           /\ DOMAIN outbox' = DOMAIN outbox \cup {n}
           /\ outbox'[n] = [status |-> "sending", actions |-> actions,
                           token |-> NoWorker, live |-> FALSE, attempts |-> 0]
  BY <1>0, Stored
<1>2. /\ outbox \in Seq(OutboxRows) /\ Len(outbox) <= edits /\ asked \subseteq Letters
      /\ got \subseteq asked /\ RowsInv /\ NumberInv
      /\ \A q \in Workers : HandInv(q) /\ SentInv(q)
  BY DEF InvitationInv, InvitationTypeOK, HandsInv, LettersInv
<1>3. \A l \in new : l.row = n
  BY LetterOf DEF LettersIn
<1>4. n \in 1..LastEdit
  BY <1>0, <1>1, <1>2
<1>5. new \subseteq Letters
  <2>1. \A i \in DOMAIN actions : LettersOf(n, actions[i]) \subseteq Letters
    BY <1>4, LettersTyped
  <2> QED
    BY <2>1 DEF LettersIn
<1>6. InvitationTypeOK'
  <2>1. edits' \in 0..LastEdit
    BY <1>1
  <2>2. job' \in [Workers -> 0..Len(outbox')]
    <3>1. Len(outbox') \in Nat /\ job \in [Workers -> 0..Len(outbox)]
      BY <1>1 DEF InvitationInv, InvitationTypeOK
    <3>2. \A q \in Workers : job[q] \in 0..Len(outbox')
      BY <1>1, <3>1
    <3> QED
      BY <1>1, <3>1, <3>2
  <2> QED
    BY <1>1, <1>2, <1>5, <2>1, <2>2 DEF InvitationInv, InvitationTypeOK
<1> HIDE DEF new
<1>7. \A i \in DOMAIN outbox : Asked(i)' = Asked(i)
  BY <1>1, <1>3 DEF Asked
<1>8. ASSUME NEW i \in DOMAIN outbox
      PROVE  RowInv(i, outbox[i])'
  <2>1. RowInv(i, outbox[i])
    BY <1>2 DEF RowsInv
  <2> QED
    BY <1>1, <1>7, <2>1 DEF RowInv, CancelsFirst, Exact
<1>9. ASSUME actions # <<>>
      PROVE  RowInv(n, outbox[n])'
  <2>1. \A l \in asked : l.row # n
    BY <1>1, <1>2 DEF NumberInv
  <2>2. Asked(n)' \ got' = new
    BY <1>1, <1>2, <1>3, <2>1 DEF Asked
  <2>3. outbox'[n].status = "sending" /\ outbox'[n].actions = actions
    BY <1>1, <1>9
  <2>4. Exact(n, outbox[n])'
    BY <1>1, <2>2, <2>3 DEF Exact, new
  <2>5. CancelsFirst(n, outbox[n])'
    BY <1>1, <1>2, <2>1 DEF CancelsFirst
  <2> QED
    BY <1>9, <2>3, <2>4, <2>5 DEF RowInv
<1>10. RowsInv'
  BY <1>1, <1>8, <1>9 DEF RowsInv
<1>11. ASSUME NEW q \in Workers
       PROVE  HandInv(q)' /\ SentInv(q)'
  <2>1. HandInv(q) /\ SentInv(q)
    BY <1>2
  <2>2. stage[q] # "idle" => /\ job[q] \in DOMAIN outbox /\ outbox'[job[q]] = outbox[job[q]]
                             /\ Asked(job[q])' = Asked(job[q])
    BY <1>1, <1>7, <2>1 DEF HandInv
  <2>3. HandInv(q)'
    BY <1>1, <2>1, <2>2 DEF HandInv, Row
  <2>4. SentInv(q)'
    BY <1>1, <2>1, <2>2 DEF SentInv, StillOwed
  <2> QED
    BY <2>3, <2>4
<1> QED
  BY <1>6, <1>10, <1>11 DEF InvitationInv, HandsInv

\* What a change must ask for so that the letters go on telling the truth.
LEMMA Numbered ==
  ASSUME InvitationInv, event.exists, UNCHANGED <<got, view>>, edits' = edits + 1,
         NEW new, asked' = asked \cup new, NEW n,
         DOMAIN outbox \subseteq DOMAIN outbox', new # {} => n \in DOMAIN outbox',
         event'.sequence \in Nat, event'.sequence <= event.sequence + 1,
         \A l \in new : /\ l.row = n /\ l.sequence \in Nat
                        /\ l.sequence > event.sequence \/ asked = {}
                        /\ event'.exists => l.sequence <= event'.sequence,
         event'.exists => event.sequence <= event'.sequence,
         (event.exists /\ event.sequence = 0 /\ ~HadInvitation => asked = {})',
         \A a \in Attendees : Member(a)' =>
           \E l \in new : l.who = a /\ l.method = "REQUEST" /\ l.sequence = event'.sequence,
         \A a \in Attendees : ~Member(a)' =>
           /\ \A l \in new : ~(l.who = a /\ l.method = "REQUEST")
           /\ Member(a) => \E m \in new : m.who = a /\ m.sequence > event.sequence
  PROVE  LettersInv'
<1>1. /\ NumberInv /\ asked \subseteq Letters /\ event.sequence \in Nat /\ edits \in Nat
      /\ \A a \in Attendees : LastWord(a) /\ ViewInv(a)
  BY DEF InvitationInv, InvitationTypeOK, LettersInv, Sequences
<1>2. \A l \in asked : l.sequence \in Nat /\ l.sequence <= event.sequence
  BY <1>1 DEF NumberInv, Letters, Sequences
<1>3. NumberInv'
  <2>1. event'.sequence <= edits'
    BY <1>1 DEF NumberInv
  <2>2. \A l \in asked' : /\ l.row \in DOMAIN outbox'
                          /\ event'.exists => l.sequence <= event'.sequence
    BY <1>1, <1>2 DEF NumberInv
  <2>3. \A l, m \in asked' : l.sequence = m.sequence => l.row = m.row
    <3>1. ASSUME NEW l \in asked, NEW m \in new PROVE l.sequence # m.sequence
      BY <1>1, <1>2
    <3> QED
      BY <1>1, <3>1 DEF NumberInv
  <2> QED
    BY <2>1, <2>2, <2>3 DEF NumberInv
<1>4. ASSUME NEW a \in Attendees
      PROVE  LastWord(a)' /\ ViewInv(a)'
  <2>1. ViewInv(a)'
    BY <1>1 DEF ViewInv
  <2>2. CASE Member(a)'
    BY <2>1, <2>2 DEF LastWord
  <2>3. CASE ~Member(a)'
    <3>1. ASSUME NEW l \in asked', l.who = a, l.method = "REQUEST"
          PROVE  \E m \in asked' : m.who = a /\ l.sequence < m.sequence
      <4>1. l \in asked
        BY <2>3, <3>1
      <4>2. CASE Member(a)
        <5>1. PICK m \in new : m.who = a /\ m.sequence > event.sequence
          BY <2>3, <4>2
        <5>2. l.sequence <= event.sequence /\ l.sequence \in Nat /\ m.sequence \in Nat
          BY <1>2, <4>1
        <5> QED
          BY <1>1, <5>1, <5>2
      <4>3. CASE ~Member(a)
        BY <1>1, <3>1, <4>1, <4>3 DEF LastWord
      <4> QED
        BY <4>2, <4>3
    <3> QED
      BY <2>1, <2>3, <3>1 DEF LastWord
  <2> QED
    BY <2>1, <2>2, <2>3
<1> QED
  BY <1>3, <1>4 DEF LettersInv

LEMMA TwoMails ==
  ASSUME NEW x \in Actions, NEW y \in Actions
  PROVE  <<x>> \o <<y>> = <<x, y>> /\ <<>> \o <<y>> = <<y>>
<1>1. /\ <<x>> \in Seq(Actions) /\ <<y>> \in Seq(Actions) /\ <<x, y>> \in Seq(Actions)
      /\ Len(<<x>>) = 1 /\ Len(<<y>>) = 1 /\ Len(<<x, y>>) = 2
      /\ <<x>>[1] = x /\ <<y>>[1] = y /\ <<x, y>>[1] = x /\ <<x, y>>[2] = y
  OBVIOUS
<1>2. <<x>> \o <<y>> = <<x, y>>
  <2> DEFINE s == <<x>> \o <<y>>
             t == <<x, y>>
  <2>1. s \in Seq(Actions) /\ Len(s) = 2 /\ s[1] = x /\ s[2] = y
    BY <1>1
  <2>2. t \in Seq(Actions) /\ Len(t) = 2 /\ t[1] = x /\ t[2] = y
    BY <1>1
  <2> HIDE DEF s, t
  <2>3. s = t
    BY <2>1, <2>2, SeqEqual
  <2> QED
    BY <2>3 DEF s, t
<1>3. <<>> \o <<y>> = <<y>>
  BY <1>1, ConcatEmptySeq
<1> QED
  BY <1>2, <1>3

\* What the actions of a change ask for: cancellations and requests, each with its number.
Asks(n, actions, dropped, next, people, number) ==
  /\ \A l \in LettersIn(n, actions) :
       /\ l.row = n
       /\ \/ /\ l.method = "CANCEL" /\ l.sequence = next /\ l.who \in dropped
          \/ /\ l.method = "REQUEST" /\ l.sequence = number /\ l.who \in people
  /\ \A a \in dropped : \E l \in LettersIn(n, actions) : l.who = a /\ l.sequence = next
  /\ \A a \in people : \E l \in LettersIn(n, actions) :
       l.who = a /\ l.method = "REQUEST" /\ l.sequence = number

LEMMA Retracted ==
  ASSUME NEW n, NEW dropped \in SUBSET Attendees, NEW next \in Sequences,
         next = event.sequence + 1
  PROVE  /\ Cancel(dropped) \in Seq(Actions) /\ InOrder(Cancel(dropped))
         /\ Asks(n, Cancel(dropped), dropped, next, {}, next)
<1> DEFINE cancel == Action("CANCEL", dropped, event.sequence + 1)
<1>0. cancel = Action("CANCEL", dropped, event.sequence + 1)
  OBVIOUS
<1> HIDE DEF cancel
<1>1. /\ cancel \in Actions /\ cancel.to = dropped /\ cancel.method = "CANCEL"
      /\ \A l \in LettersOf(n, cancel) : /\ l.row = n /\ l.method = "CANCEL"
                                        /\ l.sequence = next /\ l.who \in dropped
      /\ \A a \in dropped : \E l \in LettersOf(n, cancel) :
           /\ l.method = "CANCEL" /\ l.sequence = next /\ l.who = a
  <2>1. /\ cancel \in Actions /\ cancel.to = dropped /\ cancel.method = "CANCEL"
        /\ cancel.sequence = next
    BY <1>0 DEF Action, Actions
  <2>2. \A l \in LettersOf(n, cancel) : /\ l.row = n /\ l.method = "CANCEL"
                                       /\ l.sequence = next /\ l.who \in dropped
    BY <2>1, LetterOf
  <2>3. \A a \in dropped : \E l \in LettersOf(n, cancel) :
          /\ l.method = "CANCEL" /\ l.sequence = next /\ l.who = a
    BY <2>1, OfLetter
  <2> QED
    BY <2>1, <2>2, <2>3
<1>2. Cancel(dropped) = IF dropped = {} THEN <<>> ELSE <<cancel>>
  BY <1>0 DEF Cancel
<1>3. CASE dropped = {}
  <2>1. Cancel(dropped) = <<>> /\ <<>> \in Seq(Actions) /\ LettersIn(n, <<>>) = {}
    BY <1>2, <1>3, NoLetters
  <2>2. InOrder(<<>>)
    BY DEF InOrder
  <2> QED
    BY <1>3, <2>1, <2>2 DEF Asks
<1>4. CASE dropped # {}
  <2>1. Cancel(dropped) = <<cancel>> /\ <<cancel>> \in Seq(Actions)
    BY <1>1, <1>2, <1>4
  <2>2. LettersIn(n, <<cancel>>) = LettersOf(n, cancel)
    BY DEF LettersIn
  <2>3. InOrder(<<cancel>>)
    BY <1>1, <1>4 DEF InOrder
  <2>4. Asks(n, <<cancel>>, dropped, next, {}, next)
    BY <1>1, <2>2 DEF Asks
  <2> QED
    BY <2>1, <2>3, <2>4
<1> QED
  BY <1>3, <1>4

LEMMA Mailed ==
  ASSUME NEW n, NEW dropped \in SUBSET Attendees, NEW next \in Sequences,
         next = event.sequence + 1,
         NEW people \in SUBSET Attendees, people # {}, NEW number \in Sequences,
         NEW actions, actions = Cancel(dropped) \o <<Action("REQUEST", people, number)>>
  PROVE  /\ actions \in Seq(Actions) /\ InOrder(actions)
         /\ Asks(n, actions, dropped, next, people, number)
<1> DEFINE cancel == Action("CANCEL", dropped, event.sequence + 1)
           request == Action("REQUEST", people, number)
<1>0. /\ cancel = Action("CANCEL", dropped, event.sequence + 1)
      /\ request = Action("REQUEST", people, number)
  OBVIOUS
<1> HIDE DEF cancel, request
<1>1. /\ cancel \in Actions /\ cancel.to = dropped /\ cancel.method = "CANCEL"
      /\ \A l \in LettersOf(n, cancel) : /\ l.row = n /\ l.method = "CANCEL"
                                        /\ l.sequence = next /\ l.who \in dropped
      /\ \A a \in dropped : \E l \in LettersOf(n, cancel) :
           /\ l.method = "CANCEL" /\ l.sequence = next /\ l.who = a
  <2>1. /\ cancel \in Actions /\ cancel.to = dropped /\ cancel.method = "CANCEL"
        /\ cancel.sequence = next
    BY <1>0 DEF Action, Actions
  <2>2. \A l \in LettersOf(n, cancel) : /\ l.row = n /\ l.method = "CANCEL"
                                       /\ l.sequence = next /\ l.who \in dropped
    BY <2>1, LetterOf
  <2>3. \A a \in dropped : \E l \in LettersOf(n, cancel) :
          /\ l.method = "CANCEL" /\ l.sequence = next /\ l.who = a
    BY <2>1, OfLetter
  <2> QED
    BY <2>1, <2>2, <2>3
<1>2. /\ request \in Actions /\ request.to = people /\ request.method = "REQUEST"
      /\ \A l \in LettersOf(n, request) : /\ l.row = n /\ l.method = "REQUEST"
                                        /\ l.sequence = number /\ l.who \in people
      /\ \A a \in people : \E l \in LettersOf(n, request) :
           /\ l.method = "REQUEST" /\ l.sequence = number /\ l.who = a
  <2>1. /\ request \in Actions /\ request.to = people /\ request.method = "REQUEST"
        /\ request.sequence = number
    BY <1>0 DEF Action, Actions
  <2>2. \A l \in LettersOf(n, request) : /\ l.row = n /\ l.method = "REQUEST"
                                       /\ l.sequence = number /\ l.who \in people
    BY <2>1, LetterOf
  <2>3. \A a \in people : \E l \in LettersOf(n, request) :
          /\ l.method = "REQUEST" /\ l.sequence = number /\ l.who = a
    BY <2>1, OfLetter
  <2> QED
    BY <2>1, <2>2, <2>3
<1>3. actions = (IF dropped = {} THEN <<>> ELSE <<cancel>>) \o <<request>>
  BY <1>0 DEF Cancel
<1>4. CASE dropped = {}
  <2>1. actions = <<>> \o <<request>>
    BY <1>3, <1>4
  <2>2. <<>> \o <<request>> = <<request>> /\ <<request>> \in Seq(Actions)
    BY <1>2, TwoMails
  <2>3. actions = <<request>> /\ actions \in Seq(Actions)
    BY <2>1, <2>2
  <2>4. LettersIn(n, <<request>>) = LettersOf(n, request)
    BY DEF LettersIn
  <2>5. InOrder(<<request>>)
    BY <1>2 DEF InOrder
  <2>6. Asks(n, <<request>>, dropped, next, people, number)
    BY <1>2, <1>4, <2>4 DEF Asks
  <2> QED
    BY <2>3, <2>5, <2>6
<1>5. CASE dropped # {}
  <2>1. actions = <<cancel>> \o <<request>>
    BY <1>3, <1>5
  <2>2. <<cancel>> \o <<request>> = <<cancel, request>> /\ <<cancel, request>> \in Seq(Actions)
    BY <1>1, <1>2, TwoMails
  <2>3. actions = <<cancel, request>> /\ actions \in Seq(Actions)
    BY <2>1, <2>2
  <2>4. LettersIn(n, <<cancel, request>>) = LettersOf(n, cancel) \cup LettersOf(n, request)
    BY DEF LettersIn
  <2>5. InOrder(<<cancel, request>>)
    BY <1>1, <1>2, <1>5 DEF InOrder
  <2>6. Asks(n, <<cancel, request>>, dropped, next, people, number)
    BY <1>1, <1>2, <2>4 DEF Asks
  <2> QED
    BY <2>3, <2>5, <2>6
<1> QED
  BY <1>4, <1>5

LEMMA UpdateInvitedInv ==
  ASSUME InvitationInv, NEW people \in SUBSET Attendees, NEW senderChanged \in BOOLEAN,
         UpdateInvited(people, senderChanged)
  PROVE  InvitationInv'
<1> DEFINE dropped == IF ~HadInvitation THEN {}
                      ELSE IF senderChanged THEN event.people ELSE event.people \ people
<1>0. PICK actions, n, next, number :
        /\ actions = Cancel(dropped) \o <<Action("REQUEST", people, number)>>
        /\ n = Len(outbox) + 1 /\ next = event.sequence + 1 /\ number = NextSequence
  OBVIOUS
<1>1. /\ event.exists /\ people # {} /\ Store(actions)
      /\ event' = [exists |-> TRUE, invited |-> TRUE, people |-> people, sequence |-> number]
  BY <1>0 DEF UpdateInvited
<1>2. /\ event \in [exists: BOOLEAN, invited: BOOLEAN, people: SUBSET Attendees,
                    sequence: Sequences]
      /\ event.sequence \in Nat /\ event.sequence <= edits /\ edits < LastEdit /\ edits \in Nat
      /\ event.exists /\ event.sequence = 0 /\ ~HadInvitation => asked = {}
  BY <1>1 DEF InvitationInv, InvitationTypeOK, LettersInv, NumberInv, Sequences, Store
<1>3. next \in Sequences /\ number \in Sequences /\ number \in Nat /\ next \in Nat
      /\ dropped \in SUBSET Attendees
  BY <1>0, <1>2 DEF Sequences, NextSequence
<1>4. /\ dropped # {} => HadInvitation
      /\ \A a \in Attendees : Member(a) /\ a \notin people => a \in dropped
  BY DEF HadInvitation, Member
<1> HIDE DEF dropped
<1>5. /\ actions \in Seq(Actions) /\ InOrder(actions)
      /\ Asks(n, actions, dropped, next, people, number)
  BY <1>0, <1>1, <1>3, Mailed
<1>6. /\ number <= next /\ event.sequence <= number
      /\ HadInvitation => number = next
      /\ number > event.sequence \/ asked = {}
  BY <1>0, <1>1, <1>2 DEF NextSequence
<1> DEFINE new == LettersIn(n, actions)
<1> HIDE DEF new
<1>7. /\ event'.exists /\ event'.invited /\ event'.people = people /\ HadInvitation'
      /\ event'.sequence = number
  BY <1>1 DEF HadInvitation
<1>8. /\ asked' = asked \cup new /\ UNCHANGED <<got, view>> /\ edits' = edits + 1
      /\ DOMAIN outbox \subseteq DOMAIN outbox'
      /\ new # {} => n \in DOMAIN outbox'
  <2>1. /\ asked' = asked \cup LettersIn(Len(outbox) + 1, actions) /\ UNCHANGED <<got, view>>
        /\ edits' = edits + 1 /\ DOMAIN outbox \subseteq DOMAIN outbox'
        /\ actions # <<>> => DOMAIN outbox' = DOMAIN outbox \cup {Len(outbox) + 1}
    BY <1>1, <1>5, Stored
  <2>2. new # {} => actions # <<>>
    BY NoLetters DEF new
  <2> QED
    BY <1>0, <2>1, <2>2 DEF new
<1>9. \A l \in new : /\ l.row = n /\ l.sequence \in Nat
                     /\ l.sequence > event.sequence \/ asked = {}
                     /\ event'.exists => l.sequence <= event'.sequence
  <2>1. number \in Nat /\ next \in Nat /\ next = event.sequence + 1 /\ event.sequence \in Nat
    BY <1>0, <1>2, <1>3
  <2>2. \A l \in new : /\ l.row = n
                       /\ \/ l.sequence = next /\ dropped # {}
                          \/ l.sequence = number
    BY <1>5 DEF new, Asks
  <2>3. dropped # {} => number = next
    BY <1>4, <1>6
  <2> QED
    BY <1>6, <1>7, <2>1, <2>2, <2>3
<1>10. \A a \in Attendees : Member(a)' =>
         \E l \in new : l.who = a /\ l.method = "REQUEST" /\ l.sequence = event'.sequence
  BY <1>5, <1>7 DEF new, Asks, Member
<1>11. ASSUME NEW a \in Attendees, ~Member(a)'
       PROVE  /\ \A l \in new : ~(l.who = a /\ l.method = "REQUEST")
              /\ Member(a) => \E m \in new : m.who = a /\ m.sequence > event.sequence
  <2>1. a \notin people
    BY <1>7, <1>11 DEF Member
  <2>2. \A l \in new : ~(l.who = a /\ l.method = "REQUEST")
    BY <1>5, <2>1 DEF new, Asks
  <2>3. ASSUME Member(a)
        PROVE  \E m \in new : m.who = a /\ m.sequence > event.sequence
    <3>1. PICK m \in new : m.who = a /\ m.sequence = next
      BY <1>5, <1>4, <2>1, <2>3 DEF new, Asks
    <3> QED
      BY <1>0, <1>2, <3>1
  <2> QED
    BY <2>2, <2>3
<1>12. LettersInv'
  <2>1. (event.exists /\ event.sequence = 0 /\ ~HadInvitation => asked = {})'
    BY <1>7
  <2>2. /\ event'.sequence \in Nat /\ event'.sequence <= event.sequence + 1
        /\ event.sequence <= event'.sequence
    BY <1>0, <1>3, <1>6, <1>7
  <2> QED
    BY <1>1, <1>8, <1>9, <1>10, <1>11, <2>1, <2>2, Numbered
<1>13. event' \in [exists: BOOLEAN, invited: BOOLEAN, people: SUBSET Attendees, sequence: Sequences]
  BY <1>1, <1>3
<1> QED
  BY <1>1, <1>5, <1>12, <1>13, StoreInv

\* An update without invitations, and the deletion.
LEMMA RetractInv ==
  ASSUME InvitationInv, UpdateQuietly \/ Delete
  PROVE  InvitationInv'
<1> DEFINE dropped == IF HadInvitation THEN event.people ELSE {}
<1>0. PICK actions, n, next :
        actions = Cancel(dropped) /\ n = Len(outbox) + 1 /\ next = event.sequence + 1
  OBVIOUS
<1>1. event.exists /\ Store(actions)
  BY <1>0 DEF UpdateQuietly, Delete
<1>2. /\ event \in [exists: BOOLEAN, invited: BOOLEAN, people: SUBSET Attendees,
                    sequence: Sequences]
      /\ event.sequence \in Nat /\ event.sequence <= edits /\ edits < LastEdit /\ edits \in Nat
      /\ event.exists /\ event.sequence = 0 /\ ~HadInvitation => asked = {}
  BY <1>1 DEF InvitationInv, InvitationTypeOK, LettersInv, NumberInv, Sequences, Store
<1>3. next \in Sequences /\ next \in Nat /\ NextSequence \in Sequences /\ NextSequence \in Nat
      /\ dropped \in SUBSET Attendees
  BY <1>0, <1>2 DEF Sequences, NextSequence
<1>4. /\ dropped # {} => HadInvitation
      /\ \A a \in Attendees : Member(a) => a \in dropped
  BY DEF HadInvitation, Member
<1> HIDE DEF dropped
<1>5. /\ actions \in Seq(Actions) /\ InOrder(actions)
      /\ Asks(n, actions, dropped, next, {}, next)
  BY <1>0, <1>3, Retracted
<1>6. /\ NextSequence <= event.sequence + 1 /\ event.sequence <= NextSequence
      /\ HadInvitation => NextSequence = event.sequence + 1
      /\ NextSequence > event.sequence \/ (event.sequence = 0 /\ ~HadInvitation)
  BY <1>2 DEF NextSequence
<1> DEFINE new == LettersIn(n, actions)
<1> HIDE DEF new
<1>7. /\ event' \in [exists: BOOLEAN, invited: BOOLEAN, people: SUBSET Attendees,
                     sequence: Sequences]
      /\ ~(event'.exists /\ event'.invited)
      /\ event'.exists => event'.sequence = NextSequence
      /\ event'.sequence \in Nat /\ event'.sequence <= event.sequence + 1
  <2>1. CASE UpdateQuietly
    <3>1. event' = [exists |-> TRUE, invited |-> FALSE, people |-> {}, sequence |-> NextSequence]
      BY <2>1 DEF UpdateQuietly
    <3> QED
      BY <1>3, <1>6, <3>1
  <2>2. CASE Delete
    <3>1. event' = [event EXCEPT !.exists = FALSE]
      BY <2>2 DEF Delete
    <3>2. /\ event'.exists = FALSE /\ event'.invited = event.invited
          /\ event'.people = event.people /\ event'.sequence = event.sequence
      BY <1>2, <3>1
    <3>3. event' \in [exists: BOOLEAN, invited: BOOLEAN, people: SUBSET Attendees,
                     sequence: Sequences]
      BY <1>2, <3>1
    <3> QED
      BY <1>2, <3>2, <3>3
  <2> QED
    BY <2>1, <2>2
<1>8. /\ asked' = asked \cup new /\ UNCHANGED <<got, view>> /\ edits' = edits + 1
      /\ DOMAIN outbox \subseteq DOMAIN outbox'
      /\ new # {} => n \in DOMAIN outbox'
  <2>1. /\ asked' = asked \cup LettersIn(Len(outbox) + 1, actions) /\ UNCHANGED <<got, view>>
        /\ edits' = edits + 1 /\ DOMAIN outbox \subseteq DOMAIN outbox'
        /\ actions # <<>> => DOMAIN outbox' = DOMAIN outbox \cup {Len(outbox) + 1}
    BY <1>1, <1>5, Stored
  <2>2. new # {} => actions # <<>>
    BY NoLetters DEF new
  <2> QED
    BY <1>0, <2>1, <2>2 DEF new
<1>9. \A l \in new : /\ l.row = n /\ l.sequence \in Nat
                     /\ l.sequence > event.sequence \/ asked = {}
                     /\ event'.exists => l.sequence <= event'.sequence
  BY <1>0, <1>2, <1>3, <1>5, <1>4, <1>6, <1>7 DEF new, Asks
<1>10. event'.exists => event.sequence <= event'.sequence
  BY <1>6, <1>7
<1>11. (event.exists /\ event.sequence = 0 /\ ~HadInvitation => asked = {})'
  <2>1. ASSUME event'.exists, event'.sequence = 0 PROVE asked' = {}
    <3>1. ~HadInvitation /\ event.sequence = 0
      BY <1>2, <1>6, <1>7, <2>1
    <3> QED
      BY <1>1, <1>2, <1>5, <1>4, <1>8, <3>1 DEF new, Asks
  <2> QED
    BY <2>1
<1>12. \A a \in Attendees : ~Member(a)'
  BY <1>7 DEF Member
<1>13. ASSUME NEW a \in Attendees
       PROVE  /\ \A l \in new : ~(l.who = a /\ l.method = "REQUEST")
              /\ Member(a) => \E m \in new : m.who = a /\ m.sequence > event.sequence
  <2>1. \A l \in new : ~(l.who = a /\ l.method = "REQUEST")
    BY <1>5 DEF new, Asks
  <2>2. ASSUME Member(a)
        PROVE  \E m \in new : m.who = a /\ m.sequence > event.sequence
    <3>1. PICK m \in new : m.who = a /\ m.sequence = next
      BY <1>5, <1>4, <2>2 DEF new, Asks
    <3> QED
      BY <1>0, <1>2, <3>1
  <2> QED
    BY <2>1, <2>2
<1>14. LettersInv'
  BY <1>1, <1>7, <1>8, <1>9, <1>10, <1>11, <1>12, <1>13, Numbered
<1> QED
  BY <1>1, <1>5, <1>7, <1>14, StoreInv

-----------------------------------------------------------------------------
(* The theorems.                                                           *)

LEMMA InvitationStart == InvitationInit => InvitationInv
<1> SUFFICES ASSUME InvitationInit PROVE InvitationInv
  OBVIOUS
<1>1. <<>> \in Seq(Actions) /\ <<>> \in Seq(OutboxRows) /\ Len(<<>>) = 0
  OBVIOUS
<1>2. InvitationTypeOK
  BY <1>1 DEF InvitationInit, InvitationTypeOK, Sequences, Silence
<1>3. RowsInv /\ HandsInv
  BY DEF InvitationInit, RowsInv, HandsInv, HandInv, SentInv
<1>4. NumberInv
  BY DEF InvitationInit, NumberInv
<1>5. \A a \in Attendees : LastWord(a) /\ ViewInv(a)
  BY DEF InvitationInit, LastWord, ViewInv, Member
<1> QED
  BY <1>2, <1>3, <1>4, <1>5 DEF InvitationInv, LettersInv

LEMMA InvitationStutter ==
  ASSUME InvitationInv, UNCHANGED invitationVars
  PROVE  InvitationInv'
<1>1. LettersInv' /\ RowsInv'
  BY LettersKept, RowsKept DEF InvitationInv, invitationVars
<1>2. \A q \in Workers : HandInv(q)' /\ SentInv(q)'
  BY HandKept DEF InvitationInv, HandsInv, invitationVars
<1>3. InvitationTypeOK'
  BY DEF InvitationInv, InvitationTypeOK, invitationVars
<1> QED
  BY <1>1, <1>2, <1>3 DEF InvitationInv, HandsInv

LEMMA InvitationStep == InvitationInv /\ [InvitationNext]_invitationVars => InvitationInv'
<1> SUFFICES ASSUME InvitationInv, [InvitationNext]_invitationVars PROVE InvitationInv'
  OBVIOUS
<1>1. ASSUME NEW people \in SUBSET Attendees, NEW senderChanged \in BOOLEAN,
             UpdateInvited(people, senderChanged)
      PROVE  InvitationInv'
  BY <1>1, UpdateInvitedInv
<1>2. CASE UpdateQuietly \/ Delete
  BY <1>2, RetractInv
<1>3. ASSUME NEW w \in Workers, ClaimPending(w) \/ ClaimInvitation(w)
      PROVE  InvitationInv'
  BY <1>3, ClaimInv DEF ClaimPending, ClaimInvitation
<1>4. ASSUME NEW w \in Workers, DeliveryStep(w) \/ PrepareFails(w) \/ WorkerDies(w)
      PROVE  InvitationInv'
  <2>1. CASE Renew(w) \/ Prepare(w)
    BY <2>1, RenewInv
  <2>2. CASE BeginDispatch(w) \/ Dispatch(w)
    BY <2>2, BeginInv, DispatchInv
  <2>3. CASE Rejected(w) \/ PrepareFails(w)
    BY <2>3, RejectedInv, PrepareFailsInv
  <2>4. CASE Checkpoint(w) \/ CompleteDelivery(w)
    BY <2>4, CheckpointInv, CompleteInv
  <2>5. CASE StaysUncertain(w) \/ WorkerDies(w)
    BY <2>5, LeavingInv
  <2> QED
    BY <1>4, <2>1, <2>2, <2>3, <2>4, <2>5 DEF DeliveryStep
<1>5. ASSUME NEW r \in DOMAIN outbox, ClaimExpires(r)
      PROVE  InvitationInv'
  BY <1>5, ExpiresInv
<1>6. CASE UNCHANGED invitationVars
  BY <1>6, InvitationStutter
<1> QED
  BY <1>1, <1>2, <1>3, <1>4, <1>5, <1>6 DEF InvitationNext

\* The rows, the workers' hands, the numbers and the calendars keep to the invariant.
THEOREM InvitationInvariant == InvitationSpec => []InvitationInv
<1>1. InvitationInit => InvitationInv
  BY InvitationStart
<1>2. InvitationInv /\ [InvitationNext]_invitationVars => InvitationInv'
  BY InvitationStep
<1> QED
  BY <1>1, <1>2, PTL DEF InvitationSpec

\* The event, the rows, the workers and the letters stay in their sets.
THEOREM InvitationTypes == InvitationSpec => []InvitationTypeOK
<1>1. InvitationInv => InvitationTypeOK
  BY DEF InvitationInv
<1> QED
  BY <1>1, InvitationInvariant, PTL

\* A row owes exactly the letters of its change that no server has taken, in doubt no more than
\* those and the mail in question (checkpointActions, markFailed).
THEOREM RowsOweExactly == InvitationSpec => []OwedIsExact
<1>1. InvitationInv => OwedIsExact
  BY DEF InvitationInv, RowsInv, RowInv, Exact, OwedIsExact, Owed
<1> QED
  BY <1>1, InvitationInvariant, PTL

\* No letter is on its way that a server has taken (beginDispatch marks before, the outcome after).
THEOREM LettersGoOnce == InvitationSpec => []NeverSentTwice
<1>1. ASSUME InvitationInv, NEW w \in Workers, stage[w] = "dispatch"
      PROVE  LettersOf(job[w], Head(todo[w])) \cap got = {}
  <2>1. /\ HandInv(w) /\ SentInv(w) /\ todo[w] \in Seq(Actions) /\ RowInv(job[w], Row(w))
    BY <1>1, RowAtWork
  <2>2. todo[w] # <<>> /\ LettersIn(job[w], todo[w]) = Asked(job[w]) \ got
    BY <1>1, <2>1 DEF HandInv, SentInv, RowInv
  <2>3. LettersOf(job[w], Head(todo[w])) \subseteq LettersIn(job[w], todo[w])
    BY <2>1, <2>2, LettersSplit
  <2> QED
    BY <2>2, <2>3
<1>2. InvitationInv => NeverSentTwice
  BY <1>1 DEF NeverSentTwice
<1> QED
  BY <1>2, InvitationInvariant, PTL

\* Whatever the order in which the rows were delivered: when all are sent, every attendee's
\* calendar agrees with the event.
THEOREM CalendarsFollowEvent == InvitationSpec => []CalendarsAgree
<1>1. ASSUME InvitationInv, \A r \in DOMAIN outbox : outbox[r].status = "sent",
             NEW a \in Attendees
      PROVE  view[a].invited = (event.exists /\ event.invited /\ a \in event.people)
  <2>1. /\ NumberInv /\ LastWord(a) /\ ViewInv(a) /\ got \subseteq asked /\ RowsInv
        /\ asked \subseteq Letters /\ event.sequence \in Nat /\ view[a].sequence \in Nat
        /\ view[a].invited \in BOOLEAN /\ event.exists \in BOOLEAN /\ event.invited \in BOOLEAN
    BY <1>1 DEF InvitationInv, InvitationTypeOK, LettersInv, Sequences
  <2>2. \A l \in asked : l.row \in DOMAIN outbox /\ l.sequence \in Nat
    BY <2>1 DEF NumberInv, Letters, Sequences
  <2>3. asked = got
    <3>1. ASSUME NEW l \in asked PROVE l \in got
      <4>1. RowInv(l.row, outbox[l.row]) /\ outbox[l.row].status = "sent"
        BY <1>1, <2>1, <2>2 DEF RowsInv
      <4>2. Asked(l.row) \ got = {}
        BY <4>1, NoLetters DEF RowInv, Exact
      <4> QED
        BY <4>2 DEF Asked
    <3> QED
      BY <2>1, <3>1
  <2>4. CASE Member(a)
    <3>1. PICK l \in asked : l.who = a /\ l.method = "REQUEST" /\ l.sequence = event.sequence
      BY <2>1, <2>4 DEF LastWord
    <3>2. \A m \in asked : m.sequence <= event.sequence
      BY <2>1, <2>4 DEF NumberInv, Member
    <3>3. event.sequence <= view[a].sequence
      BY <2>1, <2>3, <3>1 DEF ViewInv
    <3>4. view[a].sequence <= event.sequence
      BY <2>1, <2>3, <3>2 DEF ViewInv
    <3>5. view[a].sequence = event.sequence
      BY <2>1, <3>3, <3>4
    <3>6. view[a].invited
      BY <2>1, <2>3, <3>1, <3>5 DEF ViewInv
    <3> QED
      BY <2>4, <3>6 DEF Member
  <2>5. CASE ~Member(a)
    <3>1. ASSUME view[a].invited PROVE FALSE
      <4>1. PICK l \in got : l.who = a /\ l.method = "REQUEST" /\ l.sequence = view[a].sequence
        BY <2>1, <3>1 DEF ViewInv
      <4>2. PICK m \in got : m.who = a /\ l.sequence < m.sequence
        BY <2>1, <2>3, <2>5, <4>1 DEF LastWord
      <4>3. m.sequence <= view[a].sequence /\ m.sequence \in Nat
        BY <2>1, <2>2, <2>3, <4>2 DEF ViewInv
      <4> QED
        BY <2>1, <4>1, <4>2, <4>3
    <3> QED
      BY <2>1, <2>5, <3>1 DEF Member
  <2> QED
    BY <2>4, <2>5
<1>2. InvitationInv => CalendarsAgree
  BY <1>1 DEF CalendarsAgree
<1> QED
  BY <1>2, InvitationInvariant, PTL
=============================================================================

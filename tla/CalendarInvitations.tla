------------------------ MODULE CalendarInvitations ------------------------
(***************************************************************************)
(* The invitations of one event: the transactions of routes/calendar.ts    *)
(* that change the event and store what has to be mailed, and              *)
(* services/calendarInvitationOutbox.ts, which mails it.                   *)
(*                                                                         *)
(* A row holds the actions that are still owed, in their order.  An action *)
(* is one mail to several attendees, and the mail server takes it for some *)
(* of them.  A worker is one deliverStoredInvitation; its identity stands  *)
(* for the token it draws.                                                 *)
(***************************************************************************)
EXTENDS Naturals, Sequences

CONSTANTS
  Attendees,
  Workers,      \* deliveries, of the worker's timer and of the routes
  NoWorker,     \* the token of a row nobody has claimed
  LastEdit,     \* bound: changes of the event, each with at most one row
  LastTrouble,  \* bound: failed and partial deliveries, lost answers, crashes, leases outlived
  MaxAttempts   \* MAX_ATTEMPTS of the timer; a route has no such limit

ASSUME InvitationAssumption == /\ LastEdit \in Nat /\ LastTrouble \in Nat /\ MaxAttempts \in Nat
                               /\ NoWorker \notin Workers

VARIABLES
  event,     \* the row of calendar_events
  outbox,    \* the rows of calendar_invitation_outbox, in the order of their creation
  stage,     \* stage[w]: where the worker stands
  job,       \* job[w]: the row it works on, 0 if none
  todo,      \* todo[w]: the actions it has still to deliver, the current one first
  answer,    \* answer[w]: what it learns of the current mail
  asked,     \* history: the letters the changes asked for
  got,       \* history: the letters a mail server has taken
  view,      \* view[a]: what the attendee's calendar says
  edits,     \* changes so far
  troubles   \* troubles so far

invitationVars == <<event, outbox, stage, job, todo, answer, asked, got, view, edits, troubles>>

Sequences == 0..LastEdit
Action(method, to, sequence) == [method |-> method, to |-> to, sequence |-> sequence]
Actions == [method: {"REQUEST", "CANCEL"}, to: SUBSET Attendees, sequence: Sequences]
OutboxRows == [status: {"sending", "processing", "uncertain", "failed", "sent"},
               actions: Seq(Actions), token: Workers \cup {NoWorker}, live: BOOLEAN, attempts: Nat]
Letters == [row: 1..LastEdit, method: {"REQUEST", "CANCEL"}, sequence: Sequences, who: Attendees]
Silence == [known |-> FALSE, rejected |-> {}]

InvitationTypeOK ==
  /\ event \in [exists: BOOLEAN, invited: BOOLEAN, people: SUBSET Attendees, sequence: Sequences]
  /\ outbox \in Seq(OutboxRows) /\ Len(outbox) <= edits
  /\ stage \in [Workers -> {"idle", "renew", "prepare", "begin", "dispatch", "answer"}]
  /\ job \in [Workers -> 0..Len(outbox)]
  /\ todo \in [Workers -> Seq(Actions)]
  /\ answer \in [Workers -> [known: BOOLEAN, rejected: SUBSET Attendees]]
  /\ asked \subseteq Letters /\ got \subseteq asked
  /\ view \in [Attendees -> [sequence: Sequences, invited: BOOLEAN]]
  /\ edits \in 0..LastEdit /\ troubles \in 0..LastTrouble

InvitationInit ==
  /\ event = [exists |-> TRUE, invited |-> FALSE, people |-> {}, sequence |-> 0]
  /\ outbox = <<>>
  /\ stage = [w \in Workers |-> "idle"]
  /\ job = [w \in Workers |-> 0]
  /\ todo = [w \in Workers |-> <<>>]
  /\ answer = [w \in Workers |-> Silence]
  /\ asked = {} /\ got = {}
  /\ view = [a \in Attendees |-> [sequence |-> 0, invited |-> FALSE]]
  /\ edits = 0 /\ troubles = 0

Trouble == troubles < LastTrouble /\ troubles' = troubles + 1

-----------------------------------------------------------------------------
(* Changes of the event; each is one transaction that locks its row.       *)

LettersOf(r, action) ==
  {[row |-> r, method |-> action.method, sequence |-> action.sequence, who |-> a] : a \in action.to}

LettersIn(r, actions) == UNION {LettersOf(r, actions[i]) : i \in DOMAIN actions}

\* What is to be mailed is stored with the change; a change that concerns nobody stores nothing.
Store(actions) ==
  /\ edits < LastEdit /\ edits' = edits + 1
  /\ IF actions = <<>> THEN UNCHANGED <<outbox, asked>>
     ELSE /\ outbox' = Append(outbox, [status |-> "sending", actions |-> actions,
                                       token |-> NoWorker, live |-> FALSE, attempts |-> 0])
          /\ asked' = asked \cup LettersIn(Len(outbox) + 1, actions)
  /\ UNCHANGED <<stage, job, todo, answer, got, view, troubles>>

HadInvitation == event.invited /\ event.people # {}

\* Bug: the sequence is counted up only if somebody has been invited before.
NextSequenceIfInvited == IF HadInvitation THEN event.sequence + 1 ELSE 0

NextSequence == IF HadInvitation \/ event.sequence > 0 THEN event.sequence + 1 ELSE 0

\* Those who are retracted, if any, are told with the next number.
Cancel(people) == IF people = {} THEN <<>> ELSE <<Action("CANCEL", people, event.sequence + 1)>>

\* updateInvitedEvent, and the creation of an event with invitations: those who are dropped are
\* told first, and everybody if the sender has changed.
UpdateInvited(people, senderChanged) ==
  /\ event.exists /\ people # {}
  /\ LET dropped == IF ~HadInvitation THEN {}
                    ELSE IF senderChanged THEN event.people ELSE event.people \ people
     IN Store(Cancel(dropped) \o <<Action("REQUEST", people, NextSequence)>>)
  /\ event' = [exists |-> TRUE, invited |-> TRUE, people |-> people, sequence |-> NextSequence]

\* An update without invitations retracts the earlier ones.
UpdateQuietly ==
  /\ event.exists
  /\ Store(Cancel(IF HadInvitation THEN event.people ELSE {}))
  /\ event' = [exists |-> TRUE, invited |-> FALSE, people |-> {}, sequence |-> NextSequence]

Delete ==
  /\ event.exists
  /\ Store(Cancel(IF HadInvitation THEN event.people ELSE {}))
  /\ event' = [event EXCEPT !.exists = FALSE]

-----------------------------------------------------------------------------
(* A delivery.                                                             *)

Leaves(w) == /\ stage' = [stage EXCEPT ![w] = "idle"]
             /\ job' = [job EXCEPT ![w] = 0]
             /\ todo' = [todo EXCEPT ![w] = <<>>]
             /\ answer' = [answer EXCEPT ![w] = Silence]

Row(w) == outbox[job[w]]
Stores(w, row) == outbox' = [outbox EXCEPT ![job[w]] = row]
Goes(w, where) == stage' = [stage EXCEPT ![w] = where]

Abandoned(row) == row.status = "processing" /\ ~row.live
Claimed(row) == row.status \in {"sending", "failed"} \/ Abandoned(row)

\* Bug: a row whose mail may have been taken is delivered again.
UncertainToo(row) == Claimed(row) \/ (row.status = "uncertain" /\ ~row.live)

\* Bug: what a dead worker has claimed is left.
ClaimedOnce(row) == row.status \in {"sending", "failed"}

Deliverable(row) == Claimed(row)

ClaimRow(w, r) ==
  /\ stage[w] = "idle"
  /\ Deliverable(outbox[r])
  /\ outbox' = [outbox EXCEPT ![r] = [status |-> "processing", actions |-> outbox[r].actions,
                                      token |-> w, live |-> TRUE, attempts |-> outbox[r].attempts]]
  /\ job' = [job EXCEPT ![w] = r]
  /\ todo' = [todo EXCEPT ![w] = outbox[r].actions]
  /\ Goes(w, "renew")
  /\ UNCHANGED <<event, answer, asked, got, view, edits, troubles>>

\* claimPendingInvitations of the timer, and claimInvitation of a route.
ClaimPending(w) == \E r \in DOMAIN outbox : outbox[r].attempts < MaxAttempts /\ ClaimRow(w, r)
ClaimInvitation(w) == \E r \in DOMAIN outbox : ClaimRow(w, r)

Holds(w, statuses) == Row(w).token = w /\ Row(w).live /\ Row(w).status \in statuses

\* Each of these statements asks for the claim; without it the delivery ends.
Renew(w) ==
  /\ stage[w] = "renew"
  /\ IF Holds(w, {"processing"}) THEN Goes(w, "prepare") /\ UNCHANGED <<job, todo, answer>>
     ELSE Leaves(w)
  /\ UNCHANGED <<event, outbox, asked, got, view, edits, troubles>>

Prepare(w) ==
  /\ stage[w] = "prepare"
  /\ Goes(w, "begin")
  /\ UNCHANGED <<event, outbox, job, todo, answer, asked, got, view, edits, troubles>>

MarkFailed(w, actions) ==
  /\ IF Holds(w, {"processing", "uncertain"})
     THEN Stores(w, [status |-> "failed", actions |-> actions, token |-> NoWorker, live |-> FALSE,
                     attempts |-> Row(w).attempts + 1])
     ELSE UNCHANGED outbox
  /\ Leaves(w)
  /\ UNCHANGED <<event, asked, got, view, edits>>

PrepareFails(w) == stage[w] = "prepare" /\ Trouble /\ MarkFailed(w, todo[w])

BeginDispatch(w) ==
  /\ stage[w] = "begin"
  /\ IF Holds(w, {"processing"})
     THEN /\ Stores(w, [Row(w) EXCEPT !.status = "uncertain"])
          /\ Goes(w, "dispatch") /\ UNCHANGED <<job, todo, answer>>
     ELSE Leaves(w) /\ UNCHANGED outbox
  /\ UNCHANGED <<event, asked, got, view, edits, troubles>>

\* An attendee's calendar goes by the sequence; of two mails with the same one the later counts.
Reads(a, action) ==
  IF a \in action.to /\ action.sequence >= view[a].sequence
  THEN [sequence |-> action.sequence, invited |-> action.method = "REQUEST"]
  ELSE view[a]

\* The server takes the mail for some attendees; its answer may be lost or be incomplete.
Dispatch(w) ==
  /\ stage[w] = "dispatch"
  /\ LET action == Head(todo[w])
     IN \E taken \in SUBSET action.to, known \in BOOLEAN :
          /\ IF known /\ taken = action.to THEN UNCHANGED troubles ELSE Trouble
          /\ got' = got \cup LettersOf(job[w], [action EXCEPT !.to = taken])
          /\ view' = [a \in Attendees |-> Reads(a, [action EXCEPT !.to = taken])]
          /\ answer' = [answer EXCEPT ![w] = IF ~known THEN Silence
                                             ELSE [known |-> TRUE, rejected |-> action.to \ taken]]
  /\ Goes(w, "answer")
  /\ UNCHANGED <<event, outbox, job, todo, asked, edits>>

Taken(w) == stage[w] = "answer" /\ answer[w].known /\ answer[w].rejected = {}

\* Bug: only the rejected attendees are kept for the retry, and not the actions after them.
StillOwedHere(w) == <<[Head(todo[w]) EXCEPT !.to = answer[w].rejected]>>

StillOwed(w) == <<[Head(todo[w]) EXCEPT !.to = answer[w].rejected]>> \o Tail(todo[w])

\* A refusal of the whole mail is one that rejects everybody.
Rejected(w) ==
  /\ stage[w] = "answer" /\ answer[w].known /\ answer[w].rejected # {}
  /\ MarkFailed(w, StillOwed(w))
  /\ UNCHANGED troubles

Checkpoint(w) ==
  /\ Taken(w) /\ Len(todo[w]) > 1
  /\ IF Holds(w, {"uncertain"})
     THEN /\ Stores(w, [status |-> "processing", actions |-> Tail(todo[w]), token |-> w,
                       live |-> TRUE, attempts |-> Row(w).attempts])
          /\ todo' = [todo EXCEPT ![w] = Tail(todo[w])]
          /\ answer' = [answer EXCEPT ![w] = Silence]
          /\ Goes(w, "renew") /\ UNCHANGED job
     ELSE Leaves(w) /\ UNCHANGED outbox
  /\ UNCHANGED <<event, asked, got, view, edits, troubles>>

CompleteDelivery(w) ==
  /\ Taken(w) /\ Len(todo[w]) = 1
  /\ IF Holds(w, {"uncertain"})
     THEN Stores(w, [status |-> "sent", actions |-> <<>>, token |-> NoWorker, live |-> FALSE,
                     attempts |-> Row(w).attempts + 1])
     ELSE UNCHANGED outbox
  /\ Leaves(w)
  /\ UNCHANGED <<event, asked, got, view, edits, troubles>>

\* Nobody knows what the server has done, and the row says so.
StaysUncertain(w) ==
  /\ stage[w] = "answer" /\ ~answer[w].known
  /\ Leaves(w)
  /\ UNCHANGED <<event, outbox, asked, got, view, edits, troubles>>

WorkerDies(w) ==
  /\ stage[w] # "idle"
  /\ Trouble
  /\ Leaves(w)
  /\ UNCHANGED <<event, outbox, asked, got, view, edits>>

\* A lease that runs out under its delivery is a trouble, that of a dead one is not.
ClaimExpires(r) ==
  /\ outbox[r].live
  /\ IF \E w \in Workers : w = outbox[r].token /\ job[w] = r THEN Trouble ELSE UNCHANGED troubles
  /\ outbox' = [outbox EXCEPT ![r].live = FALSE]
  /\ UNCHANGED <<event, stage, job, todo, answer, asked, got, view, edits>>

-----------------------------------------------------------------------------
DeliveryStep(w) == \/ Renew(w) \/ Prepare(w) \/ BeginDispatch(w) \/ Dispatch(w)
                   \/ Rejected(w) \/ Checkpoint(w) \/ CompleteDelivery(w) \/ StaysUncertain(w)

InvitationNext ==
  \/ \E people \in SUBSET Attendees, senderChanged \in BOOLEAN :
       UpdateInvited(people, senderChanged)
  \/ UpdateQuietly \/ Delete
  \/ \E w \in Workers : \/ ClaimPending(w) \/ ClaimInvitation(w) \/ DeliveryStep(w)
                        \/ PrepareFails(w) \/ WorkerDies(w)
  \/ \E r \in DOMAIN outbox : ClaimExpires(r)

InvitationSpec == InvitationInit /\ [][InvitationNext]_invitationVars

\* The timer runs as long as the process does, a mail server answers or the connection times
\* out, and a lease nobody renews runs out.
InvitationFairness ==
  /\ \A w \in Workers : WF_invitationVars(DeliveryStep(w)) /\ WF_invitationVars(ClaimPending(w))
  /\ WF_invitationVars(\E r \in DOMAIN outbox : ClaimExpires(r))

-----------------------------------------------------------------------------
(* Properties.                                                             *)

Owed(r) == LettersIn(r, outbox[r].actions)
Asked(r) == {letter \in asked : letter.row = r}

\* "A retry never repeats an action that was fully accepted before a later action failed", and
\* forgets none: a row owes exactly what no server has taken.  In doubt it owes more, but no
\* more than the mail in question.
OwedIsExact ==
  \A r \in DOMAIN outbox :
    IF outbox[r].status = "uncertain"
    THEN /\ Asked(r) \ got \subseteq Owed(r)
         /\ Owed(r) \cap got \subseteq LettersOf(r, Head(outbox[r].actions))
    ELSE Owed(r) = Asked(r) \ got

\* "Recovery must not dispatch the same action again": no letter is on its way that has been taken.
NeverSentTwice ==
  \A w \in Workers : stage[w] = "dispatch" => LettersOf(job[w], Head(todo[w])) \cap got = {}

\* When every row is sent, every attendee's calendar agrees with the event, in whatever order
\* the rows of several changes were delivered.
CalendarsAgree ==
  (\A r \in DOMAIN outbox : outbox[r].status = "sent") =>
    \A a \in Attendees : view[a].invited = (event.exists /\ event.invited /\ a \in event.people)

Ended(row) == \/ row.status \in {"sent", "uncertain"}
              \/ row.status = "failed" /\ row.attempts >= MaxAttempts

\* Every row ends up sent, or in doubt, or given up by the timer.
DeliveriesEnd ==
  \A r \in 1..LastEdit : r \in DOMAIN outbox ~> r \in DOMAIN outbox /\ Ended(outbox[r])
=============================================================================

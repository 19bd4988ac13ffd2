# Inboxora: formal models of the delivery-critical core

Inboxora is a self-hosted mail, calendar and contacts client: a Node backend over PostgreSQL
and Redis, with IMAP/SMTP, Gmail and Microsoft Graph behind it, and web, Electron and Android
front ends. This directory holds TLA+ specifications of the parts of the backend whose
correctness depends on the order of events, the TLC instances that check them, and TLAPS proofs
for every value of the constants. Paths below are relative to `backend/src/`.

## 1. Inventory

| Part | State | Operations | What is hard | What makes it correct |
|---|---|---|---|---|
| Submission pipeline, `services/sendMail.ts` | `send_idempotency` rows, Redis reservations and receipts | `executeSend` and its ledger statements | two calls with one key, a crash or a lost acknowledgement between two statements, a lost transport answer, a flushed Redis | one delivery per key; an error means nothing left; a success answer tells the truth |
| Scheduled mail and undo send, `services/scheduledMail.ts`, `scheduledMailWorker.ts` | `scheduled_mail` rows (state, revision, payload, lease), a worker's local flags | enqueue, merge, edit, update, reschedule, cancel, dismiss; claim, renew, begin, complete, release, recover | user operations against claims, leases that expire under a live worker, crashes, late answers | nothing leaves that was withdrawn; nobody is reached twice; the state shown is true |
| Transports, `services/sendTransport.ts`, `smtpTransport.ts` | connections | `send` | ambiguous failures | accepted, refused or unknown, never confused |
| Provider operation journal, `services/providerOperations.ts`, `providerMutationService.ts` | `provider_operations` rows with status, generation, claim token, lease, retry proof | begin, progress, complete, retry, look up, close | a reclaimed operation whose first performer is still alive, an answer that proves nothing, a result that comes late | one effect per operation, no replay of a write that must not be repeated, true and final results |
| Series split, `services/providerCalendarOccurrences.ts` | the stages recorded in the operation's row | truncate, announce, create, resume | two writes under one operation, a lost record between them, a successor that continues | one remainder, none before the truncation, a true record |
| Provider adapters, `services/providers/**`, `calendarCollectionMutation.ts` and others | none | classify an answer | a 5xx answer or silence after the write | what they report agrees with what the provider did |
| Sync coordinator, `services/syncCoordinator.ts` | `sync_states` rows: lease, fencing generation, cursor, page checkpoint, reindex times | acquire, renew, fence, checkpoint, complete, fail, release | a slow holder after a takeover, a reindex requested during a run | only the newest holder writes; ready means rebuilt |
| Gmail messages, `services/providers/google/gmailMailSync.ts` | the sync row, baseline runs and what they have seen, message rows | read the history feed, list the mailbox, reconcile | changes during a listing, aged cursors, pauses, lost leases, an unfenced transition | the cursor skips nothing; rows never go back; none leaves without a deletion |
| Mail flag intents, `services/mailFlagState.ts` | intents, readbacks, the flag shown and its protection | click, claim, write, finish, defer, read back | a write whose fate is unknown, a click during a write, an observation older than the row | no blind repetition; confirmed means written; provider and row agree in the end |
| Calendar invitations, `routes/calendar.ts`, `services/calendarInvitationOutbox.ts` | outbox rows with the actions still owed, claims | change, delete; claim, dispatch, checkpoint, complete, fail | partial acceptance, a crash with a mail in doubt, rows delivered out of order | a letter is taken once, owed until then, and calendars agree with the event |
| Domain outbox, `services/domainOutbox.ts` | events with attempts and leases | publish, claim, complete, fail, recover | (only its tests call it) | |
| Keyed serializer, `utils/keyedSerializer.ts` | a map of promise tails | run | cleanup against a new arrival | mutual exclusion and order per key |
| Connection of an IMAP account, `services/imapManager.ts`, `routes/accounts.ts` | the map of connections, `connectingAccounts`, timers | update, connect, disconnect, tick, health check | updates during a connect, callers outside the queue, a logout and a close at once | no orphaned client; enabled accounts end up connected |
| Push and sync scheduling, `services/providerSyncHints.ts`, `providerSyncHintWorker.ts`, `providerPush*`, `providerSync*` | hint rows with requested and claimed times, subscriptions | notify, claim, synchronize, complete, fail; renew | a notification during its synchronization, a crash, an aged claim | no notification is lost |
| Tokens and authorization, `services/provider*Token*`, `providerAuth*` | token rows | refresh, finalize, revoke | concurrent refreshes | no valid token overwritten by an older one |
| Mail cutover, `services/providerMailCutover.ts` | phase of an account | prepare, switch, roll back | work in flight across the switch | one writer |
| DAV collections, `services/davCollectionLifecycle.ts`, `*Fence.ts` | collection rows, fences | create, delete, recover | a crash between the server and the row | no orphan, no resurrection |
| Rule forwarding, `services/ruleForwarder.ts` | forwarding receipts | forward | retries | as the pipeline |
| Others (the IMAP manager's folder and message synchronization, conversations, attachments pool, spam, parsing, MCP server, plugins, front ends) | | | | see section 7 |

The scheduled-mail worker, the HTTP send route and the rule forwarder all end in `executeSend`;
they share its ledger and nothing else. A queue row's ledger key is
`scheduled:<id>:<revision>`, so the revision is what ties the two parts together.

Writes to mail folders, events, collections and contacts of an OAuth account go through
`runProviderMutation`, with an adapter per kind of write; routes and workers call it with an
idempotency key. The journal and `executeSend` are independent of each other.

A provider's notification becomes a hint, the hint's worker starts a synchronization, and the
synchronization takes its lease from the coordinator. The flag worker meets the synchronization
in the message's row: each may overwrite what the other has stored. The update of an account
commits its row, answers, and queues the reconnect with the serializer, which runs it among
callers of `connectAccount` that do not queue.

## 2. Modules

| Module | Models | Role |
|---|---|---|
| `SendMail` | `executeSend` with an idempotency key | component |
| `SendOnce` | one delivery per key, true answers | abstract specification of `SendMail` |
| `ScheduledMail` | the queue and its worker, EXTENDS `SendMail` | composition of the two |
| `QueuePromise` | mine / out / closed / waived | abstract specification of `ScheduledMail` |
| `ProviderMutation` | `runProviderMutation` and the statements of the operation journal | component |
| `ProviderPromise` | applied once, told truly, per idempotency key | abstract specification of `ProviderMutation` |
| `SeriesSplit` | the adapter of a series split, EXTENDS `ProviderMutation` | composition of adapter and journal |
| `SyncCoordinator` | the statements on a sync row, as operators | component without variables |
| `GmailSync` | the synchronization of Gmail messages, EXTENDS `SyncCoordinator` | composition of the two |
| `MailFlagState` | one flag between user, worker, synchronization and provider | component |
| `SyncHints` | the hint of one scope and the passes that serve it | component |
| `KeyedSerializer` | the queue of operations per key | component; the specification `AccountConnection` implements |
| `AccountConnection` | the connection of an IMAP account, EXTENDS `KeyedSerializer` | composition of the two |
| `CalendarInvitations` | the changes of an event and the outbox of its invitations | component |
| `SendMailProofs`, `ScheduledMailProofs`, `ProviderMutationProofs`, `SeriesSplitProofs`, `MailFlagStateProofs`, `GmailSyncProofs`, `CalendarInvitationsProofs`, `WorkersProofs` (serializer, connection and hints) | | theorems |
| `MCSendMail`, `MCScheduledMail`, `MCProviderMutation`, `MCSeriesSplit`, `MCMailSync`, `MCWorkers` | | instances for TLC |

### SendMail

An *attempt* is one call of `executeSend`; its identity is the random intent token, so a retry
is another attempt with the same key. `pc[a]` is the await the call stands at, in the order of
the function body: `lookup` (Redis GET), `prepare` (binding, limits, composition), `claim`,
`observe` (the two statements of `claimSendIntent`), `reserve` (SET NX), `undo`, `gate`
(`options.beforeDispatch`), `mark` (`markSendIntentUncertain`), `submit` (`transport.send`),
`finalize`, `release`. `intent` is the ledger table, `cache` the Redis keys. One action is one
statement or one request to another process, because the calls interleave exactly there. A
statement has three results: done, failed, or done with its acknowledgement lost. Errors the
code swallows (`.catch(() => {})`) are nondeterministic results of the same action. `accepted` is a
history variable: what the transport took.

A message is its set of recipients, which is also its fingerprint. The transport may report a
rejected set that does not belong to the message (`rejected` is then not evidence of anything);
otherwise a report is taken to be true. A duplicate fingerprint for historical request formats
is the same message. A heartbeat that fails, at any time, parks the intent (`LeaseSuspect`); a
heartbeat that succeeds changes nothing that is modelled. Redis may drop any entry at any time,
which covers expiry.

### ScheduledMail

`row` is the table. An item's identity stands for the client's enqueue key: repeating an enqueue
finds the row. `run`, `may` and `dispatched` are the locals of `deliver(row)` (`may` is
`ownsLease && !stopped`). A claim takes a fresh attempt and starts its call of `executeSend`;
that call's steps are the steps of `SendMail`, and the gate is filled in by `BeginDispatch` and
`RecheckGate`. Time is a choice: a pending row may be due whenever a worker looks, and a lease
may expire at any moment. `owed` is a history variable: whom the user has asked for and who has
not been reached.

Every user operation names a revision, from all those that exist, not only the current one: a
stale client is any of them. The repeat answer of an operation changes nothing and is no step.

### ProviderMutation

A *call* is one run of `runProviderMutation`; its identity is the claim token it draws. `pc[c]`
is the await it stands at: `perform` (the adapter has the claim and has not sent anything),
`await` (its request is out), `record` (the adapter has reported an outcome), `park` (it has
taken over an operation that must not be run again), `reconcile` (an unknown deletion is looked
up). `op` is the table. `BeginFresh`, `BeginReused`, `BeginReplay`, `BeginBusy` and
`BeginReclaim` are the exits of `beginOperation`, which is one transaction; `Park`,
`RecordRetry` and `RecordOutcome` are the fenced statements that end a call, with the branch in
which they find no row. A statement that fails makes the service throw, which leaves the same
state as a death of the process (`Crash`).

A request is on the `wire` from its dispatch until the provider applies it (`Apply`) or it is
lost or refused (`Drop`); both may happen after the caller is gone. `effects` is the history of
what was applied. `HearAnswer` ties a call's outcome to it: a success is true, a 4xx or 429
answer was given instead of applying the request, a 5xx answer and silence say nothing. What the
adapter makes of the latter is `ServerError`: the adapters of the `Strict` keys (collections)
report an unknown outcome, the others follow the client's `retryable` flag. Keys are classed by
adapter: `Idempotent` ones may be run again after every take-over, `Deletions` are looked up in
the provider's list, `Flags` may be closed by the flag worker, `Splits` resume from stages.

Time is a choice: a lease may expire, and a scheduled retry become due, at any moment. Rows may
exist at the start in the state in which the version before migration 0102 left a scheduled
retry (`Unmarked`): without a proof, and with an effect that may have happened.

### SeriesSplit

The adapter of `providerCalendarOccurrences.ts` replaces the single write: `leg[c]` is how far
the run has come (`prepared`, `truncating`, `cut`, `truncated`, `announced`, `creating`,
`created`), a request on the wire is the truncation or the creation by its call's leg, and `Note`
is `recordProgress`, which appends a stage under the claim and lets the adapter go on when the
statement fails or finds no row. The `Resume...` actions are what a successor does with the stages
it finds: create what was not announced, look up what was, give up on what it cannot tell. The
records of the keys in `Lossy` may get lost, and the leases of those in `Stalling` may run out
under a live call, so that the runs can tell which property depends on which.

### SyncCoordinator and GmailSync

The coordinator's statements are operators from a row to the row they leave: the SQL computes the
new row from the old one, and the synchronizers keep the rows. A run of
`syncGmailMailMessagesForAccount` stands at an await or between two transactions: `leased`,
`history` (walking the feed), `threads` (reading and applying what the feed named), `commit`,
`finish`, `release`; or `baseline`, `open`, `scan`, `scanned` for the listing of the whole
mailbox. What is read of the provider is in the run's hand (`held`, `todo`, `dels`) until a
transaction that begins with the fence applies it. Message rows carry the history id they were
read at and, for `synced_at`, the number of baselines opened by then: only its order against the
baselines' start is used. Cursors are history ids. The mailbox changes at every moment; deletions
are final. `OpenBaseline` has no fence, as in the code. A thread is one message.

A row may be hidden, archived or deleted in the application or archived at the provider (`hidden`,
which is `is_deleted OR is_archived`). `applyGmailMessage` leaves such a row as it is when the
answer shows the message in a folder (`Applied`): content and `synced_at` stay, although the cursor
passes the change and a baseline counts the message as seen. Whether it is shown again is left to
`reconcileGmailMailVisibility`, which runs before and after a synchronization and has no lease: it
reads the message (`CheckReads`), and stores it if the row is still the version it was
(`CheckStores`; `look` is dropped by whoever writes the row, as its `xmin` changes). `Hide` and
`Move` are what the application itself writes there. Who stored a row last is kept as history
(`by`), because two of the properties have to speak of it:

- `NothingSkipped` holds of rows that are not hidden, and not of those that a move, or a check that
  began before the newest baseline was opened, stored last. Both set `synced_at` to now, so a
  baseline that was opened in between takes the row for one it has met: the row of a message that
  was deleted in the meantime stays.
- `NeverBackwards` lets a run put back what a check has stored ahead of the cursor; the feed names
  the change again.
- `ReadyIsEarned` speaks of rows that are not hidden.

### MailFlagState

The provider's flag, the folder of the message (its identity) and the feed's unread `news` are the
world. `intent` and `later` are the two tables' rows; `shown`, `ident` and `recent`
(`read_changed_at` within the time in which local state wins) are the columns of `messages`. A
call is one `processMailFlagIntent` (`inspect`, `mark`, `wait`, `read`, `finish`) or one
candidate of `drainMailFlagReadbacks` (`look`, `ask`, `apply`, `end`); its identity is the token
it draws. A write is on the `wire` until it lands or is lost, also after its call is gone. The
synchronization's transaction is `SyncApplies`: what it may not apply it defers. Of a hidden row it
applies nothing and always defers (`SyncFindsHidden`).

Nothing keeps the synchronization from storing a newer observation between a readback's question and
its statement. `passed` remembers the calls this has happened to, and `overtaken` that the row shows
the answer of such a call. `flags_overtaken` finds the defect; the other runs and the theorem have
the interleaving in them too and say that it is the only way for row and provider to differ
(`AgreedUnlessOvertaken`).

### SyncHints

One row of `provider_sync_hints`; `newer` is "requested after it was claimed", the only comparison
the code makes. A drainer is a pass of the worker at work on this row. `ClearHint`, `KeepHint` and
`FreeHint` are the two statements of `completeSyncHint` and `failSyncHint`; none of them names the
claim it belongs to. `covered` is a history variable: the notifications that a completed
synchronization began after. So is `outlived`: a claim has reached ten minutes under a pass that was
still at work, and since then there has been no moment with neither a row nor a pass.

### KeyedSerializer and AccountConnection

`tails` is the map, `prev[o]` the promise an operation is chained to, `order` the history of
submissions. `Clear` is the cleanup at the end, which deletes the tail only if it is its own. In
`AccountConnection` an update commits its row (`Commit`), queues (`Queue`) and is run: disconnect,
read the row (`Select`), `connectAccount` in the steps of its awaits (`lock`, `read`, `off`,
`handshake`, `sync`, `arm`). A tick that reconnects has its own (`setup`, `rehandshake`, `clear`);
who finds the account disabled disconnects it a step later (`leave`). `Others` are the callers that do not queue. A logout is a wait for
the socket's end, by whoever closes it; the entry of the map is deleted then. A client is named by
the settings it was opened with.

### CalendarInvitations

`UpdateInvited`, `UpdateQuietly` and `Delete` are the transactions that change the event and store
the row of what has to be mailed, CANCEL before REQUEST. A worker is one
`deliverStoredInvitation` (`renew`, `prepare`, `begin`, `dispatch`, `answer`), with the actions
still owed in its hand (`todo`). A mail is taken for some of its attendees, and its answer may be
lost. `view` is what an attendee's calendar program makes of what has been taken: the higher
sequence counts, and of two mails with the same one the later; that is the one part that stands
for code outside the repository.

### Instances of several parts

`MCMailSync` and `MCWorkers` put components that share no state into one specification; `part`
says which of them moves in a behaviour, and the others stay in their initial states. This is
several models in one run, not an interleaving of them.

### Bugs kept beside the definitions

The definitions commented `Bug:` are not part of any specification. Each is a plausible mistake
in the definition that follows it, and replacing the definition by it makes one property of one
run fail (`PROJECT.json`, "mutants"): they show that the properties can tell the difference.

## 3. Runs

| Run | Instance | Shows |
|---|---|---|
| `send_pipeline` | 3 calls, 1 key, 2 recipients | one delivery per key, failures and successes truthful, refinement of `SendOnce` |
| `queue` | 3 items, 2 claims, 2 recipients, revisions to 4, limit 2 | nothing unsolicited leaves, states are true, the submission is visible, uncertain is sticky, the active limit with single and merged enqueues, refinement of `QueuePromise` and of `SendSpec` |
| `queue_liveness` | 1 item, 2 claims, 1 recipient | claims end, receipts resolve |
| `provider_journal` | 3 calls, keys of a deletion, a flag write and a write that may be run again, 2 payloads | one effect, failures mean unapplied, answers true, results final, refinement of `ProviderPromise` |
| `split` | 3 calls, keys of both providers, of an ending, and of a split whose records get lost and whose leases run out | one remainder where records and leases hold; order of the two writes and complete results everywhere |
| `mail_sync` | 2 runs, 2 messages (or 1 whose row is hidden and moved), 3 history ids, 1 reindex, 2 generations; 2 calls, 2 clicks, 1 foreign change, 1 move, 1 fault | nothing skipped, nothing goes back, ready is earned; confirmed was written, nothing replayed, quiet means agreed unless a readback was overtaken |
| `workers` | hints: 2 passes, 3 notifications, 2 failures; flag: 2 calls, 1 click; serializer: 3 operations, 2 keys; connection: 2 updates, 1 other caller, 1 refusal; invitations: 3 changes, 2 attendees, 2 workers, 1 trouble | nothing forgotten and every notification served unless a claim was outlived; flag and provider agree in the end unless a readback was overtaken; order per key; no orphaned client, the account's state followed, updates carried out; letters owed exactly and sent once, calendars agree, deliveries end |
| `provider_generic`, `split_lost_record`, `hints_outlived`, `flags_overtaken`, `reconnect_dropped` | 2 or 3 calls, 1 key; the instances of `workers` | the disagreements of the next section |

Bounds. Three calls on one key are the claimer, one that meets its row and one that comes after
the row was released; keys do not interact. Two recipients allow full, partial, empty and
contradictory acceptances. Two claims of one row are the stale and the fresh worker; further
claims need further revisions and repeat the situation. `LastRevision` bounds the revision the
recoveries reach and `LastUserRevision` the one user operations start from, so that recoveries
always have revisions left. `queue` has more items than the limit admits; `Narrow` keeps it small:
a behaviour has two claims of one item, or one claim among two, or all items and no claim.

In the journal three calls are a performer, the call that takes it over and the one that finds
what the second has left. `OneOperation` lets a behaviour use one key, whichever it is, since keys
share nothing but the calls. The generation is bounded by the number of calls. Two payloads are the
right and the wrong fingerprint; the split needs one.

In `mail_sync`, two runs are the holder of the lease and its successor, or the one whose lease ran
out; three history ids are an arrival, a change or a deletion before, during and after what a run
reads; two generations are a baseline and its continuation or its replacement. The part `hidden` has
one message, since rows do not affect each other, and all that happens to hidden rows; a hide, a
move or a reindex takes the place of one of the changes (`Single`), so that a hidden row and its
check meet a reindex, and a third change without one. The part `messages` has two messages, up to
three changes with a reindex among them and no hidden rows (`Shown`), and stores how far a listing
got only when the run ends (`Ends`); the other part stores it in between too. The mailbox of both is
not empty at the start. Of two clicks the second supersedes the first, during its write too; it is
made while the message is in its first folder (`Clicking`), because a move after both is the case
that matters. One fault is a crash, an answer that says nothing, a failed synchronization or a lease
that runs out under its call, so that what it leaves is met by a healthy run. In `workers` the same
model has one click and no move, because liveness is dearer. Two passes, three notifications and two
failures put a notification before, during and after a synchronization that fails. Two updates and
one other caller are all that can meet at `connectingAccounts` (`Few`: the third operation belongs
to the serializer's own part, which needs three to see a cleanup between two arrivals). Three
changes of an event are an invitation, its retraction and a new one; the third is made after the
others have been mailed without trouble (`Settling`), so that what is bounded is the overtaking of
two rows. `MaxAttempts` is 1 instead of 5: the timer's limit is met and the routes go past it.

Attempts, calls, runs, messages, payloads and recipients are interchangeable and are declared
symmetric where no liveness is checked. Deadlock is not checked: calls, claims and changes are
finite in number and the system stops when they are used up.

### Where the code and its documentation disagree

Five runs are expected to fail. Each checks a sentence of a comment against what the code does,
and the counterexample is the shortest history:

1. `provider_generic`: a 5xx answer to an event or message write that is not idempotent becomes a
   "safe retry", so a write the provider did apply is run again (`gmailMailMutations.ts:37`).
   The collection adapters avoid this, and the theorems are about them (`Strict`).
2. `split_lost_record`: the creation is sent even if the record that announces it failed.
3. `hints_outlived`: `completeSyncHint` does not know whose claim it completes. A pass that takes
   more than ten minutes deletes the row another pass has claimed, with a newer notification in it
   (`providerSyncHints.ts:113`). Up to 20 hints are claimed at once and run one by one.
4. `flags_overtaken`: a readback's answer is stored although the synchronization has applied a
   newer one since it was asked; only `read_changed_at` is compared, which the synchronization does
   not set (`mailFlagState.ts:397`). Nothing corrects the row until the next change.
5. `reconnect_dropped`: a queued reconnect that finds somebody else connecting returns and counts
   as done (`imapManager.ts:2121`); the other one has read the settings of before the update.

Others were met and have no run:

- a change of a hidden Gmail message is passed by the cursor without being stored, and an index may
  be called ready with such rows unread (`gmailMailSync.ts:611-615`); that is intended, but the
  repair is an optional step without a lease. A check that was slow, or a move, gives the row of a
  deleted message a `synced_at` that keeps it through a baseline opened in between
  (`gmailMailSync.ts:667`, `gmailMailMove.ts:48-60`, against `:851-866`), and nothing removes it
  until the next baseline;
- a split whose call has lost its claim between the two writes is not told, and a refused creation
  schedules a retry "that asserts nothing was applied" after the series was truncated; the stages
  save the latter, since the retry resumes and does not repeat;
- `completeOperation` compares token and generation and not the lease, so a late result is recorded
  until somebody takes the row over, although its comment (`providerOperations.ts:228-229`) says it
  is refused then; nothing depends on it. And it overwrites `upstream_ref`
  (`providerOperations.ts:269`), so an unknown outcome erases the stages that would explain it;
- "the lease makes this single-writer" (`gmailMailSync.ts:818-819`) is untrue, since
  `createGmailBaselineRun` is not fenced, but harmless: a superseded baseline is found to be
  inactive and listed anew;
- hints of contacts are stored under the resource `contacts`, and the scheduler knows
  `address_book` (`providerSyncScheduler.ts:376-381`), so they are refused and never served;
- "retried with a widening gap" (`providerSyncHintWorker.ts:17`): the delay is always 60 seconds;
- a delivery of invitations that crashes does not count as an attempt
  (`calendarInvitationOutbox.ts:127` counts the failures that were recorded), and a row in doubt
  holds back the actions that come after the mail in question, for ever.

## 4. Fairness

A worker that has not crashed keeps taking its steps, which includes that the transport answers;
the code puts no deadline of its own around `executeSend`, so this is an assumption about the
transports. The poll loop runs every second and the recovery every 30 seconds as long as the
process runs, which gives weak fairness of claim and recovery. A lease is certain to expire only
when its holder is gone (`AbandonedLeaseExpires`); a live one may renew it for ever. No fairness
is put on users, on crashes, on losses or on anything the transport decides.

The same holds of the workers of `MCWorkers`. Their timers (`setInterval`, never cleared while the
process runs) give weak fairness of a claim; an await ends, by an answer, an error or a timeout; a
lease, a claim's ten minutes and the time in which local state wins run out. A request to the
provider lands or is lost. Two conditions are strong: a round of the flag worker looks at every due
intent and then at every due readback, so a row that is due again and again cannot be passed over
for ever although other calls claim it in between. Failures are bounded, so a synchronization that
is tried often enough succeeds; no fairness is put on users, other mail programs, refusals or
crashes.

The journal and the split are checked for safety only: no worker re-runs a parked operation, so
nothing is promised to happen eventually. `ReceiptsResolve` is about fewer parked rows than the
recovery scan reads (100).

## 5. Proofs

`SendMailProofs` proves, for any sets of calls, keys and recipients, and from the single
assumption that `NoAttempt` is not a call, all the properties the run `send_pipeline` checks, and
two more: the row is parked before the submission, and a receipt is never changed.
None of the safety properties is inductive: `AtMostOnce`, for instance, needs to know that a
call at the transport owns its ledger row, which needs that the row was parked before, that
nobody else can delete it, and that the call has claimed it. `SendInv` collects these facts: who
may own a row at which stage, that stages before the submission have delivered nothing, that
answers given as failures were given by calls that delivered nothing, and that every receipt in
the ledger or in Redis is the receipt of one witness call. Each action has a lemma that it
preserves `SendInv`; most change one call only, and the `Frame` lemmas carry the facts about the
others. The refinement theorem maps a transport step to `Deliver`, a success answer to `Answer`
and everything else to a stutter.

`ScheduledMailProofs` proves the properties of the run `queue`, the refinements of `QueuePromise`
and of the pipeline included, from the named assumptions about the bounds and keys and, for
`ActiveBound` only, that the table is finite. Its invariant `QueueInv` contains `SendInv`: every step of the queue is a step
of the pipeline or leaves it alone (`PipelineStep`), and the lemmas of `SendMailProofs` give what
that step does to a call. What has to be added, because `OutcomeTruth` says nothing about a row
that is out for delivery, is `OutWith`: such a row has exactly one claim, carries that claim's
message, and is owed exactly what that claim has not had accepted. `ClaimInv` adds that
`dispatched` is set before the gate opens, that the row stays visible and owed while its claim
stands at the transport, and that nothing was accepted for a claim that was never dispatched.
The proof has two framing lemmas: `RowsMove` for statements that rewrite rows while the pipeline
stands still (user operations, recovery, completion), and `ClaimFramed` for steps of one claim.
`SettleInv` is the heart of it: a row whose claim has left the transport may be closed, given
back or parked only in agreement with what the claim delivered. `ActiveBound` is inductive with
`QueueInv`: of all statements only the two enqueues make a row active (`NothingWakes`; recording an
outcome, which rewrites whatever row the claim names, finds it leased), and both count what they
add.

`ProviderMutationProofs` proves every property of the passing runs of the journal, the refinement
of `ProviderPromise` included, from the two named assumptions on the constants (the classes of
keys are disjoint where the adapters are, and `NoCall` is not a call). `OneEffect` alone is not
inductive. A call performs a strict write in two cases only, that the row is new or that it
proves that nothing was applied; so the invariant has to say that the proof is true, and who can
write it. `Performers(k)` are the calls of a key that may still have an effect: those between
their claim and their result, and those whose request is out or applied. `OnceInv` says that
there is at most one of them, and none where the row says `none`, `failed`, `conflict` or holds a
proof. A call that writes a proof or a failure owns the row and is therefore the one performer,
and it has seen a refusal, so its request is neither out nor applied: by leaving it makes the set
empty. A call that lost its claim writes nothing (`RowInv`, `Joined`: a row that is not in flight
has no token). `CallInv` ties answers to rows, `ResultInv` a committed row to an effect, and
`EffectInv` keeps an applied request off the wire. Deletions of an earlier version, whose effect
has no performer, are covered by `NoCall`'s effect and need the proof as well.

`SeriesSplitProofs` proves, for any calls, keys, adapters and faults, that no remainder precedes
the cut, that a committed split is complete and that recorded stages have happened. The invariant
`SplitInv` says of every call that what it has in hand is true (`CallSplit`: from its leg and the
stages it has read to the history) and of every row that what it records is (`RowSplit`). The
history only grows (`HistoryKept`), so what a step does not touch stays true; what remains are the
steps that write a stage, an outcome or the history.

`OneRemainder` is proved for the keys whose records and leases hold (`Solid`), of either adapter.
There a call at work owns its row under a live lease (`WorkerOnce`), so it is alone and its records
arrive; a creation that is announced stays announced in the row until the row is closed (`Warns`);
so whoever takes the row over afterwards has the announcement among the stages it has seen, and a
call that has seen one never leaves its first leg (`CallOnce`).

`WorkersProofs` has three parts. The serializer's proves the order per key. That an operation may start when the one it is
chained to is over says something about all earlier ones only because that one was the last of its
key, or no tail was there and all of them were over: `TailInv` and `ChainInv` say this, through
the cleanup that removes a tail between two arrivals.

The connection's proves, for any number of updates and of callers outside the queue, that
no client is orphaned. Who stands between taking the account's place and giving it back holds it
(`Mutex`), which makes it the only one that may put a client into the map; and it does so when the
map is empty (`OneClient`), because the disconnect before it has waited and nobody else installs.
`Places` and `Copies` say where a run may stand and what it has read. The refinement of the
serializer (`ConnectionUsesSerializer`) carries `InTurn` over to the account's updates. That a
client which is opened has an id and a row's settings needs `Copies` as well, so the types are
proved beside the invariant (`ManagerTypes`).

The hints' proves, for any passes, notifications, failures and claims that grow old, that a
notification can be forgotten and a scope be synchronized twice at once only when a claim has been
outlived. Nothing is assumed: that a claim grows old under its pass is a step of the specification,
and the invariant `HintInv` is the types and, while `outlived` is false, that a claimed row has one
pass at work on it whose synchronization began after everything but what `newer` marks
(`HolderInv`, `CoverInv`). `outlived` becomes false again with a new row that is made when no pass is
at work; `FreshHolds` proves that everything holds anew then. `hints_outlived` shows that the
condition is needed.

`MailFlagStateProofs` proves the properties of the run `mail_sync` about flags, for any calls,
clicks, changes elsewhere, moves and faults. A click counts the generation up and leaves the row's
claim alone, so a call may hold the row for an older click; `MineNow` names the one that works on
the newest. `WriteInv` says that only it can find the row `pending` before the write, that
`pending` means that nothing of this generation is in doubt, and that a success is that of a write
that was applied with the newest value (`Generations`). `AgreeInv` says where a difference between
the row and the provider may hide: in the feed's news, in what the synchronization has in hand, or
in a readback for the row's present folder. A readback that is dropped was for another folder, and
one that is applied has just asked. If the
synchronization has stored something newer since it asked, the call is in `passed`, and the row is
`overtaken` when the call stores its answer, until somebody else writes it. That is the one further
place, so `QuietlyAgreed` assumes nothing about the interleaving, and `flags_overtaken` shows that
the place exists.

`GmailSyncProofs` proves the invariants and the action property of the run `mail_sync` about the
synchronization, for any number of messages, events, runs, pages, crashes, expired leases and
reindex requests. `NothingSkipped` speaks of the stored cursor only, and a run stores it long after
it has read what the cursor passes. `SyncInv` therefore says of every change that is not in the
store yet in whose hands it is: in those of a run, as a deletion, as a thread to read, or read and
not applied (`FeedKept`), or in those of a listing, as a message it has still to come to (`Kept`).
All of it is claimed only of the run whose lease stands (`Fenced`), and of the checkpoint it left
when it paused or died: a run that has lost its lease writes nothing, so what it holds does not
matter. `InTime` is what makes a write safe: what has been read is not older than the row, and no
deletion of the message lies between the run's position and the stored one. Of a listing it has to
be known besides that a row it has not come to is older than its baseline, and that the deletions
before its start will be found in rows it has not seen. `Renewed` and the requests' counter give
`ReadyIsEarned`. Of hidden rows it has to be known that what a check has read of them is an event of
the message and no older than the row (`LookInv`), and that storing it cannot undo what the cursor
has passed unless the check is a late one (`LookTells`, which makes `Applies` into `Done`). `CursorAdvances`, that the stored cursor never goes back but to none, is proved
from `SyncInv` and `CursorAhead`: who has read the cursor under the lease that still stands is the
only one that stores a position.

`CalendarInvitationsProofs` proves the invariants about invitations, for any attendees, workers,
changes and failures, and without the bounds of the run's instance. `OwedIsExact` is about a row,
but whether it stays true is decided by what a worker has in hand: `HandInv` says that whoever has
the claim has the row's actions, and that whoever sends has the row marked uncertain, which nobody
else can claim; `SentInv` that it sends exactly what is missing, and that the actions it is about to
store owe exactly what remains. `InOrder` and `CancelsFirst` order the two mails of one change,
which may carry the same number. `CalendarsAgree` needs the numbers: those of different changes
differ (`NumberInv`), the last letter asked for says whether the attendee takes part (`LastWord`),
and a calendar shows the highest it has got (`ViewInv`); when every row is sent, what was asked for
and what was got are the same letters.

The runs `mail_sync` and `workers` put several parts beside each other. `MailSyncIsItsParts` and
`WorkersAreTheirParts` prove that a behaviour of the composition is one of every part, so the
theorems about the parts hold of what TLC runs, and of all bounds; `MailSyncTypes` and
`WorkersTypes` state it of the type invariants. Only for the connection an invariant has to be
added (`Managed`), since in one part the serializer serves other keys while the manager stands
still.

Proved, but in no run by name, since the runs' properties say more of the same facts: the type
invariants of the first three components, `DurableBeforeSubmission`, `ReceiptsImmutable`,
`OneClaimPerRevision`, `CursorAdvances`, `OneFingerprint`, `SplitTypeOK`, `RecordsAreTrue`,
`OneSyncUnlessOutlived`, `IdleKeysAreDropped` and `UsesSerializer`; `FlagTypeOK` is half of the run's
`MailSyncTypeOK`.

## 6. Model-checked only

Everything under fairness: the prover has no support for it. The properties that the runs with
expected violations refute are false and have no theorem; their assumptions appear in the theorems
about the others, as conditions on the history (`outlived`, `overtaken`) or on the key (`Solid`).

## 7. Not modelled

Of the journal: calls without an idempotency key, which cannot be repeated; `renewOperationLease`,
which only tests call, and `listDueOperations`, which only counts rows; the payload's own columns
and the stored result. That a
4xx or 429 answer means "not applied" is the providers' contract and is assumed; so is that a
complete list without a collection proves its deletion, which leaves out a user who deletes the
same collection in the provider's own interface. Of the split: single occurrences, which are one
write; the payload of the remainder, and a user who creates an event that matches it; a provider's
read that lags behind its writes. Microsoft's creation carries a `transactionId`, so several
requests make one event, and its errors are all unknown to the shared classifier.

`acknowledgeSentMail` and the read-only queries of the queue; the scheduled time; preparation of the
message at enqueue; account deletion, which cascades over rows and ledger alike; sends without an
idempotency key, which keep no state. The recovery scan's window of 100 rows: a window full of
inconsistent rows hides every later one. That and the late check of a hidden row
(`gmailMailSync.ts:979`) are the two hazards of `PROJECT.json` without a property. Two more are not
in that list because no property could tell them from what the code intends: an insert of the ledger
that commits while its answer is lost leaves a pending row without an owner, which answers its key
until it expires (`sendMail.ts:337`); and a transport that hangs keeps its heartbeat, and with it
its lease, alive for ever (`scheduledMailWorker.ts:16`).

Of Gmail: labels and folders, rules, notifications, the projection of conversations, several
messages of a thread, the 20 rows a check of hidden rows is limited to, its hour, and that it leaves
messages alone that have a recorded delete or move; the Graph synchronization, which has a cursor
per folder and no baseline table. Of the flags: several flags or messages of one call, the IMAP
branch of the write, backoff times. Of the hints: subscriptions and their renewal, the interval
scheduler, which synchronizes without hints. Of the connection: poll-only accounts, the cooldown
after a refusal, the staleness probe, IDLE, and the synchronization over the connection, a protocol
driver whose state lives mostly in a library; that `connectAccount` may throw between the
installation and the registration of its listeners (`imapManager.ts:2179`). Of the invitations: rows
of single occurrences, invitations the provider sends itself, the idempotency key of the routes, the
older completion marker.

The domain outbox, which nothing but its tests calls. Parsing, sanitizing, spam scoring and
threading are sequential data transformations better served by tests. The front ends are
represented by the operations they may send. Most of the repository's lines are of these kinds.

## 8. Plan

1. `SendMail`, `SendOnce` and proofs; `ScheduledMail`, `QueuePromise` and proofs. Done.
2. `ProviderMutation`, `ProviderPromise` and proofs; `SeriesSplit` and proofs. Done.
3. `SyncCoordinator` and `GmailSync`; `MailFlagState`. Checked and proved.
4. `SyncHints`, `KeyedSerializer`, `AccountConnection` and proofs. Done.
5. `CalendarInvitations`. Checked and proved.
6. The bounded recovery scan; the Graph synchronization on the same coordinator.
7. Token refresh, cutover, collection fences and rule forwarding, each read before it is planned in
   detail.

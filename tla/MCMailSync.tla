----------------------------- MODULE MCMailSync -----------------------------
(* The synchronization of messages and that of one flag on small instances for TLC, one of them *)
(* at a time: each behaviour is one of a single part, and the other stays in its initial state. *)
(* "messages" are several of which no row is hidden; "hidden" is one with all that happens to   *)
(* hidden rows.                                                                                 *)
EXTENDS GmailSync, MailFlagState, TLC

VARIABLE part

mailSyncVars == <<part, syncVars, flagVars>>

\* Bounds of the two instances of the synchronization of messages.
Single == /\ clock + filed + requested <= LastEvent
          /\ \A d, e \in events : d.msg = e.msg

Shown == filed = 0 /\ \A e \in events : e.kind # "archive"

\* Bound: of several messages, how far a listing got is stored only when its run ends.
Ends == stage' = stage => row'.page = row.page

MailSyncInit ==
  /\ part \in {"messages", "hidden", "flag"}
  /\ SyncInit /\ FlagInit
  /\ part = "flag" <=> events = {}
  /\ part = "hidden" => Single

\* Bound: of the clicks the last one is made while the message is in its first folder.
Clicking == intent'.generation < LastClick \/ place' = 0

MailSyncNext ==
  \/ part = "messages" /\ SyncNext /\ Shown' /\ Ends /\ UNCHANGED <<part, flagVars>>
  \/ part = "hidden" /\ SyncNext /\ Single' /\ UNCHANGED <<part, flagVars>>
  \/ part = "flag" /\ FlagNext /\ Clicking /\ UNCHANGED <<part, syncVars>>

MailSyncSpec == MailSyncInit /\ [][MailSyncNext]_mailSyncVars

\* The type invariants of the two parts.
MailSyncTypeOK == SyncTypeOK /\ FlagTypeOK

Symmetry == Permutations(Runs) \cup Permutations(Msgs) \cup Permutations(Calls)
=============================================================================

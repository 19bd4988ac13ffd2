----------------------------- MODULE MCWorkers -----------------------------
(* The background workers on small instances for TLC, one of them at a time: each behaviour is *)
(* one of a single part, and the others stay in their initial states, where nothing is enabled. *)
EXTENDS SyncHints, MailFlagState, AccountConnection, CalendarInvitations

CONSTANT Few   \* bound: the updates that are made of the account

VARIABLE part

workersVars == <<part, hintVars, flagVars, connectionVars, invitationVars>>

WorkersInit ==
  /\ part \in {"hint", "flag", "serializer", "connection", "invitation"}
  /\ HintInit /\ FlagInit /\ SerializerInit /\ ManagerInit /\ InvitationInit
  /\ part # "serializer" => keyOf = [o \in Ops |-> Account]
  /\ part # "connection" => ~row.enabled

\* Bound: the last change of the event comes when the others have been mailed.
Settling == edits' = LastEdit =>
              \/ edits = LastEdit
              \/ troubles = 0 /\ \A r \in DOMAIN outbox : outbox[r].status = "sent"

WorkersNext ==
  \/ part = "hint" /\ HintNext /\ UNCHANGED <<part, flagVars, connectionVars, invitationVars>>
  \/ part = "flag" /\ FlagNext /\ UNCHANGED <<part, hintVars, connectionVars, invitationVars>>
  \/ /\ part = "serializer" /\ SerializerNext
     /\ UNCHANGED <<part, hintVars, flagVars, managerVars, invitationVars>>
  \/ /\ part = "connection" /\ ConnectionNext /\ \A o \in Ops \ Few : kind'[o] = "none"
     /\ UNCHANGED <<part, hintVars, flagVars, invitationVars>>
  \/ /\ part = "invitation" /\ InvitationNext /\ Settling
     /\ UNCHANGED <<part, hintVars, flagVars, connectionVars>>

WorkersSpec == /\ WorkersInit /\ [][WorkersNext]_workersVars
               /\ HintFairness /\ FlagFairness /\ ConnectionFairness /\ InvitationFairness

\* The type invariants of the parts.
WorkersTypeOK == HintTypeOK /\ FlagTypeOK /\ SerializerTypeOK /\ ConnectionTypeOK /\ InvitationTypeOK
=============================================================================

-------------------------- MODULE AccountConnection --------------------------
(***************************************************************************)
(* The IMAP connection of one account and its settings: the update of      *)
(* routes/accounts.ts, which commits the row, answers, and then queues an  *)
(* operation with the serializer; and of services/imapManager.ts           *)
(* connectAccount, disconnectAccount, the reconnect of a sync tick, and    *)
(* the checks that repair it.                                              *)
(*                                                                         *)
(* The operation of an update bears the update's name.  Others are the     *)
(* callers of connectAccount that do not queue: the health check, a sync   *)
(* tick, the route that reconnects, the start of the server.               *)
(***************************************************************************)
EXTENDS KeyedSerializer

CONSTANTS
  Account,     \* the key of the account
  Others,      \* runs outside the queue
  LastClient,  \* bound: clients that anybody holds at a time
  LastRefusal, \* bound: handshakes that fail, connections that drop, calls of the reconnect route
  NoClient,    \* no entry in the map of connections, and no row read
  NoOne        \* the account is not in connectingAccounts

Actors == Ops \cup Others

ASSUME ConnectionAssumption == /\ Account \in Keys
                               /\ Ops \cap Others = {} /\ NoOne \notin Actors
                               /\ LastClient \in Nat /\ LastRefusal \in Nat
                               /\ NoClient \notin [id: Nat, settings: Nat, host: Nat]

VARIABLES
  row,         \* the row of email_accounts
  kind,        \* kind[o]: what the update has to queue, "none" before it is committed
  at,          \* at[x]: where the run stands
  after,       \* after[x]: where it goes on when its logout has ended
  copy,        \* copy[x]: the row it has read
  client,      \* client[x]: the client it is logging out, or has opened
  connecting,  \* who holds the account's place in connectingAccounts
  connection,  \* the entry in the map of connections
  open,        \* the clients whose socket is open
  timer,       \* the interval of the sync tick is armed
  refusals     \* refusals so far

net == <<connection, open>>
managerVars == <<row, kind, at, after, copy, client, connecting, net, timer, refusals>>
connectionVars == <<serializerVars, managerVars>>

Rows == [enabled: BOOLEAN, settings: Nat, host: Nat]
Clients == [id: 1..LastClient, settings: Nat, host: Nat]
Updates == {"disable", "enable", "settings", "host"}
Kinds == {"disconnect", "reconnect", "nothing"}

\* x stands between taking the account's place in connectingAccounts and giving it back.
Connects(x) == \/ at[x] \in {"read", "off", "handshake", "sync", "arm", "setup", "rehandshake",
                            "clear"}
               \/ at[x] = "logout" /\ after[x] = "handshake"

ConnectionTypeOK ==
  /\ row \in Rows
  /\ kind \in [Ops -> Kinds \cup {"none"}]
  /\ at \in [Actors -> {"idle", "logout", "select", "lock", "read", "off", "handshake", "sync",
                        "arm", "setup", "rehandshake", "clear", "leave", "end"}]
  /\ after \in [Actors -> {"idle", "select", "handshake", "end"}]
  /\ copy \in [Actors -> Rows \cup {NoClient}]
  /\ client \in [Actors -> Clients \cup {NoClient}]
  /\ connecting \in Actors \cup {NoOne} /\ \A x \in Actors : Connects(x) <=> connecting = x
  /\ connection \in Clients \cup {NoClient}
  /\ open \subseteq Clients
  /\ timer \in BOOLEAN
  /\ refusals \in 0..LastRefusal

ManagerInit ==
  /\ row \in {[enabled |-> on, settings |-> 0, host |-> 0] : on \in BOOLEAN}
  /\ kind = [o \in Ops |-> "none"]
  /\ at = [x \in Actors |-> "idle"]
  /\ after = [x \in Actors |-> "idle"]
  /\ copy = [x \in Actors |-> NoClient]
  /\ client = [x \in Actors |-> NoClient]
  /\ connecting = NoOne
  /\ connection = NoClient /\ open = {}
  /\ timer = FALSE
  /\ refusals = 0

ConnectionInit == SerializerInit /\ keyOf = [o \in Ops |-> Account] /\ ManagerInit

Refusal == refusals < LastRefusal /\ refusals' = refusals + 1

-----------------------------------------------------------------------------
(* The update.  Plugins write their own settings between the two steps.    *)

Updated(update) ==
  [enabled |-> (row.enabled /\ update # "disable") \/ update = "enable",
   settings |-> row.settings + (IF update \in {"settings", "host"} THEN 1 ELSE 0),
   host |-> row.host + (IF update = "host" THEN 1 ELSE 0)]

\* The settings of a disabled account are only stored.
Commit(o) ==
  /\ kind[o] = "none"
  /\ \E update \in Updates :
       /\ row' = Updated(update)
       /\ kind' = [kind EXCEPT ![o] = CASE update = "disable" -> "disconnect"
                                       [] row'.enabled -> "reconnect"
                                       [] OTHER -> "nothing"]
  /\ UNCHANGED <<serializerVars, at, after, copy, client, connecting, net, timer, refusals>>

Queue(o) ==
  /\ kind[o] \in {"disconnect", "reconnect"}
  /\ Submit(o)
  /\ UNCHANGED managerVars

-----------------------------------------------------------------------------
(* Steps of a run.                                                         *)

Proceeds(x, where) == at' = [at EXCEPT ![x] = where]

\* Bug: an early return leaves the queue's promise pending.
BackUnsettled(x) == "idle"

Back(x) == IF x \in Ops THEN "end" ELSE "idle"

\* connectAccount returns.
Return(x) == /\ Proceeds(x, Back(x))
             /\ copy' = [copy EXCEPT ![x] = NoClient]
             /\ client' = [client EXCEPT ![x] = NoClient]

\* disconnectAccount: the timer is cleared at once, the entry when the logout has ended.
Disconnect(x, next) ==
  /\ timer' = FALSE
  /\ client' = [client EXCEPT ![x] = connection]
  /\ IF connection = NoClient THEN Proceeds(x, next) /\ UNCHANGED after
     ELSE Proceeds(x, "logout") /\ after' = [after EXCEPT ![x] = next]

\* A socket is closed, by a logout or by the server or by a run that withdraws: every logout
\* that waits for it ends, and its entry is deleted by the listener or by whoever waited.
Waiting(c) == {x \in Actors : at[x] = "logout" /\ client[x] = c}

Closed(c) ==
  /\ open' = open \ {c}
  /\ connection' = IF connection = c THEN NoClient ELSE connection
  /\ after' = [x \in Actors |-> IF x \in Waiting(c) THEN "idle" ELSE after[x]]

Resumed(c) ==
  /\ at' = [x \in Actors |-> IF x \in Waiting(c) THEN after[x] ELSE at[x]]
  /\ client' = [x \in Actors |-> IF x \in Waiting(c) THEN NoClient ELSE client[x]]

LogoutEnds(x) ==
  /\ at[x] = "logout"
  /\ Closed(client[x]) /\ Resumed(client[x])
  /\ UNCHANGED <<serializerVars, row, kind, copy, connecting, timer, refusals>>

\* Bug: the operation does not wait for the one it is chained to.
StartOpAtOnce(o) ==
  /\ phase[o] = "queued"
  /\ phase' = [phase EXCEPT ![o] = "running"]
  /\ Disconnect(o, IF kind[o] = "disconnect" THEN "end" ELSE "select")
  /\ UNCHANGED <<tails, prev, keyOf, order, row, kind, copy, connecting, net, refusals>>

StartOp(o) ==
  /\ Start(o)
  /\ Disconnect(o, IF kind[o] = "disconnect" THEN "end" ELSE "select")
  /\ UNCHANGED <<row, kind, copy, connecting, net, refusals>>

Select(o) ==
  /\ at[o] = "select"
  /\ Proceeds(o, IF row.enabled THEN "lock" ELSE "end")
  /\ UNCHANGED <<serializerVars, row, kind, after, copy, client, connecting, net, timer, refusals>>

EndOp(o) ==
  /\ at[o] = "end"
  /\ Settle(o)
  /\ Proceeds(o, "idle")
  /\ UNCHANGED <<row, kind, after, copy, client, connecting, net, timer, refusals>>

Cleanup(o) == Clear(o) /\ UNCHANGED managerVars

\* Bug: nobody looks whether the account is being connected.
LockAnyway(x) ==
  /\ at[x] = "lock"
  /\ connecting' = x /\ Proceeds(x, "read")
  /\ UNCHANGED <<serializerVars, row, kind, after, copy, client, net, timer, refusals>>

\* connectAccount: whoever comes second returns, with nothing done.
Lock(x) ==
  /\ at[x] = "lock"
  /\ IF connecting = NoOne THEN connecting' = x /\ Proceeds(x, "read")
     ELSE Proceeds(x, Back(x)) /\ UNCHANGED connecting
  /\ UNCHANGED <<serializerVars, row, kind, after, copy, client, net, timer, refusals>>

Unlock(x) == connecting' = NoOne /\ Return(x)

\* readCurrentImapAccount.
ReadRow(x) ==
  /\ at[x] = "read"
  /\ IF row.enabled
     THEN copy' = [copy EXCEPT ![x] = row] /\ Proceeds(x, "off") /\ UNCHANGED <<client, connecting>>
     ELSE Unlock(x)
  /\ UNCHANGED <<serializerVars, row, kind, after, net, timer, refusals>>

SwitchOff(x) ==
  /\ at[x] = "off"
  /\ Disconnect(x, "handshake")
  /\ UNCHANGED <<serializerVars, row, kind, copy, connecting, net, refusals>>

InUse == {c.id : c \in (open \cup {client[x] : x \in Actors}) \ {NoClient}}
FreeIds == (1..LastClient) \ InUse

Install(new) ==
  /\ open' = open \cup {new}
  /\ connection' = new

\* connectAccount puts the client it has opened in the map, and Rehandshake likewise.
Opened(x) == [id |-> CHOOSE i \in FreeIds : TRUE,
              settings |-> copy[x].settings, host |-> copy[x].host]

Handshake(x) ==
  /\ at[x] = "handshake" /\ FreeIds # {}
  /\ Install(Opened(x))
  /\ client' = [client EXCEPT ![x] = Opened(x)]
  /\ Proceeds(x, "sync")
  /\ UNCHANGED <<serializerVars, row, kind, after, copy, connecting, timer, refusals>>

\* Bug: a handshake that fails keeps the place in connectingAccounts.
HandshakeFailsLocked(x) ==
  /\ at[x] \in {"handshake", "rehandshake"}
  /\ Refusal
  /\ Return(x)
  /\ UNCHANGED <<serializerVars, row, kind, after, connecting, net, timer>>

HandshakeFails(x) ==
  /\ at[x] \in {"handshake", "rehandshake"}
  /\ Refusal
  /\ Unlock(x)
  /\ UNCHANGED <<serializerVars, row, kind, after, net, timer>>

\* assertCurrentImapAccount compares the host and not the other settings.
StillCurrent(x) == row.enabled /\ row.host = copy[x].host

Confirm(x) ==
  /\ at[x] = "sync" /\ StillCurrent(x)
  /\ Proceeds(x, "arm")
  /\ UNCHANGED <<serializerVars, row, kind, after, copy, client, connecting, net, timer, refusals>>

Withdrawn(x) ==
  /\ at[x] = "sync" /\ ~StillCurrent(x)
  /\ Closed(client[x])
  /\ connecting' = NoOne
  /\ copy' = [copy EXCEPT ![x] = NoClient]
  /\ LET done == Waiting(client[x]) \cup {x}
     IN /\ at' = [y \in Actors |-> IF y = x THEN Back(x)
                                   ELSE IF y \in done THEN after[y] ELSE at[y]]
        /\ client' = [y \in Actors |-> IF y \in done THEN NoClient ELSE client[y]]
  /\ UNCHANGED <<serializerVars, row, kind, timer, refusals>>

Arm(x) ==
  /\ at[x] = "arm"
  /\ timer' = TRUE
  /\ Unlock(x)
  /\ UNCHANGED <<serializerVars, row, kind, after, net, refusals>>

-----------------------------------------------------------------------------
(* Runs outside the queue.                                                 *)

HealthCheck(x) ==
  /\ at[x] = "idle"
  /\ connection = NoClient /\ connecting = NoOne /\ row.enabled
  /\ Proceeds(x, "lock")
  /\ UNCHANGED <<serializerVars, row, kind, after, copy, client, connecting, net, timer, refusals>>

ReconnectRoute(x) ==
  /\ at[x] = "idle" /\ row.enabled
  /\ Refusal
  /\ Proceeds(x, "lock")
  /\ UNCHANGED <<serializerVars, row, kind, after, copy, client, connecting, net, timer>>

\* A sync tick, and the staleness check of what is connected, read the row; by the time they
\* disconnect the account it may be enabled again.
DisabledIsFound(x) ==
  /\ at[x] = "idle"
  /\ timer \/ (connection # NoClient /\ connecting = NoOne)
  /\ ~row.enabled
  /\ Proceeds(x, "leave")
  /\ UNCHANGED <<serializerVars, row, kind, after, copy, client, connecting, net, timer, refusals>>

DisconnectDisabled(x) ==
  /\ at[x] = "leave"
  /\ Disconnect(x, "idle")
  /\ UNCHANGED <<serializerVars, row, kind, copy, connecting, net, refusals>>

\* A tick that finds no client reconnects under the same lock; it does not look again.
Tick(x) ==
  /\ at[x] = "idle"
  /\ timer /\ row.enabled /\ connection = NoClient /\ connecting = NoOne
  /\ connecting' = x /\ Proceeds(x, "setup")
  /\ UNCHANGED <<serializerVars, row, kind, after, copy, client, net, timer, refusals>>

Setup(x) ==
  /\ at[x] = "setup"
  /\ IF row.enabled
     THEN /\ copy' = [copy EXCEPT ![x] = row] /\ Proceeds(x, "rehandshake")
          /\ UNCHANGED <<client, connecting>>
     ELSE Unlock(x)
  /\ UNCHANGED <<serializerVars, row, kind, after, net, timer, refusals>>

Rehandshake(x) ==
  /\ at[x] = "rehandshake" /\ FreeIds # {}
  /\ Install(Opened(x))
  /\ client' = [client EXCEPT ![x] = Opened(x)]
  /\ Proceeds(x, "clear")
  /\ UNCHANGED <<serializerVars, row, kind, after, copy, connecting, timer, refusals>>

\* The account's recorded error is removed before its place is given back.
ClearError(x) ==
  /\ at[x] = "clear"
  /\ Unlock(x)
  /\ UNCHANGED <<serializerVars, row, kind, after, net, timer, refusals>>

ServerCloses(c) ==
  /\ c \in open
  /\ Refusal
  /\ Closed(c) /\ Resumed(c)
  /\ UNCHANGED <<serializerVars, row, kind, copy, connecting, timer>>

-----------------------------------------------------------------------------
ConnectStep(x) == \/ LogoutEnds(x) \/ Lock(x) \/ ReadRow(x) \/ SwitchOff(x) \/ Handshake(x)
              \/ Confirm(x) \/ Withdrawn(x) \/ Arm(x) \/ Setup(x) \/ Rehandshake(x)
              \/ ClearError(x) \/ DisconnectDisabled(x)

OpStep(o) == Queue(o) \/ StartOp(o) \/ Select(o) \/ EndOp(o) \/ Cleanup(o)

CheckStep(x) == HealthCheck(x) \/ DisabledIsFound(x) \/ Tick(x)

ConnectionNext ==
  \/ \E o \in Ops : Commit(o) \/ OpStep(o)
  \/ \E x \in Actors : ConnectStep(x) \/ HandshakeFails(x)
  \/ \E x \in Others : CheckStep(x) \/ ReconnectRoute(x)
  \/ \E c \in open : ServerCloses(c)

ConnectionSpec == ConnectionInit /\ [][ConnectionNext]_connectionVars

\* An await ends, and the timers of the manager run as long as the process does.
ConnectionFairness ==
  /\ \A o \in Ops : WF_connectionVars(OpStep(o))
  /\ \A x \in Actors : WF_connectionVars(ConnectStep(x))
  /\ \A x \in Others : WF_connectionVars(CheckStep(x))

-----------------------------------------------------------------------------
(* Properties.                                                             *)

\* No client is "permanently orphaned": whatever is open is in the map, or somebody logs it out.
NoOrphans == \A c \in open : c = connection \/ \E x \in Actors : at[x] = "logout" /\ client[x] = c

Carried(o) == kind[o] \in {"none", "nothing"} \/ phase[o] = "cleared"

Idle == /\ \A o \in Ops : Carried(o)
        /\ \A x \in Actors : at[x] = "idle"

\* "Sync live IMAP state after DB update": when every update has been carried out and nobody is
\* at work, the connection is one that was opened with the settings of the row.
LiveStateIsSynced == Idle /\ connection # NoClient => connection.settings = row.settings

\* An account that is enabled ends up connected, and one that is disabled does not.
FollowsRow == <>[](row.enabled <=> connection # NoClient)

\* Every update that was committed is carried out.
UpdatesEnd == \A o \in Ops : []<>Carried(o)

\* Nothing the connection does disturbs the order the serializer keeps.
UsesSerializer == SerializerInit /\ [][SerializerNext]_serializerVars
=============================================================================

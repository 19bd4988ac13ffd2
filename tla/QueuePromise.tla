---------------------------- MODULE QueuePromise ----------------------------
(***************************************************************************)
(* What the scheduled-mail queue promises its user, without leases,        *)
(* workers, revisions or failures.  An item is the user's own, or out for  *)
(* delivery, or closed, or waived (the user gave up on a lost answer).     *)
(***************************************************************************)
CONSTANTS Items, Recipients

VARIABLES
  phase,  \* phase[i]: "mine", "out", "closed" or "waived"
  shown,  \* shown[i]: the recipients the user sees in the item
  owed    \* owed[i]: the recipients still to be reached

promise == <<phase, shown, owed>>

Init == /\ phase = [i \in Items |-> "mine"]
        /\ shown = [i \in Items |-> {}]
        /\ owed = [i \in Items |-> {}]

\* The user writes or rewrites the message.
Ask(i, m) ==
  /\ phase[i] = "mine"
  /\ shown' = [shown EXCEPT ![i] = m]
  /\ owed' = [owed EXCEPT ![i] = m]
  /\ UNCHANGED phase

\* The user takes it back: nothing will leave any more.
Withdraw(i) ==
  /\ phase[i] = "mine"
  /\ phase' = [phase EXCEPT ![i] = "closed"]
  /\ shown' = [shown EXCEPT ![i] = {}]
  /\ owed' = [owed EXCEPT ![i] = {}]

HandOver(i) ==
  /\ phase[i] = "mine" /\ owed[i] # {}
  /\ phase' = [phase EXCEPT ![i] = "out"]
  /\ UNCHANGED <<shown, owed>>

\* Delivery reaches only people who are still owed the message.
Deliver(i, A) ==
  /\ phase[i] \in {"out", "waived"}
  /\ A \subseteq owed[i]
  /\ owed' = [owed EXCEPT ![i] = @ \ A]
  /\ UNCHANGED <<phase, shown>>

\* The item returns to the user showing exactly the people not reached.
GiveBack(i) ==
  /\ phase[i] = "out"
  /\ phase' = [phase EXCEPT ![i] = "mine"]
  /\ shown' = [shown EXCEPT ![i] = owed[i]]
  /\ UNCHANGED owed

\* Reported as sent only when everybody was reached.
Close(i) ==
  /\ phase[i] = "out" /\ owed[i] = {}
  /\ phase' = [phase EXCEPT ![i] = "closed"]
  /\ shown' = [shown EXCEPT ![i] = {}]
  /\ UNCHANGED owed

\* The user waives an item whose outcome is unknown; a late delivery may still happen.
Waive(i) ==
  /\ phase[i] = "out"
  /\ phase' = [phase EXCEPT ![i] = "waived"]
  /\ shown' = [shown EXCEPT ![i] = {}]
  /\ UNCHANGED owed

\* A mail merge writes several new items at once.
AskAll(batch, to) ==
  /\ \A i \in batch : phase[i] = "mine"
  /\ shown' = [i \in Items |-> IF i \in batch THEN {to[i]} ELSE shown[i]]
  /\ owed' = [i \in Items |-> IF i \in batch THEN {to[i]} ELSE owed[i]]
  /\ UNCHANGED phase

Next ==
  \/ \E i \in Items :
       \/ \E m \in SUBSET Recipients : Ask(i, m) \/ Deliver(i, m)
       \/ Withdraw(i) \/ HandOver(i) \/ GiveBack(i) \/ Close(i) \/ Waive(i)
  \/ \E batch \in SUBSET Items : \E to \in [batch -> Recipients] : AskAll(batch, to)

Spec == Init /\ [][Next]_promise
=============================================================================

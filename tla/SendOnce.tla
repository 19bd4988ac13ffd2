------------------------------ MODULE SendOnce ------------------------------
(***************************************************************************)
(* What executeSend promises the holder of an idempotency key, without     *)
(* ledger, reservation, crash or retry: a key delivers at most once, and   *)
(* every success answer describes that delivery.                           *)
(***************************************************************************)
CONSTANTS Keys, Recipients

VARIABLES
  sent,   \* sent[k]: the recipients who were given the message of key k
  told    \* told[k]: the success answers given, <<message, rejected recipients>>

promise == <<sent, told>>

Init == /\ sent = [k \in Keys |-> {}]
        /\ told = [k \in Keys |-> {}]

\* One delivery, before anybody was told of one.
Deliver(k, A) ==
  /\ sent[k] = {} /\ told[k] = {}
  /\ sent' = [sent EXCEPT ![k] = A]
  /\ UNCHANGED told

\* A report that makes sense for message m says exactly who got it.
Answer(k, m, R) ==
  /\ R \subseteq m => sent[k] = m \ R
  /\ told' = [told EXCEPT ![k] = @ \cup {<<m, R>>}]
  /\ UNCHANGED sent

Next ==
  \E k \in Keys : \E A, R \in SUBSET Recipients :
    Deliver(k, A) \/ Answer(k, A, R)

Spec == Init /\ [][Next]_promise
=============================================================================

-------------------------- MODULE ProviderPromise --------------------------
(***************************************************************************)
(* What the journal of provider writes promises the holder of a key: who   *)
(* has had it applied, and what the holder has been told.                  *)
(***************************************************************************)
CONSTANTS
  Keys,
  Once,        \* keys whose write must not happen twice
  Requests,    \* everything that may carry a write to the provider
  Before       \* the request of a version that kept no proof of its outcome

VARIABLES
  applied,     \* applied[k]: the requests for k the provider has applied
  told         \* told[k]: the definite answers given for k

promiseVars == <<applied, told>>

Init == /\ applied \in [Keys -> SUBSET {Before}]
        /\ told = [k \in Keys |-> {}]

\* A write that must not happen twice is applied first and never after a failure was told.
Apply(k, r) ==
  /\ k \in Once => applied[k] = {} /\ "failed" \notin told[k]
  /\ applied' = [applied EXCEPT ![k] = @ \cup {r}]
  /\ UNCHANGED told

Tell(k, answer) ==
  /\ answer = "confirmed" => applied[k] # {}
  /\ answer = "failed" /\ k \in Once => applied[k] = {}
  /\ told' = [told EXCEPT ![k] = @ \cup {answer}]
  /\ UNCHANGED applied

Next == \E k \in Keys :
          \/ \E r \in Requests : Apply(k, r)
          \/ \E answer \in {"confirmed", "failed"} : Tell(k, answer)

Spec == Init /\ [][Next]_promiseVars
=============================================================================

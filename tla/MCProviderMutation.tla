------------------------ MODULE MCProviderMutation ------------------------
(* Small instances of ProviderMutation for TLC. *)
EXTENDS ProviderMutation, TLC

Symmetry == Permutations(Calls) \cup Permutations(Hashes)

\* Bound: one operation is in use in a behaviour, whichever it is; keys share nothing.
OneOperation == \A j, k \in Keys : op[j] # Absent /\ op[k] # Absent => j = k

OneKeyInit == Init /\ OneOperation

OneKeySpec == OneKeyInit /\ [][Next /\ OneOperation']_journalVars
=============================================================================

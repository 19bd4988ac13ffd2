---------------------------- MODULE MCSeriesSplit ----------------------------
(* Small instances of SeriesSplit for TLC. *)
EXTENDS SeriesSplit, TLC

Symmetry == Permutations(Calls)

\* Bound: one operation is in use in a behaviour, whichever it is; keys share nothing.
OneOperation == \A j, k \in Keys : op[j] # Absent /\ op[k] # Absent => j = k

OneSplitInit == SplitInit /\ OneOperation

OneSplitSpec == OneSplitInit /\ [][SplitNext /\ OneOperation']_splitVars
=============================================================================

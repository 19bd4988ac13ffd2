-------------------------- MODULE MCScheduledMail --------------------------
(* Small instances of ScheduledMail for TLC. *)
EXTENDS ScheduledMail, TLC

MCKeys == Items \X Revisions
Symmetry == Permutations(Attempts) \cup Permutations(Recipients)

\* Bound: a behaviour has two claims of one item, one claim among the two others, or more items
\* that nobody has claimed yet.
InUse == {i \in Items : row[i] # NoRow}
Started == {a \in Attempts : run[a] # "none"}
FirstItem == CHOOSE i \in Items : TRUE
Narrow == \/ InUse \subseteq {FirstItem}
          \/ InUse \subseteq Items \ {FirstItem} /\ Cardinality(Started) <= 1
          \/ Started = {}

NarrowSpec == Init /\ [][Next /\ Narrow']_vars
=============================================================================

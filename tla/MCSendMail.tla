---------------------------- MODULE MCSendMail ----------------------------
(* Small instances of SendMail for TLC. *)
EXTENDS SendMail, TLC

Symmetry == Permutations(Attempts) \cup Permutations(Recipients)
=============================================================================

---------------------------- MODULE MCCallAdmission ----------------------------
(* Instances of CallAdmission for TLC. *)
EXTENDS CallAdmission, TLC

Interchangeable == Permutations(Calls) \cup Permutations(Keys)
=============================================================================

------------------------- MODULE MCExecutorAdmission -------------------------
(* The instance of ExecutorAdmission for TLC: three requests over one slot. *)
EXTENDS ExecutorAdmission
=============================================================================

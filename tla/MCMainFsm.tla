------------------------------ MODULE MCMainFsm ------------------------------
(* Instances of MainFsm for TLC. *)
EXTENDS MainFsm

==============================================================================

----------------------------- MODULE MCButtons -----------------------------
(* The keys are numbers and are given in the cfg files. *)
EXTENDS Buttons
=============================================================================

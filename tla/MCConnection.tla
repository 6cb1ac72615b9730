------------------------------ MODULE MCConnection ------------------------------
(* The instance of Connection that is checked: one job next to the validator, which *)
(* may be retried once, and a second refresh that overtakes the first.              *)
EXTENDS Connection
=============================================================================

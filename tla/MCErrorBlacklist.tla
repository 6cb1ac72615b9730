---------------------------- MODULE MCErrorBlacklist ----------------------------
(* The instance of ErrorBlacklist that is checked: one path and two etags.  Times are *)
(* small numbers with MinTime < Hour < MaxTime, as 25 s, an hour and a day.           *)
EXTENDS ErrorBlacklist
=============================================================================

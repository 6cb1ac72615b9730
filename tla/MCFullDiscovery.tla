--------------------------- MODULE MCFullDiscovery ---------------------------
(***************************************************************************)
(* Module LocalDiscovery with a history variable: a full discovery has     *)
(* been asked for and no run has been started since.                       *)
(***************************************************************************)
EXTENDS MCLocalDiscovery

VARIABLE requested

RequestInit == Init /\ requested = FALSE
RequestNext ==
    /\ Next
    /\ requested' =
           CASE slotNextSyncFullLocalDiscovery -> TRUE
             [] StartSync \/ Restart -> FALSE
             [] OTHER -> requested
RequestSpec == RequestInit /\ [][RequestNext]_<<vars, requested>>

\* folder.h: "Ensures that the next sync performs a full local discovery."
FullWhenRequested ==
    [][StartSync /\ requested => style' = "FilesystemOnly"]_<<vars, requested>>
=============================================================================

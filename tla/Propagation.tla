---------------------------- MODULE Propagation ----------------------------
(***************************************************************************)
(* What the propagation phase promises to the sync engine, without the     *)
(* tree, the event loop or the limits: every item is worked on at most     *)
(* once, the late ones (the directory deletions) only after the early ones *)
(* went well, and success is announced only if nothing failed and nothing  *)
(* is still being worked on.                                               *)
(***************************************************************************)
CONSTANTS Early, Late

VARIABLES
    phase,      \* what became of each item
    result      \* what was announced

vars == <<phase, result>>

Phases == {"waiting", "running", "good", "bad"}

TypeOK ==
    /\ phase \in [Early \cup Late -> Phases]
    /\ result \in {"no", "success", "failure"}

Init ==
    /\ phase = [i \in Early \cup Late |-> "waiting"]
    /\ result = "no"

Settled(S) == \A i \in S : phase[i] \in {"waiting", "good"}

Begin(i) ==
    /\ phase[i] = "waiting"
    /\ result # "success"
    /\ i \in Late => Settled(Early)
    /\ phase' = [phase EXCEPT ![i] = "running"]
    /\ UNCHANGED result

End(i) ==
    /\ phase[i] = "running"
    /\ \E p \in {"good", "bad"} : phase' = [phase EXCEPT ![i] = p]
    /\ UNCHANGED result

\* A failure may be announced at any time: propagation can be aborted.
Announce(r) ==
    /\ result = "no"
    /\ r = "success" => Settled(Early \cup Late)
    /\ result' = r
    /\ UNCHANGED phase

Next ==
    \/ \E i \in Early \cup Late : Begin(i) \/ End(i)
    \/ \E r \in {"success", "failure"} : Announce(r)

Spec == Init /\ [][Next]_vars
=============================================================================

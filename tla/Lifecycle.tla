----------------------------- MODULE Lifecycle ------------------------------
(***************************************************************************)
(* What `gpgfs mount` promises to those who use its mountpoint, without    *)
(* goroutines or channels.  A process starts, mounts, serves, is asked to  *)
(* stop and ends.  It ends cleanly only after it tried to release the      *)
(* mount; it may end abruptly at any time, and then a live mount goes      *)
(* stale; and once asked to stop it does end.                              *)
(***************************************************************************)

VARIABLES
    phase,     \* "starting", "serving", "stopping", "clean" or "abrupt"
    mount,     \* "none", "live" or "stale"
    released   \* has the process tried to release the mount

lvars == <<phase, mount, released>>

ended == phase \in {"clean", "abrupt"}

(* The kernel's part in the end of a process.                              *)
Aborted == IF mount = "live" THEN "stale" ELSE mount

Init ==
    /\ phase = "starting"
    /\ mount \in {"none", "stale"}
    /\ released = FALSE

Mount ==
    /\ phase = "starting" /\ mount = "none"
    /\ mount' = "live"
    /\ UNCHANGED <<phase, released>>

(* A process whose mountpoint is stale does not get to serve.              *)
Serve ==
    /\ phase = "starting" /\ mount # "stale"
    /\ phase' = "serving"
    /\ UNCHANGED <<mount, released>>

Stop ==
    /\ phase = "serving"
    /\ phase' = "stopping"
    /\ UNCHANGED <<mount, released>>

Release ==
    /\ phase = "stopping" /\ ~released
    /\ released' = TRUE
    /\ mount' \in {"none", mount}
    /\ UNCHANGED phase

(* Somebody else unmounts it.                                              *)
TakenAway ==
    /\ ~ended /\ mount = "live"
    /\ mount' = "none"
    /\ UNCHANGED <<phase, released>>

EndClean ==
    /\ phase = "stopping" /\ released
    /\ phase' = "clean" /\ mount' = Aborted
    /\ UNCHANGED released

EndAbrupt ==
    /\ ~ended
    /\ phase' = "abrupt" /\ mount' = Aborted
    /\ UNCHANGED released

Next == Mount \/ Serve \/ Stop \/ Release \/ TakenAway \/ EndClean \/ EndAbrupt

StopEnds == phase = "stopping" /\ (EndClean \/ EndAbrupt)

SafeSpec == Init /\ [][Next]_lvars

Spec == SafeSpec /\ WF_lvars(StopEnds)
=============================================================================

------------------------------ MODULE Service -------------------------------
(***************************************************************************)
(* The daemon under the systemd unit of nix/service.nix: Type = "notify",  *)
(* Restart = "on-failure", with no limit that a 30 s delay between starts  *)
(* would ever reach.  A new process inherits nothing but the mountpoint.   *)
(***************************************************************************)
EXTENDS Daemon

(* systemd's verdict on a process that ended.  The exit codes of os.Exit   *)
(* and of a panic, and SIGQUIT, which the Go runtime turns into code 2,    *)
(* are failures; a clean end is one too when READY was never announced.    *)
Failed ==
    /\ ~alive
    /\ exit \in {"fatal", "grace", "panic", "QUIT"} \/ ~ready

(* A new process, with the options of the unit.                            *)
FreshProcess ==
    /\ pc' = "before" /\ exit' = "none"
    /\ cfg' = FALSE /\ ctx' = "none" /\ prof' = {}
    /\ tsrv' = "off" /\ tfin' = "off" /\ um' = "off" /\ running' = 0
    /\ done' = FALSE /\ errc' = FALSE /\ sig' = "none"
    /\ bus' = 0 /\ senders' = 0
    /\ tree' = "empty" /\ ready' = FALSE
    /\ UNCHANGED <<opts, mount, env>>

(* Variant: Restart = "on-abnormal", which exit codes do not trigger.      *)
RestartOnAbnormal ==
    Failed /\ exit \notin {"fatal", "grace", "panic", "QUIT"} /\ FreshProcess

Restart == Failed /\ FreshProcess

ServiceNext == Next \/ Restart

ServiceInit == Init /\ mount = "none"

ServiceSpec ==
    /\ ServiceInit
    /\ [][ServiceNext]_vars
    /\ Fairness /\ WF_vars(Restart)

-----------------------------------------------------------------------------
stopped == ~alive /\ ~Failed

(* Restart = "on-failure" brings a failed service back.  It does not when  *)
(* the failed process had a live mount: the next process, and all after    *)
(* it, fail in the stat of the target.                                     *)
RestartRecovers == Failed ~> (pc = "loop" \/ stopped)

(* What Restart does recover from: any failure that leaves no stale mount  *)
(* behind, however the next attempts fail.                                 *)
RestartRecoversFreeMount ==
    (Failed /\ mount = "none") ~> (pc = "loop" \/ stopped \/ mount = "stale")
=============================================================================

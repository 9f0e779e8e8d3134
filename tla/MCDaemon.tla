------------------------------ MODULE MCDaemon ------------------------------
(* Instances of Daemon for TLC.                                            *)
EXTENDS Daemon

Opt(t, d, w, p) == [telemetry |-> t, duration |-> d, watch |-> w, prof |-> p]

(* The service as it is deployed: no --duration, no profilers.             *)
ServiceOptions == {Opt(t, FALSE, w, {}) : t \in BOOLEAN, w \in BOOLEAN}

(* Debugging runs.                                                         *)
DebugOptions ==
    {Opt(t, d, FALSE, p) : t \in BOOLEAN, d \in BOOLEAN, p \in SUBSET Profilers}

AllOptions == ServiceOptions \cup DebugOptions

DurationOptions == {Opt(FALSE, TRUE, FALSE, {})}
=============================================================================

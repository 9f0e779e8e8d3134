----------------------------- MODULE MCService ------------------------------
(* Instances of Service for TLC.                                           *)
EXTENDS Service

(* The options the unit can be given: telemetry on or off, no watchers.    *)
UnitOptions ==
    {[telemetry |-> t, duration |-> FALSE, watch |-> FALSE, prof |-> {}] : t \in BOOLEAN}
=============================================================================

---------------------------- MODULE MCTelemetry -----------------------------
(* Instances of Telemetry for TLC: one kind for each way through the chain.*)
EXTENDS Telemetry, TLC

Kind(code, hasBody, utf8, type) ==
    [route |-> code, body |-> hasBody, label |-> utf8, client |-> type]

TestKinds ==
    {Kind(0, FALSE, TRUE, "prompt"), Kind(0, FALSE, TRUE, "slow to read"),
     Kind(404, FALSE, TRUE, "prompt"), Kind(405, FALSE, TRUE, "prompt"),
     Kind(0, TRUE, TRUE, "prompt"), Kind(404, FALSE, FALSE, "prompt"),
     Kind(0, FALSE, TRUE, "slow to send")}

DefaultLevel == {"info", "error"}
=============================================================================

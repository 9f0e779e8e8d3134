------------------------------ MODULE MCShared ------------------------------
(* Instances of Shared for TLC.  The moments 1 and 2 are each inside one   *)
(* window and on the edge of the other.  The container has the first key   *)
(* and the first window: some calls that would change nothing are left out.*)
EXTENDS Shared, TLC

TestTimes == 0..3
TestWindows == {<<0, 2>>, <<1, 3>>}
FirstKey == CHOOSE k \in Keys: TRUE
TestPayload == [k \in {FirstKey} |-> CHOOSE v \in Values: TRUE]
TestCalls ==
    {c \in AllCalls:
        /\ c.op = "validate" => c.now \in {1, 2}
        /\ c.op \in {"del", "get"} => c.key = FirstKey
        /\ c.op = "set" => c.key # FirstKey}
TestGivens ==
    {[version |-> Version, window |-> <<0, 2>>, payload |-> TestPayload],
     [version |-> Version + 1, window |-> <<1, 3>>, payload |-> TestPayload]}

(* The arguments of NewSemaphore: the last two make it block.              *)
TestArguments == {<<0, 0>>, <<1, 1>>, <<-1, 1>>, <<2, 1>>}
=============================================================================

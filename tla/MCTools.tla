------------------------------- MODULE MCTools ------------------------------
(* Instances of Tools for TLC: an RSA key, an ed25519 key, a key of another*)
(* kind; one file for each use, keys that somebody has encrypted, two      *)
(* documents of configuration, and one name that does not exist yet.       *)
EXTENDS Tools, TLC

KeyKinds == ("r" :> "rsa" @@ "e" :> "ed25519")

Text(t) == [text |-> t]
Note == <<Text("note")>>
Input == <<Text("stdin")>>
Secrets == {<<Pem("e"), Pem("r")>>}

(* Two of the fields: a path that is required, a level with a default.     *)
ConfigFields == {"path", "level"}
ConfigFallback == ("path" :> "zero" @@ "level" :> "info")
ConfigEnviron == [f \in {} |-> f]
Full == <<Doc("path" :> "p1" @@ "level" :> "zero")>>
Partial == <<Doc("level" :> "trace")>>
NoPath == <<Doc("path" :> "zero")>>
TestEdits == {NoPath, << >>}

Disk(id, ids) ==
    ("id" :> id @@ "ids" :> ids @@ "msg" :> Note @@ "c1" :> Full @@ "c2" :> Partial
     @@ "old" :> <<Enc("r", CHOOSE secret \in Secrets: TRUE)>>)

TestDisks ==
    {Disk(<<Pem(k)>>, ids) :
        k \in {"r", "e", "x"},
        ids \in {<<Text("comment"), Pem("r"), Pem("e")>>, <<Pem("e"), Pem("x"), Pem("r")>>,
                 <<Pem("r"), Pem("e"), Pem("r")>>}}

Names == {"id", "ids", "msg", "new"}

TestCommands ==
    [tool: {"convert"}, type: {"private", "secret"}, key: {Std}, in: Names, out: Names \cup {Std}]
    \cup
    [tool: {"encrypt", "decrypt"}, type: {"private"}, key: {"id", "ids", "new"},
     in: {"id", "msg", "old", "new", Std}, out: Names]
    \cup
    [tool: {"show-default", "show"}, configs: {<<"c1", "c2">>}, outs: {<< >>}]
    \cup
    [tool: {"validate"}, configs: {<<"c1", "c2">>, <<"c2">>, <<"c1", "msg">>}, outs: {<< >>}]
    \cup
    [tool: {"push"}, configs: {<<"c1">>, <<"c1", "c2">>}, outs: {<< >>, <<"c1", "new">>, <<"msg">>}]
=============================================================================

----------------------------- MODULE MCPreload ------------------------------
(* Instances of Preload for TLC.  The strings are, in byte order,          *)
(*     0 ""   1 "."   2 ".."   3 "...gpg"   4 "..gpg"   5 ".gpg"           *)
(*     6 "a"   7 "a.gpg"   8 "b"   9 "b.gpg".                              *)
EXTENDS Preload

GpgStem == (3 :> 2) @@ (4 :> 1) @@ (5 :> 0) @@ (7 :> 6) @@ (9 :> 8)

File(d, a) == [kind |-> "regular", data |-> d, attr |-> a]
Missing == [File("unreadable", "absent") EXCEPT !.kind = "missing"]

(* All trees over the given paths, an entry or Missing at each.            *)
TreesOver(choices) ==
    LET paths == DOMAIN choices
        Picks == {f \in [paths -> UNION {choices[p] : p \in paths}] :
                    \A p \in paths: f[p] \in choices[p]}
        Tree(f) == [p \in {q \in paths: f[q] # Missing} |-> f[p]]
    IN  {t \in {Tree(f) : f \in Picks} : IsTree(t)}

Good == File("secret", "absent")
Bad == File("undecryptable", "absent")

(* Files beside directories of the same name, one and two levels deep.     *)
PlainTrees ==
    TreesOver(
        [p \in {<<6>>, <<7>>, <<6, 6>>, <<6, 7>>, <<6, 6, 9>>, <<9>>} |->
           CASE p = <<6>>    -> {Directory, Missing}
             [] p = <<6, 6>> -> {Directory, Missing}
             [] p = <<9>>    -> {Missing, File("secret", "malformed"), File("secret", "owner")}
             [] OTHER        -> {Missing, Good, Bad, File("secret", "fuseattr"),
                                 File("secret", "badowner")}])
    \cup
    TreesOver(
        [p \in {<<7>>, <<8>>, <<9>>} |->
           IF p = <<8>>
             THEN {Directory, Good, [Directory EXCEPT !.kind = "walkerror"]}
             ELSE {File(d, "absent") : d \in Contents}
                  \cup {File("secret", a) : a \in Attrs}
                  \cup {[Good EXCEPT !.kind = "irregular"], Missing}])

(* Files named ".gpg", "..gpg" and "...gpg" among others, at three depths. *)
DotFiles ==
    {<<3>>, <<4>>, <<5>>, <<7>>, <<6, 3>>, <<6, 4>>, <<6, 5>>, <<6, 9>>,
     <<6, 6, 3>>, <<6, 6, 4>>, <<6, 6, 5>>, <<6, 6, 9>>}

DotTrees ==
    {[p \in files \cup {<<6>>, <<6, 6>>} |-> IF p \in files THEN Good ELSE Directory] :
        files \in SUBSET DotFiles}

AllTrees == PlainTrees \cup DotTrees

(* a.gpg beside a/b.gpg.                                                   *)
BesideTrees == {(<<6>> :> Directory) @@ (<<6, 9>> :> Good) @@ (<<7>> :> Good)}
=============================================================================

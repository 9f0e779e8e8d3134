------------------------------- MODULE MCFile -------------------------------
(* Instances of File for TLC.                                              *)
EXTENDS File, TLC

CONSTANTS f1, f2

Sizes == (f1 :> 2 @@ f2 :> 0)
SizeOne == (f1 :> 2)
SizeEmpty == (f1 :> 0)

Host(trims, limit) == [trims |-> trims, lockLimit |-> limit]

(* A recent kernel with just enough memory, and an old one with too little.*)
BothHosts == {Host(TRUE, 6), Host(FALSE, 4)}
OldHost == {Host(FALSE, 4)}
RecentHost == {Host(TRUE, 6)}
=============================================================================

------------------------------ MODULE MCSwitch ------------------------------
(* Finite instances of Switch for TLC.                                     *)
EXTENDS SwitchInvariant, TLC

CONSTANTS t1, t2, r1, r2, alice, bob, ghost, p1, p2, h1, h2

OneTransfer == {t1}
TwoTransfers == {t1, t2}

(* One reference used twice.                                               *)
SharedRef == (t1 :> r1) @@ (t2 :> r1)
OneRefOf == t1 :> r1

FromAlice == t1 :> alice
ToBob == t1 :> bob

(* The second transfer names a source the ledger does not know.            *)
SecondFromGhost == (t1 :> alice) @@ (t2 :> ghost)
BothToBob == (t1 :> bob) @@ (t2 :> bob)

Symmetry == Permutations({p1, p2})
=============================================================================

------------------------------ MODULE MCExport ------------------------------
(* A finite instance of Export for TLC.                                    *)
EXTENDS Export, TLC

CONSTANTS split, large, transfer, alice, carol, bob, dave, fees, settlement, merchant

line(a, d, n) == [account |-> a, debit |-> d, amount |-> n]

(* One leg splits the largest amount over two accounts; one moves more     *)
(* than an amount can say, between two accounts and two others.            *)
TwoLegs ==
    (split :> {line(settlement, TRUE, 2), line(fees, TRUE, 2), line(merchant, FALSE, 4)}) @@
    (large :> {line(alice, TRUE, 3), line(carol, TRUE, 3), line(bob, FALSE, 3), line(dave, FALSE, 3)})

(* Accounts that a leg debits or credits alike.                            *)
Alike ==
    Permutations({settlement, fees}) \cup Permutations({alice, carol}) \cup Permutations({bob, dave})
=============================================================================

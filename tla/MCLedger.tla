------------------------------ MODULE MCLedger ------------------------------
(* Finite instances of Ledger for TLC.                                     *)
EXTENDS Ledger, TLC

CONSTANTS d1, d2, v1, v2, w1, y1, z1, k1, k2, k3, k4,
          alice, bob, fees, settlement

Line(a, d, n) == [account |-> a, dir |-> d, amount |-> n, currency |-> "NGN"]
Move(a, b) == <<Line(a, "debit", 1), Line(b, "credit", 1)>>

(* A debit leg posted twice under one key, two reversals of it under       *)
(* different keys, debits that balance only modulo the word size, mixed    *)
(* currencies, and a payment to bob, whose account is opened later.        *)
KeysOf == (d1 :> k1) @@ (d2 :> k1) @@ (v1 :> k2) @@ (v2 :> k3)
             @@ (w1 :> k4) @@ (y1 :> None) @@ (z1 :> None)
ParentsOf == (d1 :> None) @@ (d2 :> None) @@ (v1 :> d1) @@ (v2 :> d1)
                @@ (w1 :> None) @@ (y1 :> None) @@ (z1 :> None)
LinesOf ==
    (d1 :> Move(alice, settlement)) @@ (d2 :> Move(alice, settlement))
      @@ (v1 :> Move(settlement, alice)) @@ (v2 :> Move(settlement, alice))
      @@ (w1 :> <<Line(alice, "debit", 3), Line(bob, "debit", 3), Line(fees, "debit", 3),
                  Line(alice, "credit", 1)>>)
      @@ (y1 :> <<Line(alice, "debit", 1), [Line(fees, "credit", 1) EXCEPT !.currency = "USD"]>>)
      @@ (z1 :> Move(alice, bob))

(* A leg posted twice; a leg and two reversals of it; a call the service   *)
(* rejects, one that only the database rejects and a payment to bob, which *)
(* deadlock when bob's account is opened.                                  *)
AllStarts ==
    {[calls |-> {d1, d2}, accounts |-> Account],
     [calls |-> {d1, v1, v2}, accounts |-> Account],
     [calls |-> {w1, y1, z1}, accounts |-> Account \ {bob}]}
=============================================================================

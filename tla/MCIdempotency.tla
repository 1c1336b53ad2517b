--------------------------- MODULE MCIdempotency ---------------------------
(* Finite instances of Idempotency for TLC.                                *)
EXTENDS Idempotency, TLC

CONSTANTS a1, a2, a3, b1, x1, k1, k2, body, other, bad

(* The same request sent twice, the key reused for another body, and       *)
(* another key with an invalid body.                                       *)
Mixed == {a1, a2, b1, x1}
MixedKeys == (a1 :> k1) @@ (a2 :> k1) @@ (b1 :> k1) @@ (x1 :> k2)
MixedBodies == (a1 :> body) @@ (a2 :> body) @@ (b1 :> other) @@ (x1 :> bad)

(* The same request sent three times.                                      *)
Same == {a1, a2, a3}
SameKeys == [r \in Same |-> k1]
SameBodies == [r \in Same |-> body]

Anywhere == Step \ {"done", "gone"}
=============================================================================

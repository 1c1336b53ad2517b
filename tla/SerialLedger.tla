---------------------------- MODULE SerialLedger ----------------------------
(***************************************************************************)
(* What the ledger promises: transactions are posted one at a time, each   *)
(* whole, each balanced, each key and each reversal at most once, and the  *)
(* cached balance of an account always counts every entry of the account.  *)
(***************************************************************************)
CONSTANTS
    Post, Account,
    Touched(_),     \* the accounts of a transaction
    Allowed(_, _),  \* may the transaction join this journal?
    Balanced(_)     \* do its debits equal its credits?

VARIABLES
    journal,    \* the transactions posted
    cached      \* for every account, the transactions its cached balance counts

vars == <<journal, cached>>

Init ==
    /\ journal = {}
    /\ cached = [a \in Account |-> {}]

Add(p) ==
    /\ p \notin journal
    /\ journal' = journal \cup {p}
    /\ Allowed(p, journal) /\ Balanced(p)
    /\ cached' = [a \in Account |-> IF a \in Touched(p) THEN cached[a] \cup {p} ELSE cached[a]]

Next == \E p \in Post : Add(p)

Spec == Init /\ [][Next]_vars
=============================================================================

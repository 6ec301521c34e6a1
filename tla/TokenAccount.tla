---------------------------- MODULE TokenAccount ----------------------------
(***************************************************************************)
(* What the token ledger promises a caller: every user has a balance that  *)
(* is never negative, and every change of it is one indivisible movement   *)
(* recorded in the ledger of that user.                                    *)
(***************************************************************************)
EXTENDS Integers

CONSTANT Users

VARIABLES balance,  \* balance[u]: the balance a reader of u's account is told
          ledger    \* ledger[u]: the sum of the amounts of u's ledger rows

Init == /\ balance = [u \in Users |-> 0]
        /\ ledger = [u \in Users |-> 0]

\* One movement: balance and ledger change together, and a movement that would
\* leave less than nothing is refused.
Move(u, delta) ==
    /\ balance[u] + delta >= 0
    /\ balance' = [balance EXCEPT ![u] = @ + delta]
    /\ ledger' = [ledger EXCEPT ![u] = @ + delta]

\* The amount of a movement is what the balance changed by.
Next == \E u \in Users : Move(u, balance'[u] - balance[u])

Spec == Init /\ [][Next]_<<balance, ledger>>
=============================================================================

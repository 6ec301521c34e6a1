----------------------------- MODULE MCAccounts -----------------------------
(***************************************************************************)
(* Model values and symmetry for the TLC run of Accounts.                  *)
(***************************************************************************)
EXTENDS Accounts, TLC

CONSTANTS w1, w2, u1, u2, a, t1, t2, t3, k1

MCWorkers == {w1, w2}
MCUsers == {u1, u2}
MCEmails == {a}
MCTokens == {t1, t2, t3}
MCKeys == {k1}

AllDetails == [type : {"private", "business"}, company : BOOLEAN]

\* Two reset tokens; a key, invoices and two users of one email in turn; or
\* billing details.  They meet in the user's row alone.
MCScenes ==
    {[tokens |-> MCTokens, keys |-> {}, details |-> {}, users |-> {u1}, invoices |-> FALSE],
     [tokens |-> {t1}, keys |-> MCKeys, details |-> {}, users |-> MCUsers, invoices |-> FALSE],
     [tokens |-> {}, keys |-> {}, details |-> AllDetails, users |-> MCUsers, invoices |-> TRUE]}

Symmetry == Permutations(MCWorkers) \cup Permutations({t2, t3})
=============================================================================

--------------------------- MODULE MCTokenLedger ----------------------------
(***************************************************************************)
(* Instances of TokenLedger for TLC.                                       *)
(***************************************************************************)
EXTENDS TokenLedger

CONSTANTS w1, w2, u1, u2, p1

\* One purchase of two tokens by u1.
MCBuyerOf == [p \in {p1} |-> u1]
MCBundleSize == [p \in {p1} |-> 2]

\* Two workers, each with a user of its own ...
ServeOwn == [w \in {w1, w2} |-> IF w = w1 THEN {u1} ELSE {u2}]
\* ... or both with requests of the same user.
ServeSame == [w \in {w1, w2} |-> {u1}]

=============================================================================

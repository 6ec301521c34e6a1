------------------------- MODULE MCOutboundWebhooks -------------------------
(***************************************************************************)
(* Instances of OutboundWebhooks for TLC.                                  *)
(***************************************************************************)
EXTENDS OutboundWebhooks

CONSTANTS s1, s2, r1, e1, e2, d1, d2

\* Two deliveries of one endpoint, or one of each of two.
SameEndpoint == [d \in {d1, d2} |-> e1]
OwnEndpoint == [d \in {d1, d2} |-> IF d = d1 THEN e1 ELSE e2]
=============================================================================

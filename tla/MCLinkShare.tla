----------------------------- MODULE MCLinkShare -----------------------------
(***************************************************************************)
(* Instances of LinkShare for TLC.                                         *)
(***************************************************************************)
EXTENDS LinkShare

CONSTANTS h1, h2, h3, r1, r2, r3, a1, a2, f1, f2, pinA, pinB

\* The first two requests come from one address.
Addresses == [r \in Request |-> IF r \in {r1, r2} THEN a1 ELSE a2]
=============================================================================

--------------------------- MODULE MCSessionService ---------------------------
(* Instances of SessionService for TLC: every token belongs to one user and    *)
(* one organization.                                                          *)
EXTENDS SessionRefinement

CONSTANTS t1, u1, o1, p1, p2

OneOwner == [t \in Tokens |-> u1]
OneOrg == [t \in Tokens |-> o1]
=============================================================================

--------------------------- MODULE MCFirstUserSetup ---------------------------
(* Instances of FirstUserSetup for TLC: p1 and p2 name the same address, p3    *)
(* another one.                                                               *)
EXTENDS FirstUserSetup

CONSTANTS p1, p2, p3, e1, e2

TwoEmails == [p \in Requests |-> IF p \in {p1, p2} THEN e1 ELSE e2]
=============================================================================

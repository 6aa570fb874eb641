---------------------------- MODULE MCInvitations ----------------------------
(* An instance of Invitations for TLC: two requests invite one address and two *)
(* accept.                                                                    *)
EXTENDS Invitations

CONSTANTS c1, c2, a1, a2, e1

OneEmail == [c \in Creates |-> e1]

Person(user, verified, password, member) ==
    [user |-> user, verified |-> verified, password |-> password, member |-> member]

\* Nobody; a user who signs on elsewhere, unverified; one with a password; a
\* disabled user.  Members come from the acceptances.
Kinds ==
    {Person("none", FALSE, None, None),
     Person("active", FALSE, None, None),
     Person("active", TRUE, "initial", None),
     Person("disabled", TRUE, "initial", "initial")}
=============================================================================

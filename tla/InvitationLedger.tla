--------------------------- MODULE InvitationLedger ---------------------------
(***************************************************************************)
(* What invitations promise: one is open from when it is issued until it   *)
(* lapses or is accepted; accepting it gives its address a membership,     *)
(* unless there is one, and the password the acceptance brings.  Nothing   *)
(* here knows about transactions, requests in flight or failures.          *)
(***************************************************************************)
CONSTANTS Creates, Accepts, Emails, EmailOf, Situations, None

VARIABLES invitation, expired, password, member

vars == <<invitation, expired, password, member>>

Init ==
    /\ invitation = [c \in Creates |-> "absent"]
    /\ expired = {}
    /\ \E people \in [Emails -> Situations] :
         /\ password = [e \in Emails |-> people[e].password]
         /\ member = [e \in Emails |-> people[e].member]

Issue(c) ==
    /\ invitation[c] = "absent"
    /\ invitation' = [invitation EXCEPT ![c] = "pending"]
    /\ UNCHANGED <<expired, password, member>>

Lapse(c) ==
    /\ invitation[c] = "pending"
    /\ expired' = expired \cup {c}
    /\ UNCHANGED <<invitation, password, member>>

\* The acceptance that consumes the invitation.
Accept(c, a) ==
    /\ invitation[c] = "pending"
    /\ invitation' = [invitation EXCEPT ![c] = "accepted"]
    /\ password' = [password EXCEPT ![EmailOf[c]] = a]
    /\ member' = IF member[EmailOf[c]] = None
                 THEN [member EXCEPT ![EmailOf[c]] = c] ELSE member
    /\ UNCHANGED expired

\* One that read the invitation while it was open and commits after another:
\* it sets the password again and nothing else.
AcceptLate(c, a) ==
    /\ invitation[c] = "accepted"
    /\ member[EmailOf[c]] # None /\ password[EmailOf[c]] # None
    /\ password' = [password EXCEPT ![EmailOf[c]] = a]
    /\ UNCHANGED <<invitation, expired, member>>

Next ==
    \E c \in Creates :
        Issue(c) \/ Lapse(c) \/ \E a \in Accepts : Accept(c, a) \/ AcceptLate(c, a)

Spec == Init /\ [][Next]_vars
=============================================================================

------------------------------ MODULE MCAccounts ------------------------------
(* Instances of Accounts for TLC: two requests of any kind for one person, and *)
(* what may be stored about the person.                                       *)
EXTENDS Accounts

CONSTANTS r1, r2

Situation(known, verified, member, password, linked, row) ==
    [known |-> known, verified |-> verified, member |-> member, password |-> password,
     linked |-> linked, factor |-> row]

Factor(verified, step, failures, locked) ==
    [row |-> TRUE, verified |-> verified, step |-> step, failures |-> failures, locked |-> locked]

Member(row) == Situation(TRUE, TRUE, TRUE, Before, FALSE, row)

\* A member whose second factor is off, not confirmed, on, one failure from the
\* lock, or locked; one who only signs on; one without a membership and with an
\* unverified address; a stranger.
Everyone ==
    {Member(NoFactor), Member(Factor(FALSE, 0, 0, FALSE)), Member(Factor(TRUE, 1, 0, FALSE)),
     Member(Factor(TRUE, 0, Limit - 1, FALSE)), Member(Factor(TRUE, 0, Limit, TRUE)),
     Situation(TRUE, TRUE, TRUE, None, TRUE, NoFactor),
     Situation(TRUE, FALSE, FALSE, Before, FALSE, NoFactor),
     Situation(FALSE, FALSE, FALSE, None, FALSE, NoFactor)}

Unenrolled == {Member(NoFactor)}
=============================================================================

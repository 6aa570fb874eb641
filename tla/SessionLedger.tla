---------------------------- MODULE SessionLedger -----------------------------
(***************************************************************************)
(* What the session service promises the rest of the backend, with no      *)
(* cache, no requests in flight and no failures: a session is issued once, *)
(* revoked or purged for good, and a token resolves only within the        *)
(* session's lifetime and at most Grace after its revocation.              *)
(***************************************************************************)
EXTENDS Integers

CONSTANTS Tokens, NoToken, Grace

VARIABLES
    clock,
    session,  \* state, last instant of validity and time of revocation of each token
    answer    \* the last resolution: a token and when it was asked for

vars == <<clock, session, answer>>

Never == -1

Unissued == [state |-> "unissued", lastValid |-> 0, revokedAt |-> Never]

Init ==
    /\ clock = 0
    /\ session = [t \in Tokens |-> Unissued]
    /\ answer = [token |-> NoToken, began |-> 0]

Tick == clock' = clock + 1 /\ UNCHANGED <<session, answer>>

Issue(t) ==
    /\ session[t].state = "unissued"
    /\ session'[t].lastValid \in Nat
    /\ session' = [session EXCEPT ![t] = [state     |-> "active",
                                          lastValid |-> session'[t].lastValid,
                                          revokedAt |-> Never]]
    /\ UNCHANGED <<clock, answer>>

Revoke(S) ==
    /\ \A t \in S : session[t].state = "active"
    /\ session' = [t \in Tokens |->
                     IF t \in S
                     THEN [state     |-> "revoked",
                           lastValid |-> session[t].lastValid,
                           revokedAt |-> clock]
                     ELSE session[t]]
    /\ UNCHANGED <<clock, answer>>

\* Only sessions that have ended are purged: revoked ones, and those past their
\* last instant of validity.
Purge(S) ==
    /\ \A t \in S : \/ session[t].state = "revoked"
                    \/ session[t].state = "active" /\ session[t].lastValid < clock
    /\ session' = [t \in Tokens |->
                     IF t \in S THEN [session[t] EXCEPT !.state = "deleted"]
                     ELSE session[t]]
    /\ UNCHANGED <<clock, answer>>

Resolve(t, began) ==
    /\ session[t].state # "unissued"
    /\ began <= session[t].lastValid
    /\ session[t].revokedAt # Never => began < session[t].revokedAt + Grace
    /\ answer' = [token |-> t, began |-> began]
    /\ UNCHANGED <<clock, session>>

Next ==
    \/ Tick
    \/ \E t \in Tokens : Issue(t)
    \/ \E S \in SUBSET Tokens : Revoke(S) \/ Purge(S)
    \/ \E t \in Tokens, began \in 0..clock : Resolve(t, began)

Spec == Init /\ [][Next]_vars
=============================================================================

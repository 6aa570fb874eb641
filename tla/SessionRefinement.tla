-------------------------- MODULE SessionRefinement ---------------------------
(***************************************************************************)
(* SessionService implements SessionLedger.  The ledger's sessions are the *)
(* rows of the table; the cache, the calls in flight and the failures show *)
(* only as the grace period during which a revoked session still resolves. *)
(***************************************************************************)
EXTENDS SessionService

\* A row is valid until the earlier of its two expiries.
LastValid(row) == IF row.idleExpiresAt < row.expiresAt
                  THEN row.idleExpiresAt ELSE row.expiresAt

LedgerSession(t) ==
    IF Issued(t)
    THEN [state     |-> rows[t].status,
          lastValid |-> LastValid(rows[t]),
          revokedAt |-> endedAt[t]]
    ELSE [state |-> "unissued", lastValid |-> 0, revokedAt |-> Never]

Ledger == INSTANCE SessionLedger
    WITH session <- [t \in Tokens |-> LedgerSession(t)],
         Grace   <- MaxLatency + SessionTTLCap

\* The service is indistinguishable from the ledger: every database write,
\* cache call and answer of every request is a step of the ledger or no step.
ImplementsLedger == Ledger!Spec
=============================================================================

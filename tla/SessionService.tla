---------------------------- MODULE SessionService ----------------------------
(***************************************************************************)
(* The session service (internal/features/session): session rows in        *)
(* PostgreSQL, a read-through cache of resolved principals in Redis, and   *)
(* the concurrent requests that create, resolve and revoke sessions,       *)
(* together with the cleanup job that deletes ended rows.                  *)
(*                                                                         *)
(* Every database or Redis call of a request is a step of its own, so that *)
(* requests interleave exactly where the Go code waits for a store.  Any   *)
(* such call may fail; the failure branch of the code is then taken.       *)
(***************************************************************************)
EXTENDS Integers

CONSTANTS
    Tokens,           \* session tokens; a token's hash keys its row and its cache entry
    NoToken,          \* "no principal": what Session returns as nil
    Users,
    Organizations,
    Owner,            \* Owner[t]: the user Create issues t to
    ActiveOrg,        \* ActiveOrg[t]: the organization t is issued for
    Requests,         \* goroutines serving requests
    IdleTimeout,      \* config.SessionIdleTimeout
    MaxLifetime,      \* config.SessionMaxLifetime
    SessionTTLCap,    \* config.CacheConfig.SessionTTLCap
    Retention,        \* sessionCleanupRetentionDuration
    CacheEnabled,     \* the principal cache has a Redis client
    LastSeenRequired, \* sessions.last_seen_at is NOT NULL, as the migration declares it
    MaxLatency,       \* longest time a Session call is in flight (environment)
    Horizon           \* bound: the last value of the clock

ASSUME SessionAssumption ==
    /\ NoToken \notin Tokens
    /\ Owner \in [Tokens -> Users]
    /\ ActiveOrg \in [Tokens -> Organizations]
    /\ IdleTimeout \in Nat
    /\ MaxLifetime \in Nat
    /\ SessionTTLCap \in Nat \ {0}
    /\ Retention \in Nat
    /\ CacheEnabled \in BOOLEAN
    /\ LastSeenRequired \in BOOLEAN
    /\ MaxLatency \in Nat
    /\ Horizon \in Nat

VARIABLES
    clock,    \* wall-clock time
    rows,     \* the sessions table, by token hash
    entries,  \* the principal cache, by token hash
    pc,       \* the call each request is about to make
    op,       \* the service method each request runs
    token,    \* the token the method was given, or is creating
    now,      \* Session's and Create's local now
    stamp,    \* the now Logout and RevokeForUser write as revoked_at and updated_at
    scope,    \* the sessions of the user or organization a bulk method is about
    hashes,   \* the token hashes whose cache entries are to be deleted
    answer,   \* history: the last principal a Session call resolved, and that call's now
    endedAt,  \* history: when the row was revoked
    escaped   \* history: sessions for which a cache entry may outlive revocation

vars == <<clock, rows, entries, pc, op, token, now, stamp, scope, hashes,
          answer, endedAt, escaped>>

-----------------------------------------------------------------------------
(* Types and derived state *)

Never == -1

RowStatus == {"unissued", "active", "revoked", "deleted", "rejected"}

Row == [status: RowStatus, idleExpiresAt: Nat, expiresAt: Nat, updatedAt: Nat]

\* A cachedPrincipal with the time at which Redis drops its key.
Entry == [until: Int, idleExpiresAt: Nat, expiresAt: Nat]

NoEntry == [until |-> 0, idleExpiresAt |-> 0, expiresAt |-> 0]

NoAnswer == [token |-> NoToken, began |-> 0]

SessionCalls == {"get", "query", "fill"}
Calls == SessionCalls \cup
         {"idle", "insert", "revoke", "list", "revokeScope", "evict"}
Methods == {"none", "create", "session", "logout", "revokeForUser", "invalidate"}

Issued(t) == rows[t].status \in {"active", "revoked", "deleted"}

Hit(t) == entries[t].until > clock

Active(S) == {t \in S : rows[t].status = "active"}

\* Service.expired, for a row or a cached principal.
Expired(p, at) == at > p.idleExpiresAt \/ at > p.expiresAt

\* Mutant: the cap is forgotten.
CacheTTLUncapped(p, at) == p.idleExpiresAt - at

\* Service.cacheTTL: the idle window that is left, at most the cap.
CacheTTL(p, at) ==
    IF p.idleExpiresAt - at < SessionTTLCap
    THEN p.idleExpiresAt - at ELSE SessionTTLCap

-----------------------------------------------------------------------------
Init ==
    /\ clock = 0
    /\ rows = [t \in Tokens |-> [status |-> "unissued", idleExpiresAt |-> 0,
                                 expiresAt |-> 0, updatedAt |-> 0]]
    /\ entries = [t \in Tokens |-> NoEntry]
    /\ pc = [p \in Requests |-> "idle"]
    /\ op = [p \in Requests |-> "none"]
    /\ token = [p \in Requests |-> NoToken]
    /\ now = [p \in Requests |-> 0]
    /\ stamp = [p \in Requests |-> 0]
    /\ scope = [p \in Requests |-> {}]
    /\ hashes = [p \in Requests |-> {}]
    /\ answer = NoAnswer
    /\ endedAt = [t \in Tokens |-> Never]
    /\ escaped = {}

\* Time passes, but no Session call stays in flight longer than MaxLatency.
Tick ==
    /\ clock < Horizon
    /\ \A p \in Requests : pc[p] \in SessionCalls => clock < now[p] + MaxLatency
    /\ clock' = clock + 1
    /\ UNCHANGED <<rows, entries, pc, op, token, now, stamp, scope, hashes,
                   answer, endedAt, escaped>>

Goto(p, call) == pc' = [pc EXCEPT ![p] = call]

\* The method returns and its locals are gone.
Return(p) ==
    /\ Goto(p, "idle")
    /\ op' = [op EXCEPT ![p] = "none"]
    /\ token' = [token EXCEPT ![p] = NoToken]
    /\ now' = [now EXCEPT ![p] = 0]
    /\ stamp' = [stamp EXCEPT ![p] = 0]
    /\ scope' = [scope EXCEPT ![p] = {}]
    /\ hashes' = [hashes EXCEPT ![p] = {}]

-----------------------------------------------------------------------------
(* Create *)

\* A fresh token is generated and the clock read, before the row is inserted.
BeginCreate(p, t) ==
    /\ pc[p] = "idle"
    /\ rows[t].status = "unissued"
    /\ \A q \in Requests : pc[q] = "insert" => token[q] # t
    /\ Goto(p, "insert")
    /\ op' = [op EXCEPT ![p] = "create"]
    /\ token' = [token EXCEPT ![p] = t]
    /\ now' = [now EXCEPT ![p] = clock]
    /\ UNCHANGED <<clock, rows, entries, stamp, scope, hashes, answer, endedAt, escaped>>

\* Create leaves LastSeenAt NULL: a NOT NULL column rejects the row.
InsertRow(p) ==
    rows' = [rows EXCEPT ![token[p]] =
                [status        |-> IF LastSeenRequired THEN "rejected" ELSE "active",
                 idleExpiresAt |-> now[p] + IdleTimeout,
                 expiresAt     |-> now[p] + MaxLifetime,
                 updatedAt     |-> now[p]]]

\* A session inserted after RevokeForUser has listed the user's hashes, and
\* before it revokes them, is revoked with the others but never evicted.
MissedByList(t) ==
    \E q \in Requests : pc[q] = "revokeScope" /\ t \in scope[q]

InsertSession(p) ==
    /\ pc[p] = "insert"
    /\ \/ /\ InsertRow(p)
          /\ escaped' = IF MissedByList(token[p])
                        THEN escaped \cup {token[p]} ELSE escaped
       \/ UNCHANGED <<rows, escaped>>     \* the insert fails; no token is returned
    /\ Return(p)
    /\ UNCHANGED <<clock, entries, answer, endedAt>>

-----------------------------------------------------------------------------
(* Session, and the Session call Logout starts with *)

BeginSession(p, t, method) ==
    /\ pc[p] = "idle"
    /\ Issued(t)
    /\ Goto(p, "get")
    /\ op' = [op EXCEPT ![p] = method]
    /\ token' = [token EXCEPT ![p] = t]
    /\ now' = [now EXCEPT ![p] = clock]
    /\ UNCHANGED <<clock, rows, entries, stamp, scope, hashes, answer, endedAt, escaped>>

\* Mutant: Logout goes on with the principal's token instead of the one it was given.
ResolveLosesToken(p, principal) ==
    /\ answer' = IF principal = NoToken THEN answer
                 ELSE [token |-> principal, began |-> now[p]]
    /\ \/ op[p] = "session" /\ Return(p)
       \/ /\ op[p] = "logout"
          /\ Goto(p, "revoke")
          /\ token' = [token EXCEPT ![p] = principal]
          /\ now' = [now EXCEPT ![p] = 0]
          /\ stamp' = [stamp EXCEPT ![p] = clock]
          /\ UNCHANGED <<op, scope, hashes>>

\* Session returns a principal or nil.  Logout goes on to revoke, whichever it is.
Resolve(p, principal) ==
    /\ answer' = IF principal = NoToken THEN answer
                 ELSE [token |-> principal, began |-> now[p]]
    /\ \/ op[p] = "session" /\ Return(p)
       \/ /\ op[p] = "logout"
          /\ Goto(p, "revoke")
          /\ now' = [now EXCEPT ![p] = 0]
          /\ stamp' = [stamp EXCEPT ![p] = clock]
          /\ UNCHANGED <<op, token, scope, hashes>>

\* Mutant: a cached principal is taken for a live one.
CacheHitUnchecked(p) ==
    /\ pc[p] = "get"
    /\ Hit(token[p])
    /\ Resolve(p, token[p])
    /\ UNCHANGED <<clock, rows, entries, endedAt, escaped>>

CacheHit(p) ==
    /\ pc[p] = "get"
    /\ Hit(token[p])
    /\ Resolve(p, IF Expired(entries[token[p]], now[p]) THEN NoToken ELSE token[p])
    /\ UNCHANGED <<clock, rows, entries, endedAt, escaped>>

\* A miss, and a read error when there is a client, fall back to the database.
CacheMiss(p) ==
    /\ pc[p] = "get"
    /\ CacheEnabled \/ ~Hit(token[p])
    /\ Goto(p, "query")
    /\ UNCHANGED <<clock, rows, entries, op, token, now, stamp, scope, hashes,
                   answer, endedAt, escaped>>

\* A usable row, worth caching: the write is the next call.
ReadRowForCache(p) ==
    LET row == rows[token[p]] IN
    /\ pc[p] = "query"
    /\ row.status = "active"
    /\ ~Expired(row, now[p])
    /\ CacheTTL(row, now[p]) > 0
    /\ Goto(p, "fill")
    /\ UNCHANGED <<clock, rows, entries, op, token, now, stamp, scope, hashes,
                   answer, endedAt, escaped>>

\* No row, a row that has ended, or a row with no idle time left to cache.
ReadRowAndReturn(p) ==
    LET row == rows[token[p]]
        usable == row.status = "active" /\ ~Expired(row, now[p])
    IN
    /\ pc[p] = "query"
    /\ usable => CacheTTL(row, now[p]) = 0
    /\ Resolve(p, IF usable THEN token[p] ELSE NoToken)
    /\ UNCHANGED <<clock, rows, entries, endedAt, escaped>>

\* The query fails: Session returns the error and Logout passes it on.
ReadRowFails(p) ==
    /\ pc[p] = "query"
    /\ Return(p)
    /\ UNCHANGED <<clock, rows, entries, answer, endedAt, escaped>>

\* SetWithTTL of the principal read from the row; a failure is only logged.
FillCache(p) ==
    LET t == token[p] IN
    /\ pc[p] = "fill"
    /\ \/ /\ CacheEnabled
          /\ entries' = [entries EXCEPT ![t] =
                           [until         |-> clock + CacheTTL(rows[t], now[p]),
                            idleExpiresAt |-> rows[t].idleExpiresAt,
                            expiresAt     |-> rows[t].expiresAt]]
          /\ escaped' = IF endedAt[t] # Never THEN escaped \cup {t} ELSE escaped
       \/ UNCHANGED <<entries, escaped>>
    /\ Resolve(p, t)
    /\ UNCHANGED <<clock, rows, endedAt>>

-----------------------------------------------------------------------------
(* Logout and RevokeForUser *)

\* UPDATE ... SET revoked_at, updated_at ... WHERE revoked_at IS NULL.
RevokeRows(S, at) ==
    /\ rows' = [t \in Tokens |-> IF t \in Active(S)
                                 THEN [rows[t] EXCEPT !.status = "revoked", !.updatedAt = at]
                                 ELSE rows[t]]
    /\ endedAt' = [t \in Tokens |-> IF t \in Active(S) THEN clock ELSE endedAt[t]]

Revoke(p) ==
    /\ pc[p] = "revoke"
    /\ \/ /\ RevokeRows({token[p]}, stamp[p])
          /\ Goto(p, "evict")
          /\ hashes' = [hashes EXCEPT ![p] = {token[p]}]
          /\ UNCHANGED <<op, token, now, stamp, scope>>
       \/ Return(p) /\ UNCHANGED <<rows, endedAt>>
    /\ UNCHANGED <<clock, entries, answer, escaped>>

UserSessions(u) == {t \in Tokens : Owner[t] = u}
OrganizationSessions(o) == {t \in Tokens : ActiveOrg[t] = o}

\* Without a cache the hashes are not even loaded.
BeginRevokeForUser(p, u) ==
    /\ pc[p] = "idle"
    /\ Goto(p, IF CacheEnabled THEN "list" ELSE "revokeScope")
    /\ op' = [op EXCEPT ![p] = "revokeForUser"]
    /\ stamp' = [stamp EXCEPT ![p] = clock]
    /\ scope' = [scope EXCEPT ![p] = UserSessions(u)]
    /\ UNCHANGED <<clock, rows, entries, token, now, hashes, answer, endedAt, escaped>>

\* A failed load is only logged: the revocation goes on with nothing to evict.
ListForRevocation(p) ==
    /\ pc[p] = "list" /\ op[p] = "revokeForUser"
    /\ \/ /\ hashes' = [hashes EXCEPT ![p] = Active(scope[p])]
          /\ UNCHANGED escaped
       \/ escaped' = escaped \cup Active(scope[p]) /\ UNCHANGED hashes
    /\ Goto(p, "revokeScope")
    /\ stamp' = [stamp EXCEPT ![p] = clock]
    /\ UNCHANGED <<clock, rows, entries, op, token, now, scope, answer, endedAt>>

\* Mutant: the revoked sessions' entries are left in the cache.
RevokeScopeOnly(p) ==
    /\ pc[p] = "revokeScope"
    /\ \/ RevokeRows(scope[p], stamp[p])
       \/ UNCHANGED <<rows, endedAt>>
    /\ Return(p)
    /\ UNCHANGED <<clock, entries, answer, escaped>>

RevokeScope(p) ==
    /\ pc[p] = "revokeScope"
    /\ \/ /\ RevokeRows(scope[p], stamp[p])
          /\ Goto(p, "evict")
          /\ UNCHANGED <<op, token, now, stamp, scope, hashes>>
       \/ Return(p) /\ UNCHANGED <<rows, endedAt>>
    /\ UNCHANGED <<clock, entries, answer, escaped>>

\* Deleting the entries is the last call; a failure does not undo the revocation.
Evict(p) ==
    /\ pc[p] = "evict"
    /\ \/ /\ entries' = [t \in Tokens |-> IF t \in hashes[p] THEN NoEntry ELSE entries[t]]
          /\ UNCHANGED escaped
       \/ /\ CacheEnabled
          /\ escaped' = escaped \cup {t \in hashes[p] : endedAt[t] # Never}
          /\ UNCHANGED entries
    /\ Return(p)
    /\ UNCHANGED <<clock, rows, answer, endedAt>>

-----------------------------------------------------------------------------
(* InvalidateForUser and InvalidateForOrganization *)

BeginInvalidate(p, S) ==
    /\ pc[p] = "idle"
    /\ CacheEnabled
    /\ Goto(p, "list")
    /\ op' = [op EXCEPT ![p] = "invalidate"]
    /\ scope' = [scope EXCEPT ![p] = S]
    /\ UNCHANGED <<clock, rows, entries, token, now, stamp, hashes, answer, endedAt, escaped>>

InvalidateForUser(p, u) == BeginInvalidate(p, UserSessions(u))

InvalidateForOrganization(p, o) == BeginInvalidate(p, OrganizationSessions(o))

ListForInvalidation(p) ==
    /\ pc[p] = "list" /\ op[p] = "invalidate"
    /\ \/ /\ Goto(p, "evict")
          /\ hashes' = [hashes EXCEPT ![p] = Active(scope[p])]
          /\ UNCHANGED <<op, token, now, stamp, scope>>
       \/ Return(p)
    /\ UNCHANGED <<clock, rows, entries, answer, endedAt, escaped>>

-----------------------------------------------------------------------------
(* The session cleanup job *)

\* Mutant: the comparison with expires_at is dropped.
EndedOrIssued(t) ==
    /\ rows[t].status \in {"revoked", "active"}
    /\ rows[t].updatedAt < clock

\* WHERE (revoked_at IS NOT NULL OR expires_at < $1) AND updated_at < $2.
Ended(t) ==
    /\ \/ rows[t].status = "revoked"
       \/ rows[t].status = "active" /\ rows[t].expiresAt < clock - Retention
    /\ rows[t].updatedAt < clock

Cleanup ==
    /\ \E t \in Tokens : Ended(t)
    /\ rows' = [t \in Tokens |-> IF Ended(t) THEN [rows[t] EXCEPT !.status = "deleted"]
                                 ELSE rows[t]]
    /\ UNCHANGED <<clock, entries, pc, op, token, now, stamp, scope, hashes,
                   answer, endedAt, escaped>>

-----------------------------------------------------------------------------
Begin(p) ==
    \/ \E t \in Tokens : BeginCreate(p, t)
    \/ \E t \in Tokens, m \in {"session", "logout"} : BeginSession(p, t, m)
    \/ \E u \in Users : BeginRevokeForUser(p, u) \/ InvalidateForUser(p, u)
    \/ \E o \in Organizations : InvalidateForOrganization(p, o)

Call(p) ==
    \/ InsertSession(p)
    \/ CacheHit(p) \/ CacheMiss(p)
    \/ ReadRowForCache(p) \/ ReadRowAndReturn(p) \/ ReadRowFails(p)
    \/ FillCache(p)
    \/ Revoke(p)
    \/ ListForRevocation(p) \/ RevokeScope(p)
    \/ ListForInvalidation(p)
    \/ Evict(p)

Next == Tick \/ Cleanup \/ \E p \in Requests : Begin(p) \/ Call(p)

Spec == Init /\ [][Next]_vars

-----------------------------------------------------------------------------
(* Properties *)

\* Every variable keeps its type, and a request inside Session or Create has
\* a token to work on.
TypeOK ==
    /\ clock \in Nat
    /\ rows \in [Tokens -> Row]
    /\ entries \in [Tokens -> Entry]
    /\ pc \in [Requests -> Calls]
    /\ op \in [Requests -> Methods]
    /\ token \in [Requests -> Tokens \cup {NoToken}]
    /\ now \in [Requests -> Nat]
    /\ stamp \in [Requests -> Nat]
    /\ scope \in [Requests -> SUBSET Tokens]
    /\ hashes \in [Requests -> SUBSET Tokens]
    /\ answer \in [token: Tokens \cup {NoToken}, began: Nat]
    /\ endedAt \in [Tokens -> Nat \cup {Never}]
    /\ escaped \in SUBSET Tokens
    /\ \A p \in Requests : pc[p] \in SessionCalls \cup {"insert", "revoke"}
                             => token[p] \in Tokens

\* Session never resolves a token after its idle or absolute expiry, measured
\* at the start of the call, although a cache entry written late by a slow
\* request may still be in Redis then (the TTL is computed before the write).
ResolvedWithinLifetime ==
    answer.token # NoToken =>
        /\ Issued(answer.token)
        /\ ~Expired(rows[answer.token], answer.began)

\* A revoked session is resolved only by a call that began less than
\* SessionTTLCap plus the time one Session call can be in flight after the
\* revocation: the cap alone is not the bound, because a call that read the
\* row before the revocation may write the cache entry after the eviction.
BoundedStaleness ==
    answer.token # NoToken /\ endedAt[answer.token] # Never =>
        answer.began < endedAt[answer.token] + MaxLatency + SessionTTLCap

\* The cache holds a revoked session only while its eviction is still to come,
\* or for one of the four reasons the code accepts: the eviction failed, the
\* hashes could not be listed, the session was created between the listing and
\* the revocation, or a call that had read the row earlier wrote the entry.
StaleEntryExplained ==
    \A t \in Tokens :
        endedAt[t] # Never /\ Hit(t) =>
            \/ t \in escaped
            \/ \E p \in Requests : pc[p] = "evict" /\ t \in hashes[p]

\* With the cache switched off, a call that begins after the revocation never
\* resolves the session: every answer comes from the row.
UncachedRevocationImmediate ==
    ~CacheEnabled /\ answer.token # NoToken /\ endedAt[answer.token] # Never =>
        answer.began <= endedAt[answer.token]

\* The cleanup job keeps an ended session for the retention window after it
\* ended, as its doc comment says (session_cleanup_background_job.go:28).
RetentionHonoured ==
    [][\A t \in Tokens :
         rows[t].status = "revoked" /\ rows'[t].status = "deleted"
           => endedAt[t] + Retention <= clock]_vars

\* A session is refused as idle only when it was idle: if it resolved within the
\* last IdleTimeout and its absolute lifetime is not over, it resolves again.
\* SessionIdleTimeout is the maximum idle time (config/session.go:9), but
\* nothing ever moves idleExpiresAt after Create.
IdleOnlyWhenIdle ==
    [][\A p \in Requests :
         LET row == rows[token[p]] IN
         /\ pc[p] = "query" /\ ReadRowAndReturn(p) /\ row.status = "active"
         /\ Expired(row, now[p]) /\ now[p] <= row.expiresAt
         => ~(answer.token = token[p] /\ now[p] <= answer.began + IdleTimeout)]_vars

\* With last_seen_at NOT NULL, as 00001_init.sql:81 declares it, no session is ever
\* stored: every insert of Create, which leaves the column unset, is rejected.
NothingStored ==
    LastSeenRequired => \A t \in Tokens : rows[t].status \in {"unissued", "rejected"}
=============================================================================

---------------------------- MODULE SessionProofs -----------------------------
(***************************************************************************)
(* Proofs about SessionService, for every number of tokens and requests    *)
(* and every value of the timeouts: type correctness, the bound on how     *)
(* long a revoked session resolves, the explanation of stale entries, and  *)
(* the refinement of SessionLedger.                                        *)
(***************************************************************************)
EXTENDS SessionRefinement, TLAPS

(* The two halves of TypeOK: the locals of the requests, and what they share. *)

LocalsOK ==
    /\ pc \in [Requests -> Calls]
    /\ op \in [Requests -> Methods]
    /\ token \in [Requests -> Tokens \cup {NoToken}]
    /\ now \in [Requests -> Nat]
    /\ stamp \in [Requests -> Nat]
    /\ scope \in [Requests -> SUBSET Tokens]
    /\ hashes \in [Requests -> SUBSET Tokens]
    /\ \A p \in Requests : pc[p] \in SessionCalls \cup {"insert", "revoke"}
                             => token[p] \in Tokens

StoresOK ==
    /\ clock \in Nat
    /\ rows \in [Tokens -> Row]
    /\ entries \in [Tokens -> Entry]
    /\ answer \in [token: Tokens \cup {NoToken}, began: Nat]
    /\ endedAt \in [Tokens -> Nat \cup {Never}]
    /\ escaped \in SUBSET Tokens

Typed == LocalsOK /\ StoresOK

\* TypeOK is its two halves.
LEMMA TypeSplit == TypeOK <=> Typed
BY DEF TypeOK, Typed, LocalsOK, StoresOK

\* A method that returns leaves well-typed locals.
LEMMA ReturnLocals ==
    ASSUME LocalsOK, NEW p \in Requests, Return(p)
    PROVE  LocalsOK'
BY DEF LocalsOK, Return, Goto, Calls, SessionCalls, Methods

\* So does a Session call that resolves, and its answer is a token or none.
LEMMA ResolveTypes ==
    ASSUME LocalsOK, StoresOK, NEW p \in Requests, pc[p] \in {"get", "query", "fill"},
           NEW t \in Tokens \cup {NoToken}, Resolve(p, t)
    PROVE  LocalsOK' /\ answer' \in [token: Tokens \cup {NoToken}, began: Nat]
<1>1. answer' \in [token: Tokens \cup {NoToken}, began: Nat]
  BY DEF Resolve, LocalsOK, StoresOK
<1>2. CASE Return(p)
  BY <1>1, <1>2, ReturnLocals
<1>3. CASE ~Return(p)
  <2>1. LocalsOK'
    BY <1>3 DEF Resolve, LocalsOK, StoresOK, Goto, Calls, SessionCalls, Methods
  <2>2. QED
    BY <1>1, <2>1
<1>4. QED
  BY <1>2, <1>3

\* Revoking rows keeps the table and the end times well typed.
LEMMA RevokeRowsTypes ==
    ASSUME StoresOK, NEW S \in SUBSET Tokens, NEW at \in Nat, RevokeRows(S, at)
    PROVE  rows' \in [Tokens -> Row] /\ endedAt' \in [Tokens -> Nat \cup {Never}]
<1>1. \A t \in Tokens : rows[t] \in Row
  BY DEF StoresOK
<1>2. \A r \in Row : [r EXCEPT !.status = "revoked", !.updatedAt = at] \in Row
  BY DEF Row, RowStatus
<1>3. QED
  BY <1>1, <1>2 DEF RevokeRows, StoresOK

\* Every reachable state of the service is well typed.
THEOREM Typing == Spec => []TypeOK
<1>1. Init => Typed
  BY SessionAssumption
     DEF Init, Typed, LocalsOK, StoresOK, Row, RowStatus, Entry, NoEntry, NoAnswer, Calls,
         SessionCalls, Methods, Never
<1>2. Typed /\ [Next]_vars => Typed'
  <2> SUFFICES ASSUME LocalsOK, StoresOK, [Next]_vars PROVE LocalsOK' /\ StoresOK'
    BY DEF Typed
  <2>1. CASE Tick
    <3>1. LocalsOK'
      BY <2>1 DEF Tick, LocalsOK, Calls, SessionCalls, Methods
    <3>2. StoresOK'
      BY <2>1 DEF Tick, StoresOK
    <3>3. QED
      BY <3>1, <3>2
  <2>2. CASE Cleanup
    <3>1. \A r \in Row : [r EXCEPT !.status = "deleted"] \in Row
      BY DEF Row, RowStatus
    <3>2. rows' \in [Tokens -> Row]
      BY <2>2, <3>1 DEF Cleanup, StoresOK
    <3>3. QED
      BY <2>2, <3>2 DEF Cleanup, StoresOK, LocalsOK
  <2>3. ASSUME NEW p \in Requests, NEW t \in Tokens, BeginCreate(p, t)
        PROVE  LocalsOK' /\ StoresOK'
    <3>1. LocalsOK'
      BY <2>3 DEF BeginCreate, Goto, LocalsOK, Calls, SessionCalls, Methods, StoresOK
    <3>2. StoresOK'
      BY <2>3 DEF BeginCreate, StoresOK
    <3>3. QED
      BY <3>1, <3>2
  <2>4. ASSUME NEW p \in Requests, NEW t \in Tokens,
               NEW m \in {"session", "logout"}, BeginSession(p, t, m)
        PROVE  LocalsOK' /\ StoresOK'
    <3>1. LocalsOK'
      BY <2>4 DEF BeginSession, Goto, LocalsOK, Calls, SessionCalls, Methods, StoresOK
    <3>2. StoresOK'
      BY <2>4 DEF BeginSession, StoresOK
    <3>3. QED
      BY <3>1, <3>2
  <2>5. ASSUME NEW p \in Requests, NEW u \in Users, BeginRevokeForUser(p, u)
        PROVE  LocalsOK' /\ StoresOK'
    <3>1. LocalsOK'
      BY <2>5 DEF BeginRevokeForUser, Goto, LocalsOK, Calls, SessionCalls, Methods, StoresOK, UserSessions
    <3>2. StoresOK'
      BY <2>5 DEF BeginRevokeForUser, StoresOK
    <3>3. QED
      BY <3>1, <3>2
  <2>6. ASSUME NEW p \in Requests, NEW S \in SUBSET Tokens, BeginInvalidate(p, S)
        PROVE  LocalsOK' /\ StoresOK'
    <3>1. LocalsOK'
      BY <2>6 DEF BeginInvalidate, Goto, LocalsOK, Calls, SessionCalls, Methods
    <3>2. StoresOK'
      BY <2>6 DEF BeginInvalidate, StoresOK
    <3>3. QED
      BY <3>1, <3>2
  <2>7. ASSUME NEW p \in Requests, InsertSession(p)
        PROVE  LocalsOK' /\ StoresOK'
    <3>1. LocalsOK' /\ token[p] \in Tokens
      BY <2>7, ReturnLocals DEF InsertSession, LocalsOK
    <3>2. CASE UNCHANGED rows
      BY <2>7, <3>1, <3>2 DEF InsertSession, StoresOK
    <3>3. CASE InsertRow(p)
      <4>1. now[p] + IdleTimeout \in Nat /\ now[p] + MaxLifetime \in Nat /\ now[p] \in Nat
        BY SessionAssumption DEF LocalsOK
      <4>2. rows' \in [Tokens -> Row]
        BY <3>1, <3>3, <4>1 DEF InsertRow, StoresOK, Row, RowStatus
      <4>3. QED
        BY <2>7, <3>1, <4>2 DEF InsertSession, StoresOK
    <3>4. QED
      BY <2>7, <3>2, <3>3 DEF InsertSession
  <2>8. ASSUME NEW p \in Requests, CacheHit(p)
        PROVE  LocalsOK' /\ StoresOK'
    <3>1. token[p] \in Tokens
      BY <2>8 DEF CacheHit, LocalsOK, SessionCalls
    <3>2. LocalsOK' /\ answer' \in [token: Tokens \cup {NoToken}, began: Nat]
      BY <2>8, <3>1, ResolveTypes DEF CacheHit
    <3>3. StoresOK'
      BY <2>8, <3>2 DEF CacheHit, StoresOK
    <3>4. QED
      BY <3>2, <3>3
  <2>9. ASSUME NEW p \in Requests, CacheMiss(p)
        PROVE  LocalsOK' /\ StoresOK'
    <3>1. LocalsOK'
      BY <2>9 DEF CacheMiss, Goto, LocalsOK, Calls, SessionCalls, Methods
    <3>2. StoresOK'
      BY <2>9 DEF CacheMiss, StoresOK
    <3>3. QED
      BY <3>1, <3>2
  <2>10. ASSUME NEW p \in Requests, ReadRowForCache(p)
        PROVE  LocalsOK' /\ StoresOK'
    <3>1. LocalsOK'
      BY <2>10 DEF ReadRowForCache, Goto, LocalsOK, Calls, SessionCalls, Methods
    <3>2. StoresOK'
      BY <2>10 DEF ReadRowForCache, StoresOK
    <3>3. QED
      BY <3>1, <3>2
  <2>11. ASSUME NEW p \in Requests, ReadRowAndReturn(p)
        PROVE  LocalsOK' /\ StoresOK'
    <3>1. token[p] \in Tokens
      BY <2>11 DEF ReadRowAndReturn, LocalsOK, SessionCalls
    <3>2. LocalsOK' /\ answer' \in [token: Tokens \cup {NoToken}, began: Nat]
      BY <2>11, <3>1, ResolveTypes DEF ReadRowAndReturn
    <3>3. StoresOK'
      BY <2>11, <3>2 DEF ReadRowAndReturn, StoresOK
    <3>4. QED
      BY <3>2, <3>3
  <2>12. ASSUME NEW p \in Requests, ReadRowFails(p)
        PROVE  LocalsOK' /\ StoresOK'
    <3>1. LocalsOK'
      BY <2>12, ReturnLocals DEF ReadRowFails
    <3>2. StoresOK'
      BY <2>12 DEF ReadRowFails, StoresOK
    <3>3. QED
      BY <3>1, <3>2
  <2>13. ASSUME NEW p \in Requests, FillCache(p)
        PROVE  LocalsOK' /\ StoresOK'
    <3>1. token[p] \in Tokens
      BY <2>13 DEF FillCache, LocalsOK, SessionCalls
    <3>2. LocalsOK' /\ answer' \in [token: Tokens \cup {NoToken}, began: Nat]
      BY <2>13, <3>1, ResolveTypes DEF FillCache
    <3>3. rows[token[p]] \in Row
      BY <3>1 DEF StoresOK
    <3>4. CASE UNCHANGED <<entries, escaped>>
      BY <2>13, <3>2, <3>4 DEF FillCache, StoresOK
    <3>5. CASE ~UNCHANGED <<entries, escaped>>
      <4>1. CacheTTL(rows[token[p]], now[p]) \in Int
        BY <3>1, <3>3, SessionAssumption DEF CacheTTL, LocalsOK, Row
      <4>2. QED
        BY <2>13, <3>1, <3>2, <3>3, <3>5, <4>1 DEF FillCache, StoresOK, Entry, Row
    <3>6. QED
      BY <3>4, <3>5
  <2>14. ASSUME NEW p \in Requests, Revoke(p)
        PROVE  LocalsOK' /\ StoresOK'
    <3>1. CASE RevokeRows({token[p]}, stamp[p])
      <4>1. {token[p]} \in SUBSET Tokens /\ stamp[p] \in Nat
        BY <2>14 DEF Revoke, LocalsOK
      <4>2. rows' \in [Tokens -> Row] /\ endedAt' \in [Tokens -> Nat \cup {Never}]
        BY <3>1, <4>1, RevokeRowsTypes
      <4>3. StoresOK'
        BY <2>14, <4>2 DEF Revoke, StoresOK
      <4>4. CASE Return(p)
        BY <4>3, <4>4, ReturnLocals
      <4>5. CASE ~Return(p)
        <5>1. LocalsOK'
          BY <2>14, <4>1, <4>5 DEF Revoke, Goto, LocalsOK, Calls, SessionCalls, Methods
        <5>2. QED
          BY <4>3, <5>1
      <4>6. QED
        BY <4>4, <4>5
    <3>2. CASE Return(p) /\ UNCHANGED <<rows, endedAt>>
      <4>1. LocalsOK'
        BY <3>2, ReturnLocals
      <4>2. StoresOK'
        BY <2>14, <3>2 DEF Revoke, StoresOK
      <4>3. QED
        BY <4>1, <4>2
    <3>3. QED
      BY <2>14, <3>1, <3>2 DEF Revoke
  <2>15. ASSUME NEW p \in Requests, ListForRevocation(p)
        PROVE  LocalsOK' /\ StoresOK'
    <3>1. Active(scope[p]) \in SUBSET Tokens
      BY DEF Active, LocalsOK
    <3>2. LocalsOK'
      BY <2>15, <3>1 DEF ListForRevocation, StoresOK, Goto, LocalsOK, Calls, SessionCalls, Methods
    <3>3. StoresOK'
      BY <2>15, <3>1 DEF ListForRevocation, StoresOK
    <3>4. QED
      BY <3>2, <3>3
  <2>16. ASSUME NEW p \in Requests, RevokeScope(p)
        PROVE  LocalsOK' /\ StoresOK'
    <3>1. CASE RevokeRows(scope[p], stamp[p])
      <4>1. scope[p] \in SUBSET Tokens /\ stamp[p] \in Nat
        BY <2>16 DEF RevokeScope, LocalsOK
      <4>2. rows' \in [Tokens -> Row] /\ endedAt' \in [Tokens -> Nat \cup {Never}]
        BY <3>1, <4>1, RevokeRowsTypes
      <4>3. StoresOK'
        BY <2>16, <4>2 DEF RevokeScope, StoresOK
      <4>4. CASE Return(p)
        BY <4>3, <4>4, ReturnLocals
      <4>5. CASE ~Return(p)
        <5>1. LocalsOK'
          BY <2>16, <4>1, <4>5 DEF RevokeScope, Goto, LocalsOK, Calls, SessionCalls, Methods
        <5>2. QED
          BY <4>3, <5>1
      <4>6. QED
        BY <4>4, <4>5
    <3>2. CASE Return(p) /\ UNCHANGED <<rows, endedAt>>
      <4>1. LocalsOK'
        BY <3>2, ReturnLocals
      <4>2. StoresOK'
        BY <2>16, <3>2 DEF RevokeScope, StoresOK
      <4>3. QED
        BY <4>1, <4>2
    <3>3. QED
      BY <2>16, <3>1, <3>2 DEF RevokeScope
  <2>17. ASSUME NEW p \in Requests, ListForInvalidation(p)
        PROVE  LocalsOK' /\ StoresOK'
    <3>1. StoresOK'
      BY <2>17 DEF ListForInvalidation, StoresOK
    <3>2. CASE Return(p)
      BY <3>1, <3>2, ReturnLocals
    <3>3. CASE ~Return(p)
      <4>1. Active(scope[p]) \in SUBSET Tokens
        BY DEF Active, LocalsOK
      <4>2. LocalsOK'
        BY <2>17, <3>3, <4>1 DEF ListForInvalidation, Goto, LocalsOK, Calls, SessionCalls, Methods
      <4>3. QED
        BY <3>1, <4>2
    <3>4. QED
      BY <3>2, <3>3
  <2>18. ASSUME NEW p \in Requests, Evict(p)
        PROVE  LocalsOK' /\ StoresOK'
    <3>1. LocalsOK'
      BY <2>18, ReturnLocals DEF Evict
    <3>2. StoresOK'
      <4>1. NoEntry \in Entry
        BY DEF NoEntry, Entry
      <4>2. QED
        BY <2>18, <4>1 DEF Evict, StoresOK, LocalsOK
    <3>3. QED
      BY <3>1, <3>2
  <2>19. CASE UNCHANGED vars
    BY <2>19 DEF vars, LocalsOK, StoresOK
  <2>20. QED
    BY <2>1, <2>2, <2>3, <2>4, <2>5, <2>6, <2>7, <2>8, <2>9, <2>10, <2>11, <2>12,
       <2>13, <2>14, <2>15, <2>16, <2>17, <2>18, <2>19
       DEF Next, Begin, Call, InvalidateForUser, InvalidateForOrganization,
           UserSessions, OrganizationSessions
<1>3. Typed => TypeOK
  BY TypeSplit
<1>4. QED
  BY <1>1, <1>2, <1>3, PTL DEF Spec

-----------------------------------------------------------------------------
(* How long a revoked session resolves.  BoundedStaleness is not inductive: *)
(* the bound on an answer comes from the cache entry it was read from, that *)
(* of the entry from the call that wrote it, and that of the call from the  *)
(* time for which a call can be in flight.                                  *)

\* A call's now is in the past, and recent while the call is in flight.
CallInv ==
    \A p \in Requests :
        /\ now[p] <= clock
        /\ pc[p] \in SessionCalls => clock <= now[p] + MaxLatency

\* Only issued rows end, they end once, and an active row has not ended.
RowInv ==
    \A t \in Tokens :
        /\ endedAt[t] <= clock
        /\ endedAt[t] # Never => rows[t].status \in {"revoked", "deleted"}

\* A live entry copies its row, lasts at most the cap from now on, and lasts
\* at most MaxLatency plus the cap past the revocation.
EntryInv ==
    \A t \in Tokens : Hit(t) =>
        /\ Issued(t)
        /\ entries[t].idleExpiresAt = rows[t].idleExpiresAt
        /\ entries[t].expiresAt = rows[t].expiresAt
        /\ entries[t].until <= clock + SessionTTLCap
        /\ endedAt[t] # Never =>
             entries[t].until <= endedAt[t] + MaxLatency + SessionTTLCap

\* A call about to write an entry read the row when it was usable.
FillInv ==
    \A p \in Requests : pc[p] = "fill" =>
        /\ Issued(token[p])
        /\ ~Expired(rows[token[p]], now[p])
        /\ endedAt[token[p]] # Never => now[p] <= endedAt[token[p]]

AnswerInv ==
    /\ answer.began <= clock
    /\ ResolvedWithinLifetime
    /\ BoundedStaleness

\* The token a Create is about to insert is still unissued and its alone.
InsertInv ==
    \A p \in Requests : pc[p] = "insert" =>
        /\ rows[token[p]].status = "unissued"
        /\ \A q \in Requests : pc[q] = "insert" /\ token[q] = token[p] => q = p

StalenessInv == CallInv /\ RowInv /\ EntryInv /\ FillInv /\ AnswerInv /\ InsertInv

\* A step of request p leaves the locals of the other requests alone.
OthersSame(p) ==
    \A q \in Requests \ {p} :
        pc'[q] = pc[q] /\ token'[q] = token[q] /\ now'[q] = now[q]

\* The call p makes next, and its now, are within the bounds of CallInv.
CallFits(p) ==
    /\ now'[p] <= clock
    /\ pc'[p] \in SessionCalls => clock <= now'[p] + MaxLatency

\* A step that touches the locals of one request only.
LEMMA LocalStep ==
    ASSUME Typed, Typed', StalenessInv, NEW p \in Requests, OthersSame(p), CallFits(p),
           UNCHANGED <<clock, rows, entries, endedAt, answer>>,
           pc'[p] = "fill" => /\ Issued(token'[p])
                              /\ ~Expired(rows[token'[p]], now'[p])
                              /\ endedAt[token'[p]] # Never => now'[p] <= endedAt[token'[p]],
           pc'[p] = "insert" => /\ rows[token'[p]].status = "unissued"
                                /\ \A q \in Requests \ {p} :
                                      pc[q] = "insert" => token[q] # token'[p]
    PROVE  StalenessInv'
<1>1. CallInv'
  BY DEF StalenessInv, CallInv, CallFits, OthersSame
<1>2. RowInv' /\ EntryInv' /\ AnswerInv'
  BY DEF StalenessInv, RowInv, EntryInv, AnswerInv, Hit, Issued, Expired,
         ResolvedWithinLifetime, BoundedStaleness
<1>3. FillInv'
  BY DEF StalenessInv, FillInv, OthersSame, Issued, Expired
<1>4. InsertInv'
  BY DEF StalenessInv, InsertInv, OthersSame
<1>5. QED
  BY <1>1, <1>2, <1>3, <1>4 DEF StalenessInv

\* A request whose method returns does not disturb the others, and is done.
LEMMA ReturnStep ==
    ASSUME Typed, NEW p \in Requests, Return(p)
    PROVE  OthersSame(p) /\ CallFits(p) /\ pc'[p] = "idle"
BY DEF Typed, LocalsOK, StoresOK, Return, Goto, OthersSame, CallFits, SessionCalls

\* The same of a Session call that resolves; it leaves the principal in answer.
LEMMA ResolveStep ==
    ASSUME Typed, NEW p \in Requests, NEW t \in Tokens \cup {NoToken}, Resolve(p, t)
    PROVE  /\ OthersSame(p) /\ CallFits(p) /\ pc'[p] \in {"idle", "revoke"}
           /\ answer' = IF t = NoToken THEN answer
                        ELSE [token |-> t, began |-> now[p]]
<1>1. CASE Return(p)
  BY <1>1, ReturnStep DEF Resolve
<1>2. CASE ~Return(p)
  BY <1>2 DEF Resolve, Typed, LocalsOK, StoresOK, Goto, OthersSame, CallFits, SessionCalls
<1>3. QED
  BY <1>1, <1>2

\* A Session call that resolves, without writing the cache, a token that its
\* call may resolve.
LEMMA AnswerStep ==
    ASSUME Typed, Typed', StalenessInv, NEW p \in Requests,
           NEW t \in Tokens \cup {NoToken}, Resolve(p, t), pc[p] \in SessionCalls,
           UNCHANGED <<clock, rows, entries, endedAt>>,
           t # NoToken => /\ Issued(t) /\ ~Expired(rows[t], now[p])
                          /\ endedAt[t] # Never =>
                               now[p] < endedAt[t] + MaxLatency + SessionTTLCap
    PROVE  StalenessInv'
<1> USE ResolveStep
<1>1. CallInv'
  BY DEF StalenessInv, CallInv, CallFits, OthersSame
<1>2. RowInv' /\ EntryInv'
  BY DEF StalenessInv, RowInv, EntryInv, Hit, Issued
<1>3. AnswerInv'
  BY DEF StalenessInv, CallInv, AnswerInv, Issued, Expired, Typed, LocalsOK, StoresOK,
         ResolvedWithinLifetime, BoundedStaleness
<1>4. FillInv' /\ InsertInv'
  BY DEF StalenessInv, FillInv, InsertInv, OthersSame, Issued, Expired
<1>5. QED
  BY <1>1, <1>2, <1>3, <1>4 DEF StalenessInv

\* Revoking the active sessions of S now: everything learnt about them before
\* was learnt at or before their end.
LEMMA RevokeStep ==
    ASSUME Typed, Typed', StalenessInv, NEW p \in Requests, OthersSame(p), CallFits(p),
           pc'[p] \in {"idle", "evict"}, NEW S \in SUBSET Tokens, NEW at \in Nat,
           RevokeRows(S, at), UNCHANGED <<clock, entries, answer>>
    PROVE  StalenessInv'
<1> DEFINE Revoked(r) == [r EXCEPT !.status = "revoked", !.updatedAt = at]
<1>1. \A r \in Row : /\ Revoked(r).status = "revoked"
                     /\ Revoked(r).idleExpiresAt = r.idleExpiresAt
                     /\ Revoked(r).expiresAt = r.expiresAt
  BY DEF Row
<1>2. \A t \in Tokens :
        /\ rows[t] \in Row
        /\ rows'[t] = IF t \in S /\ rows[t].status = "active" THEN Revoked(rows[t])
                      ELSE rows[t]
        /\ endedAt'[t] = IF t \in S /\ rows[t].status = "active" THEN clock
                         ELSE endedAt[t]
  BY DEF RevokeRows, Active, Typed, StoresOK
<1> HIDE DEF Revoked
<1>3. \A t \in Tokens :
        /\ Issued(t)' <=> Issued(t)
        /\ rows'[t].idleExpiresAt = rows[t].idleExpiresAt
        /\ rows'[t].expiresAt = rows[t].expiresAt
        /\ rows[t].status = "unissued" => rows'[t].status = "unissued"
  BY <1>1, <1>2 DEF Issued
<1>4. \A t \in Tokens :
        \/ endedAt'[t] = endedAt[t] /\ rows'[t] = rows[t]
        \/ endedAt[t] = Never /\ endedAt'[t] = clock /\ rows'[t].status = "revoked"
  BY <1>1, <1>2 DEF StalenessInv, RowInv
<1> HIDE DEF RevokeRows
<1>5. CallInv'
  BY DEF StalenessInv, CallInv, CallFits, OthersSame
<1>6. RowInv'
  BY <1>4 DEF StalenessInv, RowInv, Never, Typed, StoresOK
<1>7. EntryInv'
  BY <1>3, <1>4, SessionAssumption
     DEF StalenessInv, EntryInv, Hit, Entry, Typed, StoresOK
<1>8. FillInv'
  BY <1>3, <1>4
     DEF StalenessInv, FillInv, CallInv, OthersSame, Expired, SessionCalls, Typed, LocalsOK
<1>9. AnswerInv'
  BY <1>3, <1>4, SessionAssumption
     DEF StalenessInv, AnswerInv, Expired, ResolvedWithinLifetime, BoundedStaleness,
         Typed, StoresOK
<1>10. InsertInv'
  BY <1>3 DEF StalenessInv, InsertInv, OthersSame, Typed, LocalsOK
<1>11. QED
  BY <1>5, <1>6, <1>7, <1>8, <1>9, <1>10 DEF StalenessInv
\* The invariant that explains how long a revoked session may still resolve
\* holds initially and is preserved by every step.
LEMMA Staleness == Spec => []StalenessInv
<1> USE SessionAssumption
<1>1. Init => StalenessInv
  BY DEF Init, StalenessInv, CallInv, RowInv, EntryInv, FillInv, AnswerInv, InsertInv,
         Hit, NoEntry, NoAnswer, ResolvedWithinLifetime, BoundedStaleness, Never,
         SessionCalls
<1>2. Typed /\ Typed' /\ StalenessInv /\ [Next]_vars => StalenessInv'
  <2> SUFFICES ASSUME Typed, Typed', StalenessInv, [Next]_vars PROVE StalenessInv'
    OBVIOUS
  <2>1. CASE Tick
    <3>1. CallInv'
      BY <2>1 DEF Tick, StalenessInv, CallInv, Typed, LocalsOK, StoresOK
    <3>2. RowInv' /\ FillInv' /\ InsertInv'
      BY <2>1 DEF Tick, StalenessInv, RowInv, FillInv, InsertInv, Issued, Expired,
                  Typed, StoresOK, Never
    <3>3. EntryInv'
      BY <2>1 DEF Tick, StalenessInv, EntryInv, Hit, Issued, Typed, StoresOK, Entry
    <3>4. AnswerInv'
      BY <2>1 DEF Tick, StalenessInv, AnswerInv, ResolvedWithinLifetime,
                  BoundedStaleness, Issued, Expired, Typed, StoresOK
    <3>5. QED
      BY <3>1, <3>2, <3>3, <3>4 DEF StalenessInv
  <2>2. CASE Cleanup
    <3>1. \A r \in Row :
            LET d == [r EXCEPT !.status = "deleted"] IN
            /\ d.status = "deleted"
            /\ d.idleExpiresAt = r.idleExpiresAt
            /\ d.expiresAt = r.expiresAt
      BY DEF Row
    <3>2. \A t \in Tokens :
            /\ rows'[t].idleExpiresAt = rows[t].idleExpiresAt
            /\ rows'[t].expiresAt = rows[t].expiresAt
            /\ \/ rows'[t].status = rows[t].status
               \/ rows'[t].status = "deleted" /\ rows[t].status \in {"active", "revoked"}
      BY <2>2, <3>1 DEF Cleanup, Ended, Typed, StoresOK
    <3>3. \A t \in Tokens : Issued(t)' <=> Issued(t)
      BY <3>2 DEF Issued
    <3>4. CallInv' /\ RowInv'
      BY <2>2, <3>2 DEF Cleanup, StalenessInv, CallInv, RowInv
    <3>5. EntryInv'
      BY <2>2, <3>2, <3>3 DEF Cleanup, StalenessInv, EntryInv, Hit
    <3>6. FillInv'
      BY <2>2, <3>2, <3>3 DEF Cleanup, StalenessInv, FillInv, Expired, Typed, LocalsOK,
                              SessionCalls
    <3>7. AnswerInv'
      BY <2>2, <3>2, <3>3 DEF Cleanup, StalenessInv, AnswerInv, ResolvedWithinLifetime,
                              BoundedStaleness, Expired, Typed, StoresOK
    <3>8. InsertInv'
      BY <2>2, <3>2 DEF Cleanup, StalenessInv, InsertInv, Typed, LocalsOK
    <3>9. QED
      BY <3>4, <3>5, <3>6, <3>7, <3>8 DEF StalenessInv
  <2>3. ASSUME NEW p \in Requests, NEW t \in Tokens, BeginCreate(p, t)
        PROVE  StalenessInv'
    <3>1. OthersSame(p) /\ CallFits(p) /\ pc'[p] = "insert" /\ token'[p] = t
      BY <2>3 DEF BeginCreate, Goto, OthersSame, CallFits, SessionCalls, Typed,
                  LocalsOK, StoresOK
    <3>2. QED
      BY <2>3, <3>1, LocalStep DEF BeginCreate
  <2>4. ASSUME NEW p \in Requests, NEW t \in Tokens,
               NEW m \in {"session", "logout"}, BeginSession(p, t, m)
        PROVE  StalenessInv'
    <3>1. OthersSame(p) /\ CallFits(p) /\ pc'[p] = "get"
      BY <2>4 DEF BeginSession, Goto, OthersSame, CallFits, Typed, LocalsOK, StoresOK
    <3>2. QED
      BY <2>4, <3>1, LocalStep DEF BeginSession
  <2>5. ASSUME NEW p \in Requests, NEW u \in Users, BeginRevokeForUser(p, u)
        PROVE  StalenessInv'
    <3>1. OthersSame(p) /\ CallFits(p) /\ pc'[p] \in {"list", "revokeScope"}
      BY <2>5 DEF BeginRevokeForUser, Goto, OthersSame, CallFits, SessionCalls,
                  StalenessInv, CallInv, Typed, LocalsOK, StoresOK
    <3>2. QED
      BY <2>5, <3>1, LocalStep DEF BeginRevokeForUser
  <2>6. ASSUME NEW p \in Requests, NEW S \in SUBSET Tokens, BeginInvalidate(p, S)
        PROVE  StalenessInv'
    <3>1. OthersSame(p) /\ CallFits(p) /\ pc'[p] = "list"
      BY <2>6 DEF BeginInvalidate, Goto, OthersSame, CallFits, SessionCalls,
                  StalenessInv, CallInv, Typed, LocalsOK, StoresOK
    <3>2. QED
      BY <2>6, <3>1, LocalStep DEF BeginInvalidate
  <2>7. ASSUME NEW p \in Requests, InsertSession(p) PROVE StalenessInv'
    <3>1. OthersSame(p) /\ CallFits(p) /\ pc'[p] = "idle"
      BY <2>7, ReturnStep DEF InsertSession
    <3>2. CASE UNCHANGED rows
      BY <2>7, <3>1, <3>2, LocalStep DEF InsertSession
    <3>3. CASE InsertRow(p)
      <4>1. /\ token[p] \in Tokens /\ rows[token[p]].status = "unissued"
            /\ endedAt[token[p]] = Never
            /\ rows'[token[p]].status \in {"active", "rejected"}
        BY <2>7, <3>3 DEF InsertSession, InsertRow, StalenessInv, InsertInv, RowInv,
                          Typed, LocalsOK, StoresOK
      <4>2. \A t \in Tokens \ {token[p]} : rows'[t] = rows[t]
        BY <3>3 DEF InsertRow, Typed, StoresOK
      <4>3. UNCHANGED <<clock, entries, answer, endedAt>>
        BY <2>7 DEF InsertSession
      <4>4. ~Issued(token[p])
        BY <4>1 DEF Issued
      <4>5. CallInv' /\ RowInv'
        BY <3>1, <4>1, <4>2, <4>3
           DEF StalenessInv, CallInv, RowInv, CallFits, OthersSame
      <4>6. EntryInv'
        BY <4>2, <4>3, <4>4 DEF StalenessInv, EntryInv, Hit, Issued
      <4>7. FillInv'
        BY <3>1, <4>2, <4>3, <4>4 DEF StalenessInv, FillInv, OthersSame, Issued, Expired,
           Typed, LocalsOK, SessionCalls
      <4>8. AnswerInv'
        BY <4>2, <4>3, <4>4 DEF StalenessInv, AnswerInv, ResolvedWithinLifetime,
           BoundedStaleness, Issued, Expired, Typed, StoresOK
      <4>9. InsertInv'
        BY <2>7, <3>1, <4>1, <4>2 DEF InsertSession, StalenessInv, InsertInv, OthersSame,
           Typed, LocalsOK
      <4>10. QED
        BY <4>5, <4>6, <4>7, <4>8, <4>9 DEF StalenessInv
    <3>4. QED
      BY <2>7, <3>2, <3>3 DEF InsertSession
  <2>8. ASSUME NEW p \in Requests, CacheHit(p) PROVE StalenessInv'
    <3>1. token[p] \in Tokens /\ Hit(token[p]) /\ pc[p] \in SessionCalls
      BY <2>8 DEF CacheHit, Typed, LocalsOK, SessionCalls
    <3>2. /\ Issued(token[p])
          /\ Expired(entries[token[p]], now[p]) <=> Expired(rows[token[p]], now[p])
          /\ endedAt[token[p]] # Never =>
               now[p] < endedAt[token[p]] + MaxLatency + SessionTTLCap
      BY <3>1 DEF StalenessInv, EntryInv, CallInv, Expired, Hit, Typed, LocalsOK,
                  StoresOK, Entry
    <3>3. QED
      BY <2>8, <3>1, <3>2, AnswerStep DEF CacheHit
  <2>9. ASSUME NEW p \in Requests, CacheMiss(p) PROVE StalenessInv'
    <3>1. OthersSame(p) /\ CallFits(p) /\ pc'[p] = "query"
      BY <2>9 DEF CacheMiss, Goto, OthersSame, CallFits, SessionCalls,
                  StalenessInv, CallInv, Typed, LocalsOK
    <3>2. QED
      BY <2>9, <3>1, LocalStep DEF CacheMiss
  <2>10. ASSUME NEW p \in Requests, ReadRowForCache(p) PROVE StalenessInv'
    <3>1. OthersSame(p) /\ CallFits(p) /\ pc'[p] = "fill"
      BY <2>10 DEF ReadRowForCache, Goto, OthersSame, CallFits, SessionCalls,
                   StalenessInv, CallInv, Typed, LocalsOK
    <3>2. Issued(token[p]) /\ ~Expired(rows[token[p]], now[p]) /\ endedAt[token[p]] = Never
      BY <2>10 DEF ReadRowForCache, StalenessInv, RowInv, Issued, Typed, LocalsOK,
                   SessionCalls
    <3>3. QED
      BY <2>10, <3>1, <3>2, LocalStep DEF ReadRowForCache
  <2>11. ASSUME NEW p \in Requests, ReadRowAndReturn(p) PROVE StalenessInv'
    <3>1. token[p] \in Tokens /\ pc[p] \in SessionCalls
      BY <2>11 DEF ReadRowAndReturn, Typed, LocalsOK, SessionCalls
    <3>2. rows[token[p]].status = "active" => endedAt[token[p]] = Never /\ Issued(token[p])
      BY <3>1 DEF StalenessInv, RowInv, Issued
    <3>3. QED
      BY <2>11, <3>1, <3>2, AnswerStep DEF ReadRowAndReturn
  <2>12. ASSUME NEW p \in Requests, ReadRowFails(p) PROVE StalenessInv'
    BY <2>12, ReturnStep, LocalStep DEF ReadRowFails
  <2>13. ASSUME NEW p \in Requests, FillCache(p) PROVE StalenessInv'
    <3> DEFINE t == token[p]
    <3>1. /\ t \in Tokens /\ pc[p] = "fill" /\ Resolve(p, t) /\ pc[p] \in SessionCalls
          /\ UNCHANGED <<clock, rows, endedAt>>
      BY <2>13 DEF FillCache, Typed, LocalsOK, SessionCalls
    <3>2. /\ Issued(t) /\ ~Expired(rows[t], now[p])
          /\ endedAt[t] # Never => now[p] <= endedAt[t]
          /\ now[p] <= clock /\ clock <= now[p] + MaxLatency
          /\ now[p] \in Nat /\ clock \in Nat /\ endedAt[t] \in Nat \cup {Never}
      BY <3>1 DEF StalenessInv, FillInv, CallInv, Typed, LocalsOK, StoresOK
    <3>3. endedAt[t] # Never => now[p] < endedAt[t] + MaxLatency + SessionTTLCap
      BY <3>2
    <3>4. CASE UNCHANGED entries
      BY <3>1, <3>2, <3>3, <3>4, AnswerStep
    <3>5. CASE entries' = [entries EXCEPT ![t] =
                             [until         |-> clock + CacheTTL(rows[t], now[p]),
                              idleExpiresAt |-> rows[t].idleExpiresAt,
                              expiresAt     |-> rows[t].expiresAt]]
      <4>1. /\ OthersSame(p) /\ CallFits(p) /\ pc'[p] \in {"idle", "revoke"}
            /\ answer' = [token |-> t, began |-> now[p]]
        BY <3>1, ResolveStep
      <4>2. CacheTTL(rows[t], now[p]) \in Int /\ CacheTTL(rows[t], now[p]) <= SessionTTLCap
        BY <3>1, <3>2 DEF CacheTTL, Typed, StoresOK, Row
      <4>3. EntryInv'
        BY <3>1, <3>2, <3>5, <4>2 DEF StalenessInv, EntryInv, Hit, Issued, Typed, StoresOK,
                                      Entry
      <4>4. CallInv' /\ RowInv'
        BY <3>1, <4>1 DEF StalenessInv, CallInv, RowInv, CallFits, OthersSame
      <4>5. FillInv' /\ InsertInv'
        BY <3>1, <4>1 DEF StalenessInv, FillInv, InsertInv, OthersSame, Issued, Expired
      <4>6. AnswerInv'
        BY <3>1, <3>2, <3>3, <4>1 DEF AnswerInv, ResolvedWithinLifetime,
           BoundedStaleness, Issued, Expired
      <4>7. QED
        BY <4>3, <4>4, <4>5, <4>6 DEF StalenessInv
    <3>6. QED
      BY <2>13, <3>4, <3>5 DEF FillCache
  <2>14. ASSUME NEW p \in Requests, Revoke(p) PROVE StalenessInv'
    <3>1. CASE Return(p) /\ UNCHANGED <<rows, endedAt>>
      BY <2>14, <3>1, ReturnStep, LocalStep DEF Revoke
    <3>2. CASE RevokeRows({token[p]}, stamp[p]) /\ ~Return(p)
      <4>1. OthersSame(p) /\ CallFits(p) /\ pc'[p] = "evict" /\ token[p] \in Tokens
        BY <2>14, <3>2 DEF Revoke, Goto, OthersSame, CallFits, SessionCalls,
                           StalenessInv, CallInv, Typed, LocalsOK
      <4>2. QED
        BY <2>14, <3>2, <4>1, RevokeStep DEF Revoke, Typed, LocalsOK
    <3>3. CASE RevokeRows({token[p]}, stamp[p]) /\ Return(p)
      BY <2>14, <3>3, ReturnStep, RevokeStep DEF Revoke, Typed, LocalsOK
    <3>4. QED
      BY <2>14, <3>1, <3>2, <3>3 DEF Revoke
  <2>15. ASSUME NEW p \in Requests, ListForRevocation(p) PROVE StalenessInv'
    <3>1. OthersSame(p) /\ CallFits(p) /\ pc'[p] = "revokeScope"
      BY <2>15 DEF ListForRevocation, Goto, OthersSame, CallFits, SessionCalls,
                   StalenessInv, CallInv, Typed, LocalsOK
    <3>2. QED
      BY <2>15, <3>1, LocalStep DEF ListForRevocation
  <2>16. ASSUME NEW p \in Requests, RevokeScope(p) PROVE StalenessInv'
    <3>1. CASE Return(p) /\ UNCHANGED <<rows, endedAt>>
      BY <2>16, <3>1, ReturnStep, LocalStep DEF RevokeScope
    <3>2. CASE RevokeRows(scope[p], stamp[p]) /\ ~Return(p)
      <4>1. OthersSame(p) /\ CallFits(p) /\ pc'[p] = "evict"
        BY <2>16, <3>2 DEF RevokeScope, Goto, OthersSame, CallFits, SessionCalls,
                           StalenessInv, CallInv, Typed, LocalsOK
      <4>2. QED
        BY <2>16, <3>2, <4>1, RevokeStep DEF RevokeScope, Typed, LocalsOK
    <3>3. CASE RevokeRows(scope[p], stamp[p]) /\ Return(p)
      BY <2>16, <3>3, ReturnStep, RevokeStep DEF RevokeScope, Typed, LocalsOK
    <3>4. QED
      BY <2>16, <3>1, <3>2, <3>3 DEF RevokeScope
  <2>17. ASSUME NEW p \in Requests, ListForInvalidation(p) PROVE StalenessInv'
    <3>1. CASE Return(p)
      BY <2>17, <3>1, ReturnStep, LocalStep DEF ListForInvalidation
    <3>2. CASE ~Return(p)
      <4>1. OthersSame(p) /\ CallFits(p) /\ pc'[p] = "evict"
        BY <2>17, <3>2 DEF ListForInvalidation, Goto, OthersSame, CallFits, SessionCalls,
                           StalenessInv, CallInv, Typed, LocalsOK
      <4>2. QED
        BY <2>17, <4>1, LocalStep DEF ListForInvalidation
    <3>3. QED
      BY <3>1, <3>2
  <2>18. ASSUME NEW p \in Requests, Evict(p) PROVE StalenessInv'
    <3>1. OthersSame(p) /\ CallFits(p) /\ pc'[p] = "idle"
      BY <2>18, ReturnStep DEF Evict
    <3>2. UNCHANGED <<clock, rows, endedAt, answer>>
      BY <2>18 DEF Evict
    <3>3. \A t \in Tokens : Hit(t)' => entries'[t] = entries[t] /\ Hit(t)
      BY <2>18 DEF Evict, Hit, NoEntry, Typed, StoresOK
    <3>4. CallInv' /\ RowInv'
      BY <3>1, <3>2 DEF StalenessInv, CallInv, RowInv, CallFits, OthersSame
    <3>5. EntryInv'
      BY <3>2, <3>3 DEF StalenessInv, EntryInv, Issued
    <3>6. FillInv' /\ InsertInv'
      BY <3>1, <3>2 DEF StalenessInv, FillInv, InsertInv, OthersSame, Issued, Expired
    <3>7. AnswerInv'
      BY <3>2 DEF StalenessInv, AnswerInv, ResolvedWithinLifetime, BoundedStaleness,
                  Issued, Expired
    <3>8. QED
      BY <3>4, <3>5, <3>6, <3>7 DEF StalenessInv
  <2>19. CASE UNCHANGED vars
    BY <2>19 DEF vars, StalenessInv, CallInv, RowInv, EntryInv, FillInv, AnswerInv,
       InsertInv, Hit, Issued, Expired, ResolvedWithinLifetime, BoundedStaleness
  <2>20. QED
    BY <2>1, <2>2, <2>3, <2>4, <2>5, <2>6, <2>7, <2>8, <2>9, <2>10, <2>11, <2>12,
       <2>13, <2>14, <2>15, <2>16, <2>17, <2>18, <2>19
       DEF Next, Begin, Call, InvalidateForUser, InvalidateForOrganization,
           UserSessions, OrganizationSessions
<1>3. TypeOK => Typed
  BY TypeSplit DEF Typed
<1>4. QED
  BY <1>1, <1>2, <1>3, Typing, PTL DEF Spec

\* A token resolves only within the lifetime of its session, whatever the cache
\* holds when the answer is read.
THEOREM LifetimeHolds == Spec => []ResolvedWithinLifetime
<1>1. StalenessInv => ResolvedWithinLifetime
  BY DEF StalenessInv, AnswerInv
<1>2. QED
  BY <1>1, Staleness, PTL

\* A revoked session resolves only for calls that begin less than MaxLatency
\* plus SessionTTLCap after the revocation, whatever fails meanwhile.
THEOREM StalenessBounded == Spec => []BoundedStaleness
<1>1. StalenessInv => BoundedStaleness
  BY DEF StalenessInv, AnswerInv
<1>2. QED
  BY <1>1, Staleness, PTL
-----------------------------------------------------------------------------
(* Why the cache may hold a revoked session.                               *)

\* Between the listing and the revocation every active session of the scope
\* has been listed or is known to have been missed; and a disabled cache is
\* empty.
EvictionInv ==
    /\ StaleEntryExplained
    /\ \A p \in Requests : pc[p] = "revokeScope" /\ CacheEnabled =>
         \A t \in scope[p] : rows[t].status = "active" => t \in hashes[p] \cup escaped
    /\ ~CacheEnabled => \A t \in Tokens : ~Hit(t)

\* A step of request p leaves what the others are about to revoke or evict alone.
OthersKeep(p) ==
    \A q \in Requests \ {p} :
        pc'[q] = pc[q] /\ hashes'[q] = hashes[q] /\ scope'[q] = scope[q]

\* A step that neither ends a session nor writes the cache, of a request that
\* is not evicting.
LEMMA QuietStep ==
    ASSUME Typed, Typed', EvictionInv, NEW p \in Requests, OthersKeep(p), pc[p] # "evict",
           UNCHANGED <<clock, entries, endedAt>>, escaped \subseteq escaped',
           \A t \in Tokens : rows'[t].status = "active" =>
              \/ rows[t].status = "active"
              \/ t \in escaped'
              \/ \A q \in Requests \ {p} : pc[q] = "revokeScope" => t \notin scope[q],
           pc'[p] = "revokeScope" /\ CacheEnabled =>
             \A t \in scope'[p] : rows'[t].status = "active" => t \in hashes'[p] \cup escaped'
    PROVE  EvictionInv'
<1> USE DEF Typed, LocalsOK, StoresOK
<1>1. StaleEntryExplained'
  BY DEF EvictionInv, StaleEntryExplained, OthersKeep, Hit
<1>2. ASSUME NEW q \in Requests, pc'[q] = "revokeScope", CacheEnabled,
             NEW t \in scope'[q], rows'[t].status = "active"
      PROVE  t \in hashes'[q] \cup escaped'
  BY <1>2 DEF EvictionInv, OthersKeep
<1>3. ~CacheEnabled => \A t \in Tokens : ~Hit(t)'
  BY DEF EvictionInv, Hit
<1>4. QED
  BY <1>1, <1>2, <1>3 DEF EvictionInv

\* A request whose method returns leaves the others alone.
LEMMA ReturnKeeps ==
    ASSUME Typed, NEW p \in Requests, Return(p)
    PROVE  OthersKeep(p) /\ pc'[p] = "idle"
BY DEF Typed, LocalsOK, Return, Goto, OthersKeep

\* So does one whose Session call resolves.
LEMMA ResolveKeeps ==
    ASSUME Typed, NEW p \in Requests, NEW t \in Tokens \cup {NoToken}, Resolve(p, t)
    PROVE  OthersKeep(p) /\ pc'[p] \in {"idle", "revoke"}
<1>1. CASE Return(p)
  BY <1>1, ReturnKeeps DEF Resolve
<1>2. CASE ~Return(p)
  BY <1>2 DEF Resolve, Typed, LocalsOK, Goto, OthersKeep
<1>3. QED
  BY <1>1, <1>2

\* Revoking the active sessions of S, all of them about to be evicted by p or
\* already known to have been missed.
LEMMA RevokeKeeps ==
    ASSUME Typed, Typed', EvictionInv, NEW p \in Requests, OthersKeep(p), pc'[p] = "evict",
           pc[p] # "evict", NEW S \in SUBSET Tokens, NEW at \in Nat, RevokeRows(S, at),
           UNCHANGED <<clock, entries, escaped>>,
           \A t \in S : rows[t].status = "active" /\ CacheEnabled
                          => t \in hashes'[p] \cup escaped
    PROVE  EvictionInv'
<1> USE DEF Typed, LocalsOK, StoresOK
<1>1. \A r \in Row : [r EXCEPT !.status = "revoked", !.updatedAt = at].status = "revoked"
  BY DEF Row
<1>2. \A t \in Tokens : rows'[t].status = "active" => rows[t].status = "active"
  BY <1>1 DEF RevokeRows, Active
<1>3. \A t \in Tokens : \/ endedAt'[t] = endedAt[t]
                        \/ t \in S /\ rows[t].status = "active"
  BY DEF RevokeRows, Active
<1>4. StaleEntryExplained'
  BY <1>3 DEF EvictionInv, StaleEntryExplained, OthersKeep, Hit
<1>5. ASSUME NEW q \in Requests, pc'[q] = "revokeScope", CacheEnabled,
             NEW t \in scope'[q], rows'[t].status = "active"
      PROVE  t \in hashes'[q] \cup escaped'
  BY <1>2, <1>5 DEF EvictionInv, OthersKeep
<1>6. ~CacheEnabled => \A t \in Tokens : ~Hit(t)'
  BY DEF EvictionInv, Hit
<1>7. QED
  BY <1>4, <1>5, <1>6 DEF EvictionInv

\* What explains the cache's content holds initially and is preserved by every
\* step.
LEMMA Eviction == Spec => []EvictionInv
<1>1. Init => EvictionInv
  BY DEF Init, EvictionInv, StaleEntryExplained, Hit, NoEntry
<1>2. Typed /\ Typed' /\ EvictionInv /\ [Next]_vars => EvictionInv'
  <2> SUFFICES ASSUME Typed, Typed', EvictionInv, [Next]_vars PROVE EvictionInv'
    OBVIOUS
  <2>1. CASE Tick
    BY <2>1 DEF Tick, EvictionInv, StaleEntryExplained, Hit, Typed, StoresOK, Entry
  <2>2. CASE Cleanup
    <3>1. \A r \in Row : [r EXCEPT !.status = "deleted"].status = "deleted"
      BY DEF Row
    <3>2. \A t \in Tokens : rows'[t].status = "active" => rows[t].status = "active"
      BY <2>2, <3>1 DEF Cleanup, Typed, StoresOK
    <3>3. QED
      BY <2>2, <3>2 DEF Cleanup, EvictionInv, StaleEntryExplained, Hit, Typed, LocalsOK
  <2>3. ASSUME NEW p \in Requests, NEW t \in Tokens, BeginCreate(p, t)
        PROVE  EvictionInv'
    <3>1. OthersKeep(p) /\ pc'[p] = "insert"
      BY <2>3 DEF BeginCreate, Goto, OthersKeep, Typed, LocalsOK
    <3>2. QED
      BY <2>3, <3>1, QuietStep DEF BeginCreate
  <2>4. ASSUME NEW p \in Requests, NEW t \in Tokens,
               NEW m \in {"session", "logout"}, BeginSession(p, t, m)
        PROVE  EvictionInv'
    <3>1. OthersKeep(p) /\ pc'[p] = "get"
      BY <2>4 DEF BeginSession, Goto, OthersKeep, Typed, LocalsOK
    <3>2. QED
      BY <2>4, <3>1, QuietStep DEF BeginSession
  <2>5. ASSUME NEW p \in Requests, NEW u \in Users, BeginRevokeForUser(p, u)
        PROVE  EvictionInv'
    <3>1. OthersKeep(p) /\ (CacheEnabled => pc'[p] = "list")
      BY <2>5 DEF BeginRevokeForUser, Goto, OthersKeep, Typed, LocalsOK
    <3>2. QED
      BY <2>5, <3>1, QuietStep DEF BeginRevokeForUser
  <2>6. ASSUME NEW p \in Requests, NEW S \in SUBSET Tokens, BeginInvalidate(p, S)
        PROVE  EvictionInv'
    <3>1. OthersKeep(p) /\ pc'[p] = "list"
      BY <2>6 DEF BeginInvalidate, Goto, OthersKeep, Typed, LocalsOK
    <3>2. QED
      BY <2>6, <3>1, QuietStep DEF BeginInvalidate
  <2>7. ASSUME NEW p \in Requests, InsertSession(p) PROVE EvictionInv'
    <3>1. OthersKeep(p) /\ pc'[p] = "idle" /\ pc[p] # "evict" /\ escaped \subseteq escaped'
      BY <2>7, ReturnKeeps DEF InsertSession
    <3>2. \A t \in Tokens \ {token[p]} : rows'[t] = rows[t]
      BY <2>7 DEF InsertSession, InsertRow, Typed, StoresOK
    <3>3. \/ UNCHANGED rows
          \/ token[p] \in escaped'
          \/ \A q \in Requests : pc[q] = "revokeScope" => token[p] \notin scope[q]
      BY <2>7 DEF InsertSession, MissedByList
    <3>4. QED
      BY <2>7, <3>1, <3>2, <3>3, QuietStep DEF InsertSession
  <2>8. ASSUME NEW p \in Requests, CacheHit(p) PROVE EvictionInv'
    <3>1. token[p] \in Tokens
      BY <2>8 DEF CacheHit, Typed, LocalsOK, SessionCalls
    <3>2. OthersKeep(p) /\ pc'[p] \in {"idle", "revoke"}
      BY <2>8, <3>1, ResolveKeeps DEF CacheHit
    <3>3. QED
      BY <2>8, <3>2, QuietStep DEF CacheHit
  <2>9. ASSUME NEW p \in Requests, CacheMiss(p) PROVE EvictionInv'
    <3>1. OthersKeep(p) /\ pc'[p] = "query"
      BY <2>9 DEF CacheMiss, Goto, OthersKeep, Typed, LocalsOK
    <3>2. QED
      BY <2>9, <3>1, QuietStep DEF CacheMiss
  <2>10. ASSUME NEW p \in Requests, ReadRowForCache(p) PROVE EvictionInv'
    <3>1. OthersKeep(p) /\ pc'[p] = "fill"
      BY <2>10 DEF ReadRowForCache, Goto, OthersKeep, Typed, LocalsOK
    <3>2. QED
      BY <2>10, <3>1, QuietStep DEF ReadRowForCache
  <2>11. ASSUME NEW p \in Requests, ReadRowAndReturn(p) PROVE EvictionInv'
    <3>1. token[p] \in Tokens
      BY <2>11 DEF ReadRowAndReturn, Typed, LocalsOK, SessionCalls
    <3>2. OthersKeep(p) /\ pc'[p] \in {"idle", "revoke"}
      BY <2>11, <3>1, ResolveKeeps DEF ReadRowAndReturn
    <3>3. QED
      BY <2>11, <3>2, QuietStep DEF ReadRowAndReturn
  <2>12. ASSUME NEW p \in Requests, ReadRowFails(p) PROVE EvictionInv'
    BY <2>12, ReturnKeeps, QuietStep DEF ReadRowFails
  <2>13. ASSUME NEW p \in Requests, FillCache(p) PROVE EvictionInv'
    <3>1. token[p] \in Tokens
      BY <2>13 DEF FillCache, Typed, LocalsOK, SessionCalls
    <3>2. OthersKeep(p) /\ pc'[p] \in {"idle", "revoke"} /\ pc[p] # "evict"
      BY <2>13, <3>1, ResolveKeeps DEF FillCache
    <3>3. CASE UNCHANGED <<entries, escaped>>
      BY <2>13, <3>2, <3>3, QuietStep DEF FillCache
    <3>4. CASE ~UNCHANGED <<entries, escaped>>
      <4>1. /\ CacheEnabled
            /\ \A t \in Tokens \ {token[p]} : entries'[t] = entries[t]
            /\ endedAt[token[p]] # Never => token[p] \in escaped'
            /\ escaped \subseteq escaped'
        BY <2>13, <3>4 DEF FillCache, Typed, StoresOK
      <4>2. StaleEntryExplained'
        BY <2>13, <3>2, <4>1 DEF FillCache, EvictionInv, StaleEntryExplained, OthersKeep,
                                 Hit
      <4>3. ASSUME NEW q \in Requests, pc'[q] = "revokeScope",
                   NEW t \in scope'[q], rows'[t].status = "active"
            PROVE  t \in hashes'[q] \cup escaped'
        BY <2>13, <3>2, <4>1, <4>3 DEF FillCache, EvictionInv, OthersKeep
      <4>4. QED
        BY <4>1, <4>2, <4>3 DEF EvictionInv
    <3>5. QED
      BY <3>3, <3>4
  <2>14. ASSUME NEW p \in Requests, Revoke(p) PROVE EvictionInv'
    <3>1. CASE Return(p) /\ UNCHANGED <<rows, endedAt>>
      BY <2>14, <3>1, ReturnKeeps, QuietStep DEF Revoke
    <3>2. CASE ~(Return(p) /\ UNCHANGED <<rows, endedAt>>)
      <4>1. /\ RevokeRows({token[p]}, stamp[p]) /\ token[p] \in Tokens /\ stamp[p] \in Nat
            /\ OthersKeep(p) /\ pc'[p] = "evict" /\ hashes'[p] = {token[p]}
        BY <2>14, <3>2 DEF Revoke, Goto, OthersKeep, Typed, LocalsOK
      <4>2. QED
        BY <2>14, <4>1, RevokeKeeps DEF Revoke
    <3>3. QED
      BY <3>1, <3>2
  <2>15. ASSUME NEW p \in Requests, ListForRevocation(p) PROVE EvictionInv'
    <3>1. OthersKeep(p) /\ pc'[p] = "revokeScope" /\ escaped \subseteq escaped'
      BY <2>15 DEF ListForRevocation, Goto, OthersKeep, Typed, LocalsOK
    <3>2. \A t \in scope'[p] : rows'[t].status = "active" => t \in hashes'[p] \cup escaped'
      BY <2>15 DEF ListForRevocation, Active, Typed, LocalsOK
    <3>3. QED
      BY <2>15, <3>1, <3>2, QuietStep DEF ListForRevocation
  <2>16. ASSUME NEW p \in Requests, RevokeScope(p) PROVE EvictionInv'
    <3>1. CASE Return(p) /\ UNCHANGED <<rows, endedAt>>
      BY <2>16, <3>1, ReturnKeeps, QuietStep DEF RevokeScope
    <3>2. CASE ~(Return(p) /\ UNCHANGED <<rows, endedAt>>)
      <4>1. /\ RevokeRows(scope[p], stamp[p]) /\ scope[p] \in SUBSET Tokens
            /\ stamp[p] \in Nat /\ OthersKeep(p) /\ pc'[p] = "evict"
            /\ hashes'[p] = hashes[p]
        BY <2>16, <3>2 DEF RevokeScope, Goto, OthersKeep, Typed, LocalsOK
      <4>2. \A t \in scope[p] : rows[t].status = "active" /\ CacheEnabled
                                  => t \in hashes'[p] \cup escaped
        BY <2>16, <4>1 DEF RevokeScope, EvictionInv
      <4>3. QED
        BY <2>16, <4>1, <4>2, RevokeKeeps DEF RevokeScope
    <3>3. QED
      BY <3>1, <3>2
  <2>17. ASSUME NEW p \in Requests, ListForInvalidation(p) PROVE EvictionInv'
    <3>1. CASE Return(p)
      BY <2>17, <3>1, ReturnKeeps, QuietStep DEF ListForInvalidation
    <3>2. CASE ~Return(p)
      <4>1. OthersKeep(p) /\ pc'[p] = "evict"
        BY <2>17, <3>2 DEF ListForInvalidation, Goto, OthersKeep, Typed, LocalsOK
      <4>2. QED
        BY <2>17, <4>1, QuietStep DEF ListForInvalidation
    <3>3. QED
      BY <3>1, <3>2
  <2>18. ASSUME NEW p \in Requests, Evict(p) PROVE EvictionInv'
    <3>1. OthersKeep(p) /\ pc'[p] = "idle" /\ escaped \subseteq escaped'
      BY <2>18, ReturnKeeps DEF Evict
    <3>2. \A t \in Tokens : Hit(t)' /\ endedAt[t] # Never =>
             Hit(t) /\ (t \notin hashes[p] \/ t \in escaped')
      BY <2>18 DEF Evict, Hit, NoEntry, Typed, StoresOK
    <3>3. StaleEntryExplained'
      BY <2>18, <3>1, <3>2 DEF Evict, EvictionInv, StaleEntryExplained, OthersKeep
    <3>4. ASSUME NEW q \in Requests, pc'[q] = "revokeScope", CacheEnabled,
                 NEW t \in scope'[q], rows'[t].status = "active"
          PROVE  t \in hashes'[q] \cup escaped'
      BY <2>18, <3>1, <3>4 DEF Evict, EvictionInv, OthersKeep
    <3>5. ~CacheEnabled => \A t \in Tokens : ~Hit(t)'
      BY <2>18 DEF Evict, EvictionInv, Hit, NoEntry, Typed, StoresOK
    <3>6. QED
      BY <3>3, <3>4, <3>5 DEF EvictionInv
  <2>19. CASE UNCHANGED vars
    BY <2>19 DEF vars, EvictionInv, StaleEntryExplained, Hit
  <2>20. QED
    BY <2>1, <2>2, <2>3, <2>4, <2>5, <2>6, <2>7, <2>8, <2>9, <2>10, <2>11, <2>12,
       <2>13, <2>14, <2>15, <2>16, <2>17, <2>18, <2>19
       DEF Next, Begin, Call, InvalidateForUser, InvalidateForOrganization,
           UserSessions, OrganizationSessions
<1>3. TypeOK => Typed
  BY TypeSplit
<1>4. QED
  BY <1>1, <1>2, <1>3, Typing, PTL DEF Spec

\* The cache holds a revoked session only for a reason the code accepts.
THEOREM StaleEntriesExplained == Spec => []StaleEntryExplained
<1>1. EvictionInv => StaleEntryExplained
  BY DEF EvictionInv
<1>2. QED
  BY <1>1, Eviction, PTL

\* Revoking sets the end of a session no earlier than any answer that was given.
LEMMA RevokedAfterAnswer ==
    ASSUME Typed, StalenessInv, UncachedRevocationImmediate,
           NEW S \in SUBSET Tokens, NEW at \in Nat, RevokeRows(S, at), UNCHANGED answer
    PROVE  UncachedRevocationImmediate'
BY DEF UncachedRevocationImmediate, RevokeRows, StalenessInv, AnswerInv, Typed, StoresOK

\* Without a cache an answer comes from a row that was active after its call
\* began, so that no call that begins after a revocation resolves the session.
THEOREM UncachedRevocation == Spec => []UncachedRevocationImmediate
<1>1. Init => UncachedRevocationImmediate
  BY DEF Init, NoAnswer, UncachedRevocationImmediate
<1>2. Typed /\ StalenessInv /\ EvictionInv /\ UncachedRevocationImmediate /\ [Next]_vars
        => UncachedRevocationImmediate'
  <2> SUFFICES ASSUME Typed, StalenessInv, EvictionInv, UncachedRevocationImmediate,
                      [Next]_vars
               PROVE  UncachedRevocationImmediate'
    OBVIOUS
  <2>1. CASE UNCHANGED <<answer, endedAt>>
    BY <2>1 DEF UncachedRevocationImmediate
  <2>2. ASSUME NEW p \in Requests, CacheHit(p) PROVE UncachedRevocationImmediate'
    <3>1. CacheEnabled
      BY <2>2 DEF CacheHit, EvictionInv, Typed, LocalsOK, SessionCalls
    <3>2. QED
      BY <3>1 DEF UncachedRevocationImmediate
  <2>3. ASSUME NEW p \in Requests, ReadRowAndReturn(p) PROVE UncachedRevocationImmediate'
    <3>1. token[p] \in Tokens
      BY <2>3 DEF ReadRowAndReturn, Typed, LocalsOK, SessionCalls
    <3>2. rows[token[p]].status = "active" => endedAt[token[p]] = Never
      BY <3>1 DEF StalenessInv, RowInv
    <3>3. QED
      BY <2>3, <3>1, <3>2 DEF ReadRowAndReturn, Resolve, UncachedRevocationImmediate
  <2>4. ASSUME NEW p \in Requests, FillCache(p) PROVE UncachedRevocationImmediate'
    <3>1. token[p] \in Tokens
      BY <2>4 DEF FillCache, Typed, LocalsOK, SessionCalls
    <3>2. QED
      BY <2>4, <3>1 DEF FillCache, Resolve, UncachedRevocationImmediate, StalenessInv, FillInv
  <2>5. ASSUME NEW p \in Requests, Revoke(p) PROVE UncachedRevocationImmediate'
    <3>1. token[p] \in Tokens /\ stamp[p] \in Nat
      BY <2>5 DEF Revoke, Typed, LocalsOK
    <3>2. QED
      BY <2>1, <2>5, <3>1, RevokedAfterAnswer DEF Revoke
  <2>6. ASSUME NEW p \in Requests, RevokeScope(p) PROVE UncachedRevocationImmediate'
    <3>1. scope[p] \in SUBSET Tokens /\ stamp[p] \in Nat
      BY <2>6 DEF Typed, LocalsOK
    <3>2. QED
      BY <2>1, <2>6, <3>1, RevokedAfterAnswer DEF RevokeScope
  <2>7. ASSUME NEW p \in Requests, Begin(p) PROVE UNCHANGED <<answer, endedAt>>
    BY <2>7 DEF Begin, BeginCreate, BeginSession, BeginRevokeForUser, InvalidateForUser,
                InvalidateForOrganization, BeginInvalidate
  <2>8. QED
    BY <2>1, <2>2, <2>3, <2>4, <2>5, <2>6, <2>7
       DEF Next, Call, Tick, Cleanup, InsertSession, CacheMiss, ReadRowForCache,
           ReadRowFails, ListForRevocation, ListForInvalidation, Evict, vars
<1>3. TypeOK => Typed
  BY TypeSplit
<1>4. QED
  BY <1>1, <1>2, <1>3, Typing, Staleness, Eviction, PTL DEF Spec
-----------------------------------------------------------------------------
(* The table as it is migrated.                                            *)

\* With the column as 00001_init.sql:81 declares it no row of sessions is ever
\* stored, whatever the requests do: Create's insert is the only way in, and it
\* leaves last_seen_at unset (session_service.go:128).
THEOREM NeverStored == Spec => []NothingStored
<1>1. Init => NothingStored
  <2> SUFFICES ASSUME Init, NEW t \in Tokens
               PROVE  rows[t].status \in {"unissued", "rejected"}
    BY DEF NothingStored
  <2>1. rows[t] = [status |-> "unissued", idleExpiresAt |-> 0, expiresAt |-> 0, updatedAt |-> 0]
    BY DEF Init
  <2>2. QED
    BY <2>1
<1>2. Typed /\ NothingStored /\ [Next]_vars => NothingStored'
  <2> SUFFICES ASSUME Typed, LastSeenRequired, [Next]_vars,
                      \A t \in Tokens : rows[t].status \in {"unissued", "rejected"}
               PROVE  \A t \in Tokens : rows'[t].status \in {"unissued", "rejected"}
    BY DEF NothingStored
  <2>1. CASE UNCHANGED rows
    BY <2>1
  <2>2. ASSUME NEW p \in Requests, InsertSession(p)
        PROVE  \A t \in Tokens : rows'[t].status \in {"unissued", "rejected"}
    <3>1. CASE InsertRow(p)
      BY <3>1 DEF InsertRow, Typed, StoresOK
    <3>2. QED
      BY <2>1, <2>2, <3>1 DEF InsertSession
  <2>3. CASE Cleanup
    BY <2>3 DEF Cleanup, Ended
  <2>4. ASSUME NEW p \in Requests, Revoke(p) \/ RevokeScope(p)
        PROVE  \A t \in Tokens : rows'[t].status \in {"unissued", "rejected"}
    BY <2>1, <2>4 DEF Revoke, RevokeScope, RevokeRows, Active
  <2>5. ASSUME NEW p \in Requests, Begin(p)
        PROVE  UNCHANGED rows
    BY <2>5 DEF Begin, BeginCreate, BeginSession, BeginRevokeForUser, InvalidateForUser,
                InvalidateForOrganization, BeginInvalidate
  <2>6. QED
    BY <2>1, <2>2, <2>3, <2>4, <2>5
       DEF Next, Call, Tick, CacheHit, CacheMiss, ReadRowForCache, ReadRowAndReturn,
           ReadRowFails, FillCache, ListForRevocation, ListForInvalidation, Evict, vars
<1>3. TypeOK => Typed
  BY TypeSplit
<1>4. QED
  BY <1>1, <1>2, <1>3, Typing, PTL DEF Spec
-----------------------------------------------------------------------------
(* The service implements the ledger.                                      *)

Sessions == [t \in Tokens |-> LedgerSession(t)]

LedgerStep == [Ledger!Next]_(Ledger!vars)

\* A step that changes neither rows nor answers is invisible in the ledger.
LEMMA Invisible ==
    ASSUME UNCHANGED <<clock, rows, endedAt, answer>>
    PROVE  LedgerStep
BY DEF LedgerStep, Ledger!vars, LedgerSession, LastValid, Issued

\* An answer the staleness invariant allows is an answer of the ledger.
LEMMA ResolveIsLedgerStep ==
    ASSUME Typed, Typed', StalenessInv, StalenessInv', NEW p \in Requests,
           NEW t \in Tokens \cup {NoToken}, Resolve(p, t), pc[p] \in SessionCalls,
           UNCHANGED <<clock, rows, endedAt>>
    PROVE  LedgerStep
<1>1. CASE t = NoToken
  BY <1>1, Invisible DEF Resolve
<1>2. CASE t # NoToken
  <2>1. answer' = [token |-> t, began |-> now[p]] /\ t \in Tokens
    BY <1>2, ResolveStep
  <2>2. /\ Issued(t) /\ ~Expired(rows[t], now[p])
        /\ endedAt[t] # Never => now[p] < endedAt[t] + MaxLatency + SessionTTLCap
    BY <1>2, <2>1 DEF StalenessInv, AnswerInv, ResolvedWithinLifetime, BoundedStaleness,
                      Issued, Expired
  <2>3. /\ now[p] \in 0..clock /\ rows[t] \in Row /\ now[p] \in Nat
        /\ endedAt[t] \in Nat \cup {Never}
    BY <2>1 DEF StalenessInv, CallInv, Typed, LocalsOK, StoresOK
  <2>4. /\ Sessions[t].state # "unissued"
        /\ now[p] <= Sessions[t].lastValid
        /\ Sessions[t].revokedAt # Never =>
             now[p] < Sessions[t].revokedAt + (MaxLatency + SessionTTLCap)
    BY <2>1, <2>2, <2>3, SessionAssumption
       DEF Sessions, LedgerSession, LastValid, Issued, Expired, Row
  <2>5. UNCHANGED <<clock, Sessions>>
    BY DEF Sessions, LedgerSession, LastValid, Issued
  <2>6. Ledger!Resolve(t, now[p])
    BY <2>1, <2>4, <2>5 DEF Ledger!Resolve, Ledger!Never, Never, Sessions
  <2>7. QED
    BY <2>1, <2>3, <2>6 DEF LedgerStep, Ledger!Next
<1>3. QED
  BY <1>1, <1>2

\* Revoking rows is the ledger's Revoke of those that were active.
LEMMA RevokeIsLedgerStep ==
    ASSUME Typed, Typed', NEW S \in SUBSET Tokens, NEW at \in Nat, RevokeRows(S, at),
           UNCHANGED <<clock, answer>>
    PROVE  LedgerStep
<1> DEFINE Revoked(r) == [r EXCEPT !.status = "revoked", !.updatedAt = at]
<1>1. \A r \in Row : /\ Revoked(r).status = "revoked"
                     /\ Revoked(r).idleExpiresAt = r.idleExpiresAt
                     /\ Revoked(r).expiresAt = r.expiresAt
  BY DEF Row
<1>2. \A t \in Tokens :
        /\ rows[t] \in Row
        /\ rows'[t] = IF t \in Active(S) THEN Revoked(rows[t]) ELSE rows[t]
        /\ endedAt'[t] = IF t \in Active(S) THEN clock ELSE endedAt[t]
  BY DEF RevokeRows, Typed, StoresOK
<1> HIDE DEF Revoked
<1>3. \A t \in Active(S) :
        /\ t \in Tokens
        /\ Sessions[t].state = "active"
        /\ Sessions'[t] = [state     |-> "revoked",
                           lastValid |-> Sessions[t].lastValid,
                           revokedAt |-> clock]
  <2> SUFFICES ASSUME NEW t \in Active(S)
               PROVE  /\ t \in Tokens
                      /\ Sessions[t].state = "active"
                      /\ Sessions'[t] = [state     |-> "revoked",
                                         lastValid |-> Sessions[t].lastValid,
                                         revokedAt |-> clock]
    OBVIOUS
  <2>1. t \in Tokens /\ rows[t].status = "active"
    BY DEF Active
  <2>2. Sessions[t] = [state |-> "active", lastValid |-> LastValid(rows[t]),
                       revokedAt |-> endedAt[t]]
    BY <2>1 DEF Sessions, LedgerSession, Issued
  <2>3. Sessions'[t] = [state |-> "revoked", lastValid |-> LastValid(rows[t]),
                        revokedAt |-> clock]
    BY <1>1, <1>2, <2>1 DEF Sessions, LedgerSession, Issued, LastValid
  <2>4. QED
    BY <2>1, <2>2, <2>3
<1>4. \A t \in Tokens \ Active(S) : Sessions'[t] = Sessions[t]
  BY <1>2 DEF Sessions, LedgerSession, Issued, LastValid
<1>5. Sessions' = [t \in Tokens |->
                     IF t \in Active(S)
                     THEN [state     |-> "revoked",
                           lastValid |-> Sessions[t].lastValid,
                           revokedAt |-> clock]
                     ELSE Sessions[t]]
  BY <1>3, <1>4 DEF Sessions
<1>6. Ledger!Revoke(Active(S))
  BY <1>3, <1>5 DEF Ledger!Revoke, Sessions
<1>7. QED
  BY <1>3, <1>6 DEF LedgerStep, Ledger!Next

\* Every behaviour of the service is a behaviour of the ledger, with a grace
\* period of MaxLatency plus SessionTTLCap.
THEOREM Refinement == Spec => ImplementsLedger
<1>1. Init => Ledger!Init
  BY DEF Init, Ledger!Init, LedgerSession, Issued, NoAnswer, Ledger!Unissued,
         Ledger!Never, Never
<1>2. Typed /\ Typed' /\ StalenessInv /\ StalenessInv' /\ [Next]_vars => LedgerStep
  <2> SUFFICES ASSUME Typed, Typed', StalenessInv, StalenessInv', [Next]_vars
               PROVE  LedgerStep
    OBVIOUS
  <2>1. CASE Tick
    BY <2>1 DEF Tick, LedgerStep, Ledger!Next, Ledger!Tick, LedgerSession, LastValid,
                Issued
  <2>2. CASE Cleanup
    <3> DEFINE S == {t \in Tokens : Ended(t)}
    <3>1. \A r \in Row :
            LET d == [r EXCEPT !.status = "deleted"] IN
            /\ d.status = "deleted"
            /\ d.idleExpiresAt = r.idleExpiresAt
            /\ d.expiresAt = r.expiresAt
      BY DEF Row
    <3>2. \A t \in S :
            /\ t \in Tokens
            /\ rows[t] \in Row
            /\ \/ rows[t].status = "revoked"
               \/ rows[t].status = "active" /\ rows[t].expiresAt < clock - Retention
            /\ rows'[t] = [rows[t] EXCEPT !.status = "deleted"]
      BY <2>2 DEF Cleanup, Ended, Typed, StoresOK
    <3>3. \A t \in S :
            /\ \/ Sessions[t].state = "revoked"
               \/ Sessions[t].state = "active" /\ Sessions[t].lastValid < clock
            /\ Sessions'[t] = [Sessions[t] EXCEPT !.state = "deleted"]
      <4> SUFFICES ASSUME NEW t \in S
                   PROVE  /\ \/ Sessions[t].state = "revoked"
                             \/ /\ Sessions[t].state = "active"
                                /\ Sessions[t].lastValid < clock
                          /\ Sessions'[t] = [Sessions[t] EXCEPT !.state = "deleted"]
        OBVIOUS
      <4>1. Sessions[t] = [state |-> rows[t].status, lastValid |-> LastValid(rows[t]),
                           revokedAt |-> endedAt[t]]
        BY <3>2 DEF Sessions, LedgerSession, Issued
      <4>2. Sessions'[t] = [state |-> "deleted", lastValid |-> LastValid(rows[t]),
                            revokedAt |-> endedAt[t]]
        BY <2>2, <3>1, <3>2 DEF Cleanup, Sessions, LedgerSession, Issued, LastValid
      <4>3. rows[t].expiresAt < clock - Retention => LastValid(rows[t]) < clock
        BY <3>2, SessionAssumption DEF LastValid, Row, Typed, StoresOK
      <4>4. [Sessions[t] EXCEPT !.state = "deleted"]
              = [state |-> "deleted", lastValid |-> LastValid(rows[t]),
                 revokedAt |-> endedAt[t]]
        BY <4>1
      <4>5. Sessions[t].state = rows[t].status /\ Sessions[t].lastValid = LastValid(rows[t])
        BY <4>1
      <4>6. QED
        BY <3>2, <4>2, <4>3, <4>4, <4>5
    <3>4. \A t \in Tokens \ S : Sessions'[t] = Sessions[t]
      BY <2>2 DEF Cleanup, Sessions, LedgerSession, Issued, LastValid
    <3>5. Sessions' = [t \in Tokens |-> IF t \in S
                                        THEN [Sessions[t] EXCEPT !.state = "deleted"]
                                        ELSE Sessions[t]]
      BY <3>3, <3>4 DEF Sessions
    <3>6. Ledger!Purge(S)
      BY <2>2, <3>3, <3>5 DEF Cleanup, Ledger!Purge, Sessions
    <3>7. QED
      BY <3>6 DEF LedgerStep, Ledger!Next
  <2>3. ASSUME NEW p \in Requests, Begin(p) PROVE LedgerStep
    BY <2>3, Invisible DEF Begin, BeginCreate, BeginSession, BeginRevokeForUser,
       InvalidateForUser, InvalidateForOrganization, BeginInvalidate
  <2>4. ASSUME NEW p \in Requests, InsertSession(p) PROVE LedgerStep
    <3> DEFINE t == token[p]
    <3>1. /\ t \in Tokens /\ rows[t].status = "unissued" /\ endedAt[t] = Never
          /\ UNCHANGED <<clock, answer, endedAt>>
      BY <2>4 DEF InsertSession, StalenessInv, InsertInv, RowInv, Typed, LocalsOK, StoresOK
    <3>2. Sessions[t] = Ledger!Unissued
      BY <3>1 DEF Sessions, LedgerSession, Issued, Ledger!Unissued, Ledger!Never, Never
    <3>3. CASE UNCHANGED rows
      BY <3>1, <3>3, Invisible
    <3>4. CASE InsertRow(p)
      <4>1. \A s \in Tokens \ {t} : Sessions'[s] = Sessions[s]
        BY <3>1, <3>4 DEF InsertRow, Sessions, LedgerSession, Issued, LastValid, Typed,
                          StoresOK
      <4>2. CASE LastSeenRequired
        <5>1. Sessions'[t] = Sessions[t]
          BY <3>1, <3>4, <4>2 DEF InsertRow, Sessions, LedgerSession, Issued, Typed,
                                  StoresOK
        <5>2. UNCHANGED Sessions
          BY <4>1, <5>1 DEF Sessions
        <5>3. QED
          BY <3>1, <5>2 DEF LedgerStep, Ledger!vars, Sessions
      <4>3. CASE ~LastSeenRequired
        <5>1. rows'[t].status = "active" /\ rows'[t] \in Row
          BY <3>1, <3>4, <4>3 DEF InsertRow, Typed, StoresOK
        <5>2. Sessions'[t] = [state |-> "active", lastValid |-> LastValid(rows'[t]),
                              revokedAt |-> Never]
          BY <3>1, <5>1 DEF Sessions, LedgerSession, Issued
        <5>3. LastValid(rows'[t]) \in Nat
          BY <5>1 DEF LastValid, Row
        <5>4. Sessions' = [Sessions EXCEPT ![t] = [state     |-> "active",
                                                   lastValid |-> Sessions'[t].lastValid,
                                                   revokedAt |-> Never]]
          <6>1. Sessions'[t].lastValid = LastValid(rows'[t])
            BY <5>2
          <6>2. /\ Sessions = [s \in Tokens |-> Sessions[s]]
                /\ Sessions' = [s \in Tokens |-> Sessions'[s]]
            BY DEF Sessions
          <6>3. QED
            BY <3>1, <4>1, <5>2, <6>1, <6>2
        <5>5. Ledger!Issue(t)
          BY <3>1, <3>2, <5>2, <5>3, <5>4
             DEF Ledger!Issue, Ledger!Unissued, Ledger!Never, Never, Sessions
        <5>6. QED
          BY <3>1, <5>5 DEF LedgerStep, Ledger!Next
      <4>4. QED
        BY <4>2, <4>3
    <3>5. QED
      BY <2>4, <3>3, <3>4 DEF InsertSession
  <2>5. ASSUME NEW p \in Requests, CacheHit(p) \/ ReadRowAndReturn(p) \/ FillCache(p)
        PROVE  LedgerStep
    <3>1. token[p] \in Tokens /\ pc[p] \in SessionCalls /\ UNCHANGED <<clock, rows, endedAt>>
      BY <2>5 DEF CacheHit, ReadRowAndReturn, FillCache, Typed, LocalsOK, SessionCalls
    <3>2. \E t \in Tokens \cup {NoToken} : Resolve(p, t)
      BY <2>5, <3>1 DEF CacheHit, ReadRowAndReturn, FillCache
    <3>3. QED
      BY <3>1, <3>2, ResolveIsLedgerStep
  <2>6. ASSUME NEW p \in Requests,
               CacheMiss(p) \/ ReadRowForCache(p) \/ ReadRowFails(p)
                 \/ ListForRevocation(p) \/ ListForInvalidation(p) \/ Evict(p)
        PROVE  LedgerStep
    BY <2>6, Invisible DEF CacheMiss, ReadRowForCache, ReadRowFails, ListForRevocation,
       ListForInvalidation, Evict
  <2>7. ASSUME NEW p \in Requests, Revoke(p) \/ RevokeScope(p) PROVE LedgerStep
    <3>1. CASE UNCHANGED <<rows, endedAt>>
      BY <2>7, <3>1, Invisible DEF Revoke, RevokeScope
    <3>2. CASE ~UNCHANGED <<rows, endedAt>>
      <4>1. PICK S \in SUBSET Tokens : RevokeRows(S, stamp[p])
        BY <2>7, <3>2 DEF Revoke, RevokeScope, Typed, LocalsOK
      <4>2. stamp[p] \in Nat /\ UNCHANGED <<clock, answer>>
        BY <2>7 DEF Revoke, RevokeScope, Typed, LocalsOK
      <4>3. QED
        BY <4>1, <4>2, RevokeIsLedgerStep
    <3>3. QED
      BY <3>1, <3>2
  <2>8. CASE UNCHANGED vars
    BY <2>8, Invisible DEF vars
  <2>9. QED
    BY <2>1, <2>2, <2>3, <2>4, <2>5, <2>6, <2>7, <2>8 DEF Next, Call
<1>3. TypeOK => Typed
  BY TypeSplit
<1>4. QED
  BY <1>1, <1>2, <1>3, Typing, Staleness, PTL
     DEF Spec, ImplementsLedger, Ledger!Spec, LedgerStep
=============================================================================

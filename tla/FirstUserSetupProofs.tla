------------------------- MODULE FirstUserSetupProofs -------------------------
(***************************************************************************)
(* Proofs about FirstUserSetup for any number of requests, addresses and   *)
(* interleavings: types, that the instance is set up once and whole, and   *)
(* what the answers and sessions it gives out mean.                        *)
(***************************************************************************)
EXTENDS FirstUserSetup, TLAPS

\* Two open transactions never hold the same unique key.
LocksExclusive ==
    \A p, q \in Requests :
        p # q => \A r \in Written(p), s \in Written(q) : ~SameKey(r, s)

\* No open transaction holds a key that is committed already.
WrittenIsNew ==
    \A p \in Requests : \A r \in Written(p), s \in rows : ~SameKey(r, s)

SetupInv == TypeOK /\ LocksExclusive /\ WrittenIsNew /\ OneCompleteSetup

LEMMA TablesFacts ==
    /\ Len(Tables) = 5
    /\ DOMAIN Tables = 1..5
    /\ Tables[3] = "organizations"
BY DEF Tables

\* What a request has inserted follows from where it is and from its step.
LEMMA WrittenFacts ==
    ASSUME TypeOK, NEW p \in Requests
    PROVE  /\ pc[p] \notin {"insert", "commit"} => Written(p) = {}
           /\ pc[p] = "commit" => Written(p) = {Row(p, i) : i \in DOMAIN Tables}
           /\ Written(p) \subseteq {Row(p, i) : i \in DOMAIN Tables}
<1>1. step[p] \in 1..6 /\ DOMAIN Tables = 1..5
  BY TablesFacts DEF TypeOK
<1>2. CASE pc[p] = "count"
  <2>1. Written(p) = {}
    BY <1>2, SMT DEF Written, TypeOK
  <2>2. QED
    BY <1>2, <2>1
<1>3. CASE pc[p] = "insert"
  BY <1>1, <1>3 DEF Written, InTransaction
<1>4. CASE pc[p] = "commit"
  BY <1>1, <1>4, TablesFacts DEF Written, InTransaction, TypeOK
<1>5. CASE ~InTransaction(p)
  BY <1>5 DEF Written, InTransaction
<1>6. QED
  BY <1>2, <1>3, <1>4, <1>5 DEF InTransaction

\* Every request's default organization has the same key.
LEMMA SlugClashes ==
    ASSUME NEW p, NEW q
    PROVE  SameKey(Row(p, 3), Row(q, 3))
BY TablesFacts DEF SameKey, Row, KeyOf

-----------------------------------------------------------------------------
\* The types hold and every step keeps them.
LEMMA TypeStep == TypeOK /\ [Next]_vars => TypeOK'
<1> SUFFICES ASSUME TypeOK, [Next]_vars
             PROVE  TypeOK'
  OBVIOUS
<1> USE TablesFacts DEF TypeOK
<1>1. CASE UNCHANGED vars
  BY <1>1 DEF vars, Row, KeyOf
<1>2. CASE Crash
  BY <1>2 DEF Crash, Row, KeyOf
<1>3. ASSUME NEW p \in Requests, Begin(p)
      PROVE  TypeOK'
  BY <1>3 DEF Begin, Goto, Answer
<1>4. ASSUME NEW p \in Requests, CountUsers(p)
      PROVE  TypeOK'
  BY <1>4 DEF CountUsers, Goto, Answer
<1>5. ASSUME NEW p \in Requests, Insert(p)
      PROVE  TypeOK'
  BY <1>5 DEF Insert, Goto, Answer
<1>6. ASSUME NEW p \in Requests, Commit(p)
      PROVE  TypeOK'
  <2>1. rows' \subseteq {Row(q, i) : q \in Requests, i \in DOMAIN Tables}
    BY <1>6, WrittenFacts DEF Commit
  <2>2. QED
    BY <1>6, <2>1 DEF Commit, Goto, Answer
<1>7. ASSUME NEW p \in Requests, PublishEvent(p)
      PROVE  TypeOK'
  BY <1>7 DEF PublishEvent, Goto, Answer
<1>8. ASSUME NEW p \in Requests, CreateSession(p)
      PROVE  TypeOK'
  BY <1>8 DEF CreateSession, Goto, Answer
<1>9. ASSUME NEW p \in Requests, Respond(p)
      PROVE  TypeOK'
  BY <1>9 DEF Respond, Goto, Answer
<1>10. QED
  BY <1>1, <1>2, <1>3, <1>4, <1>5, <1>6, <1>7, <1>8, <1>9 DEF Next, Progress

\* Every reachable state is well typed, and a transaction commits only after its
\* last insert.
THEOREM Typing == Spec => []TypeOK
<1>1. Init => TypeOK
  BY TablesFacts DEF Init, TypeOK
<1>2. QED
  BY <1>1, TypeStep, PTL DEF Spec

-----------------------------------------------------------------------------
\* A step that commits nothing, and in which no transaction gains a row, keeps
\* the invariant: it can only release locks.
LEMMA ReleaseKeeps ==
    ASSUME SetupInv, TypeOK', rows' = rows,
           \A q \in Requests : Written(q)' \subseteq Written(q)
    PROVE  SetupInv'
<1>1. LocksExclusive'
  BY DEF SetupInv, LocksExclusive, SameKey
<1>2. WrittenIsNew'
  BY DEF SetupInv, WrittenIsNew, SameKey
<1>3. OneCompleteSetup'
  BY DEF SetupInv, OneCompleteSetup, Row, KeyOf
<1>4. QED
  BY <1>1, <1>2, <1>3 DEF SetupInv

\* An answer ends the transaction; a request outside one has written nothing.
LEMMA MoveReleases ==
    ASSUME TypeOK, TypeOK', NEW p \in Requests, UNCHANGED step,
           NEW l \in {"count", "insert", "publish", "session", "respond", "done"},
           pc' = [pc EXCEPT ![p] = l],
           l = "insert" => pc[p] = "count"
    PROVE  \A q \in Requests : Written(q)' \subseteq Written(q)
<1> SUFFICES ASSUME NEW q \in Requests
             PROVE  Written(q)' \subseteq Written(q)
  OBVIOUS
<1>1. CASE q # p
  <2>1. pc'[q] = pc[q] /\ step'[q] = step[q]
    BY <1>1 DEF TypeOK
  <2>2. Written(q)' = Written(q)
    BY <2>1 DEF Written, InTransaction, Row, KeyOf
  <2>3. QED
    BY <2>2
<1>2. CASE q = p /\ l \in {"count", "insert"}
  <2>1. step'[p] = 1
    <3>1. pc'[p] = l
      BY DEF TypeOK
    <3>2. QED
      BY <1>2, <3>1 DEF TypeOK
  <2>2. 1..(step'[p] - 1) = {}
    BY <2>1
  <2>3. Written(p)' = {}
    BY <2>2 DEF Written
  <2>4. QED
    BY <1>2, <2>3
<1>3. CASE q = p /\ l \notin {"count", "insert"}
  BY <1>3 DEF TypeOK, Written, InTransaction
<1>4. QED
  BY <1>1, <1>2, <1>3

\* So a request that only moves on, or is answered, keeps the invariant.
LEMMA MoveKeeps ==
    ASSUME SetupInv, TypeOK', NEW p \in Requests, UNCHANGED <<rows, step>>,
           NEW l \in {"count", "insert", "publish", "session", "respond", "done"},
           pc' = [pc EXCEPT ![p] = l],
           l = "insert" => pc[p] = "count"
    PROVE  SetupInv'
<1>1. \A q \in Requests : Written(q)' \subseteq Written(q)
  BY MoveReleases DEF SetupInv
<1>2. QED
  BY <1>1, ReleaseKeeps

\* A commit finds the table empty: a committed setup would hold the slug that the
\* committing transaction has just inserted.
LEMMA CommitKeeps ==
    ASSUME SetupInv, TypeOK', NEW p \in Requests, pc[p] = "commit", UNCHANGED step,
           rows' = rows \cup Written(p),
           NEW l \in {"publish", "done"}, pc' = [pc EXCEPT ![p] = l]
    PROVE  SetupInv'
<1>1. Written(p) = {Row(p, i) : i \in DOMAIN Tables}
  BY WrittenFacts DEF SetupInv
<1>2. Row(p, 3) \in Written(p)
  BY <1>1, TablesFacts
<1>3. rows = {}
  <2> SUFFICES ASSUME NEW r \in rows
               PROVE  FALSE
    OBVIOUS
  <2>1. Row(r.owner, 3) \in rows
    BY TablesFacts DEF SetupInv, OneCompleteSetup
  <2>2. QED
    BY <1>2, <2>1, SlugClashes DEF SetupInv, WrittenIsNew
<1>4. Written(p)' = {}
  BY DEF SetupInv, TypeOK, Written, InTransaction
<1>5. \A q \in Requests \ {p} : Written(q)' = Written(q)
  BY DEF SetupInv, TypeOK, Written, InTransaction, Row, KeyOf
<1>6. \A q \in Requests : Written(q)' \subseteq Written(q)
  BY <1>4, <1>5
<1>7. LocksExclusive'
  BY <1>6 DEF SetupInv, LocksExclusive, SameKey
<1>8. WrittenIsNew'
  <2> SUFFICES ASSUME NEW q \in Requests, NEW r \in Written(q)', NEW s \in rows'
               PROVE  ~SameKey(r, s)
    BY DEF WrittenIsNew, SameKey
  <2>1. q # p /\ r \in Written(q) /\ s \in Written(p)
    BY <1>3, <1>4, <1>6
  <2>2. QED
    BY <2>1 DEF SetupInv, LocksExclusive, SameKey
<1>9. OneCompleteSetup'
  <2>1. \A r \in rows' : r.owner = p
    BY <1>1, <1>3 DEF Row
  <2>2. \A i \in DOMAIN Tables : Row(p, i) \in rows'
    BY <1>1
  <2>3. QED
    BY <2>1, <2>2 DEF OneCompleteSetup, Row, KeyOf
<1>10. QED
  BY <1>7, <1>8, <1>9 DEF SetupInv

\* An insert that goes through adds one row, whose key nobody holds.
LEMMA InsertKeeps ==
    ASSUME SetupInv, TypeOK', NEW p \in Requests, pc[p] = "insert",
           Unlocked(p), ~Duplicate(p), rows' = rows,
           step' = [step EXCEPT ![p] = @ + 1],
           NEW l \in {"insert", "commit"}, pc' = [pc EXCEPT ![p] = l]
    PROVE  SetupInv'
<1> DEFINE new == Row(p, step[p])
<1>1. Written(p)' = Written(p) \cup {new}
  <2>1. step[p] \in 1..6 /\ step'[p] = step[p] + 1
    BY TablesFacts DEF SetupInv, TypeOK
  <2>2. InTransaction(p) /\ InTransaction(p)'
    BY DEF InTransaction, SetupInv, TypeOK
  <2>3. 1..(step'[p] - 1) = 1..(step[p] - 1) \cup {step[p]}
    BY <2>1
  <2>4. QED
    BY <2>2, <2>3 DEF Written, Row, KeyOf
<1>2. \A q \in Requests \ {p} : Written(q)' = Written(q)
  BY DEF SetupInv, TypeOK, Written, InTransaction, Row, KeyOf
<1>3. \A q \in Requests \ {p} : \A r \in Written(q) : ~SameKey(r, new) /\ ~SameKey(new, r)
  BY DEF Unlocked, SameKey
<1>4. \A r \in rows : ~SameKey(new, r)
  BY DEF Duplicate, SameKey
<1> HIDE DEF new
<1>5. LocksExclusive'
  BY <1>1, <1>2, <1>3 DEF SetupInv, LocksExclusive, SameKey
<1>6. WrittenIsNew'
  BY <1>1, <1>2, <1>4 DEF SetupInv, WrittenIsNew, SameKey
<1>7. OneCompleteSetup'
  BY DEF SetupInv, OneCompleteSetup, Row, KeyOf
<1>8. QED
  BY <1>5, <1>6, <1>7 DEF SetupInv

LEMMA SetupStep == SetupInv /\ [Next]_vars => SetupInv'
<1> SUFFICES ASSUME SetupInv, [Next]_vars
             PROVE  SetupInv'
  OBVIOUS
<1>0. TypeOK /\ TypeOK'
  BY TypeStep DEF SetupInv
<1>1. CASE UNCHANGED vars
  <2>1. \A q \in Requests : Written(q)' = Written(q)
    BY <1>1 DEF vars, Written, InTransaction, Row, KeyOf
  <2>2. QED
    BY <1>0, <1>1, <2>1, ReleaseKeeps DEF vars
<1>2. CASE Crash
  <2>1. \A q \in Requests : Written(q)' = {}
    BY <1>2 DEF Crash, Written, InTransaction
  <2>2. QED
    BY <1>0, <1>2, <2>1, ReleaseKeeps DEF Crash
<1>3. ASSUME NEW p \in Requests, Begin(p)
      PROVE  SetupInv'
  <2>1. CASE pc' = [pc EXCEPT ![p] = "count"]
    BY <1>0, <1>3, <2>1, MoveKeeps DEF Begin
  <2>2. CASE pc' = [pc EXCEPT ![p] = "done"]
    BY <1>0, <1>3, <2>2, MoveKeeps DEF Begin
  <2>3. QED
    BY <1>3, <2>1, <2>2 DEF Begin, Goto, Answer
<1>4. ASSUME NEW p \in Requests, CountUsers(p)
      PROVE  SetupInv'
  <2>1. CASE pc' = [pc EXCEPT ![p] = "insert"]
    BY <1>0, <1>4, <2>1, MoveKeeps DEF CountUsers
  <2>2. CASE pc' = [pc EXCEPT ![p] = "done"]
    BY <1>0, <1>4, <2>2, MoveKeeps DEF CountUsers
  <2>3. QED
    BY <1>4, <2>1, <2>2 DEF CountUsers, Goto, Answer
<1>5. ASSUME NEW p \in Requests, Insert(p)
      PROVE  SetupInv'
  <2>1. CASE ~Duplicate(p) /\ step' = [step EXCEPT ![p] = @ + 1]
             /\ Goto(p, IF step[p] = Len(Tables) THEN "commit" ELSE "insert")
    <3>1. CASE pc' = [pc EXCEPT ![p] = "commit"]
      BY <1>0, <1>5, <2>1, <3>1, InsertKeeps DEF Insert
    <3>2. CASE pc' = [pc EXCEPT ![p] = "insert"]
      BY <1>0, <1>5, <2>1, <3>2, InsertKeeps DEF Insert
    <3>3. QED
      BY <2>1, <3>1, <3>2 DEF Goto
  <2>2. CASE UNCHANGED step /\ pc' = [pc EXCEPT ![p] = "done"]
    BY <1>0, <1>5, <2>2, MoveKeeps DEF Insert
  <2>3. QED
    BY <1>5, <2>1, <2>2 DEF Insert, Answer
<1>6. ASSUME NEW p \in Requests, Commit(p)
      PROVE  SetupInv'
  <2>1. CASE rows' = rows \cup Written(p) /\ pc' = [pc EXCEPT ![p] = "publish"]
    BY <1>0, <1>6, <2>1, CommitKeeps DEF Commit
  <2>2. CASE rows' = rows \cup Written(p) /\ pc' = [pc EXCEPT ![p] = "done"]
    BY <1>0, <1>6, <2>2, CommitKeeps DEF Commit
  <2>3. CASE UNCHANGED rows /\ pc' = [pc EXCEPT ![p] = "done"]
    BY <1>0, <1>6, <2>3, MoveKeeps DEF Commit
  <2>4. QED
    BY <1>6, <2>1, <2>2, <2>3 DEF Commit, Goto, Answer
<1>7. ASSUME NEW p \in Requests, PublishEvent(p)
      PROVE  SetupInv'
  <2>1. CASE pc' = [pc EXCEPT ![p] = "session"]
    BY <1>0, <1>7, <2>1, MoveKeeps DEF PublishEvent
  <2>2. CASE pc' = [pc EXCEPT ![p] = "done"]
    BY <1>0, <1>7, <2>2, MoveKeeps DEF PublishEvent
  <2>3. QED
    BY <1>7, <2>1, <2>2 DEF PublishEvent, Goto, Answer
<1>8. ASSUME NEW p \in Requests, CreateSession(p)
      PROVE  SetupInv'
  <2>1. CASE pc' = [pc EXCEPT ![p] = "respond"]
    BY <1>0, <1>8, <2>1, MoveKeeps DEF CreateSession
  <2>2. CASE pc' = [pc EXCEPT ![p] = "done"]
    BY <1>0, <1>8, <2>2, MoveKeeps DEF CreateSession
  <2>3. QED
    BY <1>8, <2>1, <2>2 DEF CreateSession, Goto, Answer
<1>9. ASSUME NEW p \in Requests, Respond(p)
      PROVE  SetupInv'
  <2>1. CASE pc' = [pc EXCEPT ![p] = "done"]
    BY <1>0, <1>9, <2>1, MoveKeeps DEF Respond
  <2>2. QED
    BY <1>9, <2>1 DEF Respond, Answer
<1>10. QED
  BY <1>1, <1>2, <1>3, <1>4, <1>5, <1>6, <1>7, <1>8, <1>9 DEF Next, Progress

\* However many requests race, and wherever they fail, the instance is set up
\* at most once and never in part.
THEOREM SetUpOnce == Spec => []OneCompleteSetup
<1>1. Init => SetupInv
  <2> SUFFICES ASSUME Init
               PROVE  SetupInv
    OBVIOUS
  <2>1. TypeOK
    BY TablesFacts DEF Init, TypeOK
  <2>2. \A p \in Requests : Written(p) = {}
    BY DEF Init, Written, InTransaction
  <2>3. QED
    BY <2>1, <2>2 DEF Init, SetupInv, LocksExclusive, WrittenIsNew, OneCompleteSetup
<1>2. SetupInv => OneCompleteSetup
  BY DEF SetupInv
<1>3. QED
  BY <1>1, <1>2, SetupStep, PTL DEF Spec

-----------------------------------------------------------------------------
\* Committed rows stay.
LEMMA RowsGrow == [Next]_vars => rows \subseteq rows'
BY DEF Next, vars, Progress, Crash, Begin, CountUsers, Insert, Commit, PublishEvent,
       CreateSession, Respond

\* A request is answered "conflict" by counting committed users, and by nothing else.
LEMMA ConflictCounted ==
    ASSUME TypeOK, [Next]_vars, NEW p \in Requests, reply'[p] = "conflict"
    PROVE  reply[p] = "conflict" \/ SetUp
<1> USE DEF TypeOK
<1>1. CASE UNCHANGED vars
  BY <1>1 DEF vars
<1>2. CASE Crash
  BY <1>2 DEF Crash
<1>3. ASSUME NEW q \in Requests, CountUsers(q)
      PROVE  reply[p] = "conflict" \/ SetUp
  BY <1>3 DEF CountUsers, Goto, Answer
<1>4. ASSUME NEW q \in Requests,
             Begin(q) \/ Insert(q) \/ Commit(q) \/ PublishEvent(q) \/ CreateSession(q)
             \/ Respond(q)
      PROVE  reply[p] = "conflict"
  <2>1. UNCHANGED reply \/ \E r \in {"error", "duplicate", "token"} : Answer(q, r)
    BY <1>4 DEF Begin, Insert, Commit, PublishEvent, CreateSession, Respond, Goto
  <2>2. CASE UNCHANGED reply
    BY <2>2
  <2>3. CASE \E r \in {"error", "duplicate", "token"} : Answer(q, r)
    BY <2>3 DEF Answer
  <2>4. QED
    BY <2>1, <2>2, <2>3
<1>5. QED
  BY <1>1, <1>2, <1>3, <1>4 DEF Next, Progress

\* A 409 is never the effect of a setup that has not been committed, or is undone
\* afterwards.
THEOREM ConflictIsTrue == Spec => []ConflictOnlyWhenSetUp
<1> DEFINE Inv == TypeOK /\ ConflictOnlyWhenSetUp
<1>1. Init => Inv
  BY TablesFacts DEF Init, TypeOK, ConflictOnlyWhenSetUp
<1>2. Inv /\ [Next]_vars => Inv'
  <2> SUFFICES ASSUME Inv, [Next]_vars
               PROVE  Inv'
    OBVIOUS
  <2>1. SetUp => SetUp'
    BY RowsGrow DEF SetUp
  <2>2. ConflictOnlyWhenSetUp'
    BY <2>1, ConflictCounted DEF ConflictOnlyWhenSetUp
  <2>3. QED
    BY <2>2, TypeStep
<1>3. QED
  BY <1>1, <1>2, PTL DEF Spec

-----------------------------------------------------------------------------
\* All rows of p's setup are committed.
Whole(p) == \A i \in DOMAIN Tables : Row(p, i) \in rows

\* A request past its commit, like one whose owner has a session, has its rows.
OwnersWhole ==
    \A p \in Requests :
        pc[p] \in {"publish", "session", "respond"} \/ p \in sessions => Whole(p)

\* A request comes past its commit by committing, and a session to its owner from
\* a request that is past it.
LEMMA PastCommit ==
    ASSUME TypeOK, [Next]_vars, NEW p \in Requests
    PROVE  /\ pc'[p] \in {"publish", "session", "respond"}
              => \/ pc[p] \in {"publish", "session", "respond"}
                 \/ pc[p] = "commit" /\ rows' = rows \cup Written(p)
           /\ p \in sessions' => p \in sessions \/ pc[p] = "session"
<1> DEFINE Past == {"publish", "session", "respond"}
           Goal == /\ pc'[p] \in Past => \/ pc[p] \in Past
                                         \/ pc[p] = "commit" /\ rows' = rows \cup Written(p)
                   /\ p \in sessions' => p \in sessions \/ pc[p] = "session"
<1> USE DEF TypeOK
<1>1. CASE UNCHANGED vars
  BY <1>1 DEF vars
<1>2. CASE Crash
  BY <1>2 DEF Crash
<1>3. ASSUME NEW q \in Requests, Begin(q) PROVE Goal
  BY <1>3 DEF Begin, Goto, Answer
<1>4. ASSUME NEW q \in Requests, CountUsers(q) PROVE Goal
  BY <1>4 DEF CountUsers, Goto, Answer
<1>5. ASSUME NEW q \in Requests, Insert(q) PROVE Goal
  BY <1>5 DEF Insert, Goto, Answer
<1>6. ASSUME NEW q \in Requests, Commit(q) PROVE Goal
  <2>1. CASE Answer(q, "error")
    BY <1>6, <2>1 DEF Commit, Answer
  <2>2. CASE rows' = rows \cup Written(q) /\ Goto(q, "publish")
    BY <1>6, <2>2 DEF Commit, Goto
  <2>3. QED
    BY <1>6, <2>1, <2>2 DEF Commit
<1>7. ASSUME NEW q \in Requests, PublishEvent(q) PROVE Goal
  BY <1>7 DEF PublishEvent, Goto, Answer
<1>8. ASSUME NEW q \in Requests, CreateSession(q) PROVE Goal
  BY <1>8 DEF CreateSession, Goto, Answer
<1>9. ASSUME NEW q \in Requests, Respond(q) PROVE Goal
  BY <1>9 DEF Respond, Answer
<1>10. QED
  BY <1>1, <1>2, <1>3, <1>4, <1>5, <1>6, <1>7, <1>8, <1>9 DEF Next, Progress

\* No session is issued for an owner whose transaction lost the race.
THEOREM SessionsAreOwners == Spec => []SessionOnlyForOwner
<1> DEFINE Inv == TypeOK /\ OwnersWhole
<1>1. Init => Inv
  BY TablesFacts DEF Init, TypeOK, OwnersWhole
<1>2. Inv /\ [Next]_vars => Inv'
  <2> SUFFICES ASSUME Inv, [Next]_vars
               PROVE  Inv'
    OBVIOUS
  <2>1. ASSUME NEW p \in Requests,
               pc'[p] \in {"publish", "session", "respond"} \/ p \in sessions'
        PROVE  Whole(p)'
    <3>1. Whole(p) \/ (pc[p] = "commit" /\ rows' = rows \cup Written(p))
      BY <2>1, PastCommit DEF OwnersWhole
    <3>2. CASE Whole(p)
      BY <3>2, RowsGrow DEF Whole, Row, KeyOf
    <3>3. CASE pc[p] = "commit" /\ rows' = rows \cup Written(p)
      BY <3>3, WrittenFacts DEF Whole, Row, KeyOf
    <3>4. QED
      BY <3>1, <3>2, <3>3
  <2>2. OwnersWhole'
    BY <2>1 DEF OwnersWhole
  <2>3. QED
    BY <2>2, TypeStep
<1>3. Inv => SessionOnlyForOwner
  BY DEF TypeOK, OwnersWhole, Whole, SessionOnlyForOwner
<1>4. QED
  BY <1>1, <1>2, <1>3, PTL DEF Spec
=============================================================================

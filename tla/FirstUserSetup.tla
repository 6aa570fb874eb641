---------------------------- MODULE FirstUserSetup ----------------------------
(***************************************************************************)
(* First-user setup (internal/features/auth/setup_service.go and the       *)
(* handler that calls it): concurrent requests, each with a transaction    *)
(* that counts the users and inserts the owner, its password account, the  *)
(* default organization with its roles, and the membership; then, after    *)
(* the commit, the setup event and the first session.                      *)
(*                                                                         *)
(* PostgreSQL runs the transactions at READ COMMITTED: a statement sees    *)
(* committed rows, and an insert whose unique key another open transaction *)
(* has inserted waits for that transaction to end.                         *)
(***************************************************************************)
EXTENDS Integers, Sequences

CONSTANTS
    Requests,  \* POST /setup/first-user requests, over the life of the instance
    Emails,
    EmailOf,   \* EmailOf[p]: the address request p names
    Slug       \* AuthConfig.DefaultOrganizationSlug, the same for every request

ASSUME SetupAssumption == EmailOf \in [Requests -> Emails]

VARIABLES
    rows,     \* committed rows: table, unique key, and the request that wrote it
    pc,       \* where each request is
    step,     \* the insert its transaction is about to make
    sessions, \* requests for whose owner a session exists
    reply     \* the answer each request got

vars == <<rows, pc, step, sessions, reply>>

\* The inserts of createFirstUser in their order.  The roles and their
\* permissions are one entry: no key of theirs can clash with another request's.
Tables == <<"users", "accounts", "organizations", "roles", "members">>

\* Mutant: organizations.slug is not unique.
KeyWithoutSlug(p, table) == IF table \in {"users", "accounts"} THEN EmailOf[p] ELSE p

KeyOf(p, table) ==
    CASE table \in {"users", "accounts"} -> EmailOf[p]
      [] table = "organizations" -> Slug
      [] OTHER -> p

Row(p, i) == [table |-> Tables[i], key |-> KeyOf(p, Tables[i]), owner |-> p]

\* Mutant: a transaction is not rolled back when its request fails.
InTransactionForGood(p) == pc[p] \in {"count", "insert", "commit", "done"}

InTransaction(p) == pc[p] \in {"count", "insert", "commit"}

\* What p's open transaction has inserted.
Written(p) ==
    IF InTransaction(p) THEN {Row(p, i) : i \in 1..(step[p] - 1)} ELSE {}

SameKey(r, s) == r.table = s.table /\ r.key = s.key

Init ==
    /\ rows = {}
    /\ pc = [p \in Requests |-> "begin"]
    /\ step = [p \in Requests |-> 1]
    /\ sessions = {}
    /\ reply = [p \in Requests |-> "none"]

Goto(p, label) == pc' = [pc EXCEPT ![p] = label] /\ UNCHANGED reply

\* The request is answered; a transaction that is open rolls back, and with it
\* go its locks (a failed rollback closes the connection, to the same effect).
Answer(p, response) ==
    /\ pc' = [pc EXCEPT ![p] = "done"]
    /\ reply' = [reply EXCEPT ![p] = response]

-----------------------------------------------------------------------------
Begin(p) ==
    /\ pc[p] = "begin"
    /\ Goto(p, "count") \/ Answer(p, "error")
    /\ UNCHANGED <<rows, step, sessions>>

SetUp == \E r \in rows : r.table = "users"

\* Mutant: a dirty read, which also counts users that may be rolled back.
CountUsersDirty(p) ==
    LET counted == SetUp \/ \E q \in Requests : \E r \in Written(q) : r.table = "users"
    IN  /\ pc[p] = "count"
        /\ \/ ~counted /\ Goto(p, "insert")
           \/ counted /\ Answer(p, "conflict")
           \/ Answer(p, "error")
        /\ UNCHANGED <<rows, step, sessions>>

\* CountUsers: a transaction sees the users that are committed by now.
CountUsers(p) ==
    /\ pc[p] = "count"
    /\ \/ ~SetUp /\ Goto(p, "insert")
       \/ SetUp /\ Answer(p, "conflict")
       \/ Answer(p, "error")
    /\ UNCHANGED <<rows, step, sessions>>

\* The insert can run: no other open transaction holds its unique key.
Unlocked(p) ==
    \A q \in Requests \ {p} : \A r \in Written(q) : ~SameKey(r, Row(p, step[p]))

Duplicate(p) == \E r \in rows : SameKey(r, Row(p, step[p]))

\* Mutant: the membership is left out.
InsertAllButLast(p) ==
    /\ pc[p] = "insert"
    /\ Unlocked(p)
    /\ \/ /\ ~Duplicate(p)
          /\ step' = [step EXCEPT ![p] = @ + 1]
          /\ Goto(p, IF step[p] + 1 = Len(Tables) THEN "commit" ELSE "insert")
       \/ Duplicate(p) /\ Answer(p, "duplicate") /\ UNCHANGED step
       \/ Answer(p, "error") /\ UNCHANGED step
    /\ UNCHANGED <<rows, sessions>>

Insert(p) ==
    /\ pc[p] = "insert"
    /\ Unlocked(p)
    /\ \/ /\ ~Duplicate(p)
          /\ step' = [step EXCEPT ![p] = @ + 1]
          /\ Goto(p, IF step[p] = Len(Tables) THEN "commit" ELSE "insert")
       \/ /\ Duplicate(p)
          /\ Answer(p, "duplicate")   \* a unique violation, wrapped as Internal
          /\ UNCHANGED step
       \/ Answer(p, "error") /\ UNCHANGED step
    /\ UNCHANGED <<rows, sessions>>

\* Mutant: the commit's error is ignored.
CommitUnchecked(p) ==
    /\ pc[p] = "commit"
    /\ rows' = rows \cup Written(p) \/ UNCHANGED rows
    /\ Goto(p, "publish")
    /\ UNCHANGED <<step, sessions>>

\* COMMIT may fail, or succeed with its acknowledgement lost.
Commit(p) ==
    /\ pc[p] = "commit"
    /\ \/ rows' = rows \cup Written(p) /\ (Goto(p, "publish") \/ Answer(p, "error"))
       \/ Answer(p, "error") /\ UNCHANGED rows
    /\ UNCHANGED <<step, sessions>>

\* The setup event: a failure is the request's failure, after the commit.
PublishEvent(p) ==
    /\ pc[p] = "publish"
    /\ Goto(p, "session") \/ Answer(p, "error")
    /\ UNCHANGED <<rows, step, sessions>>

CreateSession(p) ==
    /\ pc[p] = "session"
    /\ \/ sessions' = sessions \cup {p} /\ Goto(p, "respond")
       \/ Answer(p, "error") /\ UNCHANGED sessions
    /\ UNCHANGED <<rows, step>>

\* The handler reads the bootstrap state and the new session back.
Respond(p) ==
    /\ pc[p] = "respond"
    /\ Answer(p, "token") \/ Answer(p, "error")
    /\ UNCHANGED <<rows, step, sessions>>

\* The process stops: open transactions roll back, their clients get no answer.
Crash ==
    /\ \E p \in Requests : pc[p] \notin {"begin", "done"}
    /\ pc' = [p \in Requests |-> IF pc[p] = "begin" THEN "begin" ELSE "done"]
    /\ reply' = [p \in Requests |-> IF pc[p] \in {"begin", "done"} THEN reply[p]
                                    ELSE "lost"]
    /\ UNCHANGED <<rows, step, sessions>>

-----------------------------------------------------------------------------
Progress(p) ==
    \/ CountUsers(p) \/ Insert(p) \/ Commit(p)
    \/ PublishEvent(p) \/ CreateSession(p) \/ Respond(p)

Next == Crash \/ \E p \in Requests : Begin(p) \/ Progress(p)

\* A request once begun runs on; an insert waits only while its key is locked.
Fairness == \A p \in Requests : WF_vars(Progress(p))

Spec == Init /\ [][Next]_vars /\ Fairness

-----------------------------------------------------------------------------
(* Properties *)

\* Every variable keeps its type, and a transaction commits only with all its
\* inserts made.
TypeOK ==
    /\ rows \subseteq {Row(p, i) : p \in Requests, i \in DOMAIN Tables}
    /\ pc \in [Requests -> {"begin", "count", "insert", "commit", "publish",
                            "session", "respond", "done"}]
    /\ step \in [Requests -> 1..Len(Tables) + 1]
    /\ sessions \subseteq Requests
    /\ reply \in [Requests -> {"none", "token", "conflict", "duplicate", "error", "lost"}]
    /\ \A p \in Requests :
         /\ pc[p] \in {"begin", "count"} => step[p] = 1
         /\ pc[p] = "insert" => step[p] <= Len(Tables)
         /\ pc[p] = "commit" => step[p] = Len(Tables) + 1

\* However the requests interleave, the instance is set up once and whole: two
\* transactions may both count no users and insert different owners, and it is
\* the unique slug of the default organization that lets only one commit.
OneCompleteSetup ==
    \A r \in rows :
        /\ \A s \in rows : s.owner = r.owner
        /\ \A i \in DOMAIN Tables : Row(r.owner, i) \in rows

\* A request is told that setup is completed only when an owner is committed, so
\* that a 409 is never the effect of a setup that is rolled back afterwards.
ConflictOnlyWhenSetUp == (\E p \in Requests : reply[p] = "conflict") => SetUp

\* A session is issued for an owner whose rows are committed, never for one
\* whose transaction lost.
SessionOnlyForOwner ==
    \A p \in sessions : \A i \in DOMAIN Tables : Row(p, i) \in rows

\* No request hangs: the transactions take their unique keys in one order, and
\* every one of them ends, so an insert does not wait for ever.
Answered == \A p \in Requests : pc[p] = "count" ~> pc[p] = "done"

\* A request that arrives at a completed setup is answered 409, as the
\* operation's description says (handler.go:191), never with an internal error.
CompletedSetupIsConflict == \A p \in Requests : reply[p] # "duplicate"
=============================================================================

------------------------------ MODULE Invitations ------------------------------
(***************************************************************************)
(* Invitations to one organization (internal/features/auth/                *)
(* invite_service.go and its two handlers): requests that create them,     *)
(* each call to the store a step, and requests that accept them in one     *)
(* transaction.                                                            *)
(*                                                                         *)
(* Transactions run at READ COMMITTED: a read sees what is committed and   *)
(* what its own transaction wrote; a write to a row, or of a unique key,   *)
(* that another open transaction has written waits for that one to end.    *)
(***************************************************************************)
EXTENDS Integers, FiniteSets

CONSTANTS
    Creates,     \* requests to create an invitation; each stands for the row it inserts
    Accepts,     \* requests to accept one
    Emails,
    EmailOf,     \* EmailOf[c]: the address c invites
    Situations,  \* what may be stored about a person when the model starts
    None

ASSUME InvitationAssumption ==
    /\ EmailOf \in [Creates -> Emails]
    /\ Creates \cap Accepts = {}
    /\ None \notin Creates \cup Accepts
    /\ Situations \subseteq [user : {"none", "active", "disabled"}, verified : BOOLEAN,
                            password : {None, "initial"}, member : {None, "initial"}]
    /\ \A s \in Situations : s.member # None => s.user # "none"

VARIABLES
    people,      \* per address: the rows of users, accounts and organization_members
    invitation,  \* status of the row of c: "absent", "pending" or "accepted"
    expired,     \* invitations whose expires_at has passed
    mailed,      \* invitations whose mail, with the token in it, is enqueued
    pc,          \* where each request is; in the end "answered" or "failed"
    token,       \* the invitation whose token an acceptance brings, None for no such token
    wrote,       \* what an acceptance's transaction has written
    sessions,    \* acceptances that created a session
    earlier      \* history: the invitations pending for the address when c began

vars == <<people, invitation, expired, mailed, pc, token, wrote, sessions, earlier>>

Requests == Creates \cup Accepts

Email(a) == EmailOf[token[a]]

Idle == {"begin", "answered", "failed"}

TransactionSteps ==
    {"find_invitation", "find_user", "insert_user", "verify_user", "find_account",
     "insert_account", "update_hash", "find_member", "insert_member", "consume", "commit"}

Init ==
    /\ people \in [Emails -> Situations]
    /\ invitation = [c \in Creates |-> "absent"]
    /\ expired = {}
    /\ mailed = {}
    /\ pc = [r \in Requests |-> "begin"]
    /\ token = [a \in Accepts |-> None]
    /\ wrote = [a \in Accepts |-> {}]
    /\ sessions = {}
    /\ earlier = [c \in Creates |-> {}]

-----------------------------------------------------------------------------
(* The queries: conditions on the rows of an address, and what a write makes *)
(* of them.                                                                  *)

FindUserByEmail(e) == people[e].user = "active"
FindOrganizationByIDForUser(e) == people[e].member # None
FindPasswordAccountByUserID(e) == people[e].password # None

\* Mutant: an expired invitation does not count as pending.
FindPendingUnexpired(e) ==
    \E c \in Creates \ expired : EmailOf[c] = e /\ invitation[c] = "pending"

FindPendingOrganizationInvitationByEmail(e) ==
    \E c \in Creates : EmailOf[c] = e /\ invitation[c] = "pending"

FindOrganizationInvitationByToken(a) == token[a] # None

InsertUser(row) == [row EXCEPT !.user = "active", !.verified = TRUE]
UpdateUserEmailVerifiedAt(row) == [row EXCEPT !.verified = TRUE]
InsertAccount(row, a) == [row EXCEPT !.password = a]
UpdateUserPasswordHash(row, a) == [row EXCEPT !.password = a]
InsertOrganizationMember(row, a) == [row EXCEPT !.member = token[a]]

Effect(row, a, statement) ==
    CASE statement = "insert_user" -> InsertUser(row)
      [] statement = "verify_user" -> UpdateUserEmailVerifiedAt(row)
      [] statement = "insert_account" -> InsertAccount(row, a)
      [] statement = "update_hash" -> UpdateUserPasswordHash(row, a)
      [] statement = "insert_member" -> InsertOrganizationMember(row, a)

\* The address's rows once a's transaction is committed: its writes to the
\* users, accounts and organization_members tables, in this order.
Committed(a) ==
    LET Apply(row, statements) ==
            IF wrote[a] \cap statements = {} THEN row
            ELSE Effect(row, a, CHOOSE s \in wrote[a] \cap statements : TRUE)
    IN  Apply(Apply(Apply(people[Email(a)], {"insert_user", "verify_user"}),
                    {"insert_account", "update_hash"}),
              {"insert_member"})

\* The guarded UPDATE, which finds no row when the invitation is accepted by now.
\* Mutant: the UPDATE without "status = 'pending'".
ConsumeAnyStatus(a) == {"consume"}

ConsumeOrganizationInvitation(a) ==
    IF invitation[token[a]] = "pending" THEN {"consume"} ELSE {}

-----------------------------------------------------------------------------
\* A transaction is open until it commits or fails.
InTransaction(a) == pc[a] \in TransactionSteps

Goto(r, label) == pc' = [pc EXCEPT ![r] = label] /\ UNCHANGED wrote

\* The request fails; a transaction that is open rolls back (a failed rollback
\* closes the connection, to the same effect).
Fail(r) ==
    /\ pc' = [pc EXCEPT ![r] = "failed"]
    /\ wrote' = [a \in Accepts |-> IF a = r /\ InTransaction(a) THEN {} ELSE wrote[a]]

\* Mutant: a transaction is left open when its request is answered.
LocksForGood(a) == wrote[a]

\* The statements whose rows an open transaction holds.
Locks(a) == IF InTransaction(a) THEN wrote[a] ELSE {}

-----------------------------------------------------------------------------
(* Creating an invitation; the three checks of the inviter precede. *)

BeginCreate(c) ==
    /\ pc[c] = "begin"
    /\ earlier' = [earlier EXCEPT ![c] =
           {d \in Creates : EmailOf[d] = EmailOf[c] /\ invitation[d] = "pending"}]
    /\ Goto(c, "check_member") \/ Fail(c)
    /\ UNCHANGED <<people, invitation, expired, mailed, token, sessions>>

\* FindUserByEmail and then the membership of the user found.
CheckUser(c) ==
    /\ pc[c] = "check_member"
    /\ \/ FindUserByEmail(EmailOf[c]) /\ Goto(c, "check_membership")
       \/ ~FindUserByEmail(EmailOf[c]) /\ Goto(c, "check_pending")
       \/ Fail(c)
    /\ UNCHANGED <<people, invitation, expired, mailed, token, sessions, earlier>>

CheckMembership(c) ==
    /\ pc[c] = "check_membership"
    /\ \/ FindOrganizationByIDForUser(EmailOf[c]) /\ Fail(c)
       \/ ~FindOrganizationByIDForUser(EmailOf[c]) /\ Goto(c, "check_pending")
       \/ Fail(c)
    /\ UNCHANGED <<people, invitation, expired, mailed, token, sessions, earlier>>

CheckPending(c) ==
    /\ pc[c] = "check_pending"
    /\ \/ FindPendingOrganizationInvitationByEmail(EmailOf[c]) /\ Fail(c)
       \/ ~FindPendingOrganizationInvitationByEmail(EmailOf[c]) /\ Goto(c, "insert")
       \/ Fail(c)
    /\ UNCHANGED <<people, invitation, expired, mailed, token, sessions, earlier>>

InsertOrganizationInvitation(c) == [invitation EXCEPT ![c] = "pending"]

\* The insert, which may take effect and be reported as failed.
InsertInvitation(c) ==
    /\ pc[c] = "insert"
    /\ \/ /\ invitation' = InsertOrganizationInvitation(c)
          /\ Goto(c, "send") \/ Fail(c)
       \/ Fail(c) /\ UNCHANGED invitation
    /\ UNCHANGED <<people, expired, mailed, token, sessions, earlier>>

\* Mutant: a mail that cannot be enqueued is only logged.
SendLogged(c) ==
    /\ pc[c] = "send"
    /\ mailed' = mailed \cup {c} \/ UNCHANGED mailed
    /\ Goto(c, "answered")
    /\ UNCHANGED <<people, invitation, expired, token, sessions, earlier>>

\* Enqueueing the mail fails, or succeeds without its answer arriving.
Send(c) ==
    /\ pc[c] = "send"
    /\ \/ mailed' = mailed \cup {c} /\ (Goto(c, "answered") \/ Fail(c))
       \/ Fail(c) /\ UNCHANGED mailed
    /\ UNCHANGED <<people, invitation, expired, token, sessions, earlier>>

-----------------------------------------------------------------------------
(* Accepting an invitation *)

BeginAccept(a) ==
    /\ pc[a] = "begin"
    /\ \E c \in mailed \cup {None} : token' = [token EXCEPT ![a] = c]
    /\ Goto(a, "find_invitation") \/ Fail(a)
    /\ UNCHANGED <<people, invitation, expired, mailed, sessions, earlier>>

\* Mutant: a token without a row is not refused.
AcceptableUnlessLapsed(a) ==
    /\ FindOrganizationInvitationByToken(a) => invitation[token[a]] = "pending"
    /\ token[a] \notin expired

Acceptable(a) ==
    /\ FindOrganizationInvitationByToken(a)
    /\ invitation[token[a]] = "pending"
    /\ token[a] \notin expired

Step(a, label) ==
    /\ pc[a] = label
    /\ UNCHANGED <<people, invitation, expired, mailed, token, sessions, earlier>>

\* A read of the transaction: it goes on, or fails and rolls back.
FindInvitation(a) ==
    /\ Step(a, "find_invitation")
    /\ \/ Acceptable(a) /\ Goto(a, "find_user")
       \/ ~Acceptable(a) /\ Fail(a)
       \/ Fail(a)

FindUser(a) ==
    /\ Step(a, "find_user")
    /\ \/ Fail(a)
       \/ Goto(a, IF ~FindUserByEmail(Email(a)) THEN "insert_user"
                  ELSE IF people[Email(a)].verified THEN "find_account"
                  ELSE "verify_user")

OwnUser(a) == "insert_user" \in wrote[a]

FindAccount(a) ==
    /\ Step(a, "find_account")
    /\ \/ Fail(a)
       \/ Goto(a, IF ~OwnUser(a) /\ FindPasswordAccountByUserID(Email(a))
                  THEN "update_hash" ELSE "insert_account")

\* Mutant: the membership is not looked up.
FindMemberSkipped(a) == Step(a, "find_member") /\ Goto(a, "consume")

FindMember(a) ==
    /\ Step(a, "find_member")
    /\ \/ Fail(a)
       \/ Goto(a, IF ~OwnUser(a) /\ FindOrganizationByIDForUser(Email(a))
                  THEN "consume" ELSE "insert_member")

\* The statements that write the same row, or the same unique key.
Rivals(statement) ==
    CASE statement \in {"insert_user", "verify_user"} -> {"insert_user", "verify_user"}
      [] statement \in {"insert_account", "update_hash"} -> {"insert_account", "update_hash"}
      [] OTHER -> {statement}

Unlocked(a, statement) ==
    \A b \in Accepts \ {a} :
        Locks(b) \cap Rivals(statement) # {}
        => IF statement = "consume" THEN token[b] # token[a] ELSE Email(b) # Email(a)

\* A write of the transaction waits, makes its change, clashes with a committed
\* row, or fails.
Write(a, statement, duplicate, next) ==
    /\ Step(a, statement)
    /\ Unlocked(a, statement)
    /\ \/ /\ ~duplicate
          /\ wrote' = [wrote EXCEPT ![a] = @ \cup {statement}]
          /\ pc' = [pc EXCEPT ![a] = next]
       \/ Fail(a)

\* users.email is unique, also among disabled users.
WriteUser(a) == Write(a, "insert_user", people[Email(a)].user # "none", "find_account")

\* Mutant: the address of an existing user is left unverified.
VerifyUserSkipped(a) == Step(a, "verify_user") /\ Goto(a, "find_account")

VerifyUser(a) == Write(a, "verify_user", FALSE, "find_account")

WriteAccount(a) ==
    Write(a, "insert_account", FindPasswordAccountByUserID(Email(a)), "find_member")

WriteHash(a) == Write(a, "update_hash", FALSE, "find_member")

WriteMember(a) ==
    Write(a, "insert_member", FindOrganizationByIDForUser(Email(a)), "consume")

\* The row count of the UPDATE is not looked at.
Consume(a) ==
    /\ Step(a, "consume")
    /\ Unlocked(a, "consume")
    /\ \/ /\ wrote' = [wrote EXCEPT ![a] = @ \cup ConsumeOrganizationInvitation(a)]
          /\ pc' = [pc EXCEPT ![a] = "commit"]
       \/ Fail(a)

\* COMMIT may fail, or succeed with its acknowledgement lost.
Commit(a) ==
    /\ pc[a] = "commit"
    /\ \/ /\ people' = [people EXCEPT ![Email(a)] = Committed(a)]
          /\ invitation' = IF "consume" \in wrote[a]
                           THEN [invitation EXCEPT ![token[a]] = "accepted"]
                           ELSE invitation
          /\ Goto(a, "session") \/ Goto(a, "failed")
       \/ Fail(a) /\ UNCHANGED <<people, invitation>>
    /\ UNCHANGED <<expired, mailed, token, sessions, earlier>>

CreateSession(a) ==
    /\ pc[a] = "session"
    /\ \/ sessions' = sessions \cup {a} /\ (Goto(a, "respond") \/ Fail(a))
       \/ Fail(a) /\ UNCHANGED sessions
    /\ UNCHANGED <<people, invitation, expired, mailed, token, earlier>>

\* The handler reads the bootstrap state, the session and the organizations.
Respond(a) ==
    /\ Step(a, "respond")
    /\ Goto(a, "answered") \/ Fail(a)

-----------------------------------------------------------------------------
\* The lifetime of a pending invitation passes (that of an accepted one does not
\* matter any more).
Expire(c) ==
    /\ invitation[c] = "pending"
    /\ c \notin expired
    /\ expired' = expired \cup {c}
    /\ UNCHANGED <<people, invitation, mailed, pc, token, wrote, sessions, earlier>>

\* The process stops: open transactions roll back, their clients get no answer.
Crash ==
    /\ \E r \in Requests : pc[r] \notin Idle
    /\ pc' = [r \in Requests |-> IF pc[r] \in Idle THEN pc[r] ELSE "failed"]
    /\ wrote' = [a \in Accepts |-> IF InTransaction(a) THEN {} ELSE wrote[a]]
    /\ UNCHANGED <<people, invitation, expired, mailed, token, sessions, earlier>>

Accept(a) ==
    \/ FindInvitation(a) \/ FindUser(a) \/ WriteUser(a) \/ VerifyUser(a)
    \/ FindAccount(a) \/ WriteAccount(a) \/ WriteHash(a)
    \/ FindMember(a) \/ WriteMember(a) \/ Consume(a) \/ Commit(a)
    \/ CreateSession(a) \/ Respond(a)

Create(c) ==
    CheckUser(c) \/ CheckMembership(c) \/ CheckPending(c) \/ InsertInvitation(c) \/ Send(c)

Next ==
    \/ Crash
    \/ \E c \in Creates : BeginCreate(c) \/ Create(c) \/ Expire(c)
    \/ \E a \in Accepts : BeginAccept(a) \/ Accept(a)

\* An acceptance once begun runs on; a write waits only while its row is locked.
Fairness == \A a \in Accepts : WF_vars(Accept(a))

Spec == Init /\ [][Next]_vars /\ Fairness

-----------------------------------------------------------------------------
(* Properties *)

People == [user : {"none", "active", "disabled"}, verified : BOOLEAN,
           password : Accepts \cup {None, "initial"},
           member : Creates \cup {None, "initial"}]

\* Every variable keeps its type, and a transaction goes on only for a token that
\* was mailed.
TypeOK ==
    /\ people \in [Emails -> People]
    /\ invitation \in [Creates -> {"absent", "pending", "accepted"}]
    /\ expired \subseteq Creates /\ mailed \subseteq Creates /\ sessions \subseteq Accepts
    /\ pc \in [Requests -> TransactionSteps \cup Idle
           \cup {"check_member", "check_membership", "check_pending",
            "insert", "send", "session", "respond"}]
    /\ token \in [Accepts -> Creates \cup {None}]
    /\ wrote \in [Accepts -> SUBSET {"insert_user", "verify_user", "insert_account",
                                     "update_hash", "insert_member", "consume"}]
    /\ earlier \in [Creates -> SUBSET Creates]
    /\ \A a \in Accepts :
         pc[a] \in TransactionSteps \ {"find_invitation"} => token[a] \in mailed

\* Whoever an invitation was accepted for, or was given a session for one, is an
\* active and verified user with a password and a membership, whatever was there
\* before and however many acceptances raced (invite_service.go:167-297).
AcceptedLeavesMember ==
    \A c \in Creates :
        invitation[c] = "accepted" \/ (\E a \in sessions : token[a] = c)
        => LET p == people[EmailOf[c]]
           IN  p.user = "active" /\ p.verified /\ p.password # None /\ p.member # None

Committers(c) ==
    {a \in Accepts : token[a] = c /\ wrote[a] # {} /\ ~InTransaction(a)}

\* Two acceptances of one invitation may both commit, since the row count of the
\* consuming UPDATE is not looked at, but only one of them consumes it, and at
\* most one of them makes the password account: every other found one and
\* replaced its password (invite_service.go:299).
ConsumedOnce ==
    \A c \in Creates :
        /\ Cardinality({a \in Committers(c) : "consume" \in wrote[a]}) <= 1
        /\ \A a, b \in Committers(c) :
             a # b => "update_hash" \in wrote[a] \cup wrote[b]

\* Nobody is invited while an invitation for the address is pending, also an
\* expired one: two can be pending only when their requests overlapped
\* (invite_service.go:72, which checks and inserts without a transaction).
NoneBesideAnEarlierPending ==
    \A c \in Creates : \A d \in earlier[c] :
        invitation[c] # "absent" => invitation[d] = "accepted"

\* The creator of an invitation is told "created" only when its mail is enqueued;
\* an invitation that is pending without a mail, which blocks the next attempt,
\* is always one whose creator got an error or no answer (invite_service.go:103).
UnmailedIsReported ==
    \A c \in Creates :
        invitation[c] # "absent" /\ c \notin mailed
        => pc[c] \in {"send", "failed"}

\* Every acceptance that begins ends, also when it waits for a row that another one
\* has written: all write users, accounts, members and the invitation in one order.
Answered == \A r \in Accepts : pc[r] # "begin" ~> pc[r] \in {"answered", "failed"}

Ledger == INSTANCE InvitationLedger WITH
    password <- [e \in Emails |-> people[e].password],
    member <- [e \in Emails |-> people[e].member]

\* Together the requests do no more than the ledger allows: an invitation is
\* accepted once, by one who becomes a member then or was one; a membership is
\* never changed; a password is set only by an acceptance (invite_service.go:118).
ImplementsLedger == Ledger!Spec
=============================================================================

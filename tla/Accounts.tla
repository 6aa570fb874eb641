------------------------------- MODULE Accounts -------------------------------
(***************************************************************************)
(* One person's account under concurrent requests: login with a password   *)
(* and a time-based code, enrolling and disabling the second factor,       *)
(* password reset, single sign-on, switching the organization and logout   *)
(* (internal/features/auth).  None of them uses a transaction: each call   *)
(* to a store is a step, and what was read may be outdated when it is used.*)
(*                                                                         *)
(* The session service appears as SessionLedger promises it: a session is  *)
(* created, revoked, and may resolve for a while after its revocation.     *)
(* A process that stops is covered by every request failing where it is.   *)
(***************************************************************************)
EXTENDS Integers, FiniteSets

CONSTANTS
    Requests,
    Before,      \* stands for what existed before: a password, session, token, sign-on
    None,
    Limit,       \* TOTPFailureLimit
    MaxStep,     \* bound: 30-second steps of the clock
    Situations   \* what may be stored about the person when the model starts

Factors == [row : BOOLEAN, verified : BOOLEAN, step : 0..MaxStep, failures : Nat, locked : BOOLEAN]
NoFactor == [row |-> FALSE, verified |-> FALSE, step |-> 0, failures |-> 0, locked |-> FALSE]

ASSUME AccountsAssumption ==
    /\ Before \notin Requests /\ None \notin Requests \cup {Before}
    /\ Limit \in Nat \ {0} /\ MaxStep \in Nat \ {0}
    /\ \A s \in Situations :
         /\ s.known \in BOOLEAN /\ s.verified \in BOOLEAN /\ s.member \in BOOLEAN
         /\ s.password \in {Before, None} /\ s.linked \in BOOLEAN
         /\ s.factor \in Factors /\ (s.factor.row \/ s.factor = NoFactor)

VARIABLES
    person,    \* rows of users, accounts and organization_members
    factor,    \* the row of two_factors
    clock,     \* the current 30-second step
    lapsed,    \* history: a lock has run out, in this run or before it
    tokens,    \* reset tokens, by the request that made them
    mailed,    \* those whose mail is enqueued
    sessions,  \* sessions, by the request that created them
    lagging,   \* revoked sessions that may still resolve from the cache
    entries,   \* sign-ons begun and kept in Redis, by the request that began them
    pc,        \* where each request is; in the end "answered", "failed" or "unenrolled"
    op, key,   \* its operation, and the password, token, session or sign-on it brings
    seen,      \* the two_factors row it read
    at,        \* the step its code was accepted in, 0 for none
    ended      \* history: the requests that had ended when it began

stores == <<person, factor, tokens, mailed, sessions, lagging, entries>>
time == <<clock, lapsed>>
locals == <<op, key, ended>>
vars == <<stores, time, pc, locals, seen, at>>

Origins == Requests \cup {Before}
Ended == {"answered", "failed", "unenrolled"}

Init ==
    /\ \E s \in Situations :
         /\ person = [known |-> s.known, verified |-> s.verified, member |-> s.member,
                      password |-> s.password, linked |-> s.linked]
         /\ factor = s.factor
         /\ lapsed = (s.factor.failures >= Limit /\ ~s.factor.locked)
    /\ clock = 1
    /\ tokens = [o \in Origins |-> IF o = Before THEN "open" ELSE "absent"]
    /\ mailed = {Before}
    /\ sessions = [o \in Origins |-> IF o = Before THEN "live" ELSE "absent"]
    /\ lagging = {}
    /\ entries = {Before}
    /\ pc = [r \in Requests |-> "begin"]
    /\ op = [r \in Requests |-> None]
    /\ key = [r \in Requests |-> None]
    /\ seen = [r \in Requests |-> NoFactor]
    /\ at = [r \in Requests |-> 0]
    /\ ended = [r \in Requests |-> {}]

Goto(r, label) == pc' = [pc EXCEPT ![r] = label]
Fail(r) == Goto(r, "failed")

\* Request r is at a label and changes no more than the listed variables allow.
At(r, label) == pc[r] = label /\ UNCHANGED <<time, locals>>

-----------------------------------------------------------------------------
(* The queries on the person and on the two_factors row *)

FindUserByEmail == person.known
FindPasswordAccount == person.password
FindUserByProviderAccount == person.known /\ person.linked
FindOrganizationBySlugForUser == person.member
FindTwoFactorByUserID == factor
ListOrganizationsForUser == IF person.member THEN {"default"} ELSE {}

\* No row of accounts with provider 'password': the UPDATE changes nothing.
UpdateUserPasswordHash(r) ==
    IF person.password = None THEN person ELSE [person EXCEPT !.password = r]

InsertOrReplaceTwoFactor ==
    [factor EXCEPT !.row = TRUE, !.verified = FALSE, !.failures = 0, !.locked = FALSE]

\* An UPDATE of the person's row, if there is one.
OnRow(change) == IF factor.row THEN change ELSE factor

ConfirmTwoFactor(step) ==
    OnRow([factor EXCEPT !.verified = TRUE, !.step = step, !.failures = 0, !.locked = FALSE])

\* Mutant: the UPDATE of a row that is gone brings it back.
MarkTwoFactorUpserted(step) ==
    [factor EXCEPT !.step = step, !.failures = 0, !.locked = FALSE]

MarkTwoFactorUsed(step) ==
    OnRow([factor EXCEPT !.step = step, !.failures = 0, !.locked = FALSE])

DisableTwoFactor == NoFactor

\* Mutant: one failure more than the limit locks.
RegisterOneFailureMore(next) ==
    OnRow([factor EXCEPT !.failures = @ + 1,
                         !.locked = IF factor.failures + 1 >= next THEN next > Limit ELSE @])

\* next is the count the caller read, plus one; the lock it brings is NULL while
\* that is below the limit, and replaces the one that is stored.
RegisterTwoFactorFailure(next) ==
    OnRow([factor EXCEPT !.failures = @ + 1,
                         !.locked = IF factor.failures + 1 >= next THEN next >= Limit ELSE @])

-----------------------------------------------------------------------------
(* The session service *)

Resolves(o) == sessions[o] = "live" \/ o \in lagging

\* Sessions are revoked; some of them may be served from the cache for a while.
Revoke(revoked) ==
    LET live == {o \in revoked : sessions[o] = "live"}
    IN  /\ sessions' = [o \in Origins |-> IF o \in live THEN "revoked" ELSE sessions[o]]
        /\ \E late \in SUBSET live : lagging' = lagging \cup late

-----------------------------------------------------------------------------
(* Requests *)

FirstStep ==
    [login |-> "password", start |-> "save_state", callback |-> "state",
     select |-> "resolve", logout |-> "logout", forgot |-> "find_user",
     reset |-> "token", enroll |-> "enroll", confirm |-> "factor", disable |-> "disable"]

Held(o) == o = Before \/ pc[o] = "answered"

\* What a client can bring: a password that is or was set, a session token it was
\* given, a reset token from a mail, the cookie of a sign-on.
Keys(operation) ==
    CASE operation = "login" -> {Before} \cup {r \in Requests : op[r] = "reset"}
      [] operation \in {"select", "logout"} -> {o \in Origins : sessions[o] # "absent" /\ Held(o)}
      [] operation \in {"enroll", "confirm", "disable"} -> {o \in Origins : Resolves(o) /\ Held(o)}
      [] operation = "reset" -> mailed
      [] operation = "callback" -> {Before} \cup {r \in Requests : op[r] = "start" /\ Held(r)}
      [] OTHER -> {None}

Begin(r) ==
    /\ pc[r] = "begin"
    /\ \E operation \in DOMAIN FirstStep : \E k \in Keys(operation) :
         /\ op' = [op EXCEPT ![r] = operation]
         /\ key' = [key EXCEPT ![r] = k]
         /\ Goto(r, FirstStep[operation])
    /\ ended' = [ended EXCEPT ![r] = {q \in Requests : pc[q] \in Ended}]
    /\ UNCHANGED <<stores, time, seen, at>>

\* findUserWithPassword: the user, the account and its hash.
CheckPassword(r) ==
    /\ At(r, "password")
    /\ \/ /\ FindUserByEmail /\ FindPasswordAccount = key[r]
          /\ Goto(r, "factor")
       \/ Fail(r)
    /\ UNCHANGED <<stores, seen, at>>

\* Login returns the error of the query as it is, also when there is no row.
FindTwoFactor(r) ==
    /\ At(r, "factor")
    /\ \/ /\ FindTwoFactorByUserID.row
          /\ seen' = [seen EXCEPT ![r] = FindTwoFactorByUserID]
          /\ Goto(r, IF factor.verified \/ op[r] = "confirm" THEN "code" ELSE "organization")
       \/ ~factor.row /\ op[r] = "login" /\ Goto(r, "unenrolled") /\ UNCHANGED seen
       \/ Fail(r) /\ UNCHANGED seen
    /\ UNCHANGED <<stores, at>>

\* Mutant: the used step is not looked at.
CheckCodeAnyStep(r) ==
    /\ At(r, "code")
    /\ \/ seen[r].locked /\ Fail(r) /\ UNCHANGED at
       \/ ~seen[r].locked /\ Goto(r, "record") /\ UNCHANGED at
       \/ /\ ~seen[r].locked
          /\ at' = [at EXCEPT ![r] = clock]
          /\ Goto(r, IF op[r] = "confirm" THEN "confirm" ELSE "mark")
    /\ UNCHANGED <<stores, seen>>

\* The lock, then the code, which may be wrong or right, then, for a login, the
\* step: all as they were when the row was read, with the clock of now.
CheckCode(r) ==
    /\ At(r, "code")
    /\ \/ seen[r].locked /\ Fail(r) /\ UNCHANGED at
       \/ ~seen[r].locked /\ Goto(r, "record") /\ UNCHANGED at
       \/ /\ ~seen[r].locked
          /\ IF op[r] = "confirm"
             THEN Goto(r, "confirm") /\ at' = [at EXCEPT ![r] = clock]
             ELSE IF seen[r].step = clock
                  THEN Fail(r) /\ UNCHANGED at
                  ELSE Goto(r, "mark") /\ at' = [at EXCEPT ![r] = clock]
    /\ UNCHANGED <<stores, seen>>

\* recordTOTPFailure, after which the request has failed in any case.
RecordFailure(r) ==
    /\ At(r, "record")
    /\ factor' = RegisterTwoFactorFailure(seen[r].failures + 1) \/ UNCHANGED factor
    /\ Fail(r)
    /\ UNCHANGED <<person, tokens, mailed, sessions, lagging, entries, seen, at>>

\* A call that changes the two_factors row and then goes on, or fails, with or
\* without effect.
WriteFactor(r, row, next) ==
    /\ \/ factor' = row /\ (Goto(r, next) \/ Fail(r))
       \/ Fail(r) /\ UNCHANGED factor
    /\ UNCHANGED <<person, tokens, mailed, sessions, lagging, entries, seen, at>>

MarkUsed(r) == At(r, "mark") /\ WriteFactor(r, MarkTwoFactorUsed(at[r]), "organization")
ConfirmTOTP(r) == At(r, "confirm") /\ WriteFactor(r, ConfirmTwoFactor(at[r]), "publish")
StartTOTPEnrollment(r) == At(r, "enroll") /\ WriteFactor(r, InsertOrReplaceTwoFactor, "answered")
DisableTOTP(r) == At(r, "disable") /\ WriteFactor(r, DisableTwoFactor, "publish")

\* The event of ConfirmTOTP and DisableTOTP: its failure is the request's.
PublishEvent(r) ==
    /\ At(r, "publish")
    /\ Goto(r, "answered") \/ Fail(r)
    /\ UNCHANGED <<stores, seen, at>>

\* resolveLoginOrganization, by slug or the first in the list.
ResolveOrganization(r) ==
    /\ At(r, "organization")
    /\ \/ FindOrganizationBySlugForUser /\ Goto(r, "create")
       \/ ListOrganizationsForUser # {} /\ Goto(r, "create")
       \/ Fail(r)
    /\ UNCHANGED <<stores, seen, at>>

CreateSession(r) ==
    /\ At(r, "create")
    /\ \/ /\ sessions' = [sessions EXCEPT ![r] = "live"]
          /\ Goto(r, IF op[r] = "callback" THEN "forget_state" ELSE "respond") \/ Fail(r)
       \/ Fail(r) /\ UNCHANGED sessions
    /\ UNCHANGED <<person, factor, tokens, mailed, lagging, entries, seen, at>>

\* The handlers read the bootstrap state, the session and the organizations.
Respond(r) ==
    /\ At(r, "respond")
    /\ (Resolves(r) /\ Goto(r, "answered")) \/ Fail(r)
    /\ UNCHANGED <<stores, seen, at>>

Login(r) ==
    \/ CheckPassword(r) \/ FindTwoFactor(r) \/ CheckCode(r) \/ RecordFailure(r)
    \/ MarkUsed(r) \/ ResolveOrganization(r) \/ CreateSession(r) \/ Respond(r)

TwoFactor(r) == StartTOTPEnrollment(r) \/ ConfirmTOTP(r) \/ DisableTOTP(r) \/ PublishEvent(r)

-----------------------------------------------------------------------------
(* SelectOrganization and the logout handler *)

ResolvePrincipal(r) ==
    /\ At(r, "resolve")
    /\ (Resolves(key[r]) /\ Goto(r, "slug")) \/ Fail(r)
    /\ UNCHANGED <<stores, seen, at>>

FindOrganization(r) ==
    /\ At(r, "slug")
    /\ (FindOrganizationBySlugForUser /\ Goto(r, "logout")) \/ Fail(r)
    /\ UNCHANGED <<stores, seen, at>>

\* Mutant: the switch goes on when the old session could not be revoked.
LogoutUnchecked(r) ==
    /\ At(r, "logout")
    /\ Revoke({key[r]}) \/ UNCHANGED <<sessions, lagging>>
    /\ Goto(r, IF op[r] = "select" THEN "create" ELSE "answered")
    /\ UNCHANGED <<person, factor, tokens, mailed, entries, seen, at>>

\* Logout, whether the token resolves or not, and the event, whose failure is ignored.
Logout(r) ==
    /\ At(r, "logout")
    /\ \/ /\ Revoke({key[r]})
          /\ Goto(r, IF op[r] = "select" THEN "create" ELSE "answered") \/ Fail(r)
       \/ Fail(r) /\ UNCHANGED <<sessions, lagging>>
    /\ UNCHANGED <<person, factor, tokens, mailed, entries, seen, at>>

SelectOrganization(r) == ResolvePrincipal(r) \/ FindOrganization(r) \/ Logout(r)

-----------------------------------------------------------------------------
(* Password reset *)

\* An unknown address is answered as if a mail had been sent.
FindUserForReset(r) ==
    /\ At(r, "find_user")
    /\ \/ Goto(r, IF FindUserByEmail THEN "insert_token" ELSE "answered")
       \/ Fail(r)
    /\ UNCHANGED <<stores, seen, at>>

InsertVerificationToken(r) == [tokens EXCEPT ![r] = "open"]

InsertToken(r) ==
    /\ At(r, "insert_token")
    /\ \/ tokens' = InsertVerificationToken(r) /\ (Goto(r, "send") \/ Fail(r))
       \/ Fail(r) /\ UNCHANGED tokens
    /\ UNCHANGED <<person, factor, mailed, sessions, lagging, entries, seen, at>>

SendToken(r) ==
    /\ At(r, "send")
    /\ \/ mailed' = mailed \cup {r} /\ (Goto(r, "answered") \/ Fail(r))
       \/ Fail(r) /\ UNCHANGED mailed
    /\ UNCHANGED <<person, factor, tokens, sessions, lagging, entries, seen, at>>

ExpireToken ==
    /\ \E o \in mailed : tokens[o] = "open" /\ tokens' = [tokens EXCEPT ![o] = "expired"]
    /\ UNCHANGED <<person, factor, mailed, sessions, lagging, entries, time, pc, locals, seen, at>>

FindVerificationToken(r) == tokens[key[r]]

\* Mutant: a consumed token is accepted.
FindTokenConsumed(r) ==
    /\ At(r, "token")
    /\ (FindVerificationToken(r) # "expired" /\ Goto(r, "set")) \/ Fail(r)
    /\ UNCHANGED <<stores, seen, at>>

FindToken(r) ==
    /\ At(r, "token")
    /\ (FindVerificationToken(r) = "open" /\ Goto(r, "set")) \/ Fail(r)
    /\ UNCHANGED <<stores, seen, at>>

SetPassword(r) ==
    /\ At(r, "set")
    /\ \/ person' = UpdateUserPasswordHash(r) /\ (Goto(r, "consume") \/ Fail(r))
       \/ Fail(r) /\ UNCHANGED person
    /\ UNCHANGED <<factor, tokens, mailed, sessions, lagging, entries, seen, at>>

ConsumeVerificationToken(r) == [tokens EXCEPT ![key[r]] = "consumed"]

ConsumeToken(r) ==
    /\ At(r, "consume")
    /\ \/ tokens' = ConsumeVerificationToken(r) /\ (Goto(r, "revoke_all") \/ Fail(r))
       \/ Fail(r) /\ UNCHANGED tokens
    /\ UNCHANGED <<person, factor, mailed, sessions, lagging, entries, seen, at>>

\* Mutant: sessions that cannot be revoked are only logged.
RevokeLogged(r) ==
    /\ At(r, "revoke_all")
    /\ Revoke(Origins) \/ UNCHANGED <<sessions, lagging>>
    /\ Goto(r, "answered")
    /\ UNCHANGED <<person, factor, tokens, mailed, entries, seen, at>>

RevokeForUser(r) ==
    /\ At(r, "revoke_all")
    /\ \/ Revoke(Origins) /\ (Goto(r, "answered") \/ Fail(r))
       \/ Fail(r) /\ UNCHANGED <<sessions, lagging>>
    /\ UNCHANGED <<person, factor, tokens, mailed, entries, seen, at>>

ResetPassword(r) == FindToken(r) \/ SetPassword(r) \/ ConsumeToken(r) \/ RevokeForUser(r)
ForgotPassword(r) == FindUserForReset(r) \/ InsertToken(r) \/ SendToken(r)

-----------------------------------------------------------------------------
(* Single sign-on with one provider *)

StartSSO(r) ==
    /\ At(r, "save_state")
    /\ \/ entries' = entries \cup {r} /\ (Goto(r, "answered") \/ Fail(r))
       \/ Fail(r) /\ UNCHANGED entries
    /\ UNCHANGED <<person, factor, tokens, mailed, sessions, lagging, seen, at>>

\* The entry, the state in it, and what the provider says: each may be wrong.
CheckState(r) ==
    /\ At(r, "state")
    /\ (key[r] \in entries /\ Goto(r, "identity")) \/ Fail(r)
    /\ UNCHANGED <<stores, seen, at>>

\* The linked account, or else a verified user with the provider's address.
FindIdentity(r) ==
    /\ At(r, "identity")
    /\ \/ FindUserByProviderAccount /\ Goto(r, "organization")
       \/ /\ ~FindUserByProviderAccount /\ FindUserByEmail /\ person.verified
          /\ Goto(r, "link")
       \/ Fail(r)
    /\ UNCHANGED <<stores, seen, at>>

InsertAccount == [person EXCEPT !.linked = TRUE]

\* Mutant: a failed insert of the link is ignored.
LinkUnchecked(r) ==
    /\ At(r, "link")
    /\ person' = InsertAccount \/ UNCHANGED person
    /\ Goto(r, "organization")
    /\ UNCHANGED <<factor, tokens, mailed, sessions, lagging, entries, seen, at>>

\* The insert fails when another callback has linked the account by now.
LinkAccount(r) ==
    /\ At(r, "link")
    /\ \/ /\ ~person.linked
          /\ person' = InsertAccount
          /\ Goto(r, "organization") \/ Fail(r)
       \/ Fail(r) /\ UNCHANGED person
    /\ UNCHANGED <<factor, tokens, mailed, sessions, lagging, entries, seen, at>>

\* Mutant: the entry is left to expire.
ForgetNothing(r) ==
    /\ At(r, "forget_state")
    /\ Goto(r, "answered")
    /\ UNCHANGED <<stores, seen, at>>

\* The session exists by now; when the entry cannot be deleted the callback fails.
ForgetState(r) ==
    /\ At(r, "forget_state")
    /\ \/ entries' = entries \ {key[r]} /\ (Goto(r, "answered") \/ Fail(r))
       \/ Fail(r) /\ UNCHANGED entries
    /\ UNCHANGED <<person, factor, tokens, mailed, sessions, lagging, seen, at>>

CompleteSSO(r) == CheckState(r) \/ FindIdentity(r) \/ LinkAccount(r) \/ ForgetState(r)

-----------------------------------------------------------------------------
Tick ==
    /\ clock < MaxStep
    /\ clock' = clock + 1
    /\ UNCHANGED <<stores, lapsed, pc, locals, seen, at>>

LockLapses ==
    /\ factor.locked
    /\ factor' = [factor EXCEPT !.locked = FALSE]
    /\ lapsed' = TRUE
    /\ UNCHANGED <<person, tokens, mailed, sessions, lagging, entries, clock, pc, locals, seen, at>>

Next ==
    \/ Tick \/ LockLapses \/ ExpireToken
    \/ \E r \in Requests :
         \/ Begin(r) \/ Login(r) \/ TwoFactor(r) \/ SelectOrganization(r)
         \/ ResetPassword(r) \/ ForgotPassword(r) \/ StartSSO(r) \/ CompleteSSO(r)

Spec == Init /\ [][Next]_vars

-----------------------------------------------------------------------------
(* Properties *)

\* Every variable keeps its type, and nothing is left of a two_factors row that is
\* deleted, whichever update of a login or a confirmation was on its way.
TypeOK ==
    /\ person \in [known : BOOLEAN, verified : BOOLEAN, member : BOOLEAN,
                   password : Origins \cup {None}, linked : BOOLEAN]
    /\ factor \in Factors /\ (factor.row \/ factor = NoFactor)
    /\ clock \in 1..MaxStep /\ lapsed \in BOOLEAN
    /\ tokens \in [Origins -> {"absent", "open", "expired", "consumed"}]
    /\ mailed \subseteq Origins /\ lagging \subseteq Origins /\ entries \subseteq Origins
    /\ sessions \in [Origins -> {"absent", "live", "revoked"}]
    /\ pc \in [Requests -> {"begin", "code", "record", "mark", "confirm", "publish",
                            "organization", "create", "respond", "slug", "insert_token",
                            "send", "set", "consume", "revoke_all", "identity", "link",
                            "forget_state"}
                           \cup {FirstStep[o] : o \in DOMAIN FirstStep} \cup Ended]
    /\ op \in [Requests -> DOMAIN FirstStep \cup {None}]
    /\ key \in [Requests -> Origins \cup {None}]
    /\ seen \in [Requests -> Factors]
    /\ at \in [Requests -> 0..MaxStep]
    /\ ended \in [Requests -> SUBSET Requests]

\* Neither of two requests had ended when the other one began.
Overlap(q, r) == q \notin ended[r] /\ r \notin ended[q]

Done(r, operation) == op[r] = operation /\ pc[r] = "answered"

\* After a password reset is answered, no session from before it is live: whoever
\* has one ran alongside the reset (a login that had checked the old password, say),
\* logged in with a reset password, signed on with the provider, or switched from a
\* revoked session that the cache still served (password_service.go:118).
ResetEndsAccess ==
    \A r \in Requests : \A o \in Origins :
        Done(r, "reset") /\ sessions[o] = "live" =>
            /\ o # Before
            /\ \/ Overlap(o, r)
               \/ op[o] = "login" /\ key[o] # Before
               \/ op[o] = "callback"
               \/ op[o] = "select" /\ key[o] \in lagging \cup Requests

\* Once a reset is answered, its token sets no other password, except for a reset
\* that ran alongside (password_service.go:106 checks what it read before).
TokenSpentOnce ==
    \A q, r \in Requests :
        Done(q, "reset") /\ op[r] = "reset" /\ key[r] = key[q] /\ q \in ended[r]
        => pc[r] \in {"token", "failed"}

\* When the failures have reached the limit, the account is locked, unless a lock
\* ran out or two failing requests overlapped: the later writer, with the older
\* count, removes the lock of the other or sets none (totp_service.go:144).
LockedAtLimit ==
    factor.failures >= Limit =>
        \/ factor.locked \/ lapsed
        \/ \E q, r \in Requests :
             /\ q # r /\ Overlap(q, r)
             /\ pc[q] = "failed" /\ pc[r] = "failed" /\ seen[q].row /\ seen[r].row

\* A code is accepted once per time step, also across enrolment and login, unless
\* logins overlap or another request has written the row (totp_service.go:128).
OneLoginPerStep ==
    \A q, r \in Requests :
        /\ Done(q, "login") \/ Done(q, "confirm")
        /\ op[r] = "login" /\ q \in ended[r] /\ at[q] # 0
        => \/ at[r] # at[q]
           \/ \E p \in Requests \ {q, r} : op[p] \in {"login", "confirm", "enroll", "disable"}

\* A switch of the organization never leaves two sessions: the new one is live only
\* when the old one is revoked (auth_service.go:126-138).
SwitchNeverDoubles ==
    \A r \in Requests :
        op[r] = "select" /\ sessions[r] = "live" => sessions[key[r]] # "live"

\* One sign-on makes a second session only for a callback that overlapped the
\* first, or after the first had failed with its session made (sso_service.go:146).
SignOnSpentOnce ==
    \A q, r \in Requests :
        /\ op[q] = "callback" /\ op[r] = "callback" /\ key[q] = key[r] /\ q \in ended[r]
        /\ sessions[q] # "absent" /\ sessions[r] # "absent"
        => pc[q] = "failed"

\* Every session from a sign-on is one of a known user whose provider account is
\* linked, also when two first callbacks race for the link (sso_service.go:131).
SignOnIsLinked ==
    \A r \in Requests :
        op[r] = "callback" /\ sessions[r] # "absent" => person.known /\ person.linked

\* A login needs a code only "when two-factor authentication is enabled", as the
\* request's documentation says (auth_type.go:181): somebody who never enrolled,
\* or has disabled the second factor, can log in.
LoginWithoutFactor == \A r \in Requests : pc[r] # "unenrolled"
=============================================================================

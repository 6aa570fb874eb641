----------------------------- MODULE AccountProofs -----------------------------
(***************************************************************************)
(* Proofs about Accounts for any number of requests, any limit and length  *)
(* of time, and whatever is stored about the person.                       *)
(***************************************************************************)
EXTENDS Accounts, TLAPS

\* The operation that a request at a label carries out.
Place(r) ==
    /\ pc[r] # "begin" => op[r] \in DOMAIN FirstStep
    /\ pc[r] \in {"password", "mark", "unenrolled"} => op[r] = "login"
    /\ pc[r] \in {"factor", "code", "record"} => op[r] \in {"login", "confirm"}
    /\ pc[r] = "organization" => op[r] \in {"login", "callback"}
    /\ pc[r] = "create" => op[r] \in {"login", "callback", "select"}
    /\ pc[r] = "respond" => op[r] \in {"login", "select"}
    /\ pc[r] \in {"resolve", "slug"} => op[r] = "select"
    /\ pc[r] = "logout" => op[r] \in {"select", "logout"}
    /\ pc[r] \in {"find_user", "insert_token", "send"} => op[r] = "forgot"
    /\ pc[r] \in {"token", "set", "consume", "revoke_all"} => op[r] = "reset"
    /\ pc[r] = "enroll" => op[r] = "enroll"
    /\ pc[r] = "confirm" => op[r] = "confirm"
    /\ pc[r] = "disable" => op[r] = "disable"
    /\ pc[r] = "publish" => op[r] \in {"confirm", "disable"}
    /\ pc[r] = "save_state" => op[r] = "start"
    /\ pc[r] \in {"state", "identity", "link", "forget_state"} => op[r] = "callback"

\* The requests that ended before another one began have ended.
History(r) ==
    /\ pc[r] = "begin" => ended[r] = {}
    /\ r \notin ended[r] /\ \A q \in ended[r] : pc[q] \in Ended

\* Who acts on a session, a token or a sign-on has brought one.
Brings(r) ==
    op[r] \in {"select", "logout", "reset", "callback"} /\ pc[r] # "begin"
    => key[r] \in Origins

Base == TypeOK /\ \A r \in Requests : Place(r) /\ History(r) /\ Brings(r)

\* A session is created once, by the request it is named after.
Created(r) ==
    sessions[r] # "absent" =>
        /\ op[r] \in {"login", "callback", "select"}
        /\ pc[r] \in {"respond", "forget_state", "answered", "failed"}

\* A client brings a session that exists; a switch that goes on has revoked it.
Switched(r) ==
    /\ op[r] \in {"select", "logout"} /\ pc[r] # "begin" => sessions[key[r]] # "absent"
    /\ op[r] = "select" /\ (pc[r] = "create" \/ sessions[r] # "absent")
       => sessions[key[r]] # "live"

SessionsInv == \A r \in Requests : Created(r) /\ Switched(r)

\* A callback that is past the look-up of the identity has found or made the link.
Linked(r) ==
    op[r] = "callback" =>
        /\ pc[r] = "link" => person.known
        /\ pc[r] \in {"organization", "create"} \/ sessions[r] # "absent"
           => person.known /\ person.linked

\* A sign-on is begun by a request that has ended when a callback brings it, and
\* forgotten when the callback is answered.
Forgotten(r) ==
    op[r] = "callback" /\ pc[r] # "begin" =>
        /\ key[r] \in Requests => pc[key[r]] = "answered"
        /\ pc[r] = "answered" => key[r] \notin entries

ForgottenFor(q, r) ==
    op[q] = "callback" /\ op[r] = "callback" /\ key[q] = key[r] /\ q \in ended[r]
    /\ pc[q] = "answered"
    => pc[r] \in {"state", "failed"} /\ sessions[r] = "absent"

\* A token is mailed by a request that inserts no other, and is consumed when a
\* reset revokes the sessions.
Spent(r) ==
    /\ r \in mailed => pc[r] \in {"answered", "failed"}
    /\ op[r] = "reset" /\ pc[r] # "begin" => key[r] \in mailed
    /\ op[r] = "reset" /\ pc[r] \in {"revoke_all", "answered"} => tokens[key[r]] = "consumed"

\* A reset that has set the password has replaced the one from before, if any.
Replaced(r) ==
    op[r] = "reset" /\ pc[r] \in {"consume", "revoke_all", "answered"}
    => person.password # Before

\* Who began after a reset was answered comes past the first check only with what
\* the reset left.
After(r, o) ==
    Done(r, "reset") /\ r \in ended[o] =>
        /\ op[o] = "login" /\ (pc[o] \notin {"password", "failed"} \/ sessions[o] # "absent")
           => key[o] # Before
        /\ op[o] = "select" /\ (pc[o] \notin {"resolve", "failed"} \/ sessions[o] # "absent")
           => key[o] \in lagging \cup Requests

LiveAfter(r) ==
    Done(r, "reset") =>
        \A o \in Origins : sessions[o] = "live" => o \in Requests /\ o \notin ended[r]

\* A row whose failures have reached the limit is locked, or has a reason not to be.
Reason ==
    \/ lapsed
    \/ \E q, r \in Requests :
         /\ q # r /\ Overlap(q, r)
         /\ pc[q] = "failed" /\ pc[r] = "failed" /\ seen[q].row /\ seen[r].row

AtLimit(row) == row.failures >= Limit => row.locked \/ Reason

\* A request that finds more failures than it has read runs alongside the one that
\* recorded them.
Behind(r) ==
    pc[r] \in {"code", "record"} =>
        /\ seen[r].row
        /\ factor.failures > seen[r].failures =>
             \E q \in Requests \ {r} : pc[q] = "failed" /\ seen[q].row /\ q \notin ended[r]

LimitInv == AtLimit(factor) /\ \A r \in Requests :
               AtLimit(seen[r]) /\ Behind(r) /\ (pc[r] = "record" => ~seen[r].locked)

\* Nobody who has begun, besides q and r, writes the row of the second factor.
Alone(q, r) ==
    \A p \in Requests \ {q, r} :
        pc[p] # "begin" => op[p] \notin {"login", "confirm", "enroll", "disable"}

Later(q, r) ==
    /\ q # r /\ Alone(q, r) /\ op[q] \in {"login", "confirm"} /\ pc[q] # "begin"
    /\ pc[r] = "begin" \/ (op[r] = "login" /\ q \in ended[r])

\* The step that q has used is in the row until r, which comes after, uses another.
StepKept(q, r) ==
    Later(q, r) =>
        /\ pc[q] \in {"code", "mark", "confirm"} => factor.row
        /\ pc[q] \in {"organization", "create", "respond", "publish", "answered"} /\ at[q] # 0
           => /\ at[r] # at[q]
              /\ at[r] = 0 => factor.row /\ factor.step = at[q]
              /\ pc[r] = "code" => seen[r].step = at[q]

\* The step a request's code was accepted in is set between two of its labels.
StepOf(r) ==
    /\ pc[r] \in {"begin", "password", "factor", "code"} => at[r] = 0
    /\ pc[r] \in {"mark", "confirm"} => at[r] # 0
    /\ pc[r] \in {"code", "record"} => seen[r].row

StepInv == \A r \in Requests : StepOf(r) /\ \A q \in Requests : StepKept(q, r)
-----------------------------------------------------------------------------
(* Which step changes what *)

USE AccountsAssumption

\* A step of a request that has begun.
Act(r) ==
    \/ Login(r) \/ TwoFactor(r) \/ SelectOrganization(r)
    \/ ResetPassword(r) \/ ForgotPassword(r) \/ StartSSO(r) \/ CompleteSSO(r)

\* The operations and the labels they start at.
LEMMA FirstSteps ==
    /\ DOMAIN FirstStep = {"login", "start", "callback", "select", "logout", "forgot",
                           "reset", "enroll", "confirm", "disable"}
    /\ FirstStep["login"] = "password" /\ FirstStep["start"] = "save_state"
    /\ FirstStep["callback"] = "state" /\ FirstStep["select"] = "resolve"
    /\ FirstStep["logout"] = "logout" /\ FirstStep["forgot"] = "find_user"
    /\ FirstStep["reset"] = "token" /\ FirstStep["enroll"] = "enroll"
    /\ FirstStep["confirm"] = "factor" /\ FirstStep["disable"] = "disable"
BY DEF FirstStep

Labels == {"begin", "code", "record", "mark", "confirm", "publish",
           "organization", "create", "respond", "slug", "insert_token",
           "send", "set", "consume", "revoke_all", "identity", "link",
           "forget_state", "password", "save_state", "state", "resolve", "logout",
           "find_user", "token", "enroll", "factor", "disable",
           "answered", "failed", "unenrolled"}

LEMMA LabelsAre ==
    {"begin", "code", "record", "mark", "confirm", "publish",
     "organization", "create", "respond", "slug", "insert_token",
     "send", "set", "consume", "revoke_all", "identity", "link",
     "forget_state"} \cup {FirstStep[o] : o \in DOMAIN FirstStep} \cup Ended = Labels
<1>1. {FirstStep[o] : o \in DOMAIN FirstStep}
      = {"password", "save_state", "state", "resolve", "logout", "find_user", "token",
         "enroll", "factor", "disable"}
  <2> DEFINE D == {"login", "start", "callback", "select", "logout", "forgot",
                   "reset", "enroll", "confirm", "disable"}
             F == {"password", "save_state", "state", "resolve", "logout", "find_user",
                   "token", "enroll", "factor", "disable"}
  <2>1. \A o \in D : FirstStep[o] \in F
    BY FirstSteps
  <2>2. \A l \in F : \E o \in D : l = FirstStep[o]
    BY FirstSteps
  <2> HIDE DEF D, F
  <2>3. {FirstStep[o] : o \in D} = F
    BY <2>1, <2>2
  <2>4. QED
    BY <2>3, FirstSteps DEF D, F
<1>2. QED
  BY <1>1 DEF Ended, Labels

\* Where a step takes the request that makes it, what it leaves of the others, and
\* what of the request's own history it leaves.
LEMMA ActMoves ==
    ASSUME NEW r \in Requests, Act(r)
    PROVE  /\ pc[r] \notin Ended \cup {"begin"}
           /\ \E l \in Labels \ {"begin"} : pc' = [pc EXCEPT ![r] = l]
           /\ UNCHANGED <<time, locals>>
<1> USE DEF Goto, Fail, At, Labels, Ended
<1>1. CASE CheckPassword(r)
  BY <1>1 DEF CheckPassword
<1>2. CASE FindTwoFactor(r)
  BY <1>2 DEF FindTwoFactor
<1>3. CASE CheckCode(r)
  BY <1>3 DEF CheckCode
<1>4. CASE RecordFailure(r)
  BY <1>4 DEF RecordFailure
<1>5. CASE MarkUsed(r)
  BY <1>5 DEF MarkUsed, WriteFactor
<1>6. CASE ConfirmTOTP(r)
  BY <1>6 DEF ConfirmTOTP, WriteFactor
<1>7. CASE StartTOTPEnrollment(r)
  BY <1>7 DEF StartTOTPEnrollment, WriteFactor
<1>8. CASE DisableTOTP(r)
  BY <1>8 DEF DisableTOTP, WriteFactor
<1>9. CASE PublishEvent(r)
  BY <1>9 DEF PublishEvent
<1>10. CASE ResolveOrganization(r)
  BY <1>10 DEF ResolveOrganization
<1>11. CASE CreateSession(r)
  BY <1>11 DEF CreateSession
<1>12. CASE Respond(r)
  BY <1>12 DEF Respond
<1>13. CASE ResolvePrincipal(r)
  BY <1>13 DEF ResolvePrincipal
<1>14. CASE FindOrganization(r)
  BY <1>14 DEF FindOrganization
<1>15. CASE Logout(r)
  BY <1>15 DEF Logout
<1>16. CASE FindUserForReset(r)
  BY <1>16 DEF FindUserForReset
<1>17. CASE InsertToken(r)
  BY <1>17 DEF InsertToken
<1>18. CASE SendToken(r)
  BY <1>18 DEF SendToken
<1>19. CASE FindToken(r)
  BY <1>19 DEF FindToken
<1>20. CASE SetPassword(r)
  BY <1>20 DEF SetPassword
<1>21. CASE ConsumeToken(r)
  BY <1>21 DEF ConsumeToken
<1>22. CASE RevokeForUser(r)
  BY <1>22 DEF RevokeForUser
<1>23. CASE StartSSO(r)
  BY <1>23 DEF StartSSO
<1>24. CASE CheckState(r)
  BY <1>24 DEF CheckState
<1>25. CASE FindIdentity(r)
  BY <1>25 DEF FindIdentity
<1>26. CASE LinkAccount(r)
  BY <1>26 DEF LinkAccount
<1>27. CASE ForgetState(r)
  BY <1>27 DEF ForgetState
<1>28. QED
  BY <1>1, <1>2, <1>3, <1>4, <1>5, <1>6, <1>7, <1>8, <1>9, <1>10, <1>11, <1>12, <1>13, <1>14, <1>15, <1>16, <1>17, <1>18, <1>19, <1>20, <1>21, <1>22, <1>23, <1>24, <1>25, <1>26, <1>27
  DEF Act, Login, TwoFactor, SelectOrganization, ResetPassword, ForgotPassword, CompleteSSO

\* The writers of each store, and of what a request remembers.  The person: a reset
\* and a callback.
LEMMA PersonWriters ==
    ASSUME NEW r \in Requests, Act(r)
    PROVE  UNCHANGED person \/ SetPassword(r) \/ LinkAccount(r)
BY DEF Act, Login, TwoFactor, SelectOrganization, ResetPassword, ForgotPassword,
    CompleteSSO, stores, WriteFactor, CheckPassword, FindTwoFactor, CheckCode,
    RecordFailure, MarkUsed, ConfirmTOTP, StartTOTPEnrollment, DisableTOTP,
    PublishEvent, ResolveOrganization, CreateSession, Respond, ResolvePrincipal,
    FindOrganization, Logout, FindUserForReset, InsertToken, SendToken, FindToken,
    ConsumeToken, RevokeForUser, StartSSO, CheckState, FindIdentity, ForgetState

\* The row of the second factor.
LEMMA FactorWriters ==
    ASSUME NEW r \in Requests, Act(r)
    PROVE  UNCHANGED factor
           \/ RecordFailure(r) \/ MarkUsed(r) \/ ConfirmTOTP(r) \/ StartTOTPEnrollment(r) \/ DisableTOTP(r)
BY DEF Act, Login, TwoFactor, SelectOrganization, ResetPassword, ForgotPassword,
    CompleteSSO, stores, WriteFactor, CheckPassword, FindTwoFactor, CheckCode,
    PublishEvent, ResolveOrganization, CreateSession, Respond, ResolvePrincipal,
    FindOrganization, Logout, FindUserForReset, InsertToken, SendToken, FindToken,
    SetPassword, ConsumeToken, RevokeForUser, StartSSO, CheckState, FindIdentity,
    LinkAccount, ForgetState

\* Sessions.
LEMMA SessionWriters ==
    ASSUME NEW r \in Requests, Act(r)
    PROVE  UNCHANGED <<sessions, lagging>> \/ CreateSession(r) \/ Logout(r) \/ RevokeForUser(r)
BY DEF Act, Login, TwoFactor, SelectOrganization, ResetPassword, ForgotPassword,
    CompleteSSO, stores, WriteFactor, CheckPassword, FindTwoFactor, CheckCode,
    RecordFailure, MarkUsed, ConfirmTOTP, StartTOTPEnrollment, DisableTOTP,
    PublishEvent, ResolveOrganization, Respond, ResolvePrincipal, FindOrganization,
    FindUserForReset, InsertToken, SendToken, FindToken, SetPassword, ConsumeToken,
    StartSSO, CheckState, FindIdentity, LinkAccount, ForgetState

\* Reset tokens.
LEMMA TokenWriters ==
    ASSUME NEW r \in Requests, Act(r)
    PROVE  UNCHANGED tokens \/ InsertToken(r) \/ ConsumeToken(r)
BY DEF Act, Login, TwoFactor, SelectOrganization, ResetPassword, ForgotPassword,
    CompleteSSO, stores, WriteFactor, CheckPassword, FindTwoFactor, CheckCode,
    RecordFailure, MarkUsed, ConfirmTOTP, StartTOTPEnrollment, DisableTOTP,
    PublishEvent, ResolveOrganization, CreateSession, Respond, ResolvePrincipal,
    FindOrganization, Logout, FindUserForReset, SendToken, FindToken, SetPassword,
    RevokeForUser, StartSSO, CheckState, FindIdentity, LinkAccount, ForgetState

\* Their mails.
LEMMA MailWriters ==
    ASSUME NEW r \in Requests, Act(r)
    PROVE  UNCHANGED mailed \/ SendToken(r)
BY DEF Act, Login, TwoFactor, SelectOrganization, ResetPassword, ForgotPassword,
    CompleteSSO, stores, WriteFactor, CheckPassword, FindTwoFactor, CheckCode,
    RecordFailure, MarkUsed, ConfirmTOTP, StartTOTPEnrollment, DisableTOTP,
    PublishEvent, ResolveOrganization, CreateSession, Respond, ResolvePrincipal,
    FindOrganization, Logout, FindUserForReset, InsertToken, FindToken, SetPassword,
    ConsumeToken, RevokeForUser, StartSSO, CheckState, FindIdentity, LinkAccount,
    ForgetState

\* Sign-ons begun.
LEMMA EntryWriters ==
    ASSUME NEW r \in Requests, Act(r)
    PROVE  UNCHANGED entries \/ StartSSO(r) \/ ForgetState(r)
BY DEF Act, Login, TwoFactor, SelectOrganization, ResetPassword, ForgotPassword,
    CompleteSSO, stores, WriteFactor, CheckPassword, FindTwoFactor, CheckCode,
    RecordFailure, MarkUsed, ConfirmTOTP, StartTOTPEnrollment, DisableTOTP,
    PublishEvent, ResolveOrganization, CreateSession, Respond, ResolvePrincipal,
    FindOrganization, Logout, FindUserForReset, InsertToken, SendToken, FindToken,
    SetPassword, ConsumeToken, RevokeForUser, CheckState, FindIdentity, LinkAccount

\* The row a request has read.
LEMMA SeenWriters ==
    ASSUME NEW r \in Requests, Act(r)
    PROVE  UNCHANGED seen \/ FindTwoFactor(r)
BY DEF Act, Login, TwoFactor, SelectOrganization, ResetPassword, ForgotPassword,
    CompleteSSO, stores, WriteFactor, CheckPassword, CheckCode, RecordFailure,
    MarkUsed, ConfirmTOTP, StartTOTPEnrollment, DisableTOTP, PublishEvent,
    ResolveOrganization, CreateSession, Respond, ResolvePrincipal, FindOrganization,
    Logout, FindUserForReset, InsertToken, SendToken, FindToken, SetPassword,
    ConsumeToken, RevokeForUser, StartSSO, CheckState, FindIdentity, LinkAccount,
    ForgetState

\* The step its code was accepted in.
LEMMA StepWriters ==
    ASSUME NEW r \in Requests, Act(r)
    PROVE  UNCHANGED at \/ CheckCode(r)
BY DEF Act, Login, TwoFactor, SelectOrganization, ResetPassword, ForgotPassword,
    CompleteSSO, stores, WriteFactor, CheckPassword, FindTwoFactor, RecordFailure,
    MarkUsed, ConfirmTOTP, StartTOTPEnrollment, DisableTOTP, PublishEvent,
    ResolveOrganization, CreateSession, Respond, ResolvePrincipal, FindOrganization,
    Logout, FindUserForReset, InsertToken, SendToken, FindToken, SetPassword,
    ConsumeToken, RevokeForUser, StartSSO, CheckState, FindIdentity, LinkAccount,
    ForgetState

\* What a step that is no request's own leaves alone.
LEMMA ClockMoves ==
    ASSUME Tick \/ LockLapses \/ ExpireToken \/ UNCHANGED vars
    PROVE  UNCHANGED <<person, mailed, sessions, lagging, entries, pc, locals, seen, at>>
BY DEF Tick, LockLapses, ExpireToken, vars, stores, time

\* The steps there are.
LEMMA Steps ==
    ASSUME [Next]_vars
    PROVE  \/ UNCHANGED vars \/ Tick \/ LockLapses \/ ExpireToken
           \/ \E r \in Requests : Begin(r) \/ Act(r)
BY DEF Next, Act

-----------------------------------------------------------------------------
(* Types, and where each operation may be *)

\* Two ways to change a row: its count and its lock, or its lock to what it was.
LEMMA CountedRow ==
    ASSUME NEW row \in Factors, NEW n \in Nat, NEW lock \in BOOLEAN
    PROVE  /\ [row EXCEPT !.failures = n, !.locked = lock] \in Factors
           /\ [row EXCEPT !.failures = n, !.locked = lock].row = row.row
BY DEF Factors

LEMMA Unchanged ==
    ASSUME NEW row \in Factors
    PROVE  [row EXCEPT !.locked = row.locked] = row
BY DEF Factors

\* What each statement makes of the row.
LEMMA FactorTyped ==
    ASSUME TypeOK, NEW n \in 0..MaxStep, NEW next \in Nat
    PROVE  \A row \in {InsertOrReplaceTwoFactor, ConfirmTwoFactor(n), MarkTwoFactorUsed(n),
                       DisableTwoFactor, RegisterTwoFactorFailure(next),
                       [factor EXCEPT !.locked = FALSE]} :
              row \in Factors /\ (row.row \/ row = NoFactor)
<1>0. /\ factor \in Factors /\ (factor.row \/ factor = NoFactor)
      /\ NoFactor \in Factors /\ 0 \in Nat
  BY DEF TypeOK, Factors, NoFactor
<1>1. InsertOrReplaceTwoFactor \in Factors /\ InsertOrReplaceTwoFactor.row
  BY <1>0 DEF InsertOrReplaceTwoFactor, Factors
<1>2. /\ ConfirmTwoFactor(n) \in Factors
      /\ ConfirmTwoFactor(n).row \/ ConfirmTwoFactor(n) = NoFactor
  BY <1>0 DEF ConfirmTwoFactor, OnRow, Factors
<1>3. /\ MarkTwoFactorUsed(n) \in Factors
      /\ MarkTwoFactorUsed(n).row \/ MarkTwoFactorUsed(n) = NoFactor
  BY <1>0 DEF MarkTwoFactorUsed, OnRow, Factors
<1>4. DisableTwoFactor \in Factors /\ DisableTwoFactor = NoFactor
  BY <1>0 DEF DisableTwoFactor
<1>5. /\ RegisterTwoFactorFailure(next) \in Factors
      /\ RegisterTwoFactorFailure(next).row \/ RegisterTwoFactorFailure(next) = NoFactor
  <2> DEFINE lock == IF factor.failures + 1 >= next THEN next >= Limit ELSE factor.locked
             row == [factor EXCEPT !.failures = factor.failures + 1, !.locked = lock]
  <2>1. lock \in BOOLEAN
    <3>1. (next >= Limit) \in BOOLEAN /\ factor.locked \in BOOLEAN
      BY <1>0 DEF Factors
    <3>2. CASE factor.failures + 1 >= next
      BY <3>1, <3>2, Zenon
    <3>3. CASE ~(factor.failures + 1 >= next)
      BY <3>1, <3>3, Zenon
    <3>4. QED
      BY <3>2, <3>3
  <2>2. factor.failures + 1 \in Nat
    BY <1>0 DEF Factors
  <2>3. RegisterTwoFactorFailure(next) = IF factor.row THEN row ELSE factor
    BY DEF RegisterTwoFactorFailure, OnRow
  <2> HIDE DEF lock
  <2>4. row \in Factors /\ row.row = factor.row
    BY <1>0, <2>1, <2>2, CountedRow
  <2> HIDE DEF row
  <2>5. QED
    BY <1>0, <2>3, <2>4
<1>6. /\ [factor EXCEPT !.locked = FALSE] \in Factors
      /\ [factor EXCEPT !.locked = FALSE].row = factor.row
  BY <1>0 DEF Factors
<1>7. factor = NoFactor => [factor EXCEPT !.locked = FALSE] = NoFactor
  <2>1. SUFFICES ASSUME factor = NoFactor
                 PROVE  [NoFactor EXCEPT !.locked = FALSE] = NoFactor
    OBVIOUS
  <2>2. NoFactor.locked = FALSE
    BY DEF NoFactor
  <2>3. [NoFactor EXCEPT !.locked = NoFactor.locked] = NoFactor
    BY <1>0, Unchanged
  <2>4. QED
    BY <2>2, <2>3, Zenon
<1>8. QED
  BY <1>0, <1>1, <1>2, <1>3, <1>4, <1>5, <1>6, <1>7

LEMMA FactorStaysTyped ==
    ASSUME TypeOK, NEW r \in Requests, Act(r)
    PROVE  factor' \in Factors /\ (factor'.row \/ factor' = NoFactor)
<1>0. seen[r].failures + 1 \in Nat /\ at[r] \in 0..MaxStep
  BY DEF TypeOK, Factors
<1>1. CASE UNCHANGED factor
  BY <1>1 DEF TypeOK
<1>2. CASE RecordFailure(r)
  BY <1>0, <1>1, <1>2, FactorTyped DEF RecordFailure
<1>3. CASE MarkUsed(r)
  BY <1>0, <1>1, <1>3, FactorTyped DEF MarkUsed, WriteFactor
<1>4. CASE ConfirmTOTP(r)
  BY <1>0, <1>1, <1>4, FactorTyped DEF ConfirmTOTP, WriteFactor
<1>5. CASE StartTOTPEnrollment(r)
  BY <1>0, <1>1, <1>5, FactorTyped DEF StartTOTPEnrollment, WriteFactor
<1>6. CASE DisableTOTP(r)
  BY <1>0, <1>1, <1>6, FactorTyped DEF DisableTOTP, WriteFactor
<1>7. QED
  BY <1>1, <1>2, <1>3, <1>4, <1>5, <1>6, FactorWriters

\* A revocation.
LEMMA Revoked ==
    ASSUME TypeOK, NEW revoked \in SUBSET Origins, Revoke(revoked)
    PROVE  /\ sessions' \in [Origins -> {"absent", "live", "revoked"}]
           /\ lagging \subseteq lagging' /\ lagging' \subseteq Origins
           /\ \A o \in Origins :
                sessions'[o] = IF o \in revoked /\ sessions[o] = "live" THEN "revoked"
                               ELSE sessions[o]
BY DEF Revoke, TypeOK

\* What a request has brought is an origin.
LEMMA KeysAre ==
    ASSUME TypeOK, NEW operation \in DOMAIN FirstStep, NEW k \in Keys(operation)
    PROVE  k \in Origins \cup {None}
<1>1. CASE operation = "login"
  BY <1>1 DEF Keys, Origins
<1>2. CASE operation \in {"select", "logout", "enroll", "confirm", "disable"}
  BY <1>2 DEF Keys
<1>3. CASE operation = "reset"
  BY <1>3 DEF Keys, TypeOK
<1>4. CASE operation = "callback"
  BY <1>4 DEF Keys, Origins
<1>5. CASE operation \notin {"login", "select", "logout", "enroll", "confirm", "disable",
                             "reset", "callback"}
  BY <1>5 DEF Keys
<1>6. QED
  BY <1>1, <1>2, <1>3, <1>4, <1>5

LEMMA TypeStep == Base /\ [Next]_vars => TypeOK'
<1> SUFFICES ASSUME Base, [Next]_vars
             PROVE  TypeOK'
  OBVIOUS
<1>0. TypeOK
  BY DEF Base
<1> USE <1>0, LabelsAre
<1>1. CASE UNCHANGED vars
  BY <1>1 DEF vars, stores, time, locals, TypeOK
<1>2. CASE Tick
  BY <1>2 DEF Tick, stores, locals, TypeOK
<1>3. CASE LockLapses
  <2>1. 0 \in 0..MaxStep /\ 0 \in Nat
    OBVIOUS
  <2>2. factor' \in Factors /\ (factor'.row \/ factor' = NoFactor)
    BY <1>3, <2>1, FactorTyped DEF LockLapses
  <2>3. QED
    BY <1>3, <2>2 DEF LockLapses, locals, TypeOK
<1>4. CASE ExpireToken
  BY <1>4 DEF ExpireToken, locals, time, TypeOK
<1>5. ASSUME NEW r \in Requests, Begin(r)
      PROVE  TypeOK'
  <2>0. PICK operation \in DOMAIN FirstStep : \E k \in Keys(operation) :
          /\ op' = [op EXCEPT ![r] = operation] /\ key' = [key EXCEPT ![r] = k]
          /\ pc' = [pc EXCEPT ![r] = FirstStep[operation]]
    BY <1>5 DEF Begin, Goto
  <2>1. PICK k \in Keys(operation) :
          /\ op' = [op EXCEPT ![r] = operation] /\ key' = [key EXCEPT ![r] = k]
          /\ pc' = [pc EXCEPT ![r] = FirstStep[operation]]
    BY <2>0
  <2>2. /\ UNCHANGED <<stores, time, seen, at>>
        /\ ended' = [ended EXCEPT ![r] = {q \in Requests : pc[q] \in Ended}]
    BY <1>5 DEF Begin
  <2>3. k \in Origins \cup {None}
    BY KeysAre
  <2>4. FirstStep[operation] \in Labels
    BY FirstSteps DEF Labels
  <2>5. pc' \in [Requests -> Labels] /\ op' \in [Requests -> DOMAIN FirstStep \cup {None}]
    BY <2>1, <2>4 DEF TypeOK
  <2>6. key' \in [Requests -> Origins \cup {None}] /\ ended' \in [Requests -> SUBSET Requests]
    BY <2>1, <2>2, <2>3 DEF TypeOK
  <2>7. QED
    BY <2>2, <2>5, <2>6 DEF TypeOK, stores, time
<1>6. ASSUME NEW r \in Requests, Act(r)
      PROVE  TypeOK'
  <2>0. UNCHANGED <<time, locals>> /\ r \in Origins
    BY <1>6, ActMoves DEF Origins
  <2>1. pc' \in [Requests -> Labels]
    BY <1>6, ActMoves DEF TypeOK
  <2>2. person' \in [known : BOOLEAN, verified : BOOLEAN, member : BOOLEAN,
                     password : Origins \cup {None}, linked : BOOLEAN]
    <3>1. CASE SetPassword(r)
      BY <2>0, <3>1 DEF SetPassword, UpdateUserPasswordHash, TypeOK
    <3>2. CASE LinkAccount(r)
      BY <3>2 DEF LinkAccount, InsertAccount, TypeOK
    <3>3. QED
      BY <1>6, <3>1, <3>2, PersonWriters DEF TypeOK
  <2>3. factor' \in Factors /\ (factor'.row \/ factor' = NoFactor)
    BY <1>6, FactorStaysTyped
  <2>4. sessions' \in [Origins -> {"absent", "live", "revoked"}] /\ lagging' \subseteq Origins
    <3>1. CASE CreateSession(r)
      BY <2>0, <3>1 DEF CreateSession, TypeOK
    <3>2. ASSUME NEW revoked \in SUBSET Origins, Revoke(revoked)
          PROVE  /\ sessions' \in [Origins -> {"absent", "live", "revoked"}]
                 /\ lagging' \subseteq Origins
      BY <3>2, Revoked
    <3>3. CASE UNCHANGED <<sessions, lagging>>
      BY <3>3 DEF TypeOK
    <3>4. CASE Logout(r)
      <4>1. CASE Revoke({key[r]})
        <5>1. key[r] \in Origins
          BY <3>4 DEF Base, Place, Brings, Logout, At
        <5>2. QED
          BY <3>2, <4>1, <5>1
      <4>2. QED
        BY <3>3, <3>4, <4>1 DEF Logout
    <3>5. CASE RevokeForUser(r)
      BY <3>2, <3>3, <3>5 DEF RevokeForUser
    <3>6. QED
      BY <1>6, <3>1, <3>3, <3>4, <3>5, SessionWriters
  <2>5. tokens' \in [Origins -> {"absent", "open", "expired", "consumed"}]
    <3>1. CASE InsertToken(r)
      BY <2>0, <3>1 DEF InsertToken, InsertVerificationToken, TypeOK
    <3>2. CASE ConsumeToken(r)
      BY <3>2 DEF ConsumeToken, ConsumeVerificationToken, TypeOK
    <3>3. QED
      BY <1>6, <3>1, <3>2, TokenWriters DEF TypeOK
  <2>6. mailed' \subseteq Origins
    BY <1>6, <2>0, MailWriters DEF SendToken, TypeOK
  <2>7. entries' \subseteq Origins
    BY <1>6, <2>0, EntryWriters DEF StartSSO, ForgetState, TypeOK
  <2>8. seen' \in [Requests -> Factors]
    BY <1>6, SeenWriters DEF FindTwoFactor, FindTwoFactorByUserID, TypeOK
  <2>9. at' \in [Requests -> 0..MaxStep]
    <3>1. CASE CheckCode(r)
      BY <3>1 DEF CheckCode, TypeOK
    <3>2. QED
      BY <1>6, <3>1, StepWriters DEF TypeOK
  <2>10. QED
    BY <2>0, <2>1, <2>2, <2>3, <2>4, <2>5, <2>6, <2>7, <2>8, <2>9 DEF TypeOK, time, locals
<1>7. QED
  BY <1>1, <1>2, <1>3, <1>4, <1>5, <1>6, Steps

\* A request goes on within its own operation.
LEMMA PlaceStep ==
    ASSUME Base, NEW r \in Requests, Act(r)
    PROVE  Place(r)'
<1>0. /\ Place(r) /\ pc[r] # "begin" /\ op'[r] = op[r]
      /\ \A l : pc' = [pc EXCEPT ![r] = l] => pc'[r] = l
  BY ActMoves DEF Base, TypeOK, locals
<1> USE DEF Goto, Fail, At
<1>2. CASE CheckPassword(r)
  BY <1>0, <1>2 DEF Place, CheckPassword
<1>3. CASE FindTwoFactor(r)
  BY <1>0, <1>3 DEF Place, FindTwoFactor
<1>4. CASE CheckCode(r)
  BY <1>0, <1>4 DEF Place, CheckCode
<1>5. CASE RecordFailure(r)
  BY <1>0, <1>5 DEF Place, RecordFailure
<1>6. CASE MarkUsed(r)
  BY <1>0, <1>6 DEF Place, MarkUsed, WriteFactor
<1>7. CASE ConfirmTOTP(r)
  BY <1>0, <1>7 DEF Place, ConfirmTOTP, WriteFactor
<1>8. CASE StartTOTPEnrollment(r)
  BY <1>0, <1>8 DEF Place, StartTOTPEnrollment, WriteFactor
<1>9. CASE DisableTOTP(r)
  BY <1>0, <1>9 DEF Place, DisableTOTP, WriteFactor
<1>10. CASE PublishEvent(r)
  BY <1>0, <1>10 DEF Place, PublishEvent
<1>11. CASE ResolveOrganization(r)
  BY <1>0, <1>11 DEF Place, ResolveOrganization
<1>12. CASE CreateSession(r)
  BY <1>0, <1>12 DEF Place, CreateSession
<1>13. CASE Respond(r)
  BY <1>0, <1>13 DEF Place, Respond
<1>14. CASE ResolvePrincipal(r)
  BY <1>0, <1>14 DEF Place, ResolvePrincipal
<1>15. CASE FindOrganization(r)
  BY <1>0, <1>15 DEF Place, FindOrganization
<1>16. CASE Logout(r)
  BY <1>0, <1>16 DEF Place, Logout
<1>17. CASE FindUserForReset(r)
  BY <1>0, <1>17 DEF Place, FindUserForReset
<1>18. CASE InsertToken(r)
  BY <1>0, <1>18 DEF Place, InsertToken
<1>19. CASE SendToken(r)
  BY <1>0, <1>19 DEF Place, SendToken
<1>20. CASE FindToken(r)
  BY <1>0, <1>20 DEF Place, FindToken
<1>21. CASE SetPassword(r)
  BY <1>0, <1>21 DEF Place, SetPassword
<1>22. CASE ConsumeToken(r)
  BY <1>0, <1>22 DEF Place, ConsumeToken
<1>23. CASE RevokeForUser(r)
  BY <1>0, <1>23 DEF Place, RevokeForUser
<1>24. CASE StartSSO(r)
  BY <1>0, <1>24 DEF Place, StartSSO
<1>25. CASE CheckState(r)
  BY <1>0, <1>25 DEF Place, CheckState
<1>26. CASE FindIdentity(r)
  BY <1>0, <1>26 DEF Place, FindIdentity
<1>27. CASE LinkAccount(r)
  BY <1>0, <1>27 DEF Place, LinkAccount
<1>28. CASE ForgetState(r)
  BY <1>0, <1>28 DEF Place, ForgetState
<1>29. QED
  BY <1>2, <1>3, <1>4, <1>5, <1>6, <1>7, <1>8, <1>9, <1>10, <1>11, <1>12, <1>13, <1>14, <1>15, <1>16, <1>17, <1>18, <1>19, <1>20, <1>21, <1>22, <1>23, <1>24, <1>25, <1>26, <1>27, <1>28
  DEF Act, Login, TwoFactor, SelectOrganization, ResetPassword, ForgotPassword, CompleteSSO

\* What a step of r leaves as it is: the other requests, what r brought and what
\* had ended, and requests that have ended.
LEMMA Others ==
    ASSUME Base, NEW r \in Requests, Act(r)
    PROVE  /\ pc' \in [Requests -> Labels] /\ pc[r] \notin Ended \cup {"begin"}
           /\ pc'[r] # "begin"
           /\ \A x \in Requests \ {r} : pc'[x] = pc[x]
           /\ \A x \in Requests : pc[x] \in Ended => pc'[x] = pc[x]
           /\ op' = op /\ key' = key /\ ended' = ended /\ time' = time
<1>1. pc \in [Requests -> Labels]
  BY LabelsAre DEF Base, TypeOK
<1>2. PICK l \in Labels \ {"begin"} : pc' = [pc EXCEPT ![r] = l]
  BY ActMoves
<1>3. pc[r] \notin Ended \cup {"begin"} /\ UNCHANGED <<time, locals>>
  BY ActMoves
<1>4. op' = op /\ key' = key /\ ended' = ended /\ time' = time
  BY <1>3 DEF locals
<1>5. QED
  BY <1>1, <1>2, <1>3, <1>4

\* What a request does when it begins: it takes up an operation, with what its
\* client brings, at that operation's first label.
LEMMA Beginning ==
    ASSUME Base, NEW r \in Requests, Begin(r)
    PROVE  /\ pc[r] = "begin" /\ pc' \in [Requests -> Labels]
           /\ op'[r] \in DOMAIN FirstStep /\ key'[r] \in Keys(op'[r])
           /\ pc'[r] = FirstStep[op'[r]] /\ pc'[r] \notin Ended \cup {"begin"}
           /\ ended'[r] = {q \in Requests : pc[q] \in Ended}
           /\ \A x \in Requests \ {r} : /\ pc'[x] = pc[x] /\ op'[x] = op[x]
                                        /\ key'[x] = key[x] /\ ended'[x] = ended[x]
           /\ UNCHANGED <<stores, time, seen, at>>
<1>1. TypeOK /\ pc \in [Requests -> Labels]
  BY LabelsAre DEF Base, TypeOK
<1>2. PICK operation \in DOMAIN FirstStep : \E k \in Keys(operation) :
        /\ op' = [op EXCEPT ![r] = operation] /\ key' = [key EXCEPT ![r] = k]
        /\ pc' = [pc EXCEPT ![r] = FirstStep[operation]]
  BY DEF Begin, Goto
<1>3. PICK k \in Keys(operation) :
        /\ op' = [op EXCEPT ![r] = operation] /\ key' = [key EXCEPT ![r] = k]
        /\ pc' = [pc EXCEPT ![r] = FirstStep[operation]]
  BY <1>2
<1>4. /\ pc[r] = "begin" /\ UNCHANGED <<stores, time, seen, at>>
      /\ ended' = [ended EXCEPT ![r] = {q \in Requests : pc[q] \in Ended}]
  BY DEF Begin
<1>5. FirstStep[operation] \in Labels \ (Ended \cup {"begin"})
  BY FirstSteps DEF Labels, Ended
<1>6. op'[r] = operation /\ key'[r] = k
  BY <1>1, <1>3 DEF TypeOK
<1>7. QED
  BY <1>1, <1>3, <1>4, <1>5, <1>6 DEF TypeOK

LEMMA BaseStep == Base /\ [Next]_vars => Base'
<1> SUFFICES ASSUME Base, [Next]_vars
             PROVE  Base'
  OBVIOUS
<1>0. TypeOK' /\ TypeOK
  BY TypeStep DEF Base
<1>1. CASE UNCHANGED vars \/ Tick \/ LockLapses \/ ExpireToken
  <2>1. pc' = pc /\ op' = op /\ key' = key /\ ended' = ended
    BY <1>1, ClockMoves DEF locals
  <2>2. \A r \in Requests : Place(r)' /\ History(r)' /\ Brings(r)'
    BY <2>1 DEF Base, Place, History, Brings
  <2>3. QED
    BY <1>0, <2>2 DEF Base
<1>2. ASSUME NEW r \in Requests, Begin(r)
      PROVE  Base'
  <2>1. ASSUME NEW x \in Requests \ {r}
        PROVE  Place(x)' /\ History(x)' /\ Brings(x)'
    <3>1. /\ pc'[x] = pc[x] /\ op'[x] = op[x] /\ key'[x] = key[x] /\ ended'[x] = ended[x]
          /\ \A q \in Requests : pc[q] \in Ended => pc'[q] = pc[q]
      BY <1>2, Beginning DEF Ended
    <3>2. ended[x] \subseteq Requests /\ Place(x) /\ History(x) /\ Brings(x)
      BY <1>0 DEF Base, TypeOK
    <3>3. QED
      BY <3>1, <3>2 DEF Place, History, Brings
  <2>2. Place(r)'
    BY <1>2, Beginning, FirstSteps DEF Place
  <2>3. History(r)'
    BY <1>2, Beginning DEF History, Ended
  <2>4. Brings(r)'
    <3>1. op'[r] = "reset" => key'[r] \in Origins
      BY <1>0, <1>2, Beginning DEF Keys, TypeOK
    <3>2. op'[r] = "callback" => key'[r] \in Origins
      BY <1>2, Beginning DEF Keys, Origins
    <3>3. op'[r] \in {"select", "logout"} => key'[r] \in Origins
      BY <1>2, Beginning DEF Keys
    <3>4. QED
      BY <3>1, <3>2, <3>3 DEF Brings
  <2>5. QED
    BY <1>0, <2>1, <2>2, <2>3, <2>4 DEF Base
<1>3. ASSUME NEW r \in Requests, Act(r)
      PROVE  Base'
  <2>1. ASSUME NEW x \in Requests
        PROVE  Place(x)' /\ History(x)' /\ Brings(x)'
    <3>1. ended[x] \subseteq Requests /\ Place(x) /\ History(x) /\ Brings(x)
      BY <1>0 DEF Base, TypeOK
    <3>2. Place(x)'
      <4>1. CASE x = r
        BY <1>3, <4>1, PlaceStep
      <4>2. CASE x # r
        BY <1>3, <3>1, <4>2, Others DEF Place
      <4>3. QED
        BY <4>1, <4>2
    <3>3. History(x)' /\ Brings(x)'
      BY <1>3, <3>1, Others DEF History, Brings
    <3>4. QED
      BY <3>2, <3>3
  <2>2. QED
    BY <1>0, <2>1 DEF Base
<1>4. QED
  BY <1>1, <1>2, <1>3, Steps

LEMMA InitBase == Init => Base
<1> SUFFICES ASSUME Init
             PROVE  Base
  OBVIOUS
<1>1. PICK s \in Situations :
        /\ person = [known |-> s.known, verified |-> s.verified, member |-> s.member,
                     password |-> s.password, linked |-> s.linked]
        /\ factor = s.factor
        /\ lapsed = (s.factor.failures >= Limit /\ ~s.factor.locked)
  BY DEF Init
<1>2. person \in [known : BOOLEAN, verified : BOOLEAN, member : BOOLEAN,
                  password : Origins \cup {None}, linked : BOOLEAN]
  <2>1. s.password \in Origins \cup {None}
    BY DEF Origins
  <2>2. QED
    BY <1>1, <2>1
<1>3. factor \in Factors /\ (factor.row \/ factor = NoFactor)
  BY <1>1
<1>4. lapsed \in BOOLEAN
  BY <1>1, Zenon
<1>5. NoFactor \in Factors
  BY DEF NoFactor, Factors
<1>6. TypeOK
  BY <1>2, <1>3, <1>4, <1>5 DEF Init, TypeOK, Origins
<1>7. \A r \in Requests : Place(r) /\ History(r) /\ Brings(r)
  BY DEF Init, Place, History, Brings
<1>8. QED
  BY <1>6, <1>7 DEF Base

\* Every reachable state is well typed, and of a deleted two_factors row nothing
\* comes back.
THEOREM Typing == Spec => []TypeOK
<1>1. Base => TypeOK
  BY DEF Base
<1>2. QED
  BY <1>1, InitBase, BaseStep, PTL DEF Spec

LEMMA Basis == Spec => []Base
BY InitBase, BaseStep, PTL DEF Spec

-----------------------------------------------------------------------------
\* How a request comes to a label, and that it leaves each label it is at.
Arrives(r) ==
    /\ pc'[r] # pc[r]
    /\ pc'[r] \notin {"begin", "password", "enroll", "disable", "save_state", "state",
                      "resolve", "token", "find_user"}
    /\ pc'[r] = "factor" => CheckPassword(r)
    /\ pc'[r] = "code" => FindTwoFactor(r)
    /\ pc'[r] \in {"mark", "confirm", "record"} => CheckCode(r)
    /\ pc'[r] = "organization"
       => FindTwoFactor(r) \/ MarkUsed(r) \/ FindIdentity(r) \/ LinkAccount(r)
    /\ pc'[r] = "create" => ResolveOrganization(r) \/ Logout(r)
    /\ pc'[r] = "respond" => CreateSession(r)
    /\ pc'[r] = "publish" => ConfirmTOTP(r) \/ DisableTOTP(r)
    /\ pc'[r] = "slug" => ResolvePrincipal(r)
    /\ pc'[r] = "set" => FindToken(r)
    /\ pc'[r] = "consume" => SetPassword(r)
    /\ pc'[r] = "revoke_all" => ConsumeToken(r)
    /\ pc'[r] = "identity" => CheckState(r)
    /\ pc'[r] = "link" => FindIdentity(r)
    /\ pc'[r] = "forget_state" => CreateSession(r)
    /\ pc'[r] = "answered" /\ op[r] = "reset" => RevokeForUser(r)
    /\ pc'[r] = "answered" /\ op[r] = "callback" => ForgetState(r)
    /\ pc'[r] = "answered" /\ op[r] = "login" => Respond(r)
    /\ pc'[r] = "answered" /\ op[r] = "confirm" => PublishEvent(r)
    /\ pc[r] = "create" => pc'[r] \in {"respond", "forget_state", "failed"}
    /\ pc[r] \in {"respond", "forget_state"} => pc'[r] \in {"answered", "failed"}
    /\ pc[r] = "password" => pc'[r] \in {"factor", "failed"}
    /\ pc[r] = "resolve" => pc'[r] \in {"slug", "failed"}
    /\ pc[r] = "token" => pc'[r] \in {"set", "failed"}
    /\ pc[r] = "state" => pc'[r] \in {"identity", "failed"}

LEMMA Arrivals ==
    ASSUME Base, NEW r \in Requests, Act(r)
    PROVE  Arrives(r)
<1>0. /\ Place(r) /\ pc[r] # "begin" /\ op'[r] = op[r]
      /\ \A l : pc' = [pc EXCEPT ![r] = l] => pc'[r] = l
  BY ActMoves DEF Base, TypeOK, locals
<1> USE DEF Goto, Fail, At
<1>2. CASE CheckPassword(r)
  BY <1>0, <1>2 DEF Arrives, Place, CheckPassword
<1>3. CASE FindTwoFactor(r)
  BY <1>0, <1>3 DEF Arrives, Place, FindTwoFactor
<1>4. CASE CheckCode(r)
  BY <1>0, <1>4 DEF Arrives, Place, CheckCode
<1>5. CASE RecordFailure(r)
  BY <1>0, <1>5 DEF Arrives, Place, RecordFailure
<1>6. CASE MarkUsed(r)
  BY <1>0, <1>6 DEF Arrives, Place, MarkUsed, WriteFactor
<1>7. CASE ConfirmTOTP(r)
  BY <1>0, <1>7 DEF Arrives, Place, ConfirmTOTP, WriteFactor
<1>8. CASE StartTOTPEnrollment(r)
  BY <1>0, <1>8 DEF Arrives, Place, StartTOTPEnrollment, WriteFactor
<1>9. CASE DisableTOTP(r)
  BY <1>0, <1>9 DEF Arrives, Place, DisableTOTP, WriteFactor
<1>10. CASE PublishEvent(r)
  BY <1>0, <1>10 DEF Arrives, Place, PublishEvent
<1>11. CASE ResolveOrganization(r)
  BY <1>0, <1>11 DEF Arrives, Place, ResolveOrganization
<1>12. CASE CreateSession(r)
  BY <1>0, <1>12 DEF Arrives, Place, CreateSession
<1>13. CASE Respond(r)
  BY <1>0, <1>13 DEF Arrives, Place, Respond
<1>14. CASE ResolvePrincipal(r)
  BY <1>0, <1>14 DEF Arrives, Place, ResolvePrincipal
<1>15. CASE FindOrganization(r)
  BY <1>0, <1>15 DEF Arrives, Place, FindOrganization
<1>16. CASE Logout(r)
  BY <1>0, <1>16 DEF Arrives, Place, Logout
<1>17. CASE FindUserForReset(r)
  BY <1>0, <1>17 DEF Arrives, Place, FindUserForReset
<1>18. CASE InsertToken(r)
  BY <1>0, <1>18 DEF Arrives, Place, InsertToken
<1>19. CASE SendToken(r)
  BY <1>0, <1>19 DEF Arrives, Place, SendToken
<1>20. CASE FindToken(r)
  BY <1>0, <1>20 DEF Arrives, Place, FindToken
<1>21. CASE SetPassword(r)
  BY <1>0, <1>21 DEF Arrives, Place, SetPassword
<1>22. CASE ConsumeToken(r)
  BY <1>0, <1>22 DEF Arrives, Place, ConsumeToken
<1>23. CASE RevokeForUser(r)
  BY <1>0, <1>23 DEF Arrives, Place, RevokeForUser
<1>24. CASE StartSSO(r)
  BY <1>0, <1>24 DEF Arrives, Place, StartSSO
<1>25. CASE CheckState(r)
  BY <1>0, <1>25 DEF Arrives, Place, CheckState
<1>26. CASE FindIdentity(r)
  BY <1>0, <1>26 DEF Arrives, Place, FindIdentity
<1>27. CASE LinkAccount(r)
  BY <1>0, <1>27 DEF Arrives, Place, LinkAccount
<1>28. CASE ForgetState(r)
  BY <1>0, <1>28 DEF Arrives, Place, ForgetState
<1>29. QED
  BY <1>2, <1>3, <1>4, <1>5, <1>6, <1>7, <1>8, <1>9, <1>10, <1>11, <1>12, <1>13, <1>14, <1>15, <1>16, <1>17, <1>18, <1>19, <1>20, <1>21, <1>22, <1>23, <1>24, <1>25, <1>26, <1>27, <1>28
  DEF Act, Login, TwoFactor, SelectOrganization, ResetPassword, ForgotPassword, CompleteSSO

\* What a step does to the sessions: r's own begins to exist when r is to create one,
\* live ones are revoked, and what may still resolve may do so further.
LEMMA SessionsMove ==
    ASSUME Base, NEW r \in Requests, Act(r)
    PROVE  /\ lagging \subseteq lagging'
           /\ \A o \in Origins :
                \/ sessions'[o] = sessions[o]
                \/ o = r /\ pc[r] = "create" /\ sessions'[o] = "live"
                \/ sessions[o] = "live" /\ sessions'[o] = "revoked"
<1>1. TypeOK
  BY DEF Base
<1>2. CASE UNCHANGED <<sessions, lagging>>
  BY <1>2
<1>3. CASE CreateSession(r)
  BY <1>1, <1>3 DEF CreateSession, At, TypeOK
<1>4. ASSUME NEW revoked \in SUBSET Origins, Revoke(revoked)
      PROVE  /\ lagging \subseteq lagging'
             /\ \A o \in Origins :
                  \/ sessions'[o] = sessions[o]
                  \/ sessions[o] = "live" /\ sessions'[o] = "revoked"
  BY <1>1, <1>4, Revoked
<1>5. CASE Logout(r)
  <2>1. key[r] \in Origins
    BY <1>5 DEF Base, Place, Brings, Logout, At
  <2>2. QED
    BY <1>2, <1>4, <1>5, <2>1 DEF Logout
<1>6. CASE RevokeForUser(r)
  BY <1>2, <1>4, <1>6 DEF RevokeForUser
<1>7. QED
  BY <1>2, <1>3, <1>5, <1>6, SessionWriters

-----------------------------------------------------------------------------
(* Switching the organization *)

LEMMA SessionsStep == Base /\ SessionsInv /\ [Next]_vars => SessionsInv'
<1> SUFFICES ASSUME Base, SessionsInv, [Next]_vars
             PROVE  SessionsInv'
  OBVIOUS
<1>0. TypeOK
  BY DEF Base
<1>1. CASE UNCHANGED vars \/ Tick \/ LockLapses \/ ExpireToken
  <2>1. UNCHANGED <<pc, op, key, sessions>>
    BY <1>1, ClockMoves DEF locals
  <2>2. QED
    BY <2>1 DEF SessionsInv, Created, Switched
<1>2. ASSUME NEW r \in Requests, Begin(r), NEW x \in Requests
      PROVE  Created(x)' /\ Switched(x)'
  <2>1. sessions' = sessions /\ sessions[r] = "absent"
    BY <1>2, Beginning DEF stores, SessionsInv, Created
  <2>2. CASE x # r
    BY <1>2, <2>1, <2>2, Beginning DEF SessionsInv, Created, Switched
  <2>3. Created(r)'
    BY <2>1 DEF Created
  <2>4. op'[r] \in {"select", "logout"} => sessions'[key'[r]] # "absent"
    BY <1>2, <2>1, Beginning DEF Keys
  <2>5. pc'[r] # "create"
    BY <1>2, Beginning, FirstSteps
  <2>6. Switched(r)'
    BY <2>1, <2>4, <2>5 DEF Switched
  <2>7. QED
    BY <2>2, <2>3, <2>6
<1>3. ASSUME NEW r \in Requests, Act(r), NEW x \in Requests
      PROVE  Created(x)' /\ Switched(x)'
  <2>0. /\ Created(x) /\ Switched(x) /\ Place(x) /\ x \in Origins
        /\ op' = op /\ key' = key /\ (x # r => pc'[x] = pc[x])
        /\ (pc[x] = "begin") = (pc'[x] = "begin")
        /\ r \in Origins /\ Created(r)
    BY <1>3, Others DEF SessionsInv, Base, Origins
  <2>1. /\ \A o \in Origins :
             \/ sessions'[o] = sessions[o]
             \/ o = r /\ pc[r] = "create" /\ sessions'[o] = "live"
             \/ sessions[o] = "live" /\ sessions'[o] = "revoked"
        /\ Arrives(r)
    BY <1>3, SessionsMove, Arrivals
  <2>2. pc[r] = "create" => sessions[r] = "absent"
    BY <2>0 DEF Created
  <2>3. Created(x)'
    <3>1. CASE x = r
      BY <2>0, <2>1, <3>1, <1>3, Others DEF Created, Place, Arrives, Ended
    <3>2. CASE x # r
      BY <2>0, <2>1, <3>2 DEF Created
    <3>3. QED
      BY <3>1, <3>2
  <2>4. CASE op[x] \in {"select", "logout"} /\ pc[x] # "begin"
    <3>1. key[x] \in Origins /\ sessions[key[x]] # "absent"
      BY <2>0, <2>4 DEF Base, Brings, Switched
    <3>2. sessions'[key[x]] # "absent"
      BY <2>1, <3>1
    <3>3. sessions[key[x]] = "revoked" => sessions'[key[x]] = "revoked"
      BY <2>1, <2>2, <3>1
    <3>4. CASE op[x] = "select" /\ (pc[x] = "create" \/ sessions[x] # "absent")
      BY <2>3, <1>0, <2>0, <2>4, <3>1, <3>2, <3>3, <3>4 DEF Switched, TypeOK
    <3>5. CASE x = r /\ pc'[r] = "create" /\ op[r] = "select"
      <4>1. Logout(r)
        BY <2>0, <2>1, <3>5 DEF Arrives, Place, ResolveOrganization, At
      <4>2. Revoke({key[r]})
        BY <1>0, <3>5, <4>1 DEF Logout, Fail, Goto, TypeOK
      <4>3. sessions'[key[r]] # "live"
        BY <1>0, <3>1, <3>5, <4>2, Revoked
      <4>4. QED
        BY <2>3, <2>0, <3>2, <3>5, <4>3 DEF Switched
    <3>6. CASE /\ op[x] = "select" => pc[x] # "create" /\ sessions[x] = "absent"
               /\ ~(x = r /\ pc'[r] = "create" /\ op[r] = "select")
      <4>1. op[x] = "select" => pc'[x] # "create" /\ sessions'[x] = "absent"
        BY <2>0, <2>1, <3>6
      <4>2. QED
        BY <2>3, <2>0, <3>2, <4>1 DEF Switched
    <3>7. QED
      BY <3>4, <3>5, <3>6
  <2>5. CASE ~(op[x] \in {"select", "logout"} /\ pc[x] # "begin")
    <3>1. op[x] = "select" => sessions'[x] = "absent" /\ pc'[x] # "create"
      BY <1>3, <2>0, <2>1, <2>5, Others DEF Created
    <3>2. QED
      BY <2>3, <2>0, <2>5, <3>1 DEF Switched
  <2>6. QED
    BY <2>3, <2>4, <2>5
<1>4. QED
  BY <1>1, <1>2, <1>3, Steps DEF SessionsInv

LEMMA SessionsHold == Spec => [](Base /\ SessionsInv)
<1>1. Init => SessionsInv
  BY DEF Init, SessionsInv, Created, Switched, Origins
<1>2. QED
  BY <1>1, SessionsStep, InitBase, BaseStep, PTL DEF Spec

\* A switch of the organization leaves the old session revoked wherever the new one
\* is live, whatever else is done with both at the same time.
THEOREM SwitchKeepsOne == Spec => []SwitchNeverDoubles
<1>1. Base /\ SessionsInv => SwitchNeverDoubles
  BY DEF SessionsInv, Switched, SwitchNeverDoubles
<1>2. QED
  BY <1>1, SessionsHold, PTL

-----------------------------------------------------------------------------
(* Sign-on and the linked account *)

\* Who is known stays known, a link is not undone, and a password that is replaced
\* does not come back.
LEMMA PersonMoves ==
    ASSUME Base, NEW r \in Requests, Act(r)
    PROVE  /\ person'.known = person.known
           /\ person.linked => person'.linked
           /\ person.password # Before => person'.password # Before
<1>1. TypeOK
  BY DEF Base
<1>2. CASE UNCHANGED person
  BY <1>2
<1>3. CASE SetPassword(r)
  BY <1>1, <1>2, <1>3 DEF SetPassword, UpdateUserPasswordHash, TypeOK
<1>4. CASE LinkAccount(r)
  BY <1>1, <1>2, <1>4 DEF LinkAccount, InsertAccount, TypeOK
<1>5. QED
  BY <1>2, <1>3, <1>4, PersonWriters

LinkedInv == \A r \in Requests : Linked(r)

\* A callback goes on to an organization with the account linked.
LEMMA LinkFound ==
    ASSUME Base, NEW r \in Requests, Act(r), Linked(r), op[r] = "callback"
    PROVE  /\ pc'[r] = "link" => person.known
           /\ pc'[r] = "organization" => person'.known /\ person'.linked
<1>0. TypeOK /\ Place(r) /\ Arrives(r) /\ \A l : pc' = [pc EXCEPT ![r] = l] => pc'[r] = l
  BY Arrivals DEF Base, TypeOK
<1>1. CASE pc'[r] = "link"
  <2>1. FindIdentity(r)
    BY <1>0, <1>1 DEF Arrives
  <2>2. QED
    BY <1>0, <1>1, <2>1 DEF FindIdentity, Goto, Fail, FindUserByEmail
<1>2. CASE pc'[r] = "organization"
  <2>1. FindIdentity(r) \/ LinkAccount(r)
    BY <1>0, <1>2 DEF Arrives, Place, FindTwoFactor, MarkUsed, At
  <2>2. CASE FindIdentity(r)
    <3>1. person' = person
      BY <2>2 DEF FindIdentity, stores
    <3>2. QED
      BY <1>0, <1>2, <2>2, <3>1 DEF FindIdentity, Goto, Fail, FindUserByProviderAccount
  <2>3. CASE LinkAccount(r)
    <3>1. person' = InsertAccount /\ person.known
      BY <1>0, <1>2, <2>3 DEF LinkAccount, Goto, Fail, Linked, At
    <3>2. QED
      BY <1>0, <3>1 DEF InsertAccount, TypeOK
  <2>4. QED
    BY <2>1, <2>2, <2>3
<1>3. QED
  BY <1>1, <1>2

LEMMA LinkedStep == Base /\ SessionsInv /\ LinkedInv /\ [Next]_vars => LinkedInv'
<1> SUFFICES ASSUME Base, SessionsInv, LinkedInv, [Next]_vars
             PROVE  LinkedInv'
  OBVIOUS
<1>1. CASE UNCHANGED vars \/ Tick \/ LockLapses \/ ExpireToken
  <2>1. UNCHANGED <<pc, op, sessions, person>>
    BY <1>1, ClockMoves DEF locals
  <2>2. QED
    BY <2>1 DEF LinkedInv, Linked
<1>2. ASSUME NEW r \in Requests, Begin(r), NEW x \in Requests
      PROVE  Linked(x)'
  <2>1. UNCHANGED <<sessions, person>> /\ sessions[r] = "absent"
    BY <1>2, Beginning DEF stores, SessionsInv, Created
  <2>2. CASE x # r
    BY <1>2, <2>1, <2>2, Beginning DEF LinkedInv, Linked
  <2>3. Linked(r)'
    BY <1>2, <2>1, Beginning, FirstSteps DEF Linked
  <2>4. QED
    BY <2>2, <2>3
<1>3. ASSUME NEW r \in Requests, Act(r), NEW x \in Requests
      PROVE  Linked(x)'
  <2>1. /\ Linked(x) /\ Linked(r) /\ Place(r) /\ x \in Origins
        /\ op' = op /\ (x # r => pc'[x] = pc[x])
    BY <1>3, Others DEF LinkedInv, Base, Origins
  <2>2. /\ sessions'[x] = sessions[x] \/ (x = r /\ pc[r] = "create") \/ sessions[x] = "live"
        /\ person'.known = person.known /\ (person.linked => person'.linked)
        /\ Arrives(r)
    BY <1>3, <2>1, SessionsMove, PersonMoves, Arrivals
  <2>3. ASSUME op[x] = "callback", sessions'[x] # "absent"
        PROVE  person'.known /\ person'.linked
    BY <2>1, <2>2, <2>3 DEF Linked
  <2>4. ASSUME op[x] = "callback", pc'[x] = "create"
        PROVE  person'.known /\ person'.linked
    <3>1. pc[x] \in {"organization", "create"}
      BY <2>1, <2>2, <2>4 DEF Arrives, Place, ResolveOrganization, Logout, At
    <3>2. QED
      BY <2>1, <2>2, <2>4, <3>1 DEF Linked
  <2>5. ASSUME op[x] = "callback"
        PROVE  /\ pc'[x] = "link" => person'.known
               /\ pc'[x] = "organization" => person'.known /\ person'.linked
    <3>1. CASE x = r
      BY <1>3, <2>1, <2>2, <2>5, <3>1, LinkFound
    <3>2. CASE x # r
      BY <2>1, <2>2, <2>5, <3>2 DEF Linked
    <3>3. QED
      BY <3>1, <3>2
  <2>6. QED
    BY <2>1, <2>3, <2>4, <2>5 DEF Linked
<1>4. QED
  BY <1>1, <1>2, <1>3, Steps DEF LinkedInv

\* Whoever is signed on by the provider is known here and linked to the account there,
\* also when several first callbacks insert the link at the same time.
THEOREM SignedOnIsLinked == Spec => []SignOnIsLinked
<1>1. Init => LinkedInv
  BY DEF Init, LinkedInv, Linked, Origins
<1>2. LinkedInv => SignOnIsLinked
  BY DEF LinkedInv, Linked, SignOnIsLinked
<1>3. QED
  BY <1>1, <1>2, LinkedStep, SessionsHold, PTL DEF Spec

-----------------------------------------------------------------------------
(* Sign-on and the entry it uses up *)

ForgottenInv == \A r \in Requests : Forgotten(r) /\ \A q \in Requests : ForgottenFor(q, r)

\* An entry is added only for a request that begins a sign-on.
LEMMA EntriesMove ==
    ASSUME NEW r \in Requests, Act(r)
    PROVE  entries' \subseteq entries \/ (pc[r] = "save_state" /\ entries' \subseteq entries \cup {r})
BY EntryWriters DEF StartSSO, ForgetState, At

\* A callback that is answered has forgotten its entry; one whose entry is gone fails.
LEMMA EntryUsed ==
    ASSUME Base, NEW r \in Requests, Act(r), op[r] = "callback"
    PROVE  /\ pc'[r] = "answered" => key[r] \notin entries'
           /\ pc'[r] = "identity" => key[r] \in entries
<1>0. TypeOK /\ Arrives(r) /\ \A l : pc' = [pc EXCEPT ![r] = l] => pc'[r] = l
  BY Arrivals DEF Base, TypeOK
<1>1. CASE pc'[r] = "answered"
  <2>1. ForgetState(r)
    BY <1>0, <1>1 DEF Arrives
  <2>2. QED
    BY <1>0, <1>1, <2>1 DEF ForgetState, Goto, Fail
<1>2. CASE pc'[r] = "identity"
  <2>1. CheckState(r)
    BY <1>0, <1>2 DEF Arrives
  <2>2. QED
    BY <1>0, <1>2, <2>1 DEF CheckState, Goto, Fail
<1>3. QED
  BY <1>1, <1>2

LEMMA ForgottenStep ==
    Base /\ SessionsInv /\ ForgottenInv /\ [Next]_vars => ForgottenInv'
<1> SUFFICES ASSUME Base, SessionsInv, ForgottenInv, [Next]_vars
             PROVE  ForgottenInv'
  OBVIOUS
<1>1. CASE UNCHANGED vars \/ Tick \/ LockLapses \/ ExpireToken
  <2>1. UNCHANGED <<pc, op, key, ended, sessions, entries>>
    BY <1>1, ClockMoves DEF locals
  <2>2. QED
    BY <2>1 DEF ForgottenInv, Forgotten, ForgottenFor
<1>2. ASSUME NEW r \in Requests, Begin(r), NEW x \in Requests
      PROVE  Forgotten(x)' /\ \A q \in Requests : ForgottenFor(q, x)'
  <2>1. UNCHANGED <<sessions, entries>> /\ sessions[r] = "absent"
    BY <1>2, Beginning DEF stores, SessionsInv, Created
  <2>2. \A q \in Requests : pc[q] = "answered" => pc'[q] = "answered" /\ q # r
    BY <1>2, Beginning
  <2>3. op'[r] = "callback" => pc'[r] = "state"
    BY <1>2, Beginning, FirstSteps
  <2>4. Forgotten(x)'
    <3>1. CASE x # r
      BY <1>2, <2>1, <2>2, <3>1, Beginning DEF ForgottenInv, Forgotten
    <3>2. CASE x = r
      <4>1. op'[r] = "callback" /\ key'[r] \in Requests => pc[key'[r]] = "answered"
        BY <1>2, Beginning DEF Keys, Held
      <4>2. QED
        BY <2>2, <2>3, <3>2, <4>1 DEF Forgotten
    <3>3. QED
      BY <3>1, <3>2
  <2>5. ASSUME NEW q \in Requests
        PROVE  ForgottenFor(q, x)'
    <3>1. CASE q = r
      BY <1>2, <3>1, Beginning DEF ForgottenFor, Ended
    <3>2. CASE q # r /\ x # r
      BY <1>2, <2>1, <3>2, Beginning DEF ForgottenInv, ForgottenFor
    <3>3. CASE x = r
      BY <2>1, <2>3, <3>3 DEF ForgottenFor
    <3>4. QED
      BY <3>1, <3>2, <3>3
  <2>6. QED
    BY <2>4, <2>5
<1>3. ASSUME NEW r \in Requests, Act(r), NEW x \in Requests
      PROVE  Forgotten(x)' /\ \A q \in Requests : ForgottenFor(q, x)'
  <2>1. /\ Forgotten(x) /\ x \in Origins /\ op' = op /\ key' = key /\ ended' = ended
        /\ x # r => pc'[x] = pc[x]
        /\ pc[x] = "begin" => pc'[x] = "begin"
        /\ \A q \in Requests : pc[q] \in Ended => pc'[q] = pc[q]
    BY <1>3, Others DEF ForgottenInv, Base, Origins
  <2>2. Forgotten(x)'
    <3>1. CASE op[x] = "callback" /\ pc[x] # "begin"
      <4>1. key[x] \in Requests => pc'[key[x]] = "answered"
        BY <2>1, <3>1 DEF Forgotten, Ended
      <4>2. CASE pc[x] = "answered"
        BY <1>3, <2>1, <3>1, <4>1, <4>2, EntriesMove DEF Forgotten
      <4>3. CASE pc'[x] = "answered" /\ pc[x] # "answered"
        BY <1>3, <2>1, <3>1, <4>1, <4>3, EntryUsed DEF Forgotten
      <4>4. CASE pc'[x] # "answered"
        BY <2>1, <4>1, <4>4 DEF Forgotten
      <4>5. QED
        BY <4>2, <4>3, <4>4
    <3>2. CASE ~(op[x] = "callback" /\ pc[x] # "begin")
      BY <2>1, <3>2 DEF Forgotten
    <3>3. QED
      BY <3>1, <3>2
  <2>3. ASSUME NEW q \in Requests, op[q] = "callback", op[x] = "callback", key[q] = key[x],
               q \in ended[x], pc'[q] = "answered"
        PROVE  pc'[x] \in {"state", "failed"} /\ sessions'[x] = "absent"
    <3>1. pc[q] = "answered"
      BY <2>1, <2>3 DEF Base, History
    <3>2. pc[x] \in {"state", "failed"} /\ sessions[x] = "absent"
      BY <2>3, <3>1 DEF ForgottenInv, ForgottenFor
    <3>3. sessions'[x] = "absent"
      BY <1>3, <2>1, <3>2, SessionsMove
    <3>4. key[x] \notin entries
      BY <2>3, <3>1 DEF ForgottenInv, Forgotten
    <3>5. CASE x = r
      <4>1. pc[r] = "state" /\ pc'[r] \in {"identity", "failed"}
        BY <1>3, <3>2, <3>5, Others, Arrivals DEF Arrives, Ended
      <4>2. QED
        BY <1>3, <2>3, <3>3, <3>4, <3>5, <4>1, EntryUsed
    <3>6. CASE x # r
      BY <2>1, <3>2, <3>3, <3>6
    <3>7. QED
      BY <3>5, <3>6
  <2>4. \A q \in Requests : ForgottenFor(q, x)'
    BY <2>1, <2>3 DEF ForgottenFor
  <2>5. QED
    BY <2>2, <2>4
<1>4. QED
  BY <1>1, <1>2, <1>3, Steps DEF ForgottenInv

\* A sign-on makes a second session only for a callback that ran alongside the first,
\* or when the first failed after it had made its own.
THEOREM SignOnMakesOne == Spec => []SignOnSpentOnce
<1>1. Init => ForgottenInv
  BY DEF Init, ForgottenInv, Forgotten, ForgottenFor
<1>2. Base /\ ForgottenInv => SignOnSpentOnce
  BY DEF Base, Place, History, ForgottenInv, ForgottenFor, SignOnSpentOnce, Ended
<1>3. QED
  BY <1>1, <1>2, ForgottenStep, SessionsHold, PTL DEF Spec

-----------------------------------------------------------------------------
(* Reset tokens *)

SpentInv == TokenSpentOnce /\ \A r \in Requests : Spent(r)

\* A token is inserted by the request it is named after, and otherwise consumed.
LEMMA TokensMove ==
    ASSUME Base, NEW r \in Requests, Act(r)
    PROVE  /\ \A o \in Origins : \/ tokens'[o] = tokens[o]
                                 \/ tokens'[o] = "consumed"
                                 \/ o = r /\ pc[r] = "insert_token"
           /\ pc'[r] = "set" => tokens[key[r]] = "open"
           /\ pc'[r] = "revoke_all" /\ key[r] \in Origins => tokens'[key[r]] = "consumed"
<1>0. TypeOK /\ Arrives(r) /\ \A l : pc' = [pc EXCEPT ![r] = l] => pc'[r] = l
  BY Arrivals DEF Base, TypeOK
<1>1. \A o \in Origins : \/ tokens'[o] = tokens[o]
                         \/ tokens'[o] = "consumed"
                         \/ o = r /\ pc[r] = "insert_token"
  <2>1. CASE UNCHANGED tokens
    BY <2>1
  <2>2. CASE InsertToken(r)
    BY <1>0, <2>1, <2>2 DEF InsertToken, InsertVerificationToken, At, TypeOK
  <2>3. CASE ConsumeToken(r)
    BY <1>0, <2>1, <2>3 DEF ConsumeToken, ConsumeVerificationToken, TypeOK
  <2>4. QED
    BY <2>1, <2>2, <2>3, TokenWriters
<1>2. pc'[r] = "set" => tokens[key[r]] = "open"
  BY <1>0 DEF Arrives, FindToken, FindVerificationToken, Goto, Fail
<1>3. pc'[r] = "revoke_all" /\ key[r] \in Origins => tokens'[key[r]] = "consumed"
  <2>1. SUFFICES ASSUME pc'[r] = "revoke_all", key[r] \in Origins
                 PROVE  tokens'[key[r]] = "consumed"
    OBVIOUS
  <2>2. tokens' = ConsumeVerificationToken(r)
    BY <1>0, <2>1 DEF Arrives, ConsumeToken, Goto, Fail
  <2>3. QED
    BY <1>0, <2>1, <2>2 DEF ConsumeVerificationToken, TypeOK
<1>4. QED
  BY <1>1, <1>2, <1>3

LEMMA MailsMove ==
    ASSUME Base, NEW r \in Requests, Act(r)
    PROVE  \/ mailed' = mailed
           \/ mailed' = mailed \cup {r} /\ pc'[r] \in {"answered", "failed"}
<1>1. \A l : pc' = [pc EXCEPT ![r] = l] => pc'[r] = l
  BY DEF Base, TypeOK
<1>2. QED
  BY <1>1, MailWriters DEF SendToken, Goto, Fail

LEMMA SpentStep == Base /\ SpentInv /\ [Next]_vars => SpentInv'
<1> SUFFICES ASSUME Base, SpentInv, [Next]_vars
             PROVE  SpentInv'
  OBVIOUS
<1>0. TypeOK
  BY DEF Base
<1>1. CASE UNCHANGED vars \/ Tick \/ LockLapses \/ ExpireToken
  <2>1. UNCHANGED <<pc, op, key, ended, mailed>>
    BY <1>1, ClockMoves DEF locals
  <2>2. \A o \in Origins : tokens[o] = "consumed" => tokens'[o] = "consumed"
    BY <1>0, <1>1 DEF Tick, LockLapses, ExpireToken, vars, stores, TypeOK
  <2>3. ASSUME NEW r \in Requests
        PROVE  Spent(r)'
    <3>1. mailed \subseteq Origins /\ Spent(r)
      BY <1>0 DEF TypeOK, SpentInv
    <3>2. QED
      BY <2>1, <2>2, <3>1 DEF Spent
  <2>4. TokenSpentOnce'
    BY <2>1 DEF SpentInv, TokenSpentOnce, Done
  <2>5. QED
    BY <2>3, <2>4 DEF SpentInv
<1>2. ASSUME NEW r \in Requests, Begin(r)
      PROVE  SpentInv'
  <2>1. UNCHANGED <<mailed, tokens>> /\ r \notin mailed
    BY <1>2, Beginning DEF stores, SpentInv, Spent
  <2>2. op'[r] = "reset" => key'[r] \in mailed /\ pc'[r] = "token"
    <3>1. op'[r] = "reset" => pc'[r] = "token"
      BY <1>2, Beginning, FirstSteps
    <3>2. op'[r] = "reset" => key'[r] \in mailed
      BY <1>2, Beginning DEF Keys
    <3>3. QED
      BY <3>1, <3>2
  <2>3. Spent(r)'
    BY <2>1, <2>2 DEF Spent
  <2>4. \A x \in Requests \ {r} : Spent(x)'
    BY <1>2, <2>1, Beginning DEF SpentInv, Spent
  <2>5. ASSUME NEW q \in Requests, NEW x \in Requests, Done(q, "reset")', op'[x] = "reset",
               key'[x] = key'[q], q \in ended'[x]
        PROVE  pc'[x] \in {"token", "failed"}
    <3>1. q # r
      BY <1>2, <2>5, Beginning DEF Done, Ended
    <3>2. CASE x = r
      BY <2>2, <2>5, <3>2
    <3>3. CASE x # r
      BY <1>2, <2>5, <3>1, <3>3, Beginning DEF SpentInv, TokenSpentOnce, Done
    <3>4. QED
      BY <3>2, <3>3
  <2>6. TokenSpentOnce'
    BY <2>5 DEF TokenSpentOnce, Done
  <2>7. QED
    BY <2>3, <2>4, <2>6 DEF SpentInv
<1>3. ASSUME NEW r \in Requests, Act(r)
      PROVE  SpentInv'
  <2>1. /\ op' = op /\ key' = key /\ ended' = ended /\ \A x \in Requests \ {r} : pc'[x] = pc[x]
        /\ \A x \in Requests : pc[x] = "begin" => pc'[x] = "begin"
        /\ \A q \in Requests : pc[q] \in Ended => pc'[q] = pc[q]
    BY <1>3, Others
  <2>2. Arrives(r) /\ (pc[r] = "insert_token" => r \notin mailed)
    BY <1>3, Arrivals DEF SpentInv, Spent
  <2>3. ASSUME NEW x \in Requests
        PROVE  Spent(x)'
    <3>1. /\ Spent(x)
          /\ op[x] = "reset" /\ pc[x] # "begin" => key[x] \in Origins /\ key[x] \in mailed
      BY DEF SpentInv, Spent, Base, Brings
    <3>2. x \in mailed' => pc'[x] \in {"answered", "failed"}
      BY <1>3, <2>1, <3>1, MailsMove DEF Spent, Ended
    <3>3. op'[x] = "reset" /\ pc'[x] # "begin" => key'[x] \in mailed'
      BY <1>3, <2>1, <3>1, MailsMove
    <3>4. ASSUME op[x] = "reset", pc'[x] \in {"revoke_all", "answered"}
          PROVE  tokens'[key[x]] = "consumed"
      <4>1. CASE pc[x] \in {"revoke_all", "answered"}
        BY <1>3, <2>2, <3>1, <3>4, <4>1, TokensMove DEF Spent
      <4>2. CASE pc[x] \notin {"revoke_all", "answered"}
        <5>1. x = r /\ pc'[r] = "revoke_all"
          BY <2>1, <2>2, <3>4, <4>2 DEF Arrives, RevokeForUser, At
        <5>2. QED
          BY <1>3, <2>1, <3>1, <3>4, <5>1, TokensMove
      <4>3. QED
        BY <4>1, <4>2
    <3>5. QED
      BY <2>1, <3>2, <3>3, <3>4 DEF Spent
  <2>4. ASSUME NEW q \in Requests, NEW x \in Requests, op[q] = "reset", pc'[q] = "answered",
               op[x] = "reset", key[x] = key[q], q \in ended[x]
        PROVE  pc'[x] \in {"token", "failed"}
    <3>1. Done(q, "reset")
      BY <2>1, <2>4 DEF Base, History, Done
    <3>2. pc[x] \in {"token", "failed"} /\ tokens[key[x]] = "consumed"
      BY <2>4, <3>1 DEF SpentInv, TokenSpentOnce, Spent, Done
    <3>3. CASE x = r
      BY <1>3, <2>1, <2>2, <3>2, <3>3, TokensMove DEF Arrives, Ended
    <3>4. CASE x # r
      BY <2>1, <3>2, <3>4
    <3>5. QED
      BY <3>3, <3>4
  <2>5. TokenSpentOnce'
    BY <2>1, <2>4 DEF TokenSpentOnce, Done
  <2>6. QED
    BY <2>3, <2>5 DEF SpentInv
<1>4. QED
  BY <1>1, <1>2, <1>3, Steps

LEMMA SpentHolds == Spec => []SpentInv
<1>1. Init => SpentInv
  BY DEF Init, SpentInv, Spent, TokenSpentOnce, Done
<1>2. QED
  BY <1>1, SpentStep, Basis, PTL DEF Spec

\* Once a reset is answered, another with the same token that starts afterwards is
\* refused at its first query.
THEOREM TokenSpent == Spec => []TokenSpentOnce
<1>1. SpentInv => TokenSpentOnce
  BY DEF SpentInv
<1>2. QED
  BY <1>1, SpentHolds, PTL

-----------------------------------------------------------------------------
(* Access after a password reset *)

AccessInv ==
    \A r \in Requests : Replaced(r) /\ LiveAfter(r) /\ \A o \in Requests : After(r, o)

\* A login goes on with the password there is, and a switch with a session that
\* resolves; a reset goes on with the password set, and is answered with every
\* session revoked.
LEMMA Gates ==
    ASSUME Base, NEW r \in Requests, Act(r)
    PROVE  /\ pc'[r] = "factor" => person.password = key[r]
           /\ pc'[r] = "slug" => Resolves(key[r])
           /\ pc'[r] = "consume" => person'.password # Before
           /\ pc'[r] = "answered" /\ op[r] = "reset"
              => \A o \in Origins : sessions'[o] # "live"
<1>0. TypeOK /\ Arrives(r) /\ \A l : pc' = [pc EXCEPT ![r] = l] => pc'[r] = l
  BY Arrivals DEF Base, TypeOK
<1>1. pc'[r] = "factor" => person.password = key[r]
  BY <1>0 DEF Arrives, CheckPassword, FindPasswordAccount, Goto, Fail
<1>2. pc'[r] = "slug" => Resolves(key[r])
  BY <1>0 DEF Arrives, ResolvePrincipal, Goto, Fail
<1>3. ASSUME pc'[r] = "consume"
      PROVE  person'.password # Before
  <2>1. person' = UpdateUserPasswordHash(r)
    BY <1>0, <1>3 DEF Arrives, SetPassword, Goto, Fail
  <2>2. QED
    BY <1>0, <2>1 DEF UpdateUserPasswordHash, TypeOK
<1>4. ASSUME pc'[r] = "answered", op[r] = "reset"
      PROVE  \A o \in Origins : sessions'[o] # "live"
  <2>1. Revoke(Origins)
    BY <1>0, <1>4 DEF Arrives, RevokeForUser, Goto, Fail
  <2>2. QED
    BY <1>0, <2>1, Revoked
<1>5. QED
  BY <1>1, <1>2, <1>3, <1>4

LEMMA AccessStep == Base /\ SessionsInv /\ AccessInv /\ [Next]_vars => AccessInv'
<1> SUFFICES ASSUME Base, SessionsInv, AccessInv, [Next]_vars
             PROVE  AccessInv'
  OBVIOUS
<1>1. CASE UNCHANGED vars \/ Tick \/ LockLapses \/ ExpireToken
  <2>1. UNCHANGED <<person, pc, op, key, ended, sessions, lagging>>
    BY <1>1, ClockMoves DEF locals
  <2>2. QED
    BY <2>1 DEF AccessInv, Replaced, LiveAfter, After, Done
<1>2. ASSUME NEW a \in Requests, Begin(a), NEW r \in Requests
      PROVE  Replaced(r)' /\ LiveAfter(r)' /\ \A o \in Requests : After(r, o)'
  <2>1. UNCHANGED <<person, sessions, lagging>> /\ sessions[a] = "absent"
    BY <1>2, Beginning DEF stores, SessionsInv, Created
  <2>2. /\ op'[a] = "login" => pc'[a] = "password"
        /\ op'[a] = "select" => pc'[a] = "resolve"
        /\ op'[a] = "reset" => pc'[a] = "token"
    BY <1>2, Beginning, FirstSteps
  <2>3. CASE r = a
    BY <2>2, <2>3 DEF Replaced, LiveAfter, After, Done
  <2>4. CASE r # a
    <3>1. Replaced(r)' /\ LiveAfter(r)'
      BY <1>2, <2>1, <2>4, Beginning DEF AccessInv, Replaced, LiveAfter, Done
    <3>2. After(r, a)'
      BY <2>1, <2>2 DEF After
    <3>3. ASSUME NEW o \in Requests \ {a}
          PROVE  After(r, o)'
      BY <1>2, <2>1, <2>4, <3>3, Beginning DEF AccessInv, After, Done
    <3>4. QED
      BY <3>1, <3>2, <3>3
  <2>5. QED
    BY <2>3, <2>4
<1>3. ASSUME NEW a \in Requests, Act(a), NEW r \in Requests
      PROVE  Replaced(r)' /\ LiveAfter(r)' /\ \A o \in Requests : After(r, o)'
  <2>1. /\ op' = op /\ key' = key /\ ended' = ended /\ \A x \in Requests \ {a} : pc'[x] = pc[x]
        /\ \A q \in Requests : pc[q] \in Ended => pc'[q] = pc[q]
        /\ pc[a] \notin Ended
    BY <1>3, Others
  <2>2. /\ Arrives(a)
        /\ lagging \subseteq lagging'
        /\ \A o \in Origins : \/ sessions'[o] = sessions[o]
                              \/ o = a /\ pc[a] = "create"
                              \/ sessions[o] = "live" /\ sessions'[o] = "revoked"
    BY <1>3, Arrivals, SessionsMove
  <2>3. Replaced(r) /\ LiveAfter(r) /\ History(r) /\ Requests \subseteq Origins
    BY DEF AccessInv, Base, Origins
  <2>4. Replaced(r)'
    <3>1. ASSUME op[r] = "reset", pc'[r] \in {"consume", "revoke_all", "answered"}
          PROVE  person'.password # Before
      <4>1. CASE pc[r] \in {"consume", "revoke_all", "answered"}
        BY <1>3, <2>3, <3>1, <4>1, PersonMoves DEF Replaced
      <4>2. CASE pc[r] \notin {"consume", "revoke_all", "answered"}
        <5>1. r = a /\ pc'[a] = "consume"
          BY <2>1, <2>2, <3>1, <4>2 DEF Arrives, RevokeForUser, ConsumeToken, At
        <5>2. QED
          BY <1>3, <5>1, Gates
      <4>3. QED
        BY <4>1, <4>2
    <3>2. QED
      BY <2>1, <3>1 DEF Replaced
  <2>5. LiveAfter(r)'
    <3>1. ASSUME op[r] = "reset", pc'[r] = "answered", NEW o \in Origins, sessions'[o] = "live"
          PROVE  o \in Requests /\ o \notin ended[r]
      <4>1. CASE pc[r] = "answered"
        <5>1. sessions[o] = "live" => o \in Requests /\ o \notin ended[r]
          BY <2>3, <3>1, <4>1 DEF LiveAfter, Done
        <5>2. a \notin ended[r]
          BY <2>1, <2>3 DEF History
        <5>3. QED
          BY <2>2, <3>1, <5>1, <5>2
      <4>2. CASE pc[r] # "answered"
        <5>1. r = a
          BY <2>1, <3>1, <4>2
        <5>2. QED
          BY <1>3, <3>1, <5>1, Gates
      <4>3. QED
        BY <4>1, <4>2
    <3>2. QED
      BY <2>1, <3>1 DEF LiveAfter, Done
  <2>6. ASSUME NEW o \in Requests, Done(r, "reset")', r \in ended'[o]
        PROVE  /\ op[o] = "login" /\ (pc'[o] \notin {"password", "failed"} \/ sessions'[o] # "absent")
                  => key[o] # Before
               /\ op[o] = "select" /\ (pc'[o] \notin {"resolve", "failed"} \/ sessions'[o] # "absent")
                  => key[o] \in lagging' \cup Requests
    <3>1. Done(r, "reset") /\ r \in ended[o] /\ After(r, o) /\ o \in Origins
      BY <2>1, <2>6 DEF Base, History, Done, AccessInv, Origins
    <3>2. pc[o] \in {"password", "resolve", "failed"} /\ sessions[o] = "absent"
          => sessions'[o] = "absent"
      BY <2>2, <3>1
    <3>3. ASSUME op[o] = "login", pc'[o] \notin {"password", "failed"} \/ sessions'[o] # "absent"
          PROVE  key[o] # Before
      <4>1. CASE pc[o] \notin {"password", "failed"} \/ sessions[o] # "absent"
        BY <3>1, <3>3, <4>1 DEF After
      <4>2. CASE pc[o] \in {"password", "failed"} /\ sessions[o] = "absent"
        <5>1. o = a /\ pc'[a] = "factor"
          BY <2>1, <2>2, <3>2, <3>3, <4>2 DEF Arrives, Ended
        <5>2. person.password # Before
          BY <2>3, <3>1 DEF Replaced, Done
        <5>3. QED
          BY <1>3, <5>1, <5>2, Gates
      <4>3. QED
        BY <4>1, <4>2
    <3>4. ASSUME op[o] = "select", pc'[o] \notin {"resolve", "failed"} \/ sessions'[o] # "absent"
          PROVE  key[o] \in lagging' \cup Requests
      <4>1. CASE pc[o] \notin {"resolve", "failed"} \/ sessions[o] # "absent"
        BY <2>2, <3>1, <3>4, <4>1 DEF After
      <4>2. CASE pc[o] \in {"resolve", "failed"} /\ sessions[o] = "absent"
        <5>1. o = a /\ pc[a] = "resolve" /\ pc'[a] = "slug"
          BY <2>1, <2>2, <3>2, <3>4, <4>2 DEF Arrives, Ended
        <5>2. Resolves(key[o]) /\ key[o] \in Origins
          BY <1>3, <3>4, <5>1, Gates DEF Base, Brings
        <5>3. QED
          BY <2>2, <2>3, <3>1, <5>2 DEF Resolves, LiveAfter
      <4>3. QED
        BY <4>1, <4>2
    <3>5. QED
      BY <3>3, <3>4
  <2>7. \A o \in Requests : After(r, o)'
    BY <2>1, <2>6 DEF After
  <2>8. QED
    BY <2>4, <2>5, <2>7
<1>4. QED
  BY <1>1, <1>2, <1>3, Steps DEF AccessInv

\* After a password reset is answered, a session that is live was made by a request
\* that ran alongside it, or that came in by another way than the old password and
\* the old sessions.
THEOREM ResetTakesAccess == Spec => []ResetEndsAccess
<1>1. Init => AccessInv
  BY DEF Init, AccessInv, Replaced, LiveAfter, After, Done
<1>2. Base /\ SessionsInv /\ AccessInv => ResetEndsAccess
  <2> SUFFICES ASSUME Base, SessionsInv, AccessInv, NEW r \in Requests, NEW o \in Origins,
                      Done(r, "reset"), sessions[o] = "live"
               PROVE  /\ o # Before
                      /\ \/ Overlap(o, r)
                         \/ op[o] = "login" /\ key[o] # Before
                         \/ op[o] = "callback"
                         \/ op[o] = "select" /\ key[o] \in lagging \cup Requests
    BY DEF ResetEndsAccess
  <2>1. o \in Requests /\ o \notin ended[r]
    BY DEF AccessInv, LiveAfter
  <2>2. op[o] \in {"login", "callback", "select"} /\ After(r, o)
    BY <2>1 DEF SessionsInv, Created, AccessInv
  <2>3. CASE r \in ended[o]
    BY <2>1, <2>2, <2>3 DEF After
  <2>4. CASE r \notin ended[o]
    BY <2>1, <2>4 DEF Overlap
  <2>5. QED
    BY <2>3, <2>4
<1>3. QED
  BY <1>1, <1>2, AccessStep, SessionsHold, PTL DEF Spec

-----------------------------------------------------------------------------
(* The lock *)

\* Besides the UPDATE of a failure, every statement that changes the row clears its
\* count.  A failure counts one up, and locks when it finds the count it had read and
\* reaches the limit.
LEMMA FailuresMove ==
    ASSUME Base, NEW r \in Requests, Act(r)
    PROVE  \/ factor' = factor
           \/ factor'.failures = 0
           \/ /\ pc[r] = "record" /\ pc'[r] = "failed" /\ seen' = seen
              /\ factor'.failures = factor.failures + 1
              /\ factor.failures = seen[r].failures /\ factor.failures + 1 >= Limit
                 => factor'.locked
<1>0. /\ TypeOK /\ factor \in Factors /\ NoFactor.failures = 0
      /\ \A l : pc' = [pc EXCEPT ![r] = l] => pc'[r] = l
  BY DEF Base, TypeOK, NoFactor
<1>1. CASE UNCHANGED factor
  BY <1>1
<1>2. CASE RecordFailure(r) /\ ~UNCHANGED factor
  <2> DEFINE next == seen[r].failures + 1
             lock == IF factor.failures + 1 >= next THEN next >= Limit ELSE factor.locked
             row == [factor EXCEPT !.failures = factor.failures + 1, !.locked = lock]
  <2>1. /\ pc[r] = "record" /\ pc'[r] = "failed" /\ seen' = seen
        /\ factor' = RegisterTwoFactorFailure(next)
    BY <1>0, <1>2 DEF RecordFailure, At, Fail, Goto
  <2>2. factor' = IF factor.row THEN row ELSE factor
    BY <2>1 DEF RegisterTwoFactorFailure, OnRow
  <2>3. row.failures = factor.failures + 1 /\ row.locked = lock
    BY <1>0 DEF Factors
  <2>4. factor.failures \in Nat /\ seen[r].failures \in Nat
    BY <1>0 DEF TypeOK, Factors
  <2>5. factor.failures = seen[r].failures /\ factor.failures + 1 >= Limit => lock
    BY <2>4
  <2> HIDE DEF row, lock, next
  <2>6. QED
    BY <1>2, <2>1, <2>2, <2>3, <2>5
<1>3. CASE MarkUsed(r)
  BY <1>0, <1>1, <1>3 DEF MarkUsed, WriteFactor, MarkTwoFactorUsed, OnRow, Factors
<1>4. CASE ConfirmTOTP(r)
  BY <1>0, <1>1, <1>4 DEF ConfirmTOTP, WriteFactor, ConfirmTwoFactor, OnRow, Factors
<1>5. CASE StartTOTPEnrollment(r)
  BY <1>0, <1>1, <1>5 DEF StartTOTPEnrollment, WriteFactor, InsertOrReplaceTwoFactor, Factors
<1>6. CASE DisableTOTP(r)
  BY <1>0, <1>1, <1>6 DEF DisableTOTP, WriteFactor, DisableTwoFactor
<1>7. QED
  BY <1>1, <1>2, <1>3, <1>4, <1>5, <1>6, FactorWriters

\* A row is read where it is found; what was read stays until the request ends.
LEMMA RowRead ==
    ASSUME Base, NEW r \in Requests, Act(r)
    PROVE  /\ \A x \in Requests \ {r} : seen'[x] = seen[x]
           /\ seen'[r] = seen[r] \/ (pc[r] = "factor" /\ seen'[r] = factor)
           /\ pc'[r] = "code" =>
                seen'[r] = factor /\ factor' = factor /\ factor.row
           /\ pc'[r] = "record" => pc[r] = "code" /\ seen' = seen /\ factor' = factor /\ ~seen[r].locked
<1>0. TypeOK /\ Arrives(r) /\ \A l : pc' = [pc EXCEPT ![r] = l] => pc'[r] = l
  BY Arrivals DEF Base, TypeOK
<1>1. /\ \A x \in Requests \ {r} : seen'[x] = seen[x]
      /\ seen'[r] = seen[r] \/ (pc[r] = "factor" /\ seen'[r] = factor)
  BY <1>0, SeenWriters DEF FindTwoFactor, FindTwoFactorByUserID, At, TypeOK
<1>2. ASSUME pc'[r] = "code"
      PROVE  seen'[r] = factor /\ factor' = factor /\ factor.row
  <2>1. FindTwoFactor(r)
    BY <1>0, <1>2 DEF Arrives
  <2>2. QED
    BY <1>0, <1>2, <2>1 DEF FindTwoFactor, FindTwoFactorByUserID, Goto, Fail, stores, TypeOK
<1>3. ASSUME pc'[r] = "record"
      PROVE  pc[r] = "code" /\ seen' = seen /\ factor' = factor /\ ~seen[r].locked
  <2>1. CheckCode(r)
    BY <1>0, <1>3 DEF Arrives
  <2>2. QED
    BY <1>0, <1>3, <2>1 DEF CheckCode, Goto, Fail, At, stores
<1>4. QED
  BY <1>1, <1>2, <1>3

\* Once there is a reason, it stays: no request leaves where it has failed.
LEMMA ReasonStays ==
    ASSUME Base, [Next]_vars, Reason
    PROVE  Reason'
<1>1. CASE lapsed
  <2>1. lapsed'
    <3>1. CASE UNCHANGED vars \/ Tick \/ LockLapses \/ ExpireToken
      BY <1>1, <3>1 DEF vars, time, Tick, LockLapses, ExpireToken
    <3>2. ASSUME NEW r \in Requests, Begin(r) \/ Act(r)
          PROVE  lapsed'
      BY <1>1, <3>2, Beginning, Others DEF time
    <3>3. QED
      BY <3>1, <3>2, Steps
  <2>2. QED
    BY <2>1 DEF Reason
<1>2. ASSUME NEW q \in Requests, NEW r \in Requests, q # r, Overlap(q, r),
             pc[q] = "failed", pc[r] = "failed", seen[q].row, seen[r].row
      PROVE  Reason'
  <2>1. \A x \in Requests : pc[x] = "failed" =>
          pc'[x] = "failed" /\ seen'[x] = seen[x] /\ ended'[x] = ended[x]
    <3>1. CASE UNCHANGED vars \/ Tick \/ LockLapses \/ ExpireToken
      BY <3>1, ClockMoves DEF locals
    <3>2. ASSUME NEW a \in Requests, Begin(a)
          PROVE  \A x \in Requests : pc[x] = "failed" =>
                   pc'[x] = "failed" /\ seen'[x] = seen[x] /\ ended'[x] = ended[x]
      BY <3>2, Beginning
    <3>3. ASSUME NEW a \in Requests, Act(a)
          PROVE  \A x \in Requests : pc[x] = "failed" =>
                   pc'[x] = "failed" /\ seen'[x] = seen[x] /\ ended'[x] = ended[x]
      BY <3>3, Others, RowRead DEF Ended
    <3>4. QED
      BY <3>1, <3>2, <3>3, Steps
  <2>2. QED
    BY <1>2, <2>1 DEF Reason, Overlap
<1>3. QED
  BY <1>1, <1>2 DEF Reason

LEMMA LimitStep == Base /\ LimitInv /\ [Next]_vars => LimitInv'
<1> SUFFICES ASSUME Base, LimitInv, [Next]_vars
             PROVE  LimitInv'
  OBVIOUS
<1>0. /\ TypeOK /\ TypeOK'
      /\ Limit \in Nat \ {0} /\ factor.failures \in Nat /\ factor'.failures \in Nat
      /\ \A r \in Requests : seen[r].failures \in Nat /\ seen'[r].failures \in Nat
  BY TypeStep DEF Base, TypeOK, Factors
<1>1. Reason => Reason'
  BY ReasonStays
<1>2. CASE UNCHANGED <<factor, pc, locals, seen>>
  BY <1>1, <1>2 DEF locals, LimitInv, AtLimit, Behind
<1>3. CASE UNCHANGED vars \/ Tick \/ ExpireToken
  BY <1>2, <1>3 DEF vars, stores, Tick, ExpireToken
<1>4. CASE LockLapses
  <2>1. UNCHANGED <<pc, locals, seen>> /\ Reason'
    BY <1>4 DEF LockLapses, Reason
  <2>2. factor'.failures = factor.failures
    BY <1>0, <1>4 DEF LockLapses, TypeOK, Factors
  <2>3. QED
    BY <2>1, <2>2 DEF locals, LimitInv, AtLimit, Behind
<1>5. ASSUME NEW r \in Requests, Begin(r)
      PROVE  LimitInv'
  <2>1. UNCHANGED <<factor, seen>>
    BY <1>5, Beginning DEF stores
  <2>2. pc'[r] \notin {"code", "record"} /\ pc[r] = "begin"
    BY <1>5, Beginning, FirstSteps
  <2>3. AtLimit(factor)' /\ \A x \in Requests : AtLimit(seen[x])'
    BY <1>1, <2>1 DEF LimitInv, AtLimit
  <2>4. ASSUME NEW x \in Requests
        PROVE  Behind(x)' /\ (pc'[x] = "record" => ~seen'[x].locked)
    <3>1. CASE x = r
      BY <2>2, <3>1 DEF Behind
    <3>2. CASE x # r
      BY <1>5, <2>1, <2>2, <3>2, Beginning DEF LimitInv, Behind
    <3>3. QED
      BY <3>1, <3>2
  <2>5. QED
    BY <2>3, <2>4 DEF LimitInv
<1>6. ASSUME NEW r \in Requests, Act(r)
      PROVE  LimitInv'
  <2>1. /\ ended' = ended /\ \A x \in Requests \ {r} : pc'[x] = pc[x]
        /\ \A q \in Requests : pc[q] \in Ended => pc'[q] = pc[q]
        /\ pc[r] \notin Ended
    BY <1>6, Others
  <2>2. /\ \A x \in Requests \ {r} : seen'[x] = seen[x]
        /\ seen'[r] = seen[r] \/ (pc[r] = "factor" /\ seen'[r] = factor)
        /\ pc'[r] = "code" => seen'[r] = factor /\ factor' = factor /\ factor.row
        /\ pc'[r] = "record" => pc[r] = "code" /\ seen' = seen /\ factor' = factor /\ ~seen[r].locked
    BY <1>6, RowRead
  <2>3. \A x \in Requests : AtLimit(seen[x])'
    BY <1>1, <2>2 DEF LimitInv, AtLimit
  <2>4. ASSUME NEW q \in Requests, pc[q] = "failed"
        PROVE  pc'[q] = "failed" /\ seen'[q] = seen[q]
    BY <2>1, <2>2, <2>4 DEF Ended
  <2>5. AtLimit(factor)'
    <3>1. CASE factor' = factor
      BY <1>1, <3>1 DEF LimitInv, AtLimit
    <3>2. CASE factor'.failures = 0
      BY <1>0, <3>2 DEF AtLimit
    <3>3. CASE /\ pc[r] = "record" /\ pc'[r] = "failed" /\ seen' = seen
               /\ factor'.failures = factor.failures + 1
               /\ factor.failures = seen[r].failures /\ factor.failures + 1 >= Limit
                  => factor'.locked
      <4>1. CASE factor.failures = seen[r].failures
        BY <3>3, <4>1 DEF AtLimit
      <4>2. CASE factor.failures > seen[r].failures
        <5>1. PICK q \in Requests \ {r} :
                pc[q] = "failed" /\ seen[q].row /\ q \notin ended[r]
          BY <3>3, <4>2 DEF LimitInv, Behind
        <5>2. r \notin ended[q] /\ seen[r].row
          BY <2>1, <3>3, <5>1 DEF Base, History, LimitInv, Behind
        <5>3. Overlap(q, r)' /\ pc'[q] = "failed"
          BY <2>1, <2>4, <5>1, <5>2 DEF Overlap
        <5>4. Reason'
          BY <3>3, <5>1, <5>2, <5>3 DEF Reason
        <5>5. QED
          BY <5>4 DEF AtLimit
      <4>3. CASE factor.failures < seen[r].failures
        <5>1. factor'.failures >= Limit => seen[r].failures >= Limit
          BY <1>0, <3>3, <4>3
        <5>2. factor'.failures >= Limit => Reason
          BY <3>3, <5>1 DEF LimitInv, AtLimit
        <5>3. QED
          BY <1>1, <5>2 DEF AtLimit
      <4>4. QED
        BY <1>0, <4>1, <4>2, <4>3
    <3>4. QED
      BY <1>6, <3>1, <3>2, <3>3, FailuresMove
  <2>6. ASSUME NEW x \in Requests, pc'[x] \in {"code", "record"}
        PROVE  /\ seen'[x].row
               /\ factor'.failures > seen'[x].failures =>
                    \E q \in Requests \ {x} :
                       pc'[q] = "failed" /\ seen'[q].row /\ q \notin ended'[x]
    <3>1. CASE x = r /\ pc'[x] = "code"
      BY <1>0, <2>2, <3>1
    <3>2. CASE x # r \/ pc'[x] # "code"
      <4>1. Behind(x) /\ pc[x] \in {"code", "record"} /\ seen'[x] = seen[x]
            /\ (x = r => factor' = factor)
        BY <2>1, <2>2, <2>6, <3>2 DEF LimitInv
      <4>2. ASSUME factor.failures > seen[x].failures
            PROVE  \E q \in Requests \ {x} :
                       pc'[q] = "failed" /\ seen'[q].row /\ q \notin ended'[x]
        BY <2>1, <2>4, <4>1, <4>2 DEF Behind
      <4>3. CASE factor' = factor
        BY <4>1, <4>2, <4>3 DEF Behind
      <4>4. CASE factor'.failures = 0
        BY <1>0, <4>1, <4>4 DEF Behind
      <4>5. CASE x # r /\ pc[r] = "record" /\ pc'[r] = "failed" /\ seen' = seen
        <5>1. seen'[r].row /\ r \notin ended'[x]
          BY <2>1, <4>5 DEF Base, History, LimitInv, Behind
        <5>2. QED
          BY <4>1, <4>5, <5>1 DEF Behind
      <4>6. QED
        BY <1>6, <4>1, <4>3, <4>4, <4>5, FailuresMove
    <3>3. QED
      BY <3>1, <3>2
  <2>7. ASSUME NEW x \in Requests, pc'[x] = "record"
        PROVE  ~seen'[x].locked
    <3>1. CASE x = r
      BY <2>2, <2>7, <3>1
    <3>2. CASE x # r
      BY <2>1, <2>2, <2>7, <3>2 DEF LimitInv
    <3>3. QED
      BY <3>1, <3>2
  <2>8. \A x \in Requests : Behind(x)'
    BY <2>6 DEF Behind
  <2>9. QED
    BY <2>3, <2>5, <2>7, <2>8 DEF LimitInv
<1>7. QED
  BY <1>3, <1>4, <1>5, <1>6, Steps

\* As many failures as the limit lock the account, unless a lock has run out or two
\* of the failing requests ran alongside each other.
THEOREM LimitLocks == Spec => []LockedAtLimit
<1>1. Init => LimitInv
  <2> SUFFICES ASSUME Init
               PROVE  LimitInv
    OBVIOUS
  <2>1. AtLimit(factor)
    BY DEF Init, AtLimit, Reason
  <2>2. \A r \in Requests : ~(NoFactor.failures >= Limit) /\ seen[r] = NoFactor /\ pc[r] = "begin"
    BY DEF Init, NoFactor
  <2>3. QED
    BY <2>1, <2>2 DEF LimitInv, AtLimit, Behind
<1>2. LimitInv => LockedAtLimit
  BY DEF LimitInv, AtLimit, Reason, LockedAtLimit
<1>3. QED
  BY <1>1, <1>2, LimitStep, Basis, PTL DEF Spec

-----------------------------------------------------------------------------
(* The step that is used up *)

\* A code is accepted in the step it is checked in, a login's only in another than it
\* has read.
LEMMA StepsMove ==
    ASSUME Base, NEW r \in Requests, Act(r)
    PROVE  /\ clock # 0
           /\ \A x \in Requests \ {r} : at'[x] = at[x]
           /\ \/ at'[r] = at[r]
              \/ /\ pc[r] = "code" /\ at'[r] = clock
                 /\ op[r] = "login" => seen[r].step # clock
           /\ pc'[r] \in {"mark", "confirm"} => pc[r] = "code" /\ at'[r] = clock /\ factor' = factor
           /\ pc'[r] \in {"factor", "code"} => at' = at /\ pc[r] \in {"password", "factor"}
<1>0. TypeOK /\ Arrives(r) /\ Place(r) /\ \A l : pc' = [pc EXCEPT ![r] = l] => pc'[r] = l
  BY Arrivals DEF Base, TypeOK
<1>1. clock # 0
  BY <1>0 DEF TypeOK
<1>2. CASE CheckCode(r)
  <2>1. pc[r] = "code" /\ op[r] \in {"login", "confirm"} /\ factor' = factor
    BY <1>0, <1>2 DEF CheckCode, At, stores, Place
  <2>2. /\ \A x \in Requests \ {r} : at'[x] = at[x]
        /\ \/ at'[r] = at[r]
           \/ at'[r] = clock /\ (op[r] = "login" => seen[r].step # clock)
    BY <1>0, <1>2 DEF CheckCode, TypeOK
  <2>3. pc'[r] \in {"mark", "confirm"} => at'[r] = clock
    BY <1>0, <1>2 DEF CheckCode, Goto, Fail, TypeOK
  <2>4. pc'[r] \notin {"factor", "code"}
    BY <1>0, <1>2 DEF CheckCode, Goto, Fail
  <2>5. QED
    BY <1>1, <2>1, <2>2, <2>3, <2>4
<1>3. CASE ~CheckCode(r)
  <2>1. at' = at
    BY <1>3, StepWriters
  <2>2. pc'[r] \notin {"mark", "confirm"}
    BY <1>0, <1>3 DEF Arrives
  <2>3. pc'[r] \in {"factor", "code"} => pc[r] \in {"password", "factor"}
    BY <1>0 DEF Arrives, CheckPassword, FindTwoFactor, At
  <2>4. QED
    BY <1>1, <2>1, <2>2, <2>3
<1>4. QED
  BY <1>2, <1>3

\* What a step does to the row: a failure keeps the used step, a login and a
\* confirmation that go on have written theirs.
LEMMA RowMoves ==
    ASSUME Base, NEW r \in Requests, Act(r)
    PROVE  /\ \/ factor' = factor
              \/ pc[r] = "record" /\ factor'.row = factor.row /\ factor'.step = factor.step
              \/ pc[r] \in {"mark", "confirm", "enroll", "disable"}
           /\ pc[r] \in {"mark", "confirm"} /\ pc'[r] \in {"organization", "publish"} /\ factor.row
              => factor'.row /\ factor'.step = at[r]
<1>0. /\ TypeOK /\ factor \in Factors /\ Arrives(r)
      /\ \A l : pc' = [pc EXCEPT ![r] = l] => pc'[r] = l
  BY Arrivals DEF Base, TypeOK
<1>1. \/ factor' = factor
      \/ pc[r] = "record" /\ factor'.row = factor.row /\ factor'.step = factor.step
      \/ pc[r] \in {"mark", "confirm", "enroll", "disable"}
  <2>1. CASE RecordFailure(r)
    BY <1>0, <2>1 DEF RecordFailure, At, RegisterTwoFactorFailure, OnRow, Factors
  <2>2. CASE MarkUsed(r) \/ ConfirmTOTP(r) \/ StartTOTPEnrollment(r) \/ DisableTOTP(r)
    BY <2>2 DEF MarkUsed, ConfirmTOTP, StartTOTPEnrollment, DisableTOTP, At
  <2>3. QED
    BY <2>1, <2>2, FactorWriters
<1>2. ASSUME pc[r] \in {"mark", "confirm"}, pc'[r] \in {"organization", "publish"}, factor.row
      PROVE  factor'.row /\ factor'.step = at[r]
  <2>1. MarkUsed(r) \/ ConfirmTOTP(r)
    BY <1>0, <1>2 DEF Arrives, FindTwoFactor, FindIdentity, LinkAccount, DisableTOTP, At
  <2>2. CASE MarkUsed(r)
    <3>1. factor' = MarkTwoFactorUsed(at[r])
      BY <1>0, <1>2, <2>2 DEF MarkUsed, WriteFactor, Goto, Fail
    <3>2. QED
      BY <1>0, <1>2, <3>1 DEF MarkTwoFactorUsed, OnRow, Factors
  <2>3. CASE ConfirmTOTP(r)
    <3>1. factor' = ConfirmTwoFactor(at[r])
      BY <1>0, <1>2, <2>3 DEF ConfirmTOTP, WriteFactor, Goto, Fail
    <3>2. QED
      BY <1>0, <1>2, <3>1 DEF ConfirmTwoFactor, OnRow, Factors
  <2>4. QED
    BY <2>1, <2>2, <2>3
<1>3. QED
  BY <1>1, <1>2

Accepted == {"organization", "create", "respond", "publish", "answered"}

\* How a login or a confirmation comes to where its code has been accepted.
LEMMA AcceptedAfter ==
    ASSUME Base, NEW q \in Requests, Act(q), op[q] \in {"login", "confirm"}, pc'[q] \in Accepted
    PROVE  \/ pc[q] \in Accepted /\ factor' = factor /\ at' = at
           \/ pc[q] = "factor" /\ at' = at
           \/ pc[q] \in {"mark", "confirm"} /\ pc'[q] \in {"organization", "publish"} /\ at' = at
<1>0. Arrives(q) /\ Place(q)
  BY Arrivals DEF Base
<1>1. \/ FindTwoFactor(q) \/ MarkUsed(q) \/ ConfirmTOTP(q) \/ ResolveOrganization(q)
      \/ CreateSession(q) \/ Respond(q) \/ PublishEvent(q)
  BY <1>0 DEF Arrives, Place, Accepted, FindIdentity, LinkAccount, Logout, DisableTOTP, At
<1>2. CASE FindTwoFactor(q)
  BY <1>2 DEF FindTwoFactor, At
<1>3. CASE MarkUsed(q) \/ ConfirmTOTP(q)
  <2>1. pc[q] \in {"mark", "confirm"} /\ at' = at
    BY <1>3 DEF MarkUsed, ConfirmTOTP, WriteFactor, At
  <2>2. pc'[q] \in {"organization", "publish"}
    <3>1. \A l : pc' = [pc EXCEPT ![q] = l] => pc'[q] = l
      BY DEF Base, TypeOK
    <3>2. QED
      BY <1>3, <3>1 DEF MarkUsed, ConfirmTOTP, WriteFactor, Goto, Fail, Accepted
  <2>3. QED
    BY <2>1, <2>2
<1>4. CASE ResolveOrganization(q) \/ CreateSession(q) \/ Respond(q) \/ PublishEvent(q)
  BY <1>4 DEF ResolveOrganization, CreateSession, Respond, PublishEvent, At, stores, Accepted
<1>5. QED
  BY <1>1, <1>2, <1>3, <1>4

\* Each part of the invariant is preserved.
LEMMA StepOfStep ==
    ASSUME Base, [Next]_vars, NEW x \in Requests, StepOf(x)
    PROVE  StepOf(x)'
<1>1. CASE UNCHANGED vars \/ Tick \/ LockLapses \/ ExpireToken
  BY <1>1, ClockMoves DEF StepOf
<1>2. ASSUME NEW r \in Requests, Begin(r)
      PROVE  StepOf(x)'
  <2>1. pc'[r] \notin {"code", "record", "mark", "confirm"} /\ pc[r] = "begin"
    BY <1>2, Beginning, FirstSteps
  <2>2. QED
    BY <1>2, <2>1, Beginning DEF StepOf
<1>3. ASSUME NEW r \in Requests, Act(r)
      PROVE  StepOf(x)'
  <2>1. CASE x # r
    BY <1>3, <2>1, Others, StepsMove, RowRead DEF StepOf
  <2>2. CASE x = r
    <3>1. pc'[r] \notin {"begin", "password"}
      BY <1>3, Arrivals DEF Arrives
    <3>2. pc'[r] \in {"factor", "code"} => at'[r] = 0
      BY <1>3, <2>2, StepsMove DEF StepOf
    <3>3. pc'[r] \in {"mark", "confirm"} => at'[r] # 0
      BY <1>3, StepsMove
    <3>4. pc'[r] \in {"code", "record"} => seen'[r].row
      BY <1>3, <2>2, RowRead DEF StepOf
    <3>5. QED
      BY <2>2, <3>1, <3>2, <3>3, <3>4 DEF StepOf
  <2>3. QED
    BY <2>1, <2>2
<1>4. QED
  BY <1>1, <1>2, <1>3, Steps

\* A step of somebody else, or of q before r begins, or of r after q has ended.
LEMMA StepKeptStep ==
    ASSUME Base, NEW a \in Requests, Act(a), NEW q \in Requests, NEW r \in Requests,
           StepOf(q), StepOf(r), StepKept(q, r)
    PROVE  StepKept(q, r)'
<1> SUFFICES ASSUME Later(q, r)'
             PROVE  /\ pc'[q] \in {"code", "mark", "confirm"} => factor'.row
                    /\ pc'[q] \in Accepted /\ at'[q] # 0
                       => /\ at'[r] # at'[q]
                          /\ at'[r] = 0 => factor'.row /\ factor'.step = at'[q]
                          /\ pc'[r] = "code" => seen'[r].step = at'[q]
  BY DEF StepKept, Accepted
<1>1. /\ op' = op /\ ended' = ended /\ pc'[a] # "begin" /\ pc[a] \notin Ended \cup {"begin"}
      /\ \A x \in Requests \ {a} : pc'[x] = pc[x]
      /\ Place(a) /\ History(r)
  BY Others DEF Base
<1>2. /\ \A x \in Requests \ {a} : at'[x] = at[x] /\ seen'[x] = seen[x]
  BY StepsMove, RowRead
<1>3. Later(q, r)
  BY <1>1 DEF Later, Alone
<1>4. /\ q # r /\ op[q] \in {"login", "confirm"} /\ pc[q] # "begin"
      /\ pc[r] = "begin" \/ (op[r] = "login" /\ q \in ended[r])
      /\ a \notin {q, r} => op[a] \notin {"login", "confirm", "enroll", "disable"}
  BY <1>1, <1>3 DEF Later, Alone
<1>5. /\ pc[q] \in {"code", "mark", "confirm"} => factor.row
      /\ pc[q] \in Accepted /\ at[q] # 0
         => /\ at[r] # at[q]
            /\ at[r] = 0 => factor.row /\ factor.step = at[q]
            /\ pc[r] = "code" => seen[r].step = at[q]
  BY <1>3 DEF StepKept, Accepted
<1>6. CASE a \notin {q, r}
  <2>1. factor' = factor
    BY <1>1, <1>4, <1>6, RowMoves DEF Place
  <2>2. QED
    BY <1>1, <1>2, <1>5, <1>6, <2>1
<1>7. CASE a = q
  <2>1. pc[r] = "begin" /\ pc'[r] = "begin" /\ at[r] = 0 /\ at'[r] = 0
    BY <1>1, <1>2, <1>4, <1>7 DEF History, StepOf
  <2>2. pc'[q] \in {"code", "mark", "confirm"} => factor'.row
    BY <1>5, <1>7, RowRead, StepsMove
  <2>3. ASSUME pc'[q] \in Accepted, at'[q] # 0
        PROVE  factor'.row /\ factor'.step = at'[q]
    <3>1. CASE pc[q] \in Accepted /\ factor' = factor /\ at' = at
      BY <1>5, <2>1, <2>3, <3>1
    <3>2. CASE pc[q] = "factor" /\ at' = at
      BY <2>3, <3>2 DEF StepOf
    <3>3. CASE pc[q] \in {"mark", "confirm"} /\ pc'[q] \in {"organization", "publish"} /\ at' = at
      BY <1>5, <1>7, <3>3, RowMoves
    <3>4. QED
      BY <1>4, <1>7, <2>3, <3>1, <3>2, <3>3, AcceptedAfter
  <2>4. QED
    BY <2>1, <2>2, <2>3
<1>8. CASE a = r
  <2>1. op[r] = "login" /\ pc[q] \in Ended /\ pc'[q] = pc[q] /\ at'[q] = at[q] /\ pc'[r] # "begin"
    BY <1>1, <1>2, <1>4, <1>8 DEF History
  <2>2. ASSUME pc'[q] \in Accepted, at'[q] # 0
        PROVE  /\ at'[r] # at'[q]
               /\ at'[r] = 0 => factor'.row /\ factor'.step = at'[q]
               /\ pc'[r] = "code" => seen'[r].step = at'[q]
    <3>0. /\ at[r] # at[q]
          /\ at[r] = 0 => factor.row /\ factor.step = at[q]
          /\ pc[r] = "code" => seen[r].step = at[q]
      BY <1>5, <2>1, <2>2
    <3>1. at'[r] # at'[q] /\ (at'[r] = 0 => at[r] = 0)
      BY <1>8, <2>1, <3>0, StepsMove
    <3>2. ASSUME at'[r] = 0
          PROVE  factor'.row /\ factor'.step = at'[q]
      <4>1. at[r] = 0 /\ pc[r] \notin {"mark", "confirm", "enroll", "disable"}
        BY <1>1, <1>8, <2>1, <3>1, <3>2 DEF StepOf, Place
      <4>2. QED
        BY <1>8, <2>1, <3>0, <4>1, RowMoves
    <3>3. ASSUME pc'[r] = "code"
          PROVE  seen'[r].step = at'[q]
      <4>1. seen'[r] = factor /\ at[r] = 0
        BY <1>8, <3>3, RowRead, StepsMove DEF StepOf
      <4>2. QED
        BY <2>1, <3>0, <4>1
    <3>4. QED
      BY <3>1, <3>2, <3>3
  <2>3. pc'[q] \notin {"code", "mark", "confirm"}
    BY <2>1 DEF Ended
  <2>4. QED
    BY <2>2, <2>3
<1>9. QED
  BY <1>6, <1>7, <1>8

LEMMA StepStep == Base /\ StepInv /\ [Next]_vars => StepInv'
<1> SUFFICES ASSUME Base, StepInv, [Next]_vars
             PROVE  StepInv'
  OBVIOUS
<1>0. \A x \in Requests : StepOf(x) /\ StepOf(x)' /\ \A q \in Requests : StepKept(q, x)
  <2>1. \A x \in Requests : StepOf(x) /\ \A q \in Requests : StepKept(q, x)
    BY DEF StepInv
  <2>2. QED
    BY <2>1, StepOfStep
<1>1. ASSUME NEW q \in Requests, NEW r \in Requests
      PROVE  StepKept(q, r)'
  <2>1. CASE UNCHANGED vars \/ Tick \/ LockLapses \/ ExpireToken
    <3>1. UNCHANGED <<pc, op, ended, seen, at>>
      BY <2>1, ClockMoves DEF locals
    <3>2. factor'.row = factor.row /\ factor'.step = factor.step
      BY <2>1 DEF vars, stores, Tick, LockLapses, ExpireToken, Base, TypeOK, Factors
    <3>3. QED
      BY <1>0, <3>1, <3>2 DEF StepKept, Later, Alone
  <2>2. ASSUME NEW a \in Requests, Begin(a)
        PROVE  StepKept(q, r)'
    <3>0. /\ factor' = factor /\ seen' = seen /\ at' = at
          /\ pc[a] = "begin" /\ pc'[a] \notin Ended \cup {"begin"}
          /\ \A x \in Requests \ {a} : pc'[x] = pc[x] /\ op'[x] = op[x] /\ ended'[x] = ended[x]
          /\ ended'[a] = {x \in Requests : pc[x] \in Ended}
      BY <2>2, Beginning DEF stores
    <3>1. /\ op'[a] = "login" => pc'[a] = "password"
          /\ op'[a] = "confirm" => pc'[a] = "factor"
      BY <2>2, Beginning, FirstSteps
    <3>2. CASE q = a
      BY <3>1, <3>2 DEF StepKept, Later
    <3>3. CASE q # a
      <4> SUFFICES ASSUME Later(q, r)'
                   PROVE  StepKept(q, r)'
        BY DEF StepKept
      <4>1. Alone(q, r)
        BY <3>0 DEF Later, Alone
      <4>2. Later(q, r)
        <5>1. CASE r = a
          BY <3>0, <3>3, <4>1, <5>1 DEF Later
        <5>2. CASE r # a
          BY <3>0, <3>3, <4>1, <5>2 DEF Later
        <5>3. QED
          BY <5>1, <5>2
      <4>3. pc'[r] = "code" => pc[r] = "code"
        <5>1. CASE r = a
          BY <3>0, <3>1, <5>1 DEF Later
        <5>2. CASE r # a
          BY <3>0, <5>2
        <5>3. QED
          BY <5>1, <5>2
      <4>4. QED
        BY <1>0, <3>0, <3>3, <4>2, <4>3 DEF StepKept
    <3>4. QED
      BY <3>2, <3>3
  <2>3. ASSUME NEW a \in Requests, Act(a)
        PROVE  StepKept(q, r)'
    BY <1>0, <2>3, StepKeptStep
  <2>4. QED
    BY <2>1, <2>2, <2>3, Steps
<1>2. QED
  BY <1>0, <1>1 DEF StepInv

\* One code logs in once per time step: whoever comes after the one who used it has to
\* bring the code of another step, unless a third request works on the same row.
THEOREM StepUsedOnce == Spec => []OneLoginPerStep
<1>1. Init => StepInv
  BY DEF Init, StepInv, StepOf, StepKept, Later
<1>2. Base /\ StepInv => OneLoginPerStep
  <2> SUFFICES ASSUME Base, StepInv, NEW q \in Requests, NEW r \in Requests,
                      Done(q, "login") \/ Done(q, "confirm"),
                      op[r] = "login", q \in ended[r], at[q] # 0,
                      \A p \in Requests \ {q, r} :
                         op[p] \notin {"login", "confirm", "enroll", "disable"}
               PROVE  at[r] # at[q]
    BY DEF OneLoginPerStep
  <2>1. Later(q, r)
    BY DEF Later, Alone, Done, Base, History
  <2>2. StepKept(q, r)
    BY DEF StepInv
  <2>3. QED
    BY <2>1, <2>2 DEF StepKept, Done
<1>3. QED
  BY <1>1, <1>2, StepStep, Basis, PTL DEF Spec
=============================================================================

# Dinchy in TLA+

TLA+ models of the backend of dinchy (`src/internal`, Go): the state it keeps in
PostgreSQL and Redis, and the requests and jobs that change it concurrently. TLC
checks the models on small instances and TLAPS proves the results that matter most
for every value of the constants. Every definition is translated from the source;
`PROJECT.json` names the lines each one stands for.

## 1. The system

One Go process serves an HTTP API and an internal listener, runs recurring jobs
(gocron) and a job queue (River on PostgreSQL), and keeps its state in PostgreSQL
(users, accounts, organizations, members, sessions, invitations, reset tokens,
two-factor rows, audit log) and Redis (principal cache, sign-on state, event
stream). Nothing is held in memory between requests: two processes on one database
and one Redis behave as one process with more goroutines.

| Component | State | Operations | Talks to |
|---|---|---|---|
| session service (`features/session`) | `sessions` rows, cached principals | Create, Session, Logout, RevokeForUser, InvalidateForUser, InvalidateForOrganization | PostgreSQL, principal cache; called by the middleware and the auth service |
| principal cache (`platform/cache`) | one Redis key per token hash, with a TTL | Get, SetWithTTL, Delete | Redis |
| session cleanup job (`workers`) | – | delete ended rows | `sessions` |
| event bus (`platform/events`) | a Redis stream; per subscriber a consumer group with its pending list | Publish, ProcessSubscriber | Redis; the subscribers |
| audit service (`features/audit`) | `app_audit_logs` | Handle (subscriber), List | PostgreSQL |
| first-user setup (`features/auth/setup_service.go`) | users, accounts, organizations, roles, members | SetupFirstUser | PostgreSQL, event bus, session service |
| login, organization switch (`auth_service.go`) | – | Login, SelectOrganization | session service, two-factor |
| invitations (`invite_service.go`) | invitations | Create, Accept | PostgreSQL, mailer, session service |
| password reset (`password_service.go`) | reset tokens, password hashes | Request, Reset | PostgreSQL, mailer, session service |
| two-factor (`totp_service.go`) | `two_factors` (secret, last step, failures, lock) | Enroll, Verify, Disable | PostgreSQL |
| single sign-on (`sso_service.go`) | state entries in Redis, linked accounts | Start, Callback | Redis, the provider, session service |
| application lifecycle (`app`, `cmd/dinchy`) | servers, scheduler, job client, pools | Start, Wait, Shutdown | everything |
| mail and jobs (`platform/email`, `platform/jobs`) | River's job table | Send, the mail job | SMTP |
| HTTP pipeline (`transport`) | – | the middleware chain | all handlers |
| configuration, errors (`config`, `foundation/errors`, `transport/render`) | the settings of the process | Load, ResponseFor | the environment; every handler |
| manifest, i18n, logging, generators | – | parsing, conversion, code generation | – |

### What is hard here

* Requests interleave at every store call, and most operations are several calls
  with no transaction around them: a `Session` call that read a row before its
  revocation may write its cache entry after the eviction.
* Every call can fail or take effect without its answer arriving, and most
  failures after the first write are only logged or leave the rest undone.
* The event bus promises durability through Redis redelivery: replies are lost,
  workers overlap, processes stop between the insert and the acknowledgement, and
  entries are trimmed by age.
* Transactions run at READ COMMITTED: a check (`CountUsers`, "no pending
  invitation", "not consumed") is not protected from a concurrent one by the
  transaction, only by a unique key, where there is one.

`PROJECT.json` lists the hazards line by line with the properties that answer them.

### What makes each component correct

* sessions: a token resolves only within its session's lifetime; revocation takes
  effect within a known time; a cached copy of a revoked session always has an
  explanation; an ended session is not removed early and an unended one not at all.
* events: no delivered event is lost silently; every published event is recorded
  unless it outlives its retention.
* setup: one complete setup, truthful answers, no request that hangs.
* invitations: an invitation makes at most one member; one pending invitation per
  address. Resets: a token sets at most one password, and then no older session
  survives. Two-factor: one login per code step; the lock is not lost to a race.
* switch: the new session replaces the old one. Sign-on: one session per sign-on,
  and only for a linked account. Lifecycle: nothing works after what it needs is
  closed, and shutdown ends. Mail: what was accepted stays in the queue until it is
  sent. HTTP: an operation runs only for a request that passed every guard, and no
  answer shows the server's internals.

## 2. Modules

| Module | What it is |
|---|---|
| `SessionService` | session service, principal cache and cleanup job, in full detail |
| `SessionLedger` | abstract: what the session service promises its callers |
| `SessionRefinement` | the mapping from the rows to the ledger |
| `SessionProofs` | theorems about the above |
| `EventBus` | stream, consumer group, worker, audit subscriber |
| `EventLedger` | abstract: what the event bus promises |
| `EventBusProofs` | theorems about both |
| `FirstUserSetup` | racing setup requests |
| `FirstUserSetupProofs` | theorems about it |
| `Invitations` | creating and accepting invitations, statement by statement |
| `InvitationLedger` | abstract: what invitations promise |
| `InvitationProofs` | theorems about both |
| `Accounts` | one person's logins, second factor, resets, sign-ons and switches, racing |
| `AccountProofs` | theorems about it |
| `Configuration` | from the environment to the settings (operators only) |
| `ErrorRendering` | from errors to responses (operators only) |
| `HttpPipeline` | one request through the middleware, the guards and its handler |
| `Server` | the process: start, shutdown, jobs and mail, with the two above and a request in it |
| `ServerProofs` | theorems about it |
| `MCSessionService`, `MCEventBus`, `MCFirstUserSetup`, `MCInvitations`, `MCAccounts`, `MCServer` | constants for TLC |

`Server` EXTENDS `HttpPipeline`, which EXTENDS `Configuration` and `ErrorRendering`;
`Invitations` INSTANCEs `InvitationLedger`, `EventBus` `EventLedger`, and
`SessionRefinement` `SessionLedger`, with refinement mappings. The auth modules use the session service as `SessionLedger`
promises it, and `HttpPipeline` uses a service as something that answers or fails.

Definitions commented `Mutant:` are plausible bugs of the definition that follows
them. No specification uses them; putting one in place of the original must break
the property it is listed with, which shows that the property depends on the code.

### SessionService

| Model | Code |
|---|---|
| `rows` | the `sessions` table; a token stands for its hash. `deleted` and `rejected` are rows that are not there |
| `entries[t].until` | when Redis drops the key; `Hit` is a key still there |
| `pc`, `op`, `token`, `now`, `stamp`, `scope`, `hashes` | where a request is in a service method, and that method's locals |
| `BeginSession`, `CacheHit`, `CacheMiss`, `ReadRow...`, `FillCache` | `Session`; `Logout` starts with the same calls and goes on to `Revoke`, `Evict` |
| `BeginCreate`, `InsertSession` | `Create` |
| `BeginRevokeForUser`, `ListForRevocation`, `RevokeScope`, `Evict` | `RevokeForUser` |
| `InvalidateFor...`, `ListForInvalidation`, `Evict` | the Invalidate methods (exported; nothing in the repository calls them yet) |
| `Cleanup` | the cleanup job's DELETE |
| `answer`, `endedAt`, `escaped` | history variables: they record and guide nothing |

Each call to a store is one atomic step, and a second disjunct of the step is its
failure. Redis and PostgreSQL are taken to answer atomically; a revocation that
commits but is reported as failed has the visible effect of a revocation followed
by a failed eviction, except that `Logout` then answers an error.

Constants and assumptions. `MaxLatency` bounds how long a `Session` call is in
flight. The code has no such bound (the session middleware runs outside the
30-second timeout of `transport/server.go`), so it is an assumption about the
environment; the staleness bound is stated with it to show that the TTL cap alone
is not the bound. `LastSeenRequired` says whether `sessions.last_seen_at` rejects
NULL, as the migration has it. With the real schema no session is ever stored (theorem
`NeverStored`); the runs set it to FALSE and so describe the service against a schema
that accepts the row it writes.

Not modelled here: the contents of a principal (name, organization, permissions),
cookies and the request context. The updates that would make a cached principal
outdated without revocation are not in the repository.

`SessionLedger` has no cache, no requests in flight and no failures: sessions are
issued, revoked and purged, and a token resolves within its lifetime and less than
`Grace` after its revocation. Under the mapping of `SessionRefinement` a database
write is a ledger step, an answer is a `Resolve`, and everything else is no step;
`Grace` is `MaxLatency + SessionTTLCap`.

### EventBus

Stream IDs are 1, 2, ...; `cursor` is the group's last delivered ID. `pel` is its
pending list: for each entry in it, the entries whose last delivery was earlier,
because Redis claims by age and the entries of one reply have one age. `idle` is the
part of it that is older than `ClaimMinIdle`. Time appears as its effects only:
`Elapse` lets the oldest delivery that is not in `idle` come into it, `Publish` may trim any
prefix of the stream (`XADD ... MINID ~`), both at any moment. That admits every
order the real clocks admit and more. `Read` is for the
idle and the new entries (`Offered`) and gets the first `BatchSize` of them in the order
`Sooner`: what is claimed, by its last delivery, then what is new; `Handle` is the audit insert with its primary key; `Ack`
is XACK; the loop ends at the first error, as the code does. A trimmed entry leaves
the pending list at once, where Redis leaves a tombstone that the next claim
removes: nobody can tell the difference. Faults: a reply that is lost, a failed
insert, an insert that commits but is reported as failed, a failed XACK, a process
that stops. The event types, the registries and the encoding of an event are not
modelled; a record that cannot be decoded behaves as an insert that always fails.

`EventLedger` knows published events, those owed to the audit log, and the log. `Owed`
maps what is pending or never delivered to what is owed: deliveries, claims and faults
are then no steps, an insert is `Record`, an acknowledgement that finds its entry
pending is `Settle`, and trimming is part of `Publish` there too.

### FirstUserSetup

`step[p]` counts the inserts an open transaction has made; what it wrote is visible
to others only as locks on unique keys (`Unlocked`) until `Commit`. `Tables` is the
order of the inserts; roles and their permissions are one entry since their keys
contain the new organization's ID. Every statement may fail, and a commit may
succeed with its acknowledgement lost. A rollback that fails closes the connection,
which also rolls back. After the commit the event is published and the session
created, each failure being the request's.

### Invitations and InvitationLedger

| Model | Code |
|---|---|
| `people[e]` | the rows of `users`, `accounts` (provider `password`) and `organization_members` for an address; who accepted an invitation stands for the password and for the membership it brought |
| `invitation[c]`, `expired` | `organization_invitations`: `accepted_at`, and whether `expires_at` has passed |
| `BeginCreate`, `CheckUser`, `CheckMembership`, `CheckPending`, `InsertInvitation`, `Send` | `CreateInvitation`, which has no transaction |
| `BeginAccept`, `FindInvitation`, ..., `Consume`, `Commit` | the transaction of `AcceptInvitation`, in the order of its statements |
| `CreateSession`, `Respond` | what follows the commit, in the service and the handler |
| `wrote[a]`, `Unlocked`, `Rivals` | what an open transaction has written and so locks at READ COMMITTED |

Every statement may fail, an insert or a commit may take effect and be reported as
failed, and `Crash` ends all requests at once. The code has no resend, revocation or
listing of invitations. `InvitationLedger` knows neither transactions nor failures:
its `Accept` is the commit that consumes the invitation, `AcceptLate` one that
commits after another, which the code lets happen (the UPDATE that consumes is
guarded, its row count is not looked at) and which then only sets the password.

### Accounts

One person, whose stored state is one of `Situations`, and requests of any kind.
A situation may hold a row with as many failures as the limit and no lock; that is what
a lock that has run out leaves, so `lapsed` is true from the start there.
None of the operations uses a transaction, so each call to a store is one action and
a value read earlier (`seen`) is used as it was then: `CheckCode` decides by the row
`FindTwoFactor` read, `RecordFailure` writes the count it read plus one.

| Model | Code |
|---|---|
| `CheckPassword`, `FindTwoFactor`, `CheckCode`, `RecordFailure`, `MarkUsed`, `ResolveOrganization`, `CreateSession`, `Respond` | `Login` with `verifyTOTPForLogin`, and its handler |
| `StartTOTPEnrollment`, `ConfirmTOTP`, `DisableTOTP`, `PublishEvent` | the three second-factor operations |
| `ResolvePrincipal`, `FindOrganization`, `Logout`, `CreateSession` | `SelectOrganization`; the logout handler is `Logout` alone |
| `FindUserForReset`, `InsertToken`, `SendToken`; `FindToken`, `SetPassword`, `ConsumeToken`, `RevokeForUser` | `ForgotPassword`; `ResetPassword` |
| `StartSSO`; `CheckState`, `FindIdentity`, `LinkAccount`, `ForgetState` | `startSSO`; `completeSSO` |
| `lagging` | revoked sessions the principal cache may still serve (`SessionLedger` bounds for how long) |

A request brings what a client can have (`Keys`): a password that is or was set, a
token it was given, one from a mail, the cookie of a sign-on. Codes are right or
wrong; the clock moves in 30-second steps and a code is accepted for the current
one. Whatever fails may fail before or after its effect. A stopped process
is every request in it failing where it is, which the model allows.

### Configuration, ErrorRendering, HttpPipeline, Server

| Model | Code |
|---|---|
| `EnvFile`, `loadEnvFile`, `Environ` | the choice of the env file and `godotenv`, which completes the process environment |
| `Parses`, `Parsed`, `Truthy` | what `loadFromEnv` makes of a text, by the type of its field; flags in any case of letters |
| `Trim`, `Lower`, `Apply`, `validateStruct`, `Load` | the modifiers of the `mod` tags, the `validate` tags, `config.Load` |
| `appErrorFrom`, `localizedResponse`, `ResponseFor`, `Resolve` | `render.Renderer` |
| `Arrive`, `CORS`, `CSRF`, `RequestMiddleware`, `Mux` | the chain of `transport.New`, in its order |
| `SessionResolutionGuard`, `RequirePermissions`, `Validate`, `CallService`, `ServiceFails` | the API's guards, huma's validation, the handler's call of its service, and its end |
| `HTTPSChecked`, `Insecure`, `RefusedByHandler`, `HandlerError` | the nine handlers that begin with a check for HTTPS, and the second look at the principal some handlers take |
| `LoadConfiguration`, `NewTelemetry`, `OpenStore` ... `Listen` | `run` and `App.Start`, step by step |
| `Signal`, `StopScheduler` ... `CloseStore`, `ConnectionsReturned` | the signal and `App.Shutdown`; closing the store is two steps, since `pgxpool.Pool.Close` hands out no more connections and then waits for those in use |
| `RunJob`, `Query`, `QueryEnds`, `FinishJob` | a recurring job of gocron, and the connection it holds during a query |
| `StartProbe`, `EndProbe` | `readyz` on the internal server, whose `Shutdown` waits for it |
| `Enqueue`, `Fetch`, `Work`, `Complete`, `Rescue` | `Mailer.Send`, River, `SendEmailWorker.Work` |

A setting of each kind of Go type stands for the others of its kind; floats are left
out. What `strconv`, `fmt`, `time`, `strings` and the URL rules make of a text is given by
the constants `Unsigned`, `Leading`, `Durations`, `TrimSpace`, `ToLower`, `Urls` and
`HttpUrls`; the two conversions are functions on the texts they change. What a request brings is
chosen by the stage that looks at it first. A request that dies with its process ends
as `cut`, one that the development proxy aborts as `aborted`. One request runs per
process, and one mail is followed through the queue: requests share nothing in the
process, and neither do mails. River, gocron, net/http and the operating system are
modelled from how the code uses them, and marked external in `PROJECT.json`.

## 3. Runs

| Run | Instance | What it shows |
|---|---|---|
| `session` | 1 token, 2 requests, idle 3, lifetime 2, cap 1, latency 1, retention 0, clock to 3 | types, lifetime, bounded staleness, explained stale entries, refinement of the ledger |
| `session_idle` | 1 request, idle 2, lifetime 4 | *violated*: a session in use is refused as idle |
| `session_retention` | retention 2 | *violated*: revoked sessions are deleted at the next run of the job |
| `events` | 2 workers, 3 events, batches of 2, 2 faults of any kind | types; a delivered event is recorded or pending; only a recorded event with a lost acknowledgement can keep another from the log; refinement of the ledger |
| `events_durable` | 1 worker, 2 events, 1 failed XACK | *violated*: the audit insert is not idempotent, and the pass stops at it each time |
| `setup` | 3 requests, 2 addresses, any failure, crashes | types; one complete setup; truthful 409; sessions only for a committed owner; every request is answered |
| `setup_conflict` | 2 requests, 2 addresses | *violated*: the loser of a race gets an internal error where the API promises 409 |
| `invitations` | 2 creations for one address, 2 acceptances, 4 kinds of person, crashes | types; an accepted invitation leaves a verified member with a password; one acceptance consumes it and at most one makes the account; no second pending invitation except by overlap; an unmailed one was reported; every acceptance ends; refinement of the ledger |
| `accounts` | 2 requests of any kind, 8 situations, limit 2, 2 time steps | what a reset, a token, a code, the lock, a sign-on and a switch promise, up to the races each property names |
| `login_unenrolled` | 1 request, a member without a second factor | *violated*: the right password ends in an error |
| `server` | 11 environments, 2 starts, 2 attempts per mail, 3 routes | order of closing, clean exit, mail kept, agreement of mailer and sender, settings as given, guards, failed session lookups, hidden internals; shutdown ends unless it waits for ever on a request, a probe or a job's connection |
| `https` | the same, 2 routes | *violated*: with `RequireHTTPSForAuth` a password reset that came over plain HTTP is handled |

Why the bounds are enough. *Sessions*: the races are between two calls on one
token; clock 3 lets a session be issued, revoked, served for `MaxLatency + cap` and
then refused, lets its lifetime pass, and lets the cleanup take an expired row
(lifetime + retention + 1); retention 0 is the value at which the cleanup comes
closest to taking a row too early. One token suffices because the actions of different
tokens meet only in the bulk methods, whose scope is then that token; the theorems
have any number of tokens. *Events*: three events in batches of two make batches
that overlap and a batch with a fresh and a claimed entry; two workers overlap; two
faults give a failure and a second one during its repair. *Setup*: two requests for
one address (clash in `users`) and one for another (clash first in
`organizations`), so that both kinds of lock wait and a chain of waiters occur.

*Invitations*: the races are between two creations, two acceptances of one
invitation, or one each of two invitations for one address, and all of them fit; a
third acceptance meets nothing a second did not leave. *Accounts*: two racing
requests of any two kinds, or one after the other; with the limit at 2 one failure
locks a person who has failed once, and two overlapping ones reach the race on the
count; two time steps tell a repeated code from the next one. Three requests are
beyond TLC here; the exceptions that the properties grant for overlap are
reached with two, and the theorems about both modules have any number of requests.
*Server*: the environments are those the loader tells apart (which
file, set or empty variables, each kind of parse failure, a number past 16 bits, texts
with space around them and in capitals, half-set mail); 6 load, 3 of them get to serve. Two starts let a mail outlive its
process and meet another configuration; two attempts reach a retry and the last
attempt (River's own default is 25). The routes are one that changes state behind a
permission, one without a guard that depends on the configuration, and an asset; in
`https` one whose handler checks for HTTPS and one whose handler does not.

Deadlock is checked except in `setup`, `setup_conflict`, `invitations`, `accounts`,
`login_unenrolled`, `server` and `https`, where requests and starts are bounded, all of them
end, and the instance stops. At the clock's bound the session model goes on: the
requests do not need time.

### Fairness

* `EventBus`: weak fairness of `Read`, `Handle`, `Ack` of each worker and of
  `Elapse`. The scheduler starts every subscriber's job each `WorkerInterval`,
  also after an error (`events/worker.go`), a pass runs to its end, and pending
  entries grow old. Publishing, trimming and faults are not fair. Crashed workers
  restart, which the bound on faults makes finite.
* `FirstUserSetup`: weak fairness of a request that has begun, statement by
  statement. An insert waits only while its key is locked.
* `Invitations`: weak fairness of an acceptance, statement by statement, as above.
* `Server`: weak fairness of the steps of `Shutdown` and of the queue's worker. A step of
  `Shutdown` that has nothing to wait for is taken; gocron stops waiting after
  `ShutdownTimeout`; a job of the queue has River's timeout of a minute, which the sender
  obeys, and its completion is recorded or fails. Requests, probes and scheduled jobs are
  *not* fair: the servers have no read or write timeout (`transport/server.go`), the
  `Timeout` middleware only ends a context, the session lookup runs outside it, queries
  have no timeout, and `run` calls `Shutdown` with `context.Background()`. So
  `ExitsUnlessAwaiting` promises an end only when none of these is awaited for ever.
  Signals, arrivals and restarts are not fair either.
* `SessionService`, `Accounts`: none; their properties are safety properties.

## 4. Proofs

`SessionProofs` (for any sets of tokens, users, organizations and requests and any
timeouts; assumptions: `SessionAssumption`):

* `Typing`: `TypeOK`, split into the requests' locals and the stores.
* `LifetimeHolds`, `StalenessBounded`: neither property is inductive, because an
  answer's bound comes from the entry it was read from, the entry's from the call
  that wrote it, and the call's from the time it was in flight. `StalenessInv`
  carries that chain: `CallInv` (a call in flight began at most `MaxLatency` ago),
  `RowInv` (only issued rows end, once), `EntryInv` (a live entry copies its row
  and expires within the cap, and within `MaxLatency` + cap of a revocation),
  `FillInv` (a call about to write read a usable row, not revoked before the call
  began), `AnswerInv` (the two properties), `InsertInv` (tokens are fresh).
* `StaleEntriesExplained`: `EvictionInv` adds that between the listing and the
  revocation every active session in scope is listed or known to be missed.
* `UncachedRevocation`: with the cache disabled, no call that begins after a
  revocation resolves the session. Proved from the two invariants above; it has no
  run of its own.
* `NeverStored`: with `last_seen_at` NOT NULL every insert is rejected and no row is ever
  in the table. Inductive by itself: the insert is the only way in.
* `Refinement`: every step is a ledger step or no step.

`FirstUserSetupProofs` (any requests, any addresses; no assumptions):

* `Typing`, and `SetUpOnce` by `SetupInv`: no two open transactions hold one unique
  key, what an open transaction wrote clashes with nothing committed, and what is
  committed is one whole setup. The organization's slug, common to all requests, is
  what makes two setups clash.
* `ConflictIsTrue`, which is inductive with `TypeOK`: a 409 comes from a count of
  committed users, and committed rows stay.
* `SessionsAreOwners` by `OwnersWhole`: a request past its commit, which alone may
  create a session, has all its rows among the committed ones, also when the commit's
  acknowledgement was lost.

`InvitationProofs` (any requests, any addresses, any stored people; assumption:
`InvitationAssumption`, that a request has one address and what is stored is
consistent). One invariant, `InvitationInv`, gives all six theorems:

* `Shape` says what a transaction has written by the place it is at. `Fresh` and `Read`
  relate it to the committed rows: what it inserted is not there for anybody else, and
  what it read and acts upon still holds. The second is not a matter of isolation,
  which READ COMMITTED does not give, but of the code never undoing what it reads here.
* `Apart` is the locks: two open transactions have not written rival rows. It is what
  makes `Fresh` inductive when another transaction commits.
* `Once` carries `ConsumedByOne`: of two committed acceptances of one invitation, not
  both consumed it and one only set the password. `Creation` ties the answers of
  `CreateInvitation` to the row and the mail, for `NoSecondInvitation` and
  `CreatedIsMailed`, and an accepted invitation to a member, for `AcceptedIsMember`.
* `Refinement`: a commit is `Accept` when it consumes the invitation and `AcceptLate`
  when another commit has; every other statement is no step of the ledger.

`AccountProofs` (any number of requests of any kind, any limit of failures and number of
time steps; assumption: `AccountsAssumption`, that the situations are typed and a
missing row is empty). No operation has a transaction, so nothing but the order of its own
calls holds a request to what it has read. `Base` is the common ground: `TypeOK`,
`Place` (which operation a request at each place belongs to), `History` (who had ended
before whom) and `Brings`. One lemma per store says which places write it, so that a
proof looks at those alone. On top of it each property has an invariant of its own:

* `SwitchKeepsOne` by `SessionsInv`: a session is made once, by the request it is named
  after, and a switch past its `Logout` has the old session revoked, which nothing
  makes live again.
* `SignedOnIsLinked` by `LinkedInv`: past the look-up the link is there, found or made.
* `SignOnMakesOne` by `ForgottenInv`: an answered callback has forgotten its sign-on,
  which nobody can save again, so a callback that begins later stops at `CheckState`.
* `TokenSpent` by `SpentInv`: an answered reset has consumed its token for good.
* `ResetTakesAccess` by `AccessInv`. The property is about sessions that are live now;
  the invariant must say for each request that began after the reset how far it can
  come with the old password (`After`: not past `CheckPassword`) or with an old session
  (only with one that lags in the cache), and that no live session is older
  (`LiveAfter`).
* `LimitLocks` by `LimitInv`: `Behind` says that a row with more failures than a request
  has read was written by one that overlaps it. That is the race the property excepts.
* `StepUsedOnce` by `StepInv`: for every later login, what it has read or will read of
  the row still has the step the earlier one used.

`EventBusProofs` (any workers, batch size, events and faults; assumption:
`EventBusAssumption`): `Typing` and `DeliveredIsNotLost` by `EventInv`, which adds that a
worker at its acknowledgement has the event in the log. `TypeOK` is part of the argument:
a reply is a set of consecutive new entries, so that the group's cursor skips none, only
because every new entry is sooner than every later one, and the order among the pending
ones is kept by delivery, claim and trimming. `Refinement`: every step is a ledger step or
no step; an acknowledgement settles only because `AckRecorded` has the event in the log.

`ServerProofs` (any environments, routes, origins and permissions, any number of
starts and attempts, and any parsers and conversions of texts; assumptions:
`ServerAssumption`, and `ConfigurationAssumption`: an unsigned number is one, a text that
was trimmed or lowered is not changed by doing it again, and what `http_url` accepts `url`
accepts): all safety properties that the run `server` checks.

* `ClosedLast`, `CleanExitHolds` by `LifeInv`. What is open is a function of the place
  of the process (`OpenInv`, with `Holding` the places between the step that opens a
  resource and the step that closes it). The properties speak of requests, probes, mails
  and jobs, so `UserInv` ties each user to a resource that is closed *before* the stores:
  a request in flight to the public server, a probe to the internal one, a mail being
  worked on to the queue, a job to the scheduler or to a stop that failed. `ExitInv` says that a request
  is cut off only by an end that is not clean. One lemma per kind of step: `LifeDie`,
  `LifeMove` (opening and closing), `LifeStart`, `LifeShutdown`, `LifeWork`,
  `LifeServe`.
* `OnlyAllowedHandled` by `StageInv`, which has a conjunct for what each stage of the
  pipeline leaves to the next (an allowed origin after CORS, the token after CSRF, the
  context equal to what was found after the session middleware, ...). It is needed
  because the property is about the request when its operation runs, and the guards
  were passed steps before; only HTTPS is decided by the handler itself.
* `FailureIsAnError`, `InternalsStayHidden` by lemmas about `ResponseFor` (`RenderApp`,
  `RenderRaw`, `ResponseHides`, ...), applied to every stage that answers.
* `MailIsKept` by `MailInv`: `QueueInv` bounds attempts and deliveries by where the mail
  is, and `AnswerInv` says that no other step answers an invitation with 200.
* `MailerIsConfigured`, `SettingsHold` by `ConfigInv`, which keeps what `Load` found
  until it is used, and lemmas about the loader (`GivenString`, `GivenBool`,
  `TrimmedOnce`, `GivenPort`).
* `Typing` from these invariants.

So every safety invariant, action property and refinement that a passing run checks is also a
theorem. Model-checked only: liveness (`RecordedUnlessStuck`, `Answered` of the setup and
of the invitations, `ExitsUnlessAwaiting`), which is out of reach of TLAPS. TLC checks the
safety properties on finite instances with the same definitions as the proofs use.

## 5. Findings

Each names the run that shows it; the line of the repository it departs from is in
`PROJECT.json`.

1. Seven handlers of the auth API do not check for HTTPS when `RequireHTTPSForAuth` is
   set: the list of providers, the choice of an organization, both halves of a password
   reset, and enrolling, confirming and disabling the second factor (`https`).
2. No query moves `idle_expires_at`: idle expiry is an absolute one (`session_idle`).
3. The cleanup's retention does not hold for revoked sessions (`session_retention`).
4. A lost XACK blocks its event and those delivered with it until they are trimmed
   (`events_durable`).
5. The loser of a setup race gets an internal error, not 409 (`setup_conflict`).
6. A login with the right password ends in an error for everybody who has not
   enrolled a second factor, or has disabled it (`login_unenrolled`).

Met while modelling, without a run of their own:

* `Create` never writes `last_seen_at` (`session_service.go:128`), which
  `00001_init.sql:81` declares NOT NULL: by `NeverStored` no session is ever stored in
  the database as it is migrated. The service's tests mock the store.
* Nothing bounds how long `Shutdown` takes. It waits for a request in flight, for a probe,
  and in `Store.Close` for a connection that a scheduled job still holds, although
  `config/worker.go:9` says that "ShutdownTimeout bounds how long shutdown waits for
  in-flight jobs to drain". `Awaiting` names the three.
* The lock of the second factor is written from a count read before: of two
  overlapping failures the later writer may clear the lock the other set, or set none
  (`totp_service.go:144`). `LockedAtLimit` holds up to that race.
* `ResetPassword` answers success for a user without a password account: its UPDATE
  changes no row (`UpdateUserPasswordHash`), the token is consumed and the sessions
  are revoked.
* Enrolling again sets `verified` to false, so that an enrolled user who begins anew
  is not asked for a code until the new factor is confirmed.
* A creation that fails after its insert leaves a pending invitation that no mail
  announces and that refuses every later one for the address, also after it has
  expired (`invite_service.go:72`).
* A port is parsed with 64 bits and stored in 16 before `lte=65535` is looked at:
  65561 becomes 25 (`env.go:123`).
* A mail host without a sender address passes the validation and fails `Start`, after
  the store and Redis have been opened.
* `send_email_background_job.go:21` says that River "retries until it succeeds"; it
  gives a job up after its last attempt, which `MailKept` allows for.
* The audit log's bound is inclusive (`created_at <= $15`, `audit.sql.go:86`), where
  `audit_type.go:39` says "strictly before"; the strict bound would lose entries of
  one time between two pages.
* Panics are answered in English whatever the request asks for, since `Recover`'s
  context predates `Lang`.
* During shutdown `readyz` answers ready after the public listener is closed; it
  looks at the store and not at Redis.

## 6. Plan

Done: every component of section 1 that keeps state or decides something, and a theorem
for every safety property of the passing runs. What is left:

1. Proofs about what the models grant each other: that the sessions of `Accounts` and
   `Invitations` (a session is made, revoked, and resolves for a while after) are used
   as `SessionLedger` promises them. The ledger has a clock and answers that `Accounts`
   leaves out, so this needs a smaller ledger that both refine.
2. Action properties that need no run of their own, such as that an accepted invitation
   and a consumed token stay so.

## 7. Not modelled

* The manifest, the code generators and the lint rules: they run at build time, and
  what they generate is what the models are translated from.
* i18n, log formatting, request IDs, client addresses, languages: conversions and
  output on which nothing here branches.
* The principal's name and organization, the registries of events and their
  encoding, the pages of the audit log and other lists: reads and conversions
  without an effect on state.
* Floating-point settings, and `EnqueueTx`, which nothing calls.
* The liveness probe, a constant answer, and the frontend beyond what the pipeline serves.

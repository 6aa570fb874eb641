-------------------------------- MODULE Server --------------------------------
(***************************************************************************)
(* The process (cmd/dinchy, internal/app): it loads its configuration,     *)
(* opens its dependencies one after the other, serves, and on a signal     *)
(* stops its workers, then its servers, then its stores.  Meanwhile a      *)
(* request runs through the HTTP pipeline, a scheduled job runs, and the   *)
(* mail of an invitation goes through the durable queue (River), which     *)
(* outlives the process.  The process may be killed at any point and be    *)
(* started again, with another configuration.                              *)
(***************************************************************************)
EXTENDS HttpPipeline

CONSTANTS
    Environments,  \* the environments the process may be started in
    NoEnvironment, \* one of them, kept when the configuration has been read
    MaxStarts,     \* bound: how often the process is started
    MaxAttempts    \* how often the queue tries a job before it discards it

ASSUME ServerAssumption ==
    NoEnvironment \in Environments /\ MaxStarts \in Nat \ {0} /\ MaxAttempts \in Nat \ {0}

VARIABLES
    environment,   \* what the configuration was read from, until Start begins
    process,       \* what the process does next
    open,          \* what it holds open, or runs
    sender,        \* how mail is delivered: "noop" or "smtp"
    stopFailed,    \* Shutdown has met an error
    exit,          \* how the last process ended
    starts,
    job,           \* the scheduled job: "idle", "running", or "querying" the store
    probe,         \* a readiness probe is being answered
    mail,          \* the queued mail
    attempts, sends,
    lost           \* history: a delivery was not recorded

lifecycle == <<environment, cfg, process, open, sender, stopFailed, exit, starts>>
tasks == <<job, probe>>
delivery == <<mail, attempts, sends, lost>>
vars == <<lifecycle, request, tasks, delivery>>

Down == {"off", "exited"}
Opening == {"configured", "store", "redis", "sender", "groups", "scheduler", "queue"}
Closing == {"stopScheduler", "stopQueue", "stopPublic", "stopInternal", "closeRedis", "closeStore",
            "awaitConnections"}
Resources == {"store", "redis", "scheduler", "queue", "public", "internal"}
Alive == process \notin Down

Init ==
    /\ environment = NoEnvironment /\ cfg = Defaults
    /\ process = "off" /\ open = {} /\ sender = "noop" /\ stopFailed = FALSE
    /\ exit = "none" /\ starts = 0
    /\ request = NoRequest /\ job = "idle" /\ probe = FALSE
    /\ mail = "absent" /\ attempts = 0 /\ sends = 0 /\ lost = FALSE

-----------------------------------------------------------------------------
(* run, up to the signal *)

(* The process ends without Shutdown: the connections and what runs in it  *)
(* end with it, and a job that was worked on stays marked as running.      *)
Die(code) ==
    /\ process' = "exited" /\ exit' = code /\ open' = {} /\ job' = "idle" /\ probe' = FALSE
    /\ request' = IF InFlight THEN [request EXCEPT !.pc = "cut"] ELSE request
    /\ mail' = IF mail \in {"running", "delivered"} THEN "stuck" ELSE mail
    /\ lost' = (lost \/ mail = "delivered")
    /\ environment' = NoEnvironment
    /\ UNCHANGED <<cfg, sender, stopFailed, starts, attempts, sends>>

LoadConfiguration ==
    /\ process \in Down /\ starts < MaxStarts
    /\ starts' = starts + 1
    /\ \E e \in Environments :
         IF Load(e)
         THEN /\ cfg' = Loaded(e) /\ environment' = e
              /\ process' = "configured" /\ exit' = "none"
         ELSE /\ process' = "exited" /\ exit' = "error"
              /\ UNCHANGED <<cfg, environment>>
    /\ request' = NoRequest /\ job' = "idle" /\ probe' = FALSE
    /\ open' = {} /\ stopFailed' = FALSE /\ sender' = "noop"
    /\ UNCHANGED delivery

NewTelemetry ==
    /\ process = "configured"
    /\ \/ /\ process' = "store" /\ environment' = NoEnvironment
          /\ UNCHANGED <<cfg, open, sender, stopFailed, exit, starts, request, tasks, delivery>>
       \/ cfg.otel /\ Die("error")

(* The steps of Start, each of which may fail and leave the rest undone.   *)
Opens(stage, resources, next) ==
    /\ process = stage
    /\ \/ /\ process' = next /\ open' = open \cup resources
          /\ UNCHANGED <<environment, cfg, sender, stopFailed, exit, starts, request, tasks, delivery>>
       \/ Die("error")

OpenStore == Opens("store", {"store"}, "redis")
OpenRedis == Opens("redis", {"redis"}, "sender")

NewSMTPSender ==
    /\ process = "sender"
    /\ \/ /\ SMTPEnabled(cfg) => cfg.host # "" /\ cfg.from # ""
          /\ process' = "groups" /\ sender' = IF SMTPEnabled(cfg) THEN "smtp" ELSE "noop"
          /\ UNCHANGED <<environment, cfg, open, stopFailed, exit, starts, request, tasks, delivery>>
       \/ SMTPEnabled(cfg) /\ (cfg.host = "" \/ cfg.from = "") /\ Die("error")

(* NewMailer is told what the configuration says, whatever the sender is.  *)
Configured == SMTPEnabled(cfg)

EnsureConsumerGroups == Opens("groups", {}, "scheduler")
StartScheduler == Opens("scheduler", {"scheduler"}, "queue")
StartQueue == Opens("queue", {"queue"}, "listen")

Listen ==
    /\ process = "listen"
    /\ process' = "serving" /\ open' = open \cup {"public", "internal"}
    /\ UNCHANGED <<environment, cfg, sender, stopFailed, exit, starts, request, tasks, delivery>>

(* Wait returns the error of a listener; run then ends without Shutdown.   *)
ListenerFails == process = "serving" /\ Die("error")

(* A crash, or a signal that arrives before Start has returned.            *)
Kill == Alive /\ Die("killed")

Signal ==
    /\ process = "serving" /\ process' = "stopScheduler"
    /\ UNCHANGED <<environment, cfg, open, sender, stopFailed, exit, starts, request, tasks, delivery>>

-----------------------------------------------------------------------------
(* Shutdown: each step is taken whether the one before failed or not *)

Stops(stage, resource, failed, next) ==
    /\ process = stage /\ process' = next
    /\ open' = open \ {resource}
    /\ stopFailed' = (stopFailed \/ failed)
    /\ UNCHANGED <<environment, cfg, sender, exit, starts, request, tasks, delivery>>

\* Mutant: a stop that timed out is not reported.
StopSchedulerSilently == Stops("stopScheduler", "scheduler", FALSE, "stopQueue")

(* The scheduler waits for its job up to ShutdownTimeout.                  *)
StopScheduler ==
    \/ job = "idle" /\ Stops("stopScheduler", "scheduler", FALSE, "stopQueue")
    \/ job # "idle" /\ Stops("stopScheduler", "scheduler", TRUE, "stopQueue")

\* Mutant: the queue is drained before it stops.
StopQueueDrained ==
    mail \notin {"queued", "running", "delivered", "stuck"} /\ Stops("stopQueue", "queue", FALSE, "stopPublic")

(* The queue fetches nothing more and waits for the job it works on.       *)
StopQueue ==
    /\ mail \notin {"running", "delivered"}
    /\ \E failed \in BOOLEAN : Stops("stopQueue", "queue", failed, "stopPublic")

\* Mutant: the server is closed with requests in flight.
ClosePublic == Stops("stopPublic", "public", FALSE, "stopInternal")

(* The listener is closed first, then the requests in flight are awaited;  *)
(* Arrive is not possible in this stage.                                   *)
StopPublic ==
    /\ ~InFlight
    /\ \E failed \in BOOLEAN : Stops("stopPublic", "public", failed, "stopInternal")

StopInternal ==
    /\ ~probe
    /\ \E failed \in BOOLEAN : Stops("stopInternal", "internal", failed, "closeRedis")

CloseRedis == \E failed \in BOOLEAN : Stops("closeRedis", "redis", failed, "closeStore")

(* The pool hands out nothing more, and waits for what it has handed out.  *)
CloseStore == Stops("closeStore", "store", FALSE, "awaitConnections")

ConnectionsReturned ==
    /\ process = "awaitConnections" /\ job # "querying"
    /\ process' = "exited" /\ exit' = IF stopFailed THEN "error" ELSE "ok"
    /\ UNCHANGED <<environment, cfg, open, sender, stopFailed, starts, request, tasks, delivery>>

Shutdown ==
    \/ StopScheduler \/ StopQueue \/ StopPublic \/ StopInternal
    \/ CloseRedis \/ CloseStore \/ ConnectionsReturned

-----------------------------------------------------------------------------
(* What runs in the process *)

(* A scheduled job, at once when the scheduler starts and then at its      *)
(* interval; its last run may outlast a stop that timed out.               *)
RunJob ==
    /\ "scheduler" \in open /\ process # "stopScheduler" /\ job = "idle"
    /\ job' = "running"
    /\ UNCHANGED <<lifecycle, request, probe, delivery>>

(* A job holds a connection during its queries, and gets none from a pool  *)
(* that is closed.                                                         *)
Query ==
    /\ "store" \in open /\ job = "running" /\ job' = "querying"
    /\ UNCHANGED <<lifecycle, request, probe, delivery>>

QueryEnds ==
    /\ Alive /\ job = "querying" /\ job' = "running"
    /\ UNCHANGED <<lifecycle, request, probe, delivery>>

FinishJob ==
    /\ Alive /\ job = "running" /\ job' = "idle"
    /\ UNCHANGED <<lifecycle, request, probe, delivery>>

(* A readiness probe pings the store, for as long as its client waits.     *)
StartProbe ==
    /\ "internal" \in open /\ process # "stopInternal" /\ ~probe
    /\ probe' = TRUE
    /\ UNCHANGED <<lifecycle, request, job, delivery>>

EndProbe ==
    /\ Alive /\ probe /\ probe' = FALSE
    /\ UNCHANGED <<lifecycle, request, job, delivery>>

Jobs == RunJob \/ Query \/ QueryEnds \/ FinishJob
Probes == StartProbe \/ EndProbe

ServeArrival ==
    /\ "public" \in open /\ process # "stopPublic"
    /\ Arrive
    /\ UNCHANGED <<lifecycle, tasks, delivery>>

ServePipeline == Alive /\ Pipeline /\ UNCHANGED <<lifecycle, tasks, delivery>>

ServePanic == Alive /\ Recover /\ UNCHANGED <<lifecycle, tasks, delivery>>

(* A sign-on begins only with a provider that is enabled; the others       *)
(* answer what their service returns.                                      *)
ServiceAnswers ==
    /\ Alive /\ request.pc = "handler" /\ request.handled /\ request.route # "createInvitation"
    /\ request.route = "ssoStart" => SSOEnabled(cfg)
    /\ Answer(Plain(200))
    /\ UNCHANGED <<lifecycle, tasks, delivery>>

(* Mailer.Send: the mail becomes a durable job.  Only the first is followed*)
Enqueue == mail' = IF mail = "absent" THEN "queued" ELSE mail

(* An invitation is refused without a transport, and is answered when its  *)
(* mail is enqueued; what comes after may still fail.                      *)
CreateInvitation ==
    /\ Alive /\ request.pc = "handler" /\ request.handled /\ request.route = "createInvitation"
    /\ Configured
    /\ Enqueue
    /\ \/ Answer(Plain(200))
       \/ \E err \in ServiceErrors : Answer(ResponseFor(cfg.expose, 500, <<err>>))
    /\ UNCHANGED <<lifecycle, tasks, attempts, sends, lost>>

-----------------------------------------------------------------------------
(* The queue *)

Fetch ==
    /\ "queue" \in open /\ process # "stopQueue" /\ mail = "queued"
    /\ mail' = "running" /\ attempts' = attempts + 1
    /\ UNCHANGED <<lifecycle, request, tasks, sends, lost>>

Retry == IF attempts < MaxAttempts THEN "queued" ELSE "discarded"

(* Sending succeeds, fails, or fails after the mail was accepted; the      *)
(* sender of a process without SMTP always fails.                          *)
SendOutcomes == IF sender = "noop" THEN {"failed"} ELSE {"sent", "failed", "unsure"}

\* Mutant: an error of the sender is not returned to the queue.
WorkSwallowing ==
    /\ Alive /\ mail = "running"
    /\ \E outcome \in SendOutcomes :
         /\ mail' = "delivered"
         /\ sends' = IF outcome = "failed" THEN sends ELSE sends + 1
         /\ lost' = (lost \/ outcome = "unsure")
    /\ UNCHANGED <<lifecycle, request, tasks, attempts>>

\* Mutant: the worker sends once more itself when it is not sure.
WorkResending ==
    /\ Alive /\ mail = "running"
    /\ \E outcome \in SendOutcomes :
         /\ mail' = IF outcome = "failed" THEN Retry ELSE "delivered"
         /\ sends' = sends + (CASE outcome = "failed" -> 0 [] outcome = "sent" -> 1 [] OTHER -> 2)
         /\ lost' = (lost \/ outcome = "unsure")
    /\ UNCHANGED <<lifecycle, request, tasks, attempts>>

Work ==
    /\ Alive /\ mail = "running"
    /\ \E outcome \in SendOutcomes :
         /\ mail' = IF outcome = "sent" THEN "delivered" ELSE Retry
         /\ sends' = IF outcome = "failed" THEN sends ELSE sends + 1
         /\ lost' = (lost \/ outcome = "unsure")
    /\ UNCHANGED <<lifecycle, request, tasks, attempts>>

(* The queue records that the job is done, and may fail to.                *)
Complete ==
    /\ Alive /\ mail = "delivered"
    /\ \/ mail' = "sent" /\ UNCHANGED lost
       \/ mail' = "stuck" /\ lost' = TRUE
    /\ UNCHANGED <<lifecycle, request, tasks, attempts, sends>>

(* A job that has been running for long is taken for abandoned.            *)
Rescue ==
    /\ "queue" \in open /\ process # "stopQueue" /\ mail = "stuck"
    /\ mail' = Retry
    /\ UNCHANGED <<lifecycle, request, tasks, attempts, sends, lost>>

-----------------------------------------------------------------------------
Start ==
    \/ LoadConfiguration \/ NewTelemetry \/ OpenStore \/ OpenRedis \/ NewSMTPSender
    \/ EnsureConsumerGroups \/ StartScheduler \/ StartQueue \/ Listen

Next ==
    \/ Start \/ ListenerFails \/ Kill \/ Signal \/ Shutdown
    \/ Jobs \/ Probes \/ ServeArrival \/ ServePipeline \/ ServePanic
    \/ ServiceAnswers \/ CreateInvitation
    \/ Fetch \/ Work \/ Complete \/ Rescue

(* A step of Shutdown that has nothing to wait for is taken, and the queue *)
(* gives a job it works on a minute (River's job timeout, which the sender *)
(* obeys).  Nothing else is bounded: the servers have no read or write     *)
(* timeout, the request timeout only ends a context, the session lookup    *)
(* runs outside of it, a query has no timeout, and Shutdown is called with *)
(* a context that never ends.                                              *)
Fairness == WF_vars(Shutdown) /\ WF_vars(Work) /\ WF_vars(Complete)

Spec == Init /\ [][Next]_vars /\ Fairness

-----------------------------------------------------------------------------
TypeOK ==
    /\ environment \in Environments
    /\ DOMAIN cfg = Keys
    /\ process \in Down \cup Opening \cup {"listen", "serving"} \cup Closing
    /\ open \subseteq Resources
    /\ sender \in {"noop", "smtp"} /\ stopFailed \in BOOLEAN
    /\ exit \in {"none", "ok", "error", "killed"} /\ starts \in 0..MaxStarts
    /\ request.pc \in Stages \cup {"none", "answered", "aborted", "cut"}
    /\ job \in {"idle", "running", "querying"} /\ probe \in BOOLEAN
    /\ mail \in {"absent", "queued", "running", "delivered", "stuck", "sent", "discarded"}
    /\ attempts \in 0..MaxAttempts /\ sends \in 0..attempts /\ lost \in BOOLEAN

(* Shutdown closes Redis and the store after everything that uses them     *)
(* (app.go:156): no request, no mail and no readiness probe meets a closed *)
(* store, and a scheduled job does only after a stop that timed out, which *)
(* Shutdown reports.                                                       *)
NothingAfterClose ==
    Alive =>
        /\ InFlight => {"store", "redis"} \subseteq open
        /\ probe => "store" \in open
        /\ mail \in {"running", "delivered"} => "store" \in open
        /\ open \cap {"public", "internal", "queue", "scheduler"} # {} => "store" \in open
        /\ job # "idle" /\ ~({"store", "redis"} \subseteq open) => stopFailed

(* Exit code 0 (main.go:69) means that the process ended in order: nothing *)
(* was left running or open, no request or probe was cut off and no mail   *)
(* was being sent.                                                         *)
CleanExit ==
    exit = "ok" =>
        /\ open = {} /\ ~InFlight /\ request.pc # "cut"
        /\ job = "idle" /\ ~probe /\ mail \notin {"running", "delivered"}

(* The mail of an invitation that was answered is in the queue, over       *)
(* restarts and changes of the configuration; it counts as sent only after *)
(* a delivery (send_email_background_job.go:39), is delivered twice only   *)
(* when a delivery was not recorded, and is given up only after the last   *)
(* attempt.                                                                *)
MailKept ==
    /\ request.route = "createInvitation" /\ request.handled /\ request.response.status = 200
         => mail # "absent"
    /\ mail = "sent" => sends > 0
    /\ sends > 1 => lost
    /\ mail = "discarded" => attempts = MaxAttempts

(* The mailer says that mail is configured exactly when a transport with a *)
(* host and a sender address is behind it, and then links have a base URL  *)
(* (config.go:99, email.go:57): an invitation is never accepted for a mail *)
(* that cannot be sent.                                                    *)
MailerAgrees ==
    process \in {"serving"} \cup Closing =>
        /\ Configured <=> sender = "smtp"
        /\ Configured => cfg.host # "" /\ cfg.from # "" /\ cfg.baseURL # ""

(* A variable of the process that is not empty decides its setting, and    *)
(* the env file only what the process leaves unset (env.go:161).  What is  *)
(* kept is the text without surrounding space where the setting is trimmed *)
(* (env.go:45), for a log level in lower case and one of the five, for a   *)
(* flag whether the text says yes in any case (env.go:86), and for a port  *)
(* the number modulo 2^16 (env.go:123), one that can be dialled.  Wherever *)
(* it comes from, what other parts compare with the empty text is never    *)
(* blank.                                                                  *)
SettingsAsGiven ==
    process = "configured" =>
        LET given == environment.process
            text(k) == k \in DOMAIN given /\ given[k] # "" IN
        /\ \A k \in Strings \ Trimmed : text(k) => cfg[k] = given[k]
        /\ \A k \in Trimmed \ Lowered : text(k) => cfg[k] = Trim(given[k])
        /\ text("level") => cfg.level = Lower(Trim(given["level"]))
        /\ cfg.level \in Levels
        /\ \A k \in Bools : text(k) => (cfg[k] <=> Truthy(given[k]))
        /\ text("port") => cfg.port % Uint16Span = Unsigned[given["port"]] % Uint16Span
        /\ cfg.port \in 1..MaxPort
        /\ \A k \in Trimmed \ Lowered : cfg[k] \notin DOMAIN TrimSpace

(* What Shutdown may wait for without end: a request, a probe, or a job    *)
(* that outlasted the stop timeout and still holds a connection.           *)
Awaiting ==
    \/ process = "stopPublic" /\ InFlight
    \/ process = "stopInternal" /\ probe
    \/ process = "awaitConnections" /\ job = "querying"

(* A process that was told to stop ends (main.go:63), however long the     *)
(* queue is and whatever the scheduler runs, unless it waits for ever on   *)
(* one of these.                                                           *)
ExitsUnlessAwaiting == (process = "stopScheduler" ~> process \in Down) \/ <>[]Awaiting

=============================================================================

----------------------------- MODULE ServerProofs -----------------------------
(***************************************************************************)
(* Proofs about Server for any environments, routes, origins, permissions  *)
(* and bounds: the order in which the process closes what it holds, the    *)
(* guards of the HTTP pipeline, what an answer may show, the queue, and    *)
(* the configuration.                                                      *)
(***************************************************************************)
EXTENDS Server, TLAPS

(* Where the process holds a resource: from the step that opens it to the  *)
(* step that closes it.                                                    *)
Holding(resource) ==
    CASE resource = "store"     -> {"redis", "sender", "groups", "scheduler", "queue", "listen", "serving"}
                                   \cup (Closing \ {"awaitConnections"})
      [] resource = "redis"     -> {"sender", "groups", "scheduler", "queue", "listen", "serving"}
                                   \cup (Closing \ {"closeStore", "awaitConnections"})
      [] resource = "scheduler" -> {"queue", "listen", "serving", "stopScheduler"}
      [] resource = "queue"     -> {"listen", "serving", "stopScheduler", "stopQueue"}
      [] resource = "public"    -> {"serving", "stopScheduler", "stopQueue", "stopPublic"}
      [] resource = "internal"  -> {"serving", "stopScheduler", "stopQueue", "stopPublic", "stopInternal"}

Places == Down \cup Opening \cup {"listen", "serving"} \cup Closing
RequestPlaces == Stages \cup {"none", "answered", "aborted", "cut"}

ProcessType ==
    /\ process \in Places
    /\ open \subseteq Resources
    /\ stopFailed \in BOOLEAN
    /\ exit \in {"none", "ok", "error", "killed"}
    /\ job \in {"idle", "running", "querying"}
    /\ probe \in BOOLEAN

(* What a request record is made of; what is in it is said where needed.   *)
RequestShape ==
    /\ DOMAIN request = {"pc", "route", "secure", "origin", "proved", "found", "ctx", "handled", "response"}
    /\ request.pc \in RequestPlaces

OpenInv == \A resource \in Resources : resource \in open <=> process \in Holding(resource)

(* Each user of a resource ends before the resource is closed.             *)
UserInv ==
    /\ InFlight => "public" \in open
    /\ mail \in {"running", "delivered"} => "queue" \in open
    /\ probe => "internal" \in open
    /\ job # "idle" /\ Alive => "scheduler" \in open \/ stopFailed

ExitInv ==
    /\ Alive => exit = "none"
    /\ request.pc = "cut" => ~Alive /\ exit # "ok"
    /\ exit = "ok" => job = "idle"

LifeInv == ProcessType /\ RequestShape /\ OpenInv /\ UserInv /\ ExitInv

-----------------------------------------------------------------------------
LEMMA LifeInit == Init => LifeInv
<1> SUFFICES ASSUME Init PROVE LifeInv
  OBVIOUS
<1> USE DEF Init
<1>1. ProcessType
  BY DEF ProcessType, Places, Down
<1>2. RequestShape
  BY DEF RequestShape, RequestPlaces, NoRequest
<1>3. OpenInv
  BY DEF OpenInv, Resources, Holding, Closing
<1>4. UserInv /\ ExitInv
  BY DEF UserInv, ExitInv, Alive, Down, InFlight, Stages, NoRequest
<1>5. QED
  BY <1>1, <1>2, <1>3, <1>4 DEF LifeInv

(* The process dies: nothing is open, and what ran has ended.              *)
LEMMA LifeDie ==
    ASSUME LifeInv, NEW code \in {"error", "killed"}, Alive, Die(code)
    PROVE  LifeInv'
<1> USE DEF LifeInv, Die
<1>1. ProcessType'
  BY DEF ProcessType, Places, Down
<1>2. RequestShape'
  BY DEF RequestShape, InFlight, RequestPlaces, Stages
<1>3. OpenInv'
  BY DEF OpenInv, Resources, Holding, Closing
<1>4. ~InFlight'
  BY DEF InFlight, RequestShape, Stages
<1>5. UserInv' /\ ExitInv'
  BY <1>4 DEF UserInv, ExitInv, Alive, Down
<1>6. QED
  BY <1>1, <1>2, <1>3, <1>5

(* A step of the process that opens or closes what the place it goes to    *)
(* says, with nothing left that would need what it closes.                 *)
LEMMA LifeMove ==
    ASSUME LifeInv, Alive, process' \in Places \ Down,
           \A resource \in Resources : resource \in open' <=> process' \in Holding(resource),
           open' \subseteq Resources, stopFailed' \in BOOLEAN, stopFailed => stopFailed',
           InFlight => "public" \in open',
           mail \in {"running", "delivered"} => "queue" \in open',
           probe => "internal" \in open',
           job # "idle" => "scheduler" \in open' \/ stopFailed',
           UNCHANGED <<exit, request, tasks, mail>>
    PROVE  LifeInv'
<1> USE DEF LifeInv, tasks
<1>1. ProcessType' /\ RequestShape' /\ OpenInv'
  BY DEF ProcessType, RequestShape, OpenInv
<1>2. InFlight' = InFlight
  BY DEF InFlight
<1>3. UserInv'
  BY <1>2 DEF UserInv
<1>4. ExitInv'
  BY DEF ExitInv, Alive, Down, Places
<1>5. QED
  BY <1>1, <1>3, <1>4

LEMMA LifeStart == LifeInv /\ Start => LifeInv'
<1> SUFFICES ASSUME LifeInv, Start PROVE LifeInv'
  OBVIOUS
<1>1. CASE LoadConfiguration
  <2> USE <1>1 DEF LoadConfiguration, LifeInv
  <2>1. process' \in {"configured", "exited"} /\ open' = {} /\ job' = "idle" /\ probe' = FALSE /\ stopFailed' = FALSE
        /\ request' = NoRequest /\ mail' = mail /\ exit' \in {"none", "error"}
        /\ (process' = "configured" => exit' = "none")
    BY DEF delivery
  <2>2. ProcessType' /\ RequestShape'
    <3>1. ProcessType'
      BY <2>1 DEF ProcessType, Places, Opening, Down
    <3>2. RequestShape'
      BY <2>1 DEF RequestShape, NoRequest, RequestPlaces
    <3>3. QED
      BY <3>1, <3>2
  <2>3. OpenInv'
    BY <2>1 DEF OpenInv, Resources, Holding, Closing
  <2>4. ~InFlight' /\ request'.pc # "cut"
    BY <2>1 DEF InFlight, NoRequest, Stages
  <2>5. mail \notin {"running", "delivered"}
    BY DEF UserInv, OpenInv, Resources, Holding, Down
  <2>6. UserInv'
    BY <2>1, <2>4, <2>5 DEF UserInv
  <2>7. ExitInv'
    BY <2>1, <2>4 DEF ExitInv, Alive, Down
  <2>8. QED
    BY <2>2, <2>3, <2>6, <2>7
<1> DEFINE OpeningStep(stage, resources, next) ==
      /\ process = stage /\ process' = next /\ open' = open \cup resources
      /\ UNCHANGED <<stopFailed, exit, request, tasks, mail>>
<1>2. ASSUME NEW stage \in {"configured", "store", "redis", "sender", "groups", "scheduler", "queue", "listen"},
             NEW next, NEW resources,
             OpeningStep(stage, resources, next),
             <<stage, resources, next>> \in
                 {<<"configured", {}, "store">>, <<"store", {"store"}, "redis">>,
                  <<"redis", {"redis"}, "sender">>, <<"sender", {}, "groups">>,
                  <<"groups", {}, "scheduler">>, <<"scheduler", {"scheduler"}, "queue">>,
                  <<"queue", {"queue"}, "listen">>,
                  <<"listen", {"public", "internal"}, "serving">>}
      PROVE  LifeInv'
  <2> USE <1>2
  <2>1. process' \in Places \ Down /\ Alive
    BY DEF Places, Down, Opening, Closing, Alive
  <2>2. \A resource \in Resources : resource \in open' <=> process' \in Holding(resource)
    BY DEF LifeInv, OpenInv, Resources, Holding, Closing
  <2>3. open' \subseteq Resources
    BY DEF LifeInv, ProcessType, Resources
  <2>4. QED
    BY <2>1, <2>2, <2>3, LifeMove DEF LifeInv, ProcessType, UserInv
<1>3. ASSUME NEW code \in {"error", "killed"}, Alive, Die(code) PROVE LifeInv'
  BY <1>3, LifeDie
<1>4. ASSUME NEW stage \in {"store", "redis", "groups", "scheduler", "queue"}, NEW next, NEW resources,
             Opens(stage, resources, next)
      PROVE  OpeningStep(stage, resources, next) \/ LifeInv'
  <2>1. Alive
    BY <1>4 DEF Opens, Alive, Down
  <2>2. QED
    BY <1>4, <1>3, <2>1 DEF Opens, delivery
<1>5. CASE NewTelemetry
  <2>1. Alive
    BY <1>5 DEF NewTelemetry, Alive, Down
  <2>2. CASE Die("error")
    BY <1>3, <2>1, <2>2
  <2>3. CASE OpeningStep("configured", {}, "store")
    BY <1>2, <2>3
  <2>4. QED
    BY <1>5, <2>2, <2>3 DEF NewTelemetry, delivery
<1>6. CASE OpenStore
  BY <1>6, <1>2, <1>4 DEF OpenStore
<1>7. CASE OpenRedis
  BY <1>7, <1>2, <1>4 DEF OpenRedis
<1>8. CASE NewSMTPSender
  <2>1. Alive
    BY <1>8 DEF NewSMTPSender, Alive, Down
  <2>2. CASE Die("error")
    BY <1>3, <2>1, <2>2
  <2>3. CASE OpeningStep("sender", {}, "groups")
    BY <1>2, <2>3
  <2>4. QED
    BY <1>8, <2>2, <2>3 DEF NewSMTPSender, delivery
<1>9. CASE EnsureConsumerGroups
  BY <1>9, <1>2, <1>4 DEF EnsureConsumerGroups
<1>10. CASE StartScheduler
  BY <1>10, <1>2, <1>4 DEF StartScheduler
<1>11. CASE StartQueue
  BY <1>11, <1>2, <1>4 DEF StartQueue
<1>12. CASE Listen
  <2>1. OpeningStep("listen", {"public", "internal"}, "serving")
    BY <1>12 DEF Listen, delivery
  <2>2. QED
    BY <1>2, <2>1
<1>13. QED
  BY <1>1, <1>5, <1>6, <1>7, <1>8, <1>9, <1>10, <1>11, <1>12 DEF Start

LEMMA LifeShutdown == LifeInv /\ Shutdown => LifeInv'
<1> SUFFICES ASSUME LifeInv, Shutdown PROVE LifeInv'
  OBVIOUS
<1>1. ASSUME NEW stage, NEW resource, NEW failed \in BOOLEAN, NEW next,
             Stops(stage, resource, failed, next),
             <<stage, resource, next>> \in
                 {<<"stopScheduler", "scheduler", "stopQueue">>, <<"stopQueue", "queue", "stopPublic">>,
                  <<"stopPublic", "public", "stopInternal">>, <<"stopInternal", "internal", "closeRedis">>,
                  <<"closeRedis", "redis", "closeStore">>, <<"closeStore", "store", "awaitConnections">>},
             stage = "stopScheduler" /\ job # "idle" => failed,
             stage = "stopQueue" => mail \notin {"running", "delivered"},
             stage = "stopPublic" => ~InFlight,
             stage = "stopInternal" => ~probe
      PROVE  LifeInv'
  <2> USE <1>1
  <2>1. /\ process = stage /\ process' = next /\ open' = open \ {resource}
        /\ stopFailed' = (stopFailed \/ failed)
        /\ UNCHANGED <<exit, request, tasks, mail>>
    BY DEF Stops, delivery
  <2>2. process' \in Places \ Down /\ Alive
    BY <2>1 DEF Places, Down, Closing, Alive
  <2>3. \A r \in Resources : r \in open' <=> process' \in Holding(r)
    BY <2>1 DEF LifeInv, OpenInv, Resources, Holding, Closing
  <2>4. open' \subseteq Resources /\ stopFailed' \in BOOLEAN /\ (stopFailed => stopFailed')
    BY <2>1 DEF LifeInv, ProcessType
  <2>5. InFlight => "public" \in open'
    BY <2>1 DEF LifeInv, UserInv
  <2>6. mail \in {"running", "delivered"} => "queue" \in open'
    BY <2>1 DEF LifeInv, UserInv
  <2>7. job # "idle" => "scheduler" \in open' \/ stopFailed'
    BY <2>1, <2>2 DEF LifeInv, UserInv
  <2>8. probe => "internal" \in open'
    BY <2>1 DEF LifeInv, UserInv
  <2>9. QED
    BY <2>1, <2>2, <2>3, <2>4, <2>5, <2>6, <2>7, <2>8, LifeMove
<1>2. CASE StopScheduler
  BY <1>1, <1>2 DEF StopScheduler, Stops
<1>3. CASE StopQueue
  <2>1. PICK failed \in BOOLEAN : Stops("stopQueue", "queue", failed, "stopPublic")
    BY <1>3 DEF StopQueue
  <2>2. QED
    BY <1>1, <1>3, <2>1 DEF StopQueue
<1>4. CASE StopPublic
  <2>1. PICK failed \in BOOLEAN : Stops("stopPublic", "public", failed, "stopInternal")
    BY <1>4 DEF StopPublic
  <2>2. QED
    BY <1>1, <1>4, <2>1 DEF StopPublic
<1>5. CASE StopInternal
  <2>1. PICK failed \in BOOLEAN : Stops("stopInternal", "internal", failed, "closeRedis")
    BY <1>5 DEF StopInternal
  <2>2. QED
    BY <1>1, <1>5, <2>1 DEF StopInternal
<1>6. CASE CloseRedis
  <2>1. PICK failed \in BOOLEAN : Stops("closeRedis", "redis", failed, "closeStore")
    BY <1>6 DEF CloseRedis
  <2>2. QED
    BY <1>1, <2>1
<1>7. CASE CloseStore
  BY <1>1, <1>7 DEF CloseStore
<1>8. CASE ConnectionsReturned
  <2> USE <1>8 DEF LifeInv
  <2>1. /\ process = "awaitConnections" /\ process' = "exited"
        /\ exit' = IF stopFailed THEN "error" ELSE "ok"
        /\ UNCHANGED <<open, stopFailed, request, job, probe, mail>>
    BY DEF ConnectionsReturned, tasks, delivery
  <2>2. open = {}
    BY <2>1 DEF ProcessType, OpenInv, Resources, Holding, Closing
  <2>3. ProcessType' /\ RequestShape'
    BY <2>1 DEF ProcessType, RequestShape, Places, Down
  <2>4. OpenInv'
    BY <2>1, <2>2 DEF OpenInv, Resources, Holding, Closing
  <2>5. ~InFlight /\ ~probe /\ mail \notin {"running", "delivered"} /\ (job # "idle" => stopFailed)
    BY <2>1, <2>2 DEF UserInv, Alive, Down
  <2>6. UserInv'
    BY <2>1, <2>5 DEF UserInv, InFlight, Alive, Down
  <2>7. ExitInv'
    BY <2>1, <2>5 DEF ExitInv, Alive, Down, ProcessType
  <2>8. QED
    BY <2>3, <2>4, <2>6, <2>7
<1>9. QED
  BY <1>2, <1>3, <1>4, <1>5, <1>6, <1>7, <1>8 DEF Shutdown

-----------------------------------------------------------------------------
(* A step of the request keeps the record and does not cut it off.         *)
LEMMA ToContinues ==
    ASSUME RequestShape, InFlight, NEW stage \in Stages \cup {"aborted"}, To(stage)
    PROVE  RequestShape' /\ request'.pc # "cut"
BY DEF RequestShape, To, RequestPlaces, Stages

LEMMA AnswerContinues ==
    ASSUME RequestShape, InFlight, NEW response, Answer(response)
    PROVE  RequestShape' /\ request'.pc # "cut"
BY DEF RequestShape, Answer, RequestPlaces, Stages

LEMMA PipelineContinues ==
    ASSUME RequestShape, Pipeline
    PROVE  RequestShape' /\ InFlight /\ request'.pc # "cut"
<1>0. InFlight
  BY DEF Pipeline, CORS, CSRF, RequestMiddleware, Mux, SessionResolutionGuard, RequirePermissions,
         Validate, RefuseInHandler, CallService, ServiceFails, InFlight, Stages
<1> USE <1>0
<1>1. CASE CORS
  BY <1>1 DEF CORS, RequestShape, RequestPlaces, Stages
<1>2. CASE CSRF
  BY <1>2 DEF CSRF, RequestShape, RequestPlaces, Stages
<1>3. CASE RequestMiddleware
  BY <1>3 DEF RequestMiddleware, RequestShape, RequestPlaces, Stages
<1>4. CASE Mux
  BY <1>4, ToContinues, AnswerContinues DEF Mux, Stages
<1>5. CASE SessionResolutionGuard
  BY <1>5, ToContinues, AnswerContinues DEF SessionResolutionGuard, Stages
<1>6. CASE RequirePermissions
  BY <1>6, ToContinues, AnswerContinues DEF RequirePermissions, Stages
<1>7. CASE Validate
  BY <1>7, ToContinues, AnswerContinues DEF Validate, Stages
<1>8. CASE RefuseInHandler
  BY <1>8, AnswerContinues DEF RefuseInHandler
<1>9. CASE CallService
  BY <1>9 DEF CallService, RequestShape
<1>10. CASE ServiceFails
  BY <1>10, AnswerContinues DEF ServiceFails
<1>11. QED
  BY <1>1, <1>2, <1>3, <1>4, <1>5, <1>6, <1>7, <1>8, <1>9, <1>10 DEF Pipeline

(* A step that is none of the process itself.                              *)
LEMMA LifeWork ==
    ASSUME LifeInv, Alive, UNCHANGED lifecycle, RequestShape',
           job' \in {"idle", "running", "querying"}, probe' \in BOOLEAN,
           request' = request \/ InFlight \/ "public" \in open, request'.pc = "cut" => request' = request,
           mail' \in {"running", "delivered"} => mail \in {"running", "delivered"} \/ "queue" \in open,
           probe' => probe \/ "internal" \in open,
           job' # "idle" => job # "idle" \/ "scheduler" \in open
    PROVE  LifeInv'
<1> USE DEF LifeInv
<1>1. UNCHANGED <<process, open, stopFailed, exit>>
  BY DEF lifecycle
<1>2. ProcessType' /\ OpenInv'
  BY <1>1 DEF ProcessType, OpenInv
<1>3. UserInv'
  BY <1>1 DEF UserInv, InFlight, Alive
<1>4. ExitInv'
  BY <1>1 DEF ExitInv, Alive
<1>5. QED
  BY <1>2, <1>3, <1>4

LEMMA LifeServe ==
    ASSUME LifeInv,
           ServeArrival \/ ServePipeline \/ ServePanic \/ ServiceAnswers \/ CreateInvitation
    PROVE  LifeInv'
<1>1. Alive
  BY DEF ServeArrival, ServePipeline, ServePanic, ServiceAnswers, CreateInvitation,
         LifeInv, OpenInv, Resources, Holding, Closing, Alive, Down
<1>2. UNCHANGED <<lifecycle, job, probe>>
  BY DEF ServeArrival, ServePipeline, ServePanic, ServiceAnswers, CreateInvitation, tasks
<1>3. mail' \in {"running", "delivered"} => mail \in {"running", "delivered"}
  BY DEF ServeArrival, ServePipeline, ServePanic, ServiceAnswers, CreateInvitation, Enqueue, delivery
<1>4. RequestShape' /\ (InFlight \/ "public" \in open) /\ request'.pc # "cut"
  <2> USE DEF LifeInv
  <2>1. CASE ServeArrival
    BY <2>1 DEF ServeArrival, Arrive, NoRequest, RequestShape, RequestPlaces, Stages
  <2>2. CASE ServePipeline
    BY <2>2, PipelineContinues DEF ServePipeline
  <2>3. CASE ServePanic
    BY <2>3, AnswerContinues DEF ServePanic, Recover
  <2>4. CASE ServiceAnswers
    BY <2>4, AnswerContinues DEF ServiceAnswers, InFlight, Stages
  <2>5. CASE CreateInvitation
    BY <2>5, AnswerContinues DEF CreateInvitation, InFlight, Stages
  <2>6. QED
    BY <2>1, <2>2, <2>3, <2>4, <2>5
<1>5. QED
  BY <1>1, <1>2, <1>3, <1>4, LifeWork DEF LifeInv, ProcessType

(* The invariant holds initially and every step keeps it.                  *)
LEMMA LifeStep == LifeInv /\ [Next]_vars => LifeInv'
<1> SUFFICES ASSUME LifeInv, [Next]_vars PROVE LifeInv'
  OBVIOUS
<1>1. CASE Start
  BY <1>1, LifeStart
<1>2. CASE ListenerFails
  BY <1>2, LifeDie DEF ListenerFails, Alive, Down
<1>3. CASE Kill
  BY <1>3, LifeDie DEF Kill
<1>4. CASE Signal
  <2>1. /\ process = "serving" /\ process' = "stopScheduler"
        /\ UNCHANGED <<open, stopFailed, exit, request, tasks, mail>>
    BY <1>4 DEF Signal, delivery
  <2>2. process' \in Places \ Down /\ Alive
    BY <2>1 DEF Places, Down, Closing, Alive
  <2>3. \A r \in Resources : r \in open' <=> process' \in Holding(r)
    BY <2>1 DEF LifeInv, OpenInv, Resources, Holding, Closing
  <2>4. QED
    BY <2>1, <2>2, <2>3, LifeMove DEF LifeInv, ProcessType, UserInv
<1>5. CASE Shutdown
  BY <1>5, LifeShutdown
<1>6. CASE Jobs \/ Probes
  <2>1. Alive
    BY <1>6 DEF Jobs, RunJob, Query, QueryEnds, FinishJob, Probes, StartProbe, EndProbe,
       LifeInv, OpenInv, Resources, Holding, Closing, Alive, Down
  <2>2. UNCHANGED <<lifecycle, request, mail>>
    BY <1>6 DEF Jobs, RunJob, Query, QueryEnds, FinishJob, Probes, StartProbe, EndProbe, delivery
  <2>3. /\ job' \in {job, "idle", "running", "querying"}
        /\ job' # "idle" => job # "idle" \/ "scheduler" \in open
    BY <1>6 DEF Jobs, RunJob, Query, QueryEnds, FinishJob, Probes, StartProbe, EndProbe
  <2>4. CASE Jobs
    <3>1. probe' = probe
      BY <2>4 DEF Jobs, RunJob, Query, QueryEnds, FinishJob
    <3>2. RequestShape'
      BY <2>2 DEF LifeInv, RequestShape
    <3>3. QED
      BY <2>1, <2>2, <2>3, <3>1, <3>2, LifeWork DEF LifeInv, ProcessType
  <2>5. CASE Probes
    <3>1. (probe' = TRUE /\ "internal" \in open) \/ probe' = FALSE
      BY <2>5 DEF Probes, StartProbe, EndProbe
    <3>2. probe' \in BOOLEAN /\ (probe' => "internal" \in open)
      BY <3>1
    <3>3. RequestShape'
      BY <2>2 DEF LifeInv, RequestShape
    <3>4. QED
      BY <2>1, <2>2, <2>3, <3>2, <3>3, LifeWork DEF LifeInv, ProcessType
  <2>6. QED
    BY <1>6, <2>4, <2>5
<1>7. CASE ServeArrival \/ ServePipeline \/ ServePanic \/ ServiceAnswers \/ CreateInvitation
  BY <1>7, LifeServe
<1>8. CASE Fetch \/ Work \/ Complete \/ Rescue
  <2>1. Alive
    BY <1>8 DEF Fetch, Work, Complete, Rescue, LifeInv, OpenInv, Resources, Holding, Closing, Alive, Down
  <2>2. mail' \in {"running", "delivered"} => mail \in {"running", "delivered"} \/ "queue" \in open
    BY <1>8 DEF Fetch, Work, Complete, Rescue, Retry
  <2>3. UNCHANGED <<lifecycle, request, job, probe>>
    BY <1>8 DEF Fetch, Work, Complete, Rescue, tasks
  <2>4. QED
    BY <2>1, <2>2, <2>3, LifeWork DEF LifeInv, ProcessType, RequestShape
<1>9. CASE UNCHANGED vars
  BY <1>9 DEF vars, lifecycle, tasks, delivery, LifeInv, ProcessType, RequestShape, OpenInv, UserInv, ExitInv, InFlight, Alive
<1>10. QED
  BY <1>1, <1>2, <1>3, <1>4, <1>5, <1>6, <1>7, <1>8, <1>9 DEF Next

LEMMA Life == Spec => []LifeInv
BY LifeInit, LifeStep, PTL DEF Spec

(* No request, mail or readiness probe meets a closed store, and a         *)
(* scheduled job does only after a stop that timed out (app.go:156).       *)
THEOREM ClosedLast == Spec => []NothingAfterClose
<1>1. LifeInv => NothingAfterClose
  BY DEF LifeInv, OpenInv, UserInv, NothingAfterClose, Resources, Holding, Closing
<1>2. QED
  BY Life, <1>1, PTL

(* Exit code 0 means that nothing was left running, open or cut off        *)
(* (main.go:69).                                                           *)
THEOREM CleanExitHolds == Spec => []CleanExit
<1>1. LifeInv => CleanExit
  BY DEF LifeInv, ProcessType, OpenInv, UserInv, ExitInv, CleanExit, Resources, Holding, Closing, Alive, Down
<1>2. QED
  BY Life, <1>1, PTL

-----------------------------------------------------------------------------
(* Responses *)

LEMMA RenderApp ==
    ASSUME NEW expose, NEW status, NEW err, err.app
    PROVE  ResponseFor(expose, status, <<err>>) = localizedResponse(expose, err)
<1>1. DOMAIN <<err>> = {1} /\ <<err>>[1] = err
  OBVIOUS
<1>2. isStructured(<<err>>)
  BY <1>1 DEF isStructured
<1>3. \A j \in 1..(1 - 1) : ~<<err>>[j].app
  OBVIOUS
<1>4. (CHOOSE i \in DOMAIN <<err>> : <<err>>[i].app /\ \A j \in 1..(i - 1) : ~<<err>>[j].app) = 1
  BY <1>1, <1>3
<1>5. appErrorFrom(<<err>>) = err
  BY <1>1, <1>4 DEF appErrorFrom
<1>6. QED
  BY <1>2, <1>5 DEF ResponseFor

LEMMA RenderRaw ==
    ASSUME NEW expose, NEW status \in Int, status # 422, NEW err, ~err.app
    PROVE  /\ ResponseFor(expose, status, <<err>>).status = status
           /\ ResponseFor(expose, status, <<err>>).code = "internal_error"
           /\ ~ResponseFor(expose, status, <<err>>).meta
<1>1. DOMAIN <<err>> = {1} /\ <<err>>[1] = err
  OBVIOUS
<1>2. ~isStructured(<<err>>)
  BY <1>1 DEF isStructured
<1>3. QED
  BY <1>2 DEF ResponseFor

LEMMA RenderRawHides ==
    ASSUME NEW expose, ~expose, NEW status, NEW err, ~err.app
    PROVE  /\ ResponseFor(expose, status, <<err>>).status = status
           /\ ResponseFor(expose, status, <<err>>).debug = NoDebug
<1>1. DOMAIN <<err>> = {1} /\ <<err>>[1] = err
  OBVIOUS
<1>2. ~isStructured(<<err>>)
  BY <1>1 DEF isStructured
<1>3. QED
  BY <1>2 DEF ResponseFor

(* What every answer keeps to itself when nothing internal is exposed.     *)
Hides(response) ==
    /\ response.debug = NoDebug
    /\ response.status >= 500 => response.code \in {"", "internal_error"} /\ ~response.meta

LEMMA LocalizedHides ==
    ASSUME NEW expose, ~expose, NEW err
    PROVE  Hides(localizedResponse(expose, err))
BY DEF Hides, localizedResponse

LEMMA ResponseHides ==
    ASSUME NEW expose, ~expose, NEW status \in Int, NEW err
    PROVE  Hides(ResponseFor(expose, status, <<err>>))
<1>1. CASE err.app
  <2>1. ResponseFor(expose, status, <<err>>) = localizedResponse(expose, err)
    BY <1>1, RenderApp
  <2>2. QED
    BY <2>1, LocalizedHides
<1>2. CASE ~err.app
  <2>1. /\ ResponseFor(expose, status, <<err>>).status = status
        /\ ResponseFor(expose, status, <<err>>).debug = NoDebug
    BY <1>2, RenderRawHides
  <2>2. status # 422 => /\ ResponseFor(expose, status, <<err>>).code = "internal_error"
                        /\ ~ResponseFor(expose, status, <<err>>).meta
    BY <1>2, RenderRaw
  <2> DEFINE response == ResponseFor(expose, status, <<err>>)
  <2> HIDE DEF response
  <2>3. /\ response.status = status /\ response.debug = NoDebug
        /\ status # 422 => response.code = "internal_error" /\ ~response.meta
    BY <2>1, <2>2 DEF response
  <2>4. response.status >= 500 => status # 422
    BY <2>3
  <2>5. Hides(response)
    BY <2>3, <2>4 DEF Hides
  <2>6. QED
    BY <2>5 DEF response
<1>3. QED
  BY <1>1, <1>2

(* An answer without an error, as Recover gives it.                        *)
LEMMA RenderNone ==
    ASSUME NEW expose
    PROVE  /\ ResponseFor(expose, 500, <<>>).status = 500
           /\ ~expose => Hides(ResponseFor(expose, 500, <<>>))
<1>1. ~isStructured(<<>>)
  BY DEF isStructured
<1> DEFINE response == ResponseFor(expose, 500, <<>>)
<1>2. response.status = 500
  BY <1>1 DEF ResponseFor
<1>3. ~expose => response.debug = NoDebug
  BY <1>1 DEF ResponseFor
<1>4. response.code = "internal_error"
  BY <1>1 DEF ResponseFor
<1>5. ~response.meta
  BY <1>1 DEF ResponseFor, validationDetails
<1>6. QED
  BY <1>2, <1>3, <1>4, <1>5 DEF Hides

LEMMA PlainHides ==
    ASSUME NEW status \in Int
    PROVE  Hides(Plain(status)) /\ Plain(status).status = status
BY DEF Hides, Plain, NoResponse

LEMMA RefusalHides ==
    ASSUME NEW expose, ~expose
    PROVE  Hides(Resolve(expose, AppError(400, "csrf_failed", FALSE, FALSE)))
<1>1. AppError(400, "csrf_failed", FALSE, FALSE).app
  BY DEF AppError
<1>2. QED
  BY <1>1, LocalizedHides DEF Resolve

(* The guard of the API answers 500 to a session that cannot be resolved,  *)
(* whichever of its two errors it raises.                                  *)
LEMMA StructuredFailure ==
    ASSUME NEW expose
    PROVE  ResponseFor(expose, 500, <<Internal("session_lookup_failed")>>).status = 500
<1> DEFINE err == Internal("session_lookup_failed")
<1>1. err.app
  BY DEF Internal, AppError
<1>2. err.status = 500
  BY DEF Internal, AppError
<1> HIDE DEF err
<1>3. ResponseFor(expose, 500, <<err>>) = localizedResponse(expose, err)
  BY <1>1, RenderApp
<1>4. localizedResponse(expose, err).status = 500
  BY <1>2 DEF localizedResponse
<1>5. ResponseFor(expose, 500, <<err>>).status = 500
  BY <1>3, <1>4
<1>6. QED
  BY <1>5 DEF err

LEMMA RawFailure ==
    ASSUME NEW expose
    PROVE  ResponseFor(expose, 500, <<RawError>>).status = 500
<1>1. ~RawError.app
  BY DEF RawError
<1>2. ~isStructured(<<RawError>>)
  BY <1>1 DEF isStructured
<1>3. QED
  BY <1>2 DEF ResponseFor

-----------------------------------------------------------------------------
(* The guards *)

(* What can become of the request in a step of the system.                 *)
ServiceAnswer ==
    /\ request.pc = "handler" /\ request.handled
    /\ \/ Answer(Plain(200))
       \/ \E err \in ServiceErrors : Answer(ResponseFor(cfg.expose, 500, <<err>>))

RequestStep ==
    \/ request' = NoRequest
    \/ UNCHANGED <<cfg, request>>
    \/ InFlight /\ request' = [request EXCEPT !.pc = "cut"] /\ UNCHANGED cfg
    \/ (Arrive \/ Pipeline \/ Recover \/ ServiceAnswer) /\ UNCHANGED cfg

LEMMA RequestStepOfNext == [Next]_vars => RequestStep
<1> SUFFICES ASSUME [Next]_vars PROVE RequestStep
  OBVIOUS
<1> USE DEF RequestStep
<1>1. ASSUME NEW code, Die(code) PROVE RequestStep
  BY <1>1 DEF Die
<1>2. ASSUME NEW stage, NEW resources, NEW next, Opens(stage, resources, next) PROVE RequestStep
  BY <1>1, <1>2 DEF Opens
<1>3. CASE Start
  BY <1>1, <1>2, <1>3 DEF Start, LoadConfiguration, NewTelemetry, OpenStore, OpenRedis, NewSMTPSender,
     EnsureConsumerGroups, StartScheduler, StartQueue, Listen
<1>4. CASE ListenerFails \/ Kill \/ Signal
  BY <1>1, <1>4 DEF ListenerFails, Kill, Signal
<1>5. CASE Shutdown
  BY <1>5 DEF Shutdown, StopScheduler, StopQueue, StopPublic, StopInternal, CloseRedis, CloseStore, ConnectionsReturned, Stops
<1>6. CASE Jobs \/ Probes \/ Fetch \/ Work \/ Complete \/ Rescue
  BY <1>6 DEF Jobs, RunJob, Query, QueryEnds, FinishJob, Probes, StartProbe, EndProbe, Fetch, Work, Complete, Rescue, lifecycle
<1>7. CASE ServeArrival \/ ServePipeline \/ ServePanic
  BY <1>7 DEF ServeArrival, ServePipeline, ServePanic, lifecycle
<1>8. CASE ServiceAnswers \/ CreateInvitation
  BY <1>8 DEF ServiceAnswers, CreateInvitation, ServiceAnswer, lifecycle
<1>9. CASE UNCHANGED vars
  BY <1>9 DEF vars, lifecycle
<1>10. QED
  BY <1>3, <1>4, <1>5, <1>6, <1>7, <1>8, <1>9 DEF Next

(* What each stage may rely on, and what is left once the request has been *)
(* answered.                                                               *)
StageInv ==
    LET op == Operation(request.route) IN
    /\ request.pc \in {"cors", "csrf", "session"} => request.found = Nobody
    /\ InFlight /\ request.pc # "handler" => ~request.handled
    /\ InFlight /\ request.pc # "cors" => isAllowedOrigin(request.origin)
    /\ InFlight /\ request.pc \notin {"cors", "csrf"} => (op.mutating => request.proved)
    /\ InFlight /\ request.pc \notin {"cors", "csrf", "session"} => request.ctx = request.found
    /\ request.pc \in {"permissions", "validate", "handler"} => request.ctx # Failed
    /\ request.pc \in {"validate", "handler"} => (op.guarded => Permitted(op))

GuardInv == StageInv /\ HandledOnlyIfAllowed

LEMMA KindsDiffer == Nobody # Failed /\ NoRequest.found = Nobody /\ ~NoRequest.handled /\ NoRequest.pc = "none"
BY DEF Nobody, Failed, NoRequest

LEMMA GuardStep == RequestShape /\ GuardInv /\ RequestStep => GuardInv'
<1> SUFFICES ASSUME RequestShape, GuardInv, RequestStep PROVE GuardInv'
  OBVIOUS
<1>1. CASE request' = NoRequest
  BY <1>1, KindsDiffer DEF GuardInv, StageInv, HandledOnlyIfAllowed, InFlight, Stages
<1>2. CASE UNCHANGED <<cfg, request>>
  BY <1>2 DEF GuardInv, StageInv, HandledOnlyIfAllowed, InFlight, isAllowedOrigin, Permitted
(* A step that leaves the pipeline keeps what has been decided.            *)
<1>3. ASSUME request'.pc \notin Stages, UNCHANGED cfg, request'.handled = request.handled,
             request'.route = request.route, request'.origin = request.origin,
             request'.proved = request.proved, request'.found = request.found,
             request'.secure = request.secure
      PROVE  GuardInv'
  BY <1>3 DEF GuardInv, StageInv, HandledOnlyIfAllowed, InFlight, Stages, isAllowedOrigin
<1>4. ASSUME NEW response, Answer(response), UNCHANGED cfg PROVE GuardInv'
  <2>1. /\ request'.pc = "answered" /\ request'.handled = request.handled
        /\ request'.route = request.route /\ request'.origin = request.origin
        /\ request'.proved = request.proved /\ request'.found = request.found
        /\ request'.secure = request.secure
    BY <1>4 DEF Answer, RequestShape
  <2>2. QED
    BY <1>3, <1>4, <2>1 DEF Stages
<1>5. CASE InFlight /\ request' = [request EXCEPT !.pc = "cut"] /\ UNCHANGED cfg
  BY <1>3, <1>5 DEF RequestShape, Stages
<1>6. CASE Arrive
  BY <1>6, KindsDiffer DEF Arrive, NoRequest, GuardInv, StageInv, HandledOnlyIfAllowed, InFlight, Stages
<1>7. ASSUME Pipeline, UNCHANGED cfg PROVE GuardInv'
  <2> USE <1>7 DEF GuardInv, RequestShape
  <2>1. CASE CORS
    BY <2>1 DEF CORS, StageInv, HandledOnlyIfAllowed, InFlight, Stages, isAllowedOrigin
  <2>2. CASE CSRF
    <3> DEFINE op == Operation(request.route)
    <3>1. /\ request.pc = "csrf" /\ request'.pc \in {"answered", "session"}
          /\ request'.handled = request.handled /\ request'.route = request.route
          /\ request'.origin = request.origin /\ request'.found = request.found
      BY <2>2 DEF CSRF
    <3>2. request'.pc = "session" => (op.mutating => request'.proved)
      <4>1. PICK cookie, header : LET proved == (IF cookie = "" THEN "drawn" ELSE cookie) = header
                                      refused == op.mutating /\ ~proved IN
              request' = [request EXCEPT
                 !.proved = proved,
                 !.pc = IF refused THEN "answered" ELSE "session",
                 !.response = IF refused
                              THEN Resolve(cfg.expose, AppError(400, "csrf_failed", FALSE, FALSE))
                              ELSE NoResponse]
        BY <2>2 DEF CSRF
      <4> DEFINE proved == (IF cookie = "" THEN "drawn" ELSE cookie) = header
      <4>2. request'.proved = proved
        BY <4>1
      <4>3. request'.pc = IF op.mutating /\ ~proved THEN "answered" ELSE "session"
        BY <4>1
      <4> HIDE DEF proved
      <4>4. QED
        BY <4>2, <4>3
    <3>3. QED
      BY <3>1, <3>2 DEF StageInv, HandledOnlyIfAllowed, InFlight, Stages, isAllowedOrigin
  <2>3. CASE RequestMiddleware
    BY <2>3 DEF RequestMiddleware, StageInv, HandledOnlyIfAllowed, InFlight, Stages, isAllowedOrigin
  <2>4. CASE Mux
    BY <2>4, <1>3, <1>4 DEF Mux, To, StageInv, HandledOnlyIfAllowed, InFlight, Stages, isAllowedOrigin
  <2>5. CASE SessionResolutionGuard
    BY <2>5, <1>4 DEF SessionResolutionGuard, To, StageInv, HandledOnlyIfAllowed, InFlight, Stages, isAllowedOrigin
  <2>6. CASE RequirePermissions
    BY <2>6, <1>4 DEF RequirePermissions, To, StageInv, HandledOnlyIfAllowed, InFlight, Stages, isAllowedOrigin, Permitted
  <2>7. CASE Validate
    BY <2>7, <1>4 DEF Validate, To, StageInv, HandledOnlyIfAllowed, InFlight, Stages, isAllowedOrigin, Permitted
  <2>8. CASE RefuseInHandler
    BY <2>8, <1>4 DEF RefuseInHandler
  <2>9. CASE CallService
    BY <2>9 DEF CallService, RefusedByHandler, Insecure, StageInv, HandledOnlyIfAllowed, InFlight, Stages, isAllowedOrigin, Permitted
  <2>10. CASE ServiceFails
    BY <2>10, <1>4 DEF ServiceFails
  <2>11. QED
    BY <2>1, <2>2, <2>3, <2>4, <2>5, <2>6, <2>7, <2>8, <2>9, <2>10 DEF Pipeline
<1>8. CASE (Recover \/ ServiceAnswer) /\ UNCHANGED cfg
  BY <1>4, <1>8 DEF Recover, ServiceAnswer
<1>9. QED
  BY <1>1, <1>2, <1>5, <1>6, <1>7, <1>8 DEF RequestStep

LEMMA GuardInit == Init => GuardInv
BY KindsDiffer DEF Init, GuardInv, StageInv, HandledOnlyIfAllowed, InFlight, Stages

LEMMA Guarded == Spec => []GuardInv
<1>1. LifeInv /\ GuardInv /\ [Next]_vars => GuardInv'
  BY GuardStep, RequestStepOfNext DEF LifeInv
<1>2. QED
  BY Life, GuardInit, <1>1, PTL DEF Spec

(* An operation runs only for a request from an allowed origin, with the   *)
(* token, the permissions and the transport it asks for (server.go:61).    *)
THEOREM OnlyAllowedHandled == Spec => []HandledOnlyIfAllowed
<1>1. GuardInv => HandledOnlyIfAllowed
  BY DEF GuardInv
<1>2. QED
  BY Guarded, <1>1, PTL

LEMMA FailureStep ==
    RequestShape /\ StageInv /\ ResolutionFailureIsAnError /\ RequestStep
    => ResolutionFailureIsAnError'
<1> SUFFICES ASSUME RequestShape, StageInv, ResolutionFailureIsAnError, RequestStep
             PROVE  ResolutionFailureIsAnError'
  OBVIOUS
<1> USE DEF ResolutionFailureIsAnError
<1>1. CASE request'.pc # "answered"
  BY <1>1
<1>2. CASE UNCHANGED <<cfg, request>>
  BY <1>2
(* An answer given to a request whose session was resolved, or not looked  *)
(* for yet.                                                                *)
<1>3. ASSUME request.found # Failed, request'.found = request.found PROVE ResolutionFailureIsAnError'
  BY <1>3
<1>4. ASSUME NEW response, Answer(response)
      PROVE  request'.found = request.found /\ request'.route = request.route
             /\ request'.response = response
  BY <1>4 DEF Answer, RequestShape
<1>5. ASSUME request.pc \in {"cors", "csrf"} PROVE request.found # Failed
  BY <1>5, KindsDiffer DEF StageInv
<1>6. ASSUME request.pc \in {"permissions", "validate", "handler"} PROVE request.found # Failed
  BY <1>6 DEF StageInv, InFlight, Stages
<1>7. ASSUME NEW response, Answer(response), response.status = 500 PROVE ResolutionFailureIsAnError'
  BY <1>4, <1>7
<1>8. CASE Pipeline
  <2>1. CASE CORS
    BY <2>1, <1>3, <1>5 DEF CORS, RequestShape
  <2>2. CASE CSRF
    BY <2>2, <1>3, <1>5 DEF CSRF, RequestShape
  <2>3. CASE RequestMiddleware
    BY <2>3, <1>1 DEF RequestMiddleware, RequestShape
  <2>4. CASE Mux
    BY <2>4, <1>1, <1>4 DEF Mux, To, RequestShape
  <2>5. CASE SessionResolutionGuard
    <3>1. CASE To("permissions")
      BY <3>1, <1>1 DEF To, RequestShape
    <3>2. ASSUME NEW err \in {Internal("session_lookup_failed"), RawError},
                 Answer(ResponseFor(cfg.expose, 500, <<err>>))
          PROVE  ResolutionFailureIsAnError'
      <4>1. ResponseFor(cfg.expose, 500, <<err>>).status = 500
        BY <3>2, StructuredFailure, RawFailure
      <4> DEFINE response == ResponseFor(cfg.expose, 500, <<err>>)
      <4>2. response.status = 500
        BY <4>1
      <4>3. Answer(response)
        BY <3>2
      <4> HIDE DEF response
      <4>4. QED
        BY <4>2, <4>3, <1>7
    <3>3. QED
      BY <2>5, <3>1, <3>2 DEF SessionResolutionGuard
  <2>6. CASE RequirePermissions
    BY <2>6, <1>1, <1>3, <1>4, <1>6 DEF RequirePermissions, To, RequestShape
  <2>7. CASE Validate
    BY <2>7, <1>1, <1>3, <1>4, <1>6 DEF Validate, To, RequestShape
  <2>8. CASE RefuseInHandler
    BY <2>8, <1>3, <1>4, <1>6 DEF RefuseInHandler
  <2>9. CASE CallService
    BY <2>9, <1>1 DEF CallService, RequestShape
  <2>10. CASE ServiceFails
    BY <2>10, <1>3, <1>4, <1>6 DEF ServiceFails
  <2>11. QED
    BY <1>8, <2>1, <2>2, <2>3, <2>4, <2>5, <2>6, <2>7, <2>8, <2>9, <2>10 DEF Pipeline
<1>9. CASE Recover
  <2>1. ResponseFor(cfg.expose, 500, <<>>).status = 500
    BY RenderNone
  <2>2. QED
    BY <1>9, <2>1, <1>7 DEF Recover
<1>10. CASE ServiceAnswer
  BY <1>10, <1>3, <1>4, <1>6 DEF ServiceAnswer
<1>11. CASE request' = NoRequest \/ Arrive \/ request' = [request EXCEPT !.pc = "cut"]
  <2>1. CASE request' = NoRequest
    BY <2>1, <1>1, KindsDiffer
  <2>2. CASE Arrive
    BY <2>2, <1>1 DEF Arrive, NoRequest
  <2>3. CASE request' = [request EXCEPT !.pc = "cut"]
    BY <2>3, <1>1 DEF RequestShape
  <2>4. QED
    BY <1>11, <2>1, <2>2, <2>3
<1>12. QED
  BY <1>2, <1>8, <1>9, <1>10, <1>11 DEF RequestStep

(* A session that cannot be resolved is an error of the server and never   *)
(* an anonymous request (session_middleware.go:21).                        *)
THEOREM FailureIsAnError == Spec => []ResolutionFailureIsAnError
<1>1. Init => ResolutionFailureIsAnError
  BY KindsDiffer DEF Init, ResolutionFailureIsAnError
<1>2. LifeInv /\ GuardInv /\ ResolutionFailureIsAnError /\ [Next]_vars => ResolutionFailureIsAnError'
  BY FailureStep, RequestStepOfNext DEF LifeInv, GuardInv
<1>3. QED
  BY Life, Guarded, <1>1, <1>2, PTL DEF Spec

LEMMA HiddenStep == RequestShape /\ InternalsHidden /\ RequestStep => InternalsHidden'
<1> SUFFICES ASSUME RequestShape, InternalsHidden, RequestStep PROVE InternalsHidden'
  OBVIOUS
<1>1. CASE request'.pc # "answered"
  BY <1>1 DEF InternalsHidden
<1>2. CASE UNCHANGED <<cfg, request>>
  BY <1>2 DEF InternalsHidden
<1>3. ASSUME UNCHANGED cfg, ~cfg.expose => Hides(request'.response) PROVE InternalsHidden'
  BY <1>3 DEF InternalsHidden, Hides
<1>4. ASSUME NEW response, Answer(response), UNCHANGED cfg, ~cfg.expose => Hides(response)
      PROVE  InternalsHidden'
  <2>1. request'.response = response
    BY <1>4 DEF Answer, RequestShape
  <2>2. QED
    BY <1>3, <1>4, <2>1
<1>5. ASSUME NEW status \in Int, NEW err, UNCHANGED cfg, Answer(ResponseFor(cfg.expose, status, <<err>>))
      PROVE  InternalsHidden'
  BY <1>4, <1>5, ResponseHides
<1>6. ASSUME NEW status \in Int, UNCHANGED cfg, Answer(Plain(status)) PROVE InternalsHidden'
  BY <1>4, <1>6, PlainHides
<1>7. ASSUME Pipeline, UNCHANGED cfg PROVE InternalsHidden'
  <2> USE <1>7
  <2>1. CASE CORS
    <3>1. request'.response \in {Plain(403), Plain(200), NoResponse}
      BY <2>1 DEF CORS, RequestShape
    <3>2. ASSUME NEW status \in Int PROVE Hides(Plain(status))
      BY PlainHides
    <3>3. Hides(Plain(403))
      BY <3>2
    <3>4. Hides(Plain(200))
      BY <3>2
    <3>5. Hides(NoResponse)
      BY DEF Hides, NoResponse
    <3>6. Hides(request'.response)
      BY <3>1, <3>3, <3>4, <3>5
    <3>7. QED
      BY <3>6, <1>3
  <2>2. CASE CSRF
    <3>1. request'.response \in {NoResponse, Resolve(cfg.expose, AppError(400, "csrf_failed", FALSE, FALSE))}
      BY <2>2 DEF CSRF, RequestShape
    <3>2. Hides(NoResponse)
      BY DEF Hides, NoResponse
    <3>3. QED
      BY <3>1, <3>2, <1>3, RefusalHides
  <2>3. CASE RequestMiddleware
    BY <2>3, <1>1 DEF RequestMiddleware, RequestShape
  <2>4. CASE Mux
    BY <2>4, <1>1, <1>6 DEF Mux, To, RequestShape
  <2>5. CASE SessionResolutionGuard
    BY <2>5, <1>1, <1>5 DEF SessionResolutionGuard, To, RequestShape
  <2>6. CASE RequirePermissions
    BY <2>6, <1>1, <1>5 DEF RequirePermissions, To, RequestShape
  <2>7. CASE Validate
    BY <2>7, <1>1, <1>5 DEF Validate, To, RequestShape
  <2>8. CASE RefuseInHandler
    BY <2>8, <1>5 DEF RefuseInHandler
  <2>9. CASE CallService
    BY <2>9, <1>1 DEF CallService, RequestShape
  <2>10. CASE ServiceFails
    BY <2>10, <1>5 DEF ServiceFails
  <2>11. QED
    BY <2>1, <2>2, <2>3, <2>4, <2>5, <2>6, <2>7, <2>8, <2>9, <2>10 DEF Pipeline
<1>8. CASE Recover /\ UNCHANGED cfg
  <2> DEFINE response == ResponseFor(cfg.expose, 500, <<>>)
  <2>1. ~cfg.expose => Hides(response)
    BY RenderNone
  <2>2. Answer(response)
    BY <1>8 DEF Recover
  <2> HIDE DEF response
  <2>3. QED
    BY <1>8, <1>4, <2>1, <2>2
<1>9. CASE ServiceAnswer /\ UNCHANGED cfg
  <2>1. CASE Answer(Plain(200))
    BY <2>1, <1>9, <1>6
  <2>2. CASE \E err \in ServiceErrors : Answer(ResponseFor(cfg.expose, 500, <<err>>))
    <3>1. PICK err \in ServiceErrors : Answer(ResponseFor(cfg.expose, 500, <<err>>))
      BY <2>2
    <3>2. QED
      BY <3>1, <1>9, <1>5
  <2>3. Answer(Plain(200)) \/ \E err \in ServiceErrors : Answer(ResponseFor(cfg.expose, 500, <<err>>))
    BY <1>9 DEF ServiceAnswer
  <2>4. QED
    BY <2>1, <2>2, <2>3
<1>10. CASE request' = NoRequest \/ Arrive \/ request' = [request EXCEPT !.pc = "cut"]
  <2>1. CASE request' = NoRequest
    BY <2>1, <1>1, KindsDiffer
  <2>2. CASE Arrive
    BY <2>2, <1>1 DEF Arrive, NoRequest
  <2>3. CASE request' = [request EXCEPT !.pc = "cut"]
    BY <2>3, <1>1 DEF RequestShape
  <2>4. QED
    BY <1>10, <2>1, <2>2, <2>3
<1>11. QED
  BY <1>2, <1>7, <1>8, <1>9, <1>10 DEF RequestStep

(* Without ExposeInternalErrors no answer carries a debug object, and a    *)
(* server error neither its code nor its metadata (render.go:126).         *)
THEOREM InternalsStayHidden == Spec => []InternalsHidden
<1>1. Init => InternalsHidden
  BY KindsDiffer DEF Init, InternalsHidden
<1>2. LifeInv /\ InternalsHidden /\ [Next]_vars => InternalsHidden'
  BY HiddenStep, RequestStepOfNext DEF LifeInv
<1>3. QED
  BY Life, <1>1, <1>2, PTL DEF Spec

-----------------------------------------------------------------------------
(* The queue *)

(* Where the mail is bounds how often it was tried and delivered.          *)
QueueInv ==
    /\ mail \in {"absent", "queued", "running", "delivered", "stuck", "sent", "discarded"}
    /\ attempts \in 0..MaxAttempts /\ sends \in 0..attempts /\ lost \in BOOLEAN
    /\ mail = "running" => sends < attempts
    /\ mail = "absent" => attempts = 0
    /\ mail = "queued" => attempts < MaxAttempts
    /\ mail \in {"delivered", "sent"} => sends > 0
    /\ ~lost => sends <= 1 /\ (sends = 1 => mail \in {"delivered", "sent"})
    /\ mail = "discarded" => attempts = MaxAttempts

(* Nothing is answered before the pipeline says so, and an invitation only *)
(* when its mail is in the queue.                                          *)
AnswerInv ==
    /\ InFlight => request.response.status = 0
    /\ request.route = "createInvitation" /\ request.handled /\ request.response.status = 200
         => mail # "absent"

MailInv == QueueInv /\ AnswerInv

LEMMA MailInit == Init => MailInv
<1> SUFFICES ASSUME Init PROVE MailInv
  OBVIOUS
<1>1. QueueInv
  <2>1. mail = "absent" /\ attempts = 0 /\ sends = 0
    BY DEF Init
  <2>2. lost \in BOOLEAN
    BY DEF Init
  <2>3. QED
    BY <2>1, <2>2, ServerAssumption DEF QueueInv
<1>2. AnswerInv
  BY DEF Init, AnswerInv, InFlight, Stages, NoRequest
<1>3. QED
  BY <1>1, <1>2 DEF MailInv

LEMMA QueueStep == QueueInv /\ [Next]_vars => QueueInv' /\ (mail' = "absent" => mail = "absent")
<1> SUFFICES ASSUME QueueInv, [Next]_vars PROVE QueueInv' /\ (mail' = "absent" => mail = "absent")
  OBVIOUS
<1> USE ServerAssumption
<1>1. CASE UNCHANGED delivery
  BY <1>1 DEF delivery, QueueInv
<1>2. ASSUME NEW code, Die(code) PROVE QueueInv' /\ (mail' = "absent" => mail = "absent")
  BY <1>2 DEF Die, QueueInv
<1>3. CASE Start
  <2>1. ASSUME NEW stage, NEW resources, NEW next, Opens(stage, resources, next)
        PROVE  QueueInv' /\ (mail' = "absent" => mail = "absent")
    BY <2>1, <1>1, <1>2 DEF Opens
  <2>2. QED
    BY <1>3, <1>1, <1>2, <2>1 DEF Start, LoadConfiguration, NewTelemetry, OpenStore, OpenRedis,
       NewSMTPSender, EnsureConsumerGroups, StartScheduler, StartQueue, Listen
<1>4. CASE ListenerFails \/ Kill
  BY <1>2, <1>4 DEF ListenerFails, Kill
<1>5. CASE Signal \/ Shutdown
  BY <1>1, <1>5 DEF Signal, Shutdown, StopScheduler, StopQueue, StopPublic, StopInternal,
     CloseRedis, CloseStore, ConnectionsReturned, Stops
<1>6. CASE Jobs \/ Probes \/ ServeArrival \/ ServePipeline \/ ServePanic \/ ServiceAnswers
  BY <1>1, <1>6 DEF Jobs, RunJob, Query, QueryEnds, FinishJob, Probes, StartProbe, EndProbe, ServeArrival, ServePipeline, ServePanic, ServiceAnswers
<1>7. CASE CreateInvitation
  <2>1. mail' = (IF mail = "absent" THEN "queued" ELSE mail) /\ UNCHANGED <<attempts, sends, lost>>
    BY <1>7 DEF CreateInvitation, Enqueue
  <2>2. CASE mail # "absent"
    BY <2>1, <2>2, <1>1 DEF delivery
  <2>3. CASE mail = "absent"
    BY <2>1, <2>3 DEF QueueInv
  <2>4. QED
    BY <2>2, <2>3
<1>8. CASE Fetch
  BY <1>8 DEF Fetch, QueueInv
<1>9. CASE Work
  <2>1. PICK outcome \in {"sent", "failed", "unsure"} :
          /\ mail' = IF outcome = "sent" THEN "delivered" ELSE Retry
          /\ sends' = IF outcome = "failed" THEN sends ELSE sends + 1
          /\ lost' = (lost \/ outcome = "unsure")
    BY <1>9 DEF Work, SendOutcomes
  <2>2. mail = "running" /\ attempts' = attempts
    BY <1>9 DEF Work
  <2>3. CASE outcome = "sent"
    BY <2>1, <2>2, <2>3 DEF QueueInv
  <2>4. CASE outcome = "failed"
    BY <2>1, <2>2, <2>4 DEF QueueInv, Retry
  <2>5. CASE outcome = "unsure"
    <3>1. lost' = TRUE /\ sends' = sends + 1
      BY <2>1, <2>5
    <3>2. mail' = Retry
      BY <2>1, <2>5
    <3>3. QED
      BY <2>2, <3>1, <3>2 DEF QueueInv, Retry
  <2>6. QED
    BY <2>3, <2>4, <2>5
<1>10. CASE Complete
  <2>1. mail = "delivered" /\ UNCHANGED <<attempts, sends>>
    BY <1>10 DEF Complete
  <2>2. (mail' = "sent" /\ lost' = lost) \/ (mail' = "stuck" /\ lost' = TRUE)
    BY <1>10 DEF Complete
  <2>3. CASE mail' = "sent" /\ lost' = lost
    BY <2>1, <2>3 DEF QueueInv
  <2>4. CASE mail' = "stuck" /\ lost' = TRUE
    BY <2>1, <2>4 DEF QueueInv
  <2>5. QED
    BY <2>2, <2>3, <2>4
<1>11. CASE Rescue
  <2>1. mail = "stuck" /\ mail' = Retry /\ UNCHANGED <<attempts, sends, lost>>
    BY <1>11 DEF Rescue
  <2>2. QED
    BY <2>1 DEF QueueInv, Retry
<1>12. CASE UNCHANGED vars
  BY <1>12, <1>1 DEF vars
<1>13. QED
  BY <1>3, <1>4, <1>5, <1>6, <1>7, <1>8, <1>9, <1>10, <1>11, <1>12 DEF Next

(* No error of a service is answered with 200.                             *)
LEMMA ErrorIsNotOK ==
    ASSUME NEW expose, NEW err \in ServiceErrors
    PROVE  ResponseFor(expose, 500, <<err>>).status # 200
<1>1. CASE err.app
  <2>1. err.status # 200
    <3> DEFINE conflict == AppError(409, "conflict", TRUE, FALSE)
               failed   == AppError(500, "load_failed", TRUE, TRUE)
    <3>1. conflict.status = 409
      BY DEF AppError
    <3>2. failed.status = 500
      BY DEF AppError
    <3>3. RawError.status = 0
      BY DEF RawError
    <3>4. err = conflict \/ err = failed \/ err = RawError
      BY DEF ServiceErrors
    <3> HIDE DEF conflict, failed
    <3>5. err.status # 200
      BY <3>1, <3>2, <3>3, <3>4
    <3>6. QED
      BY <3>5
  <2>2. ResponseFor(expose, 500, <<err>>) = localizedResponse(expose, err)
    BY <1>1, RenderApp
  <2>3. localizedResponse(expose, err).status = err.status
    BY DEF localizedResponse
  <2>4. QED
    BY <2>1, <2>2, <2>3
<1>2. CASE ~err.app
  <2>1. ResponseFor(expose, 500, <<err>>).status = 500
    BY <1>2, RenderRaw
  <2>2. QED
    BY <2>1
<1>3. QED
  BY <1>1, <1>2

LEMMA AnswerStep ==
    LifeInv /\ GuardInv /\ AnswerInv /\ [Next]_vars /\ (mail' = "absent" => mail = "absent")
    => AnswerInv'
<1> SUFFICES ASSUME LifeInv, GuardInv, AnswerInv, [Next]_vars, mail' = "absent" => mail = "absent"
             PROVE  AnswerInv'
  OBVIOUS
<1> USE DEF LifeInv
<1>1. CASE UNCHANGED request
  BY <1>1 DEF AnswerInv, InFlight
<1>2. CASE request' = NoRequest
  BY <1>2 DEF AnswerInv, InFlight, Stages, NoRequest
<1>3. CASE InFlight /\ request' = [request EXCEPT !.pc = "cut"]
  BY <1>3 DEF AnswerInv, InFlight, Stages, RequestShape
<1>4. CASE Arrive
  <2>1. PICK route \in Routes, secure \in BOOLEAN :
          request' = [NoRequest EXCEPT !.pc = "cors", !.route = route, !.secure = secure]
    BY <1>4 DEF Arrive
  <2>2. request'.response = NoRequest.response /\ request'.handled = NoRequest.handled
    BY <2>1 DEF NoRequest
  <2>3. NoRequest.response.status = 0
    BY DEF NoRequest, NoResponse
  <2>4. ~NoRequest.handled
    BY DEF NoRequest
  <2>5. QED
    BY <2>2, <2>3, <2>4 DEF AnswerInv
(* A step of the pipeline that answers nothing.                            *)
<1>5. ASSUME InFlight, request'.response.status = 0 PROVE AnswerInv'
  BY <1>5 DEF AnswerInv
(* An answer given before the operation ran, or one that is not 200, or    *)
(* one that finds the mail in the queue, or one to another operation.      *)
<1>6. ASSUME NEW response, Answer(response),
             request.handled => response.status # 200 \/ request.route # "createInvitation" \/ mail' # "absent"
      PROVE  AnswerInv'
  <2>1. /\ request'.pc = "answered" /\ request'.handled = request.handled
        /\ request'.route = request.route /\ request'.response = response
    BY <1>6 DEF Answer, RequestShape
  <2>2. QED
    BY <1>6, <2>1 DEF AnswerInv, InFlight, Stages
<1>7. ASSUME NEW stage, InFlight, To(stage) PROVE AnswerInv'
  <2>1. request'.response.status = 0
    BY <1>7 DEF To, RequestShape, AnswerInv
  <2>2. QED
    BY <1>5, <1>7, <2>1
<1>8. ASSUME request.pc \in Stages \ {"handler"} PROVE InFlight /\ ~request.handled
  BY <1>8 DEF GuardInv, StageInv, InFlight
<1>9. CASE Pipeline
  <2>1. CASE CORS
    <3>1. request.pc = "cors" /\ request'.handled = request.handled
          /\ (request'.pc = "csrf" => request'.response = NoResponse) /\ request'.pc \in {"csrf", "answered"}
      BY <2>1 DEF CORS, RequestShape
    <3>2. InFlight /\ ~request.handled
      BY <3>1, <1>8 DEF Stages
    <3>3. NoResponse.status = 0
      BY DEF NoResponse
    <3>4. CASE request'.pc = "csrf"
      BY <3>1, <3>2, <3>3, <3>4, <1>5
    <3>5. CASE request'.pc = "answered"
      BY <3>1, <3>2, <3>5 DEF AnswerInv, InFlight, Stages
    <3>6. QED
      BY <3>1, <3>4, <3>5
  <2>2. CASE CSRF
    <3>1. request.pc = "csrf" /\ request'.handled = request.handled
          /\ (request'.pc = "session" => request'.response = NoResponse) /\ request'.pc \in {"session", "answered"}
      BY <2>2 DEF CSRF, RequestShape
    <3>2. InFlight /\ ~request.handled
      BY <3>1, <1>8 DEF Stages
    <3>3. NoResponse.status = 0
      BY DEF NoResponse
    <3>4. CASE request'.pc = "session"
      BY <3>1, <3>2, <3>3, <3>4, <1>5
    <3>5. CASE request'.pc = "answered"
      BY <3>1, <3>2, <3>5 DEF AnswerInv, InFlight, Stages
    <3>6. QED
      BY <3>1, <3>4, <3>5
  <2>3. CASE RequestMiddleware
    <3>1. InFlight /\ request'.response = request.response
      BY <2>3 DEF RequestMiddleware, RequestShape, InFlight, Stages
    <3>2. QED
      BY <3>1, <1>5 DEF AnswerInv
  <2>4. CASE Mux
    <3>1. InFlight /\ ~request.handled
      BY <2>4, <1>8 DEF Mux, Stages
    <3>2. QED
      BY <2>4, <3>1, <1>6, <1>7 DEF Mux
  <2>5. CASE SessionResolutionGuard
    <3>1. InFlight /\ ~request.handled
      BY <2>5, <1>8 DEF SessionResolutionGuard, Stages
    <3>2. QED
      BY <2>5, <3>1, <1>6, <1>7 DEF SessionResolutionGuard
  <2>6. CASE RequirePermissions
    <3>1. InFlight /\ ~request.handled
      BY <2>6, <1>8 DEF RequirePermissions, Stages
    <3>2. QED
      BY <2>6, <3>1, <1>6, <1>7 DEF RequirePermissions
  <2>7. CASE Validate
    <3>1. InFlight /\ ~request.handled
      BY <2>7, <1>8 DEF Validate, Stages
    <3>2. QED
      BY <2>7, <3>1, <1>6, <1>7 DEF Validate
  <2>8. CASE RefuseInHandler
    BY <2>8, <1>6 DEF RefuseInHandler
  <2>9. CASE CallService
    <3>1. InFlight /\ request'.response = request.response
      BY <2>9 DEF CallService, RequestShape, InFlight, Stages
    <3>2. QED
      BY <3>1, <1>5 DEF AnswerInv
  <2>10. CASE ServiceFails
    <3>1. PICK err \in ServiceErrors : Answer(ResponseFor(cfg.expose, 500, <<err>>))
      BY <2>10 DEF ServiceFails
    <3>2. ResponseFor(cfg.expose, 500, <<err>>).status # 200
      BY ErrorIsNotOK
    <3>3. QED
      BY <3>1, <3>2, <1>6
  <2>11. QED
    BY <1>9, <2>1, <2>2, <2>3, <2>4, <2>5, <2>6, <2>7, <2>8, <2>9, <2>10 DEF Pipeline
<1>10. CASE Recover
  <2> DEFINE response == ResponseFor(cfg.expose, 500, <<>>)
  <2>1. response.status # 200
    BY RenderNone
  <2>2. Answer(response)
    BY <1>10 DEF Recover
  <2> HIDE DEF response
  <2>3. QED
    BY <1>6, <2>1, <2>2
<1>11. CASE ServiceAnswers
  BY <1>11, <1>6 DEF ServiceAnswers
<1>12. CASE CreateInvitation
  <2>1. mail' # "absent"
    BY <1>12 DEF CreateInvitation, Enqueue
  <2>2. \E response : Answer(response)
    BY <1>12 DEF CreateInvitation
  <2>3. QED
    BY <2>1, <2>2, <1>6
<1>13. CASE ServeArrival \/ ServePipeline \/ ServePanic \/ ServiceAnswers \/ CreateInvitation
  BY <1>13, <1>4, <1>9, <1>10, <1>11, <1>12 DEF ServeArrival, ServePipeline, ServePanic
<1>14. ASSUME NEW code, Die(code) PROVE AnswerInv'
  BY <1>14, <1>1, <1>3 DEF Die
<1>15. CASE Start
  <2>1. ASSUME NEW stage, NEW resources, NEW next, Opens(stage, resources, next) PROVE AnswerInv'
    BY <2>1, <1>1, <1>14 DEF Opens
  <2>2. QED
    BY <1>15, <1>1, <1>2, <1>14, <2>1 DEF Start, LoadConfiguration, NewTelemetry, OpenStore, OpenRedis,
       NewSMTPSender, EnsureConsumerGroups, StartScheduler, StartQueue, Listen
<1>16. CASE ListenerFails \/ Kill \/ Signal
  BY <1>16, <1>1, <1>14 DEF ListenerFails, Kill, Signal
<1>17. CASE Shutdown
  BY <1>17, <1>1 DEF Shutdown, StopScheduler, StopQueue, StopPublic, StopInternal, CloseRedis, CloseStore, ConnectionsReturned, Stops
<1>18. CASE Jobs \/ Probes \/ Fetch \/ Work \/ Complete \/ Rescue
  BY <1>18, <1>1 DEF Jobs, RunJob, Query, QueryEnds, FinishJob, Probes, StartProbe, EndProbe, Fetch, Work, Complete, Rescue
<1>19. CASE UNCHANGED vars
  BY <1>19, <1>1 DEF vars
<1>20. QED
  BY <1>13, <1>15, <1>16, <1>17, <1>18, <1>19 DEF Next

LEMMA Mailed == Spec => []MailInv
<1>1. LifeInv /\ GuardInv /\ MailInv /\ [Next]_vars => MailInv'
  BY QueueStep, AnswerStep DEF MailInv
<1>2. QED
  BY Life, Guarded, MailInit, <1>1, PTL DEF Spec

(* An invitation that was answered has its mail in the queue; the mail     *)
(* counts as sent only after a delivery, is delivered twice only when a    *)
(* delivery was not recorded, and is given up only after the last attempt  *)
(* (send_email_background_job.go:39).                                      *)
THEOREM MailIsKept == Spec => []MailKept
<1>1. MailInv => MailKept
  BY DEF MailInv, QueueInv, AnswerInv, MailKept
<1>2. QED
  BY Mailed, <1>1, PTL

-----------------------------------------------------------------------------
(* The configuration *)

(* A setting is of one kind; the literals stay folded from here on.        *)
LEMMA OneKind ==
    /\ \A k \in Strings : k \notin Bools /\ k \notin Ints /\ k \notin Uint16s /\ k \notin Intervals
    /\ \A k \in Bools : k \notin Strings /\ k \notin Ints /\ k \notin Uint16s /\ k \notin Intervals
    /\ "port" \in Uint16s /\ "port" \notin Strings /\ "port" \notin Bools
    /\ "port" \notin Ints /\ "port" \notin Intervals
BY DEF Strings, Bools, Ints, Uint16s, Intervals

LEMMA Widths == Uint16Span \in Nat \ {0} /\ MaxPort \in Nat
<1>1. Uint16Span \in Nat \ {0}
  BY DEF Uint16Span
<1>2. MaxPort \in Nat
  BY DEF MaxPort
<1>3. QED
  BY <1>1, <1>2

(* To cut a number to a width twice is to cut it once.                     *)
LEMMA Truncated ==
    ASSUME NEW number \in Nat, NEW width \in Nat \ {0}
    PROVE  number % width \in Int /\ (number % width) % width = number % width
<1>1. number % width \in 0..(width - 1)
  OBVIOUS
<1>2. ASSUME NEW rest \in 0..(width - 1) PROVE rest % width = rest
  OBVIOUS
<1>3. QED
  BY <1>1, <1>2

(* What a value of the process that is not empty becomes.                  *)
LEMMA GivenString ==
    ASSUME NEW e, NEW k \in Strings, k \in DOMAIN e.process, e.process[k] # ""
    PROVE  Loaded(e)[k] = Apply(k, e.process[k])
<1>1. k \in Keys /\ Environ(e)[k] = e.process[k]
  BY DEF Keys, Environ
<1>2. Parsed(k, e.process[k]) = e.process[k]
  BY OneKind DEF Parsed
<1>3. QED
  BY <1>1, <1>2 DEF Loaded, loadFromEnv

LEMMA GivenBool ==
    ASSUME NEW e, NEW k \in Bools, k \in DOMAIN e.process, e.process[k] # ""
    PROVE  Loaded(e)[k] = Truthy(e.process[k])
<1>1. k \in Keys /\ Environ(e)[k] = e.process[k]
  BY DEF Keys, Environ
<1>2. Parsed(k, e.process[k]) = Truthy(e.process[k])
  BY OneKind DEF Parsed
<1>3. k \notin Trimmed /\ k \notin Lowered
  BY DEF Bools, Trimmed, Lowered
<1>4. QED
  BY <1>1, <1>2, <1>3 DEF Loaded, loadFromEnv, Apply

(* A modifier leaves nothing to do for itself.                             *)
LEMMA TrimmedOnce ==
    ASSUME NEW e, NEW k \in Trimmed \ Lowered
    PROVE  Loaded(e)[k] \notin DOMAIN TrimSpace
<1> DEFINE value == Parsed(k, Environ(e)[k])
<1>1. k \in Keys
  BY DEF Keys, Strings, Trimmed
<1>2. Loaded(e)[k] = Trim(value)
  BY <1>1 DEF Loaded, loadFromEnv, Apply
<1> HIDE DEF value
<1>3. Trim(value) \notin DOMAIN TrimSpace
  BY ConfigurationAssumption DEF Trim
<1>4. QED
  BY <1>2, <1>3

LEMMA LoadedPort ==
    ASSUME NEW e
    PROVE  Loaded(e).port = IF Environ(e)["port"] = "" THEN 587 ELSE Unsigned[Environ(e)["port"]] % Uint16Span
<1>1. "port" \in Keys /\ "port" \notin Trimmed /\ "port" \notin Lowered
  BY DEF Keys, Uint16s, Trimmed, Lowered
<1>2. Loaded(e).port = Parsed("port", Environ(e)["port"])
  BY <1>1 DEF Loaded, loadFromEnv, Apply
<1>3. CASE Environ(e)["port"] = ""
  BY <1>2, <1>3 DEF Parsed, Defaults
<1>4. CASE Environ(e)["port"] # ""
  BY <1>2, <1>4, OneKind DEF Parsed
<1>5. QED
  BY <1>3, <1>4

(* A port that was accepted is one that can be dialled, and the number     *)
(* given modulo 2^16.                                                      *)
LEMMA PortInRange ==
    ASSUME NEW e, Load(e)
    PROVE  Loaded(e).port \in 1..MaxPort
<1> DEFINE raw == Environ(e)["port"]
<1>1. raw = "" \/ raw \in DOMAIN Unsigned
  <2>1. Parses("port", raw)
    BY DEF Load, Keys, Uint16s
  <2>2. QED
    BY <2>1 DEF Parses, Strings, Bools, Ints, Intervals
<1>2. Loaded(e).port \in Int
  <2>1. CASE raw = ""
    <3>1. Loaded(e).port = 587
      BY <2>1, LoadedPort
    <3>2. QED
      BY <3>1
  <2>2. CASE raw # ""
    <3>1. Unsigned[raw] \in Nat
      BY <1>1, <2>2, ConfigurationAssumption
    <3>2. Unsigned[raw] % Uint16Span \in Int
      BY <3>1, Widths, Truncated
    <3>3. QED
      BY <2>2, <3>2, LoadedPort
  <2>3. QED
    BY <2>1, <2>2
<1>3. Loaded(e).port > 0 /\ Loaded(e).port <= MaxPort
  BY DEF Load, Loaded, validateStruct
<1>4. QED
  BY <1>2, <1>3, Widths

LEMMA GivenPort ==
    ASSUME NEW e, Load(e), "port" \in DOMAIN e.process, e.process["port"] # ""
    PROVE  Loaded(e).port % Uint16Span = Unsigned[e.process["port"]] % Uint16Span
<1> DEFINE raw == e.process["port"]
<1>1. Environ(e)["port"] = raw
  BY DEF Environ, Keys, Uint16s
<1>2. Parses("port", raw)
  BY <1>1 DEF Load, Keys, Uint16s
<1>3. raw \in DOMAIN Unsigned
  BY <1>2 DEF Parses, Strings, Bools, Ints, Intervals
<1>4. Unsigned[raw] \in Nat
  BY <1>3, ConfigurationAssumption
<1>5. Loaded(e).port = Unsigned[raw] % Uint16Span
  BY <1>1, LoadedPort
<1>6. QED
  BY <1>4, <1>5, Widths, Truncated

(* The configuration is what was loaded, and the sender what was made of it*)
ConfigInv ==
    /\ process = "configured" => Load(environment) /\ cfg = Loaded(environment)
    /\ Alive => (SMTPEnabled(cfg) => cfg.baseURL # "")
    /\ process \in {"groups", "scheduler", "queue", "listen", "serving"} \cup Closing =>
         /\ SMTPEnabled(cfg) => cfg.host # "" /\ cfg.from # ""
         /\ SMTPEnabled(cfg) <=> sender = "smtp"

LEMMA ConfigInit == Init => ConfigInv
BY DEF Init, ConfigInv, Alive, Down, Closing

LEMMA ConfigStep == ConfigInv /\ [Next]_vars => ConfigInv'
<1> SUFFICES ASSUME ConfigInv, [Next]_vars PROVE ConfigInv'
  OBVIOUS
(* A process that has ended has no configuration.                          *)
<1>1. CASE process' = "exited"
  BY <1>1 DEF ConfigInv, Alive, Down, Closing
(* A step within one part of its life.                                     *)
<1>2. CASE UNCHANGED <<cfg, sender>> /\ process' = process /\ environment' = environment
  BY <1>2 DEF ConfigInv, Alive, Down, Closing, SMTPEnabled
<1>3. ASSUME UNCHANGED <<cfg, sender>>, Alive, process' \in {"store", "redis", "sender"}
      PROVE  ConfigInv'
  BY <1>3 DEF ConfigInv, Alive, Down, Closing, SMTPEnabled
<1>4. ASSUME UNCHANGED <<cfg, sender>>,
             process \in {"groups", "scheduler", "queue", "listen", "serving"} \cup Closing,
             process' \in {"groups", "scheduler", "queue", "listen", "serving"} \cup Closing
      PROVE  ConfigInv'
  BY <1>4 DEF ConfigInv, Alive, Down, Closing, SMTPEnabled
<1>5. CASE Start
  <2>1. CASE LoadConfiguration
    <3>1. CASE process' = "exited"
      BY <3>1, <1>1
    <3>2. CASE process' # "exited"
      <4>1. process' = "configured" /\ Load(environment') /\ cfg' = Loaded(environment')
        BY <2>1, <3>2 DEF LoadConfiguration
      <4>2. SMTPEnabled(cfg') => cfg'.baseURL # ""
        BY <4>1 DEF Load, Loaded
      <4>3. QED
        BY <4>1, <4>2 DEF ConfigInv, Closing, SMTPEnabled, Load, Loaded
    <3>3. QED
      BY <3>1, <3>2
  <2>2. CASE NewTelemetry
    BY <2>2, <1>1, <1>3 DEF NewTelemetry, Die, Alive, Down
  <2>3. CASE OpenStore \/ OpenRedis
    BY <2>3, <1>1, <1>3 DEF OpenStore, OpenRedis, Opens, Die, Alive, Down
  <2>4. CASE NewSMTPSender
    <3>1. CASE process' = "exited"
      BY <3>1, <1>1
    <3>2. CASE process' # "exited"
      <4>1. /\ process = "sender" /\ process' = "groups" /\ cfg' = cfg
            /\ SMTPEnabled(cfg) => cfg.host # "" /\ cfg.from # ""
            /\ sender' = IF SMTPEnabled(cfg) THEN "smtp" ELSE "noop"
        BY <2>4, <3>2 DEF NewSMTPSender, Die
      <4>2. QED
        BY <4>1 DEF ConfigInv, Alive, Down, Closing, SMTPEnabled
    <3>3. QED
      BY <3>1, <3>2
  <2>5. CASE EnsureConsumerGroups \/ StartScheduler \/ StartQueue \/ Listen
    BY <2>5, <1>1, <1>4 DEF EnsureConsumerGroups, StartScheduler, StartQueue, Listen, Opens, Die
  <2>6. QED
    BY <1>5, <2>1, <2>2, <2>3, <2>4, <2>5 DEF Start
<1>6. CASE ListenerFails \/ Kill
  BY <1>6, <1>1 DEF ListenerFails, Kill, Die
<1>7. CASE Signal
  BY <1>7, <1>4 DEF Signal, Closing
<1>8. CASE Shutdown
  BY <1>8, <1>1, <1>4 DEF Shutdown, StopScheduler, StopQueue, StopPublic, StopInternal,
     CloseRedis, CloseStore, ConnectionsReturned, Stops, Closing
<1>9. CASE Jobs \/ Probes \/ Fetch \/ Work \/ Complete \/ Rescue
  BY <1>9, <1>2 DEF Jobs, RunJob, Query, QueryEnds, FinishJob, Probes, StartProbe, EndProbe, Fetch, Work, Complete, Rescue, lifecycle
<1>10. CASE ServeArrival \/ ServePipeline \/ ServePanic \/ ServiceAnswers \/ CreateInvitation
  BY <1>10, <1>2 DEF ServeArrival, ServePipeline, ServePanic, ServiceAnswers, CreateInvitation, lifecycle
<1>11. CASE UNCHANGED vars
  BY <1>11, <1>2 DEF vars, lifecycle
<1>12. QED
  BY <1>5, <1>6, <1>7, <1>8, <1>9, <1>10, <1>11 DEF Next

LEMMA Configures == Spec => []ConfigInv
BY ConfigInit, ConfigStep, PTL DEF Spec

(* Mail counts as configured exactly when a transport with a host and a    *)
(* sender address is behind it, and then links have a base URL             *)
(* (config.go:99, email.go:57).                                            *)
THEOREM MailerIsConfigured == Spec => []MailerAgrees
<1>1. ConfigInv => MailerAgrees
  BY DEF ConfigInv, MailerAgrees, Configured, Alive, Down, Closing
<1>2. QED
  BY Configures, <1>1, PTL

(* Whatever is in the environment and the env file, a setting the process  *)
(* gives is the one that holds, as the modifiers leave its text; what is   *)
(* trimmed is so wherever it comes from, the log level is one of five, and *)
(* the port can be dialled (env.go:161, text.go:36).                       *)
THEOREM SettingsHold == Spec => []SettingsAsGiven
<1>1. ConfigInv => SettingsAsGiven
  <2> SUFFICES ASSUME ConfigInv, process = "configured" PROVE SettingsAsGiven
    BY DEF SettingsAsGiven
  <2>1. Load(environment) /\ cfg = Loaded(environment)
    BY DEF ConfigInv
  <2> DEFINE given == environment.process
             text(k) == k \in DOMAIN given /\ given[k] # ""
  <2>2. \A k \in Strings : text(k) => cfg[k] = Apply(k, given[k])
    BY <2>1, GivenString
  <2>3. Lowered \subseteq Trimmed /\ Trimmed \subseteq Strings /\ "level" \in Lowered
    BY DEF Lowered, Trimmed, Strings
  <2>4. \A k \in Strings \ Trimmed : text(k) => cfg[k] = given[k]
    BY <2>2, <2>3 DEF Apply
  <2>5. \A k \in Trimmed \ Lowered : text(k) => cfg[k] = Trim(given[k])
    BY <2>2, <2>3 DEF Apply
  <2>6. text("level") => cfg.level = Lower(Trim(given["level"]))
    BY <2>2, <2>3 DEF Apply
  <2>7. cfg.level \in Levels
    BY <2>1 DEF Load, Loaded, validateStruct
  <2>8. \A k \in Bools : text(k) => (cfg[k] <=> Truthy(given[k]))
    BY <2>1, GivenBool
  <2>9. text("port") => cfg.port % Uint16Span = Unsigned[given["port"]] % Uint16Span
    BY <2>1, GivenPort
  <2>10. cfg.port \in 1..MaxPort
    BY <2>1, PortInRange
  <2>11. \A k \in Trimmed \ Lowered : cfg[k] \notin DOMAIN TrimSpace
    BY <2>1, TrimmedOnce
  <2>12. QED
    BY <2>4, <2>5, <2>6, <2>7, <2>8, <2>9, <2>10, <2>11 DEF SettingsAsGiven
<1>2. QED
  BY Configures, <1>1, PTL

-----------------------------------------------------------------------------
(* Types *)

SettingsType ==
    /\ environment \in Environments
    /\ DOMAIN cfg = Keys
    /\ sender \in {"noop", "smtp"}
    /\ starts \in 0..MaxStarts

LEMMA SettingsInit == Init => SettingsType
<1> SUFFICES ASSUME Init PROVE SettingsType
  OBVIOUS
<1>1. DOMAIN Defaults = Keys
  BY DEF Defaults, Keys, Strings, Bools, Ints, Uint16s, Intervals
<1>2. QED
  BY <1>1, ServerAssumption DEF Init, SettingsType

LEMMA SettingsStep == SettingsType /\ [Next]_vars => SettingsType'
<1> SUFFICES ASSUME SettingsType, [Next]_vars PROVE SettingsType'
  OBVIOUS
<1> USE ServerAssumption DEF SettingsType
<1>1. CASE UNCHANGED <<cfg, sender, starts>> /\ environment' \in {environment, NoEnvironment}
  BY <1>1
<1>2. ASSUME NEW code, Die(code) PROVE SettingsType'
  BY <1>1, <1>2 DEF Die
<1>3. ASSUME NEW stage, NEW resources, NEW next, Opens(stage, resources, next) PROVE SettingsType'
  BY <1>1, <1>2, <1>3 DEF Opens
<1>4. CASE LoadConfiguration
  <2>1. starts' \in 0..MaxStarts /\ sender' = "noop"
    BY <1>4 DEF LoadConfiguration
  <2>2. UNCHANGED <<cfg, environment>> \/ \E e \in Environments : cfg' = Loaded(e) /\ environment' = e
    BY <1>4 DEF LoadConfiguration
  <2>3. \A e : DOMAIN Loaded(e) = Keys
    BY DEF Loaded, loadFromEnv
  <2>4. QED
    BY <2>1, <2>2, <2>3
<1>5. CASE NewSMTPSender
  <2>1. CASE UNCHANGED <<cfg, environment, starts>> /\ sender' \in {"noop", "smtp"}
    BY <2>1
  <2>2. QED
    BY <1>2, <1>5, <2>1 DEF NewSMTPSender
<1>6. CASE Start
  BY <1>1, <1>2, <1>3, <1>4, <1>5, <1>6 DEF Start, NewTelemetry, OpenStore, OpenRedis,
     EnsureConsumerGroups, StartScheduler, StartQueue, Listen
<1>7. CASE ListenerFails \/ Kill \/ Signal
  BY <1>1, <1>2, <1>7 DEF ListenerFails, Kill, Signal
<1>8. CASE Shutdown
  BY <1>1, <1>8 DEF Shutdown, StopScheduler, StopQueue, StopPublic, StopInternal, CloseRedis, CloseStore, ConnectionsReturned, Stops
<1>9. CASE Jobs \/ Probes \/ Fetch \/ Work \/ Complete \/ Rescue
  BY <1>1, <1>9 DEF Jobs, RunJob, Query, QueryEnds, FinishJob, Probes, StartProbe, EndProbe, Fetch, Work, Complete, Rescue, lifecycle
<1>10. CASE ServeArrival \/ ServePipeline \/ ServePanic \/ ServiceAnswers \/ CreateInvitation
  BY <1>1, <1>10 DEF ServeArrival, ServePipeline, ServePanic, ServiceAnswers, CreateInvitation, lifecycle
<1>11. CASE UNCHANGED vars
  BY <1>1, <1>11 DEF vars, lifecycle
<1>12. QED
  BY <1>6, <1>7, <1>8, <1>9, <1>10, <1>11 DEF Next

(* Every variable keeps its type, whatever the process is started in.      *)
THEOREM Typing == Spec => []TypeOK
<1>1. Spec => []SettingsType
  BY SettingsInit, SettingsStep, PTL DEF Spec
<1>2. LifeInv /\ SettingsType /\ MailInv => TypeOK
  BY DEF LifeInv, ProcessType, RequestShape, SettingsType, MailInv, QueueInv, TypeOK, Places, RequestPlaces
<1>3. QED
  BY Life, Mailed, <1>1, <1>2, PTL

===============================================================================

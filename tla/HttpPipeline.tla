----------------------------- MODULE HttpPipeline -----------------------------
(***************************************************************************)
(* One request through the public server (internal/transport): the         *)
(* middleware in the order New installs it, the session middleware, the    *)
(* guards of the API, and the operation or the asset it is for.  What a    *)
(* request brings is chosen where it is first looked at.  The service an   *)
(* operation calls is modelled elsewhere; here it answers or fails.        *)
(***************************************************************************)
EXTENDS Configuration, ErrorRendering

CONSTANTS
    Routes,      \* the operations and assets that are asked for
    Origins,     \* what an Origin header may be, of "none", "same", "dev", "foreign"
    Grants       \* sets of permissions a role may give

VARIABLES
    cfg,         \* the configuration of the running process
    request      \* the request, and what was answered

NoResponse == [status |-> 0, code |-> "", meta |-> FALSE, debug |-> NoDebug]
Plain(status) == [NoResponse EXCEPT !.status = status]
Nobody == [kind |-> "nobody", grants |-> {}]
Failed == [kind |-> "failed", grants |-> {}]
Principal(grants) == [kind |-> "principal", grants |-> grants]

NoRequest ==
    [pc |-> "none", route |-> "none", secure |-> FALSE, origin |-> "none", proved |-> FALSE,
     found |-> Nobody, ctx |-> Nobody, handled |-> FALSE, response |-> NoResponse]

(* The operations of the auth API and of the audit API: whether the method *)
(* changes state, whether there must be a principal, and with which        *)
(* permissions.                                                            *)
Op(mutating, guarded, grants) == [mutating |-> mutating, guarded |-> guarded, grants |-> grants]

AccountOperations ==
    [bootstrap |-> Op(FALSE, FALSE, {}), login |-> Op(TRUE, FALSE, {}), logout |-> Op(TRUE, FALSE, {}),
     session |-> Op(FALSE, FALSE, {}), ssoProviders |-> Op(FALSE, FALSE, {}),
     ssoStart |-> Op(FALSE, FALSE, {}), ssoCallback |-> Op(FALSE, FALSE, {}),
     selectOrganization |-> Op(TRUE, FALSE, {}),
     createInvitation |-> Op(TRUE, TRUE, {"auth.invitations.create"}),
     acceptInvitation |-> Op(TRUE, FALSE, {})]

SecretOperations ==
    [forgotPassword |-> Op(TRUE, FALSE, {}), resetPassword |-> Op(TRUE, FALSE, {}),
     totpEnroll |-> Op(TRUE, TRUE, {}), totpConfirm |-> Op(TRUE, TRUE, {}),
     totpDisable |-> Op(TRUE, TRUE, {}), setup |-> Op(TRUE, FALSE, {})]

AuditOperations == [auditList |-> Op(FALSE, TRUE, {"audit.logs.read"})]

AuthOperations == DOMAIN AccountOperations \cup DOMAIN SecretOperations

(* The handlers that begin with the check for HTTPS.  Those of the other   *)
(* operations of the auth API have none.                                   *)
HTTPSChecked ==
    {"bootstrap", "login", "logout", "session", "ssoStart", "ssoCallback", "createInvitation",
     "acceptInvitation", "setup"}

Operations == AuthOperations \cup DOMAIN AuditOperations

Asset == Op(FALSE, FALSE, {})

Operation(route) ==
    CASE route \in DOMAIN AccountOperations -> AccountOperations[route]
      [] route \in DOMAIN SecretOperations  -> SecretOperations[route]
      [] route \in DOMAIN AuditOperations   -> AuditOperations[route]
      [] OTHER                              -> Asset

Stages == {"cors", "csrf", "session", "mux", "guard", "permissions", "validate", "handler"}
InFlight == request.pc \in Stages

To(stage) == request' = [request EXCEPT !.pc = stage]
Answer(response) == request' = [request EXCEPT !.pc = "answered", !.response = response]

(* RequestID to Lang: the request is named, and what later stages ask of   *)
(* it is put in its context; SecureDetect decides whether it is secure.    *)
Arrive ==
    /\ request.pc = "none"
    /\ \E route \in Routes, secure \in BOOLEAN :
         request' = [NoRequest EXCEPT !.pc = "cors", !.route = route, !.secure = secure]

isAllowedOrigin(origin) == origin \in {"none", "same"} \/ (cfg.dev /\ origin = "dev")

\* Mutant: a foreign origin is left to the browser to refuse.
CORSLenient ==
    /\ request.pc = "cors"
    /\ \E origin \in Origins : request' = [request EXCEPT !.origin = origin, !.pc = "csrf"]

(* A foreign origin is refused; a preflight is answered by the library.    *)
CORS ==
    /\ request.pc = "cors"
    /\ \E origin \in Origins, preflight \in BOOLEAN :
         request' = [request EXCEPT
             !.origin = origin,
             !.pc = IF isAllowedOrigin(origin) /\ ~preflight THEN "csrf" ELSE "answered",
             !.response = IF ~isAllowedOrigin(origin) THEN Plain(403)
                          ELSE IF preflight THEN Plain(200) ELSE NoResponse]

(* Without a cookie a token is drawn, which no header can repeat.          *)
CSRF ==
    /\ request.pc = "csrf"
    /\ \E cookie \in {"", "a"}, header \in {"", "a", "b"} :
         LET proved == (IF cookie = "" THEN "drawn" ELSE cookie) = header
             refused == Operation(request.route).mutating /\ ~proved IN
         request' = [request EXCEPT
             !.proved = proved,
             !.pc = IF refused THEN "answered" ELSE "session",
             !.response = IF refused
                          THEN Resolve(cfg.expose, AppError(400, "csrf_failed", FALSE, FALSE))
                          ELSE NoResponse]

\* Mutant: a session that cannot be resolved counts as none.
RequestMiddlewareForgiving ==
    /\ request.pc = "session"
    /\ \E found \in {Nobody, Failed} \cup {Principal(g) : g \in Grants} :
         request' = [request EXCEPT !.pc = "mux", !.found = found,
                                    !.ctx = IF found = Failed THEN Nobody ELSE found]

(* found is what the session service answers, ctx what the context holds   *)
(* afterwards.                                                             *)
RequestMiddleware ==
    /\ request.pc = "session"
    /\ \E found \in {Nobody, Failed} \cup {Principal(g) : g \in Grants} :
         request' = [request EXCEPT !.pc = "mux", !.found = found, !.ctx = found]

(* The router: the API, or the assets of the build, which in development   *)
(* come from a proxy that may answer 502 or abort.                         *)
Mux ==
    /\ request.pc = "mux"
    /\ \/ request.route \in Operations /\ To("guard")
       \/ /\ request.route \notin Operations
          /\ \E status \in {200, 404} \cup (IF cfg.dev THEN {502} ELSE {}) : Answer(Plain(status))
       \/ request.route \notin Operations /\ cfg.dev /\ To("aborted")

SessionResolutionGuard ==
    /\ request.pc = "guard"
    /\ \/ request.ctx # Failed /\ To("permissions")
       \/ /\ request.ctx = Failed
          /\ \E err \in {Internal("session_lookup_failed"), RawError} :
               Answer(ResponseFor(cfg.expose, 500, <<err>>))

Permitted(op) == request.ctx.kind = "principal" /\ op.grants \subseteq request.ctx.grants

RequirePermissions ==
    /\ request.pc = "permissions"
    /\ LET op == Operation(request.route) IN
       \/ (op.guarded => Permitted(op)) /\ To("validate")
       \/ /\ op.guarded /\ ~Permitted(op)
          /\ \/ /\ request.ctx.kind # "principal"
                /\ Answer(ResponseFor(cfg.expose, 401, <<AppError(401, "unauthenticated", FALSE, FALSE)>>))
             \/ /\ request.ctx.kind = "principal"
                /\ Answer(ResponseFor(cfg.expose, 403, <<AppError(403, "forbidden", FALSE, FALSE)>>))

(* The library reads and validates the input: 400 when it cannot be read,  *)
(* 422 with the fields that fail.                                          *)
Validate ==
    /\ request.pc = "validate"
    /\ \/ To("handler")
       \/ \E status \in {400, 422} : Answer(ResponseFor(cfg.expose, status, <<RawError>>))

(* The guards a handler begins with: HTTPS, and once more the principal    *)
(* and its permissions.                                                    *)
Insecure == request.route \in HTTPSChecked /\ cfg.https /\ ~request.secure

RefusedByHandler ==
    \/ Insecure
    \/ LET op == Operation(request.route) IN op.guarded /\ ~Permitted(op)

HandlerError ==
    IF Insecure THEN AppError(403, "https_required", FALSE, FALSE)
    ELSE IF request.ctx.kind # "principal" THEN AppError(401, "unauthenticated", FALSE, FALSE)
    ELSE AppError(403, IF request.route = "auditList" THEN "unauthenticated" ELSE "forbidden", FALSE, FALSE)

RefuseInHandler ==
    /\ request.pc = "handler" /\ ~request.handled /\ RefusedByHandler
    /\ Answer(ResponseFor(cfg.expose, 500, <<HandlerError>>))

(* Past its guards the handler calls the service, which may change state.  *)
CallService ==
    /\ request.pc = "handler" /\ ~request.handled /\ ~RefusedByHandler
    /\ request' = [request EXCEPT !.handled = TRUE]

(* What a service may fail with; a context that timed out fails its next   *)
(* call to a store.                                                        *)
ServiceErrors == {AppError(409, "conflict", TRUE, FALSE), AppError(500, "load_failed", TRUE, TRUE), RawError}

ServiceFails ==
    /\ request.pc = "handler" /\ request.handled
    /\ \E err \in ServiceErrors : Answer(ResponseFor(cfg.expose, 500, <<err>>))

(* Recover: nothing was written, so that the panic is answered with 500.   *)
Recover == InFlight /\ Answer(ResponseFor(cfg.expose, 500, <<>>))

Pipeline ==
    \/ CORS \/ CSRF \/ RequestMiddleware \/ Mux \/ SessionResolutionGuard \/ RequirePermissions
    \/ Validate \/ RefuseInHandler \/ CallService \/ ServiceFails

(* An operation runs only for a request that was let through: from an      *)
(* origin that is allowed (cors.go:47), with the token when it changes     *)
(* state (csrf.go:43), for a principal that holds what the operation asks  *)
(* for (authorization.go:37), and over HTTPS when that is required and the *)
(* handler is one that checks for it (handler.go:215).                     *)
HandledOnlyIfAllowed ==
    request.handled =>
        LET op == Operation(request.route) IN
        /\ isAllowedOrigin(request.origin)
        /\ op.mutating => request.proved
        /\ request.found # Failed
        /\ op.guarded => request.found.kind = "principal" /\ op.grants \subseteq request.found.grants
        /\ request.route \in HTTPSChecked /\ cfg.https => request.secure

(* RequireHTTPSForAuth "enforces HTTPS on all auth endpoints when true"    *)
(* (config.go:28): no operation of the auth API runs for a request that    *)
(* came without.  Seven handlers do not ask (handler.go:291, 346, 421-467).*)
AuthOnlyOverHTTPS ==
    request.handled /\ request.route \in AuthOperations /\ cfg.https => request.secure

(* A session that cannot be resolved is an error of the server and never   *)
(* an anonymous request: the API answers 500 (session_middleware.go:21,    *)
(* authorization.go:17), so that a client does not take an outage for the  *)
(* end of its session.                                                     *)
ResolutionFailureIsAnError ==
    request.found = Failed /\ request.pc = "answered" /\ request.route \in Operations =>
        request.response.status = 500

(* Without ExposeInternalErrors (config.go:30) no answer carries a debug   *)
(* object, and a server error carries neither its own code nor its         *)
(* metadata, whichever stage made it (render.go:126).                      *)
InternalsHidden ==
    request.pc = "answered" /\ ~cfg.expose =>
        /\ request.response.debug = NoDebug
        /\ request.response.status >= 500 =>
             request.response.code \in {"", "internal_error"} /\ ~request.response.meta

=============================================================================

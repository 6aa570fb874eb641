---------------------------- MODULE ErrorRendering ----------------------------
(***************************************************************************)
(* Errors and the responses made of them (internal/foundation/errors and   *)
(* internal/transport/render).  An error is structured (an AppError) or    *)
(* not; it carries a status, a message code, whether it has metadata, and  *)
(* whether its cause names something internal.  Wording is left out.       *)
(***************************************************************************)
EXTENDS Integers, Sequences

NoDebug == [code |-> "", cause |-> FALSE]

AppError(status, code, meta, cause) ==
    [app |-> TRUE, status |-> status, code |-> code, meta |-> meta, cause |-> cause]
Internal(code) == AppError(500, code, FALSE, TRUE)
RawError == [app |-> FALSE, status |-> 0, code |-> "", meta |-> FALSE, cause |-> TRUE]

(* The first structured error of those given is the one that is rendered.  *)
isStructured(errs) == \E i \in DOMAIN errs : errs[i].app
appErrorFrom(errs) ==
    errs[CHOOSE i \in DOMAIN errs : errs[i].app /\ \A j \in 1..(i - 1) : ~errs[j].app]

debugForAppError(err) == [code |-> err.code, cause |-> err.cause]
debugForErrs(errs) == IF errs = <<>> THEN NoDebug ELSE [code |-> "", cause |-> errs[1].cause]

\* Mutant: a server error keeps its own code and metadata.
localizedResponseVerbatim(expose, err) ==
    [status |-> err.status, code |-> err.code, meta |-> err.meta,
     debug |-> IF expose THEN debugForAppError(err) ELSE NoDebug]

localizedResponse(expose, err) ==
    [status |-> err.status,
     code |-> IF err.status >= 500 THEN "internal_error" ELSE err.code,
     meta |-> IF err.status >= 500 THEN FALSE ELSE err.meta,
     debug |-> IF expose THEN debugForAppError(err) ELSE NoDebug]

(* A validation failure answers with the fields that failed.               *)
validationDetails(errs) == errs # <<>>

(* An unstructured error keeps the status it was raised with.              *)
ResponseFor(expose, status, errs) ==
    IF isStructured(errs) THEN localizedResponse(expose, appErrorFrom(errs))
    ELSE [status |-> status,
          code |-> IF status = 422 THEN "validation_failed" ELSE "internal_error",
          meta |-> status = 422 /\ validationDetails(errs),
          debug |-> IF expose THEN debugForErrs(errs) ELSE NoDebug]

Resolve(expose, err) ==
    localizedResponse(expose, IF err.app THEN err ELSE Internal("internal_error"))

=============================================================================

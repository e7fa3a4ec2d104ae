--------------------------- MODULE RequestPipeline ---------------------------
(***************************************************************************)
(* One request on its way through the application: the middlewares in the  *)
(* order of register_middleware, the route, its dependencies, the endpoint *)
(* and the transaction around it, the exception handlers, and what the     *)
(* operation log and the metrics keep of it.                               *)
(*                                                                         *)
(* A request is what the client sends, [method, path, auth, user, json,    *)
(* large, input], and what it meets on its way, [fault, takes, demo, prod, *)
(* limited, plugins, ends, commits]:                                       *)
(*   auth     its bearer token: "none", "valid", "expired" (or revoked),   *)
(*            "locked" (the user may not log in), "error" (the look failed)*)
(*   fault    what getattr(e, 'code', 500) tells of the look that failed   *)
(*   json     its body: "none", "good" or "malformed"                      *)
(*   large    its body is too large for the operation log, or its path is  *)
(*            one whose body the log keeps out: the log leaves it unparsed *)
(*   takes    whether the endpoint declares a body                         *)
(*   input    whether its parameters pass the validation                   *)
(*   plugins  the plugins that are enabled                                 *)
(*   ends     how the endpoint ends: Success, FailAnswer or the failure it *)
(*            raises                                                       *)
(* A failure is [kind, code]; "foreign" is every exception the application *)
(* does not define, with the attribute code it may happen to have.         *)
(***************************************************************************)
EXTENDS Authorisation, SequencesExt

CONSTANT Endpoints   \* of the application, in the order of their registration

Api == INSTANCE Routes

Failure == [kind : {"http", "custom", "validation", "assertion", "foreign"},
            code : Nat \cup {None, Text}]
Fail(kind, code) == [kind |-> kind, code |-> code]

Endpoint == [name : STRING, method : STRING, path : Seq(STRING),
             deps : Seq([kind : STRING, arg : STRING]), db : STRING, writes : BOOLEAN]

-----------------------------------------------------------------------------
(* common/exception/errors.py                                              *)

TokenError == Fail("http", 401)
AuthorizationError == Fail("custom", 403)
ForbiddenError == Fail("custom", 403)
ServerError == Fail("custom", 500)
TooManyRequests == Fail("http", 429)
JSONDecodeError == Fail("foreign", None)

\* What a service may raise: the classes of the module, CustomError with the
\* code of the captcha, and what the libraries raise.
Raised ==
    {Fail("custom", c) : c \in {400, 403, 404, 409, 500, 502, 40001}}
    \cup {TokenError, Fail("assertion", 500), Fail("foreign", None), Fail("foreign", Text)}

\* response_base.success and response_base.fail: the code in the body.
Success == Fail("success", 200)
FailAnswer == Fail("fail", 400)
Answered == {Success, FailAnswer}

Request == [method : STRING, path : Seq(STRING),
            auth : {"none", "valid", "expired", "locked", "error"}, user : User \cup {None},
            fault : {500, None, Text}, json : {"none", "good", "malformed"}, large : BOOLEAN,
            takes : BOOLEAN, input : BOOLEAN,
            demo : BOOLEAN, prod : BOOLEAN, limited : BOOLEAN, plugins : SUBSET STRING,
            ends : Answered \cup Raised, commits : BOOLEAN]

-----------------------------------------------------------------------------
(* common/exception/exception_handler.py                                   *)

\* _get_exception_code
StatusOf(code) == IF code \in 100..599 THEN code ELSE 400

\* The status and the code in the body of the answer to a failure.  In
\* production the body tells no code of an HTTP exception.
Answer(f, prod) ==
    CASE f.kind = "http" -> [status |-> StatusOf(f.code), code |-> IF prod THEN 400 ELSE f.code]
      [] f.kind = "custom" -> [status |-> StatusOf(f.code), code |-> f.code]
      [] f.kind = "validation" -> [status |-> 422, code |-> 422]
      [] OTHER -> [status |-> 500, code |-> 500]

\* A foreign exception passes through all middlewares to the outermost one.
Handled(f) == f.kind # "foreign"

-----------------------------------------------------------------------------
(* Authentication                                                          *)

Open(req) == req.path = <<"auth", "login">>

\* extract_token and authenticate; of an error that is no TokenError the
\* attribute code is told: that of an AuthorizationError, of another what it has.
authenticate(req) ==
    IF req.auth = "none" \/ Open(req) THEN [user |-> None, code |-> 200]
    ELSE [user |-> IF req.auth = "valid" THEN req.user ELSE None,
          code |-> CASE req.auth = "valid" -> 200
                     [] req.auth = "expired" -> 401
                     [] req.auth = "locked" -> 403
                     [] req.auth = "error" -> req.fault]

\* auth_exception_handler makes the code the status of its answer; with one that
\* is no number (a database error has a text or None) no answer can be built, and
\* the exception of that passes to the outermost handler.
auth_exception_handler(code, prod) ==
    LET answer == IF code \in Nat THEN [status |-> code, code |-> code]
                  ELSE Answer(Fail("foreign", None), prod)
    IN [status |-> answer.status, code |-> answer.code, metric |-> answer.code, log |-> None,
        ran |-> None, committed |-> FALSE]

-----------------------------------------------------------------------------
(* Dependencies, in their order: the first failure ends the walk.          *)

demo_site(req) ==
    IF req.demo /\ req.method # "GET"
         /\ <<req.method, req.path>> \notin {<<"POST", <<"auth", "login">>>>, <<"POST", <<"auth", "logout">>>>,
                                             <<"POST", <<"auth", "refresh">>>>}
    THEN ForbiddenError ELSE None

\* jwt_authentication_verify, superuser_verify
jwt_authentication_verify(user) == IF user = None THEN TokenError ELSE None

superuser_verify(user) ==
    IF user = None THEN TokenError
    ELSE IF ~user.superuser \/ ~user.staff THEN AuthorizationError ELSE None

rbac(req, user, perm) ==
    IF user = None THEN TokenError
    ELSE LET verdict == rbac_verify(user,
                            [open |-> Open(req), token |-> TRUE, write |-> req.method # "GET",
                             perm |-> perm, free |-> {}, roleMenu |-> TRUE])
         IN CASE verdict = "ok" -> None
              [] verdict = "server_error" -> ServerError
              [] OTHER -> AuthorizationError

rate_limit(req) == IF req.limited THEN TooManyRequests ELSE None

\* PluginStatusChecker, for a plugin whose status is known.
status_checker(req, plugin) == IF plugin \in req.plugins THEN None ELSE ServerError

\* RequestPermission: a check at i sees the permission that was named last.
Named(deps, i) ==
    LET before == {j \in 1..(i - 1) : deps[j].kind = "permission"}
    IN IF before = {} THEN None ELSE deps[Max(before)].arg

Resolve(deps, i, req, user) ==
    CASE deps[i].kind = "jwt" -> jwt_authentication_verify(user)
      [] deps[i].kind = "superuser" -> superuser_verify(user)
      [] deps[i].kind = "rbac" -> rbac(req, user, Named(deps, i))
      [] deps[i].kind = "limit" -> rate_limit(req)
      [] deps[i].kind = "plugin" -> status_checker(req, deps[i].arg)
      [] OTHER -> None

\* register_router puts demo_site before what the routers and the endpoint ask.
Dependencies(req, user, deps) ==
    LET denied == {i \in DOMAIN deps : Resolve(deps, i, req, user) # None}
    IN IF demo_site(req) # None THEN demo_site(req)
       ELSE IF denied = {} THEN None ELSE Resolve(deps, Min(denied), req, user)

-----------------------------------------------------------------------------
(* The endpoint.  A transaction ends before the answer is sent: what the   *)
(* endpoint or the commit raises rolls it back.                            *)

Ended(failure, code, ran, committed) ==
    [failure |-> failure, code |-> code, ran |-> ran, committed |-> committed]

\* The callbacks of OAuth2 end with a redirect to the frontend, without a body.
Redirecting == {<<"oauth2", "github", "callback">>, <<"oauth2", "google", "callback">>}

CodeOf(req, e) == IF e.path \in Redirecting THEN None ELSE req.ends.code

\* Mutant: the transaction commits although the endpoint raised.
CallCommits(req, e) ==
    IF req.ends \notin Answered THEN Ended(req.ends, 0, e.name, e.db = "write")
    ELSE IF e.db = "write" /\ ~req.commits THEN Ended(Fail("foreign", Text), 0, e.name, FALSE)
    ELSE Ended(None, CodeOf(req, e), e.name, e.db = "write")

Call(req, e) ==
    IF req.ends \notin Answered THEN Ended(req.ends, 0, e.name, FALSE)
    ELSE IF e.db = "write" /\ ~req.commits THEN Ended(Fail("foreign", Text), 0, e.name, FALSE)
    ELSE Ended(None, CodeOf(req, e), e.name, e.db = "write")

\* A body that cannot be parsed fails the validation before any dependency.
Serve(req, user) ==
    LET route == Api!Route(Endpoints, req.method, req.path)
        denied == IF route.code = 200 THEN Dependencies(req, user, route.endpoint.deps) ELSE None
    IN IF route.code # 200 THEN Ended(Fail("http", route.code), 0, None, FALSE)
       ELSE IF req.json = "malformed" /\ req.takes THEN Ended(Fail("validation", 422), 0, None, FALSE)
       ELSE IF denied # None THEN Ended(denied, 0, None, FALSE)
       ELSE IF ~req.input THEN Ended(Fail("validation", 422), 0, None, FALSE)
       ELSE Call(req, route.endpoint)

-----------------------------------------------------------------------------
(* OperaLogMiddleware, and the metrics of AccessMiddleware around it       *)

Unlogged == {<<"auth", "login", "swagger">>, <<"oauth2", "github", "callback">>,
             <<"oauth2", "google", "callback">>}

\* The code that is kept of an end: of a failure that was handled the one of
\* the body, of another its own attribute, if it has one.
Kept(end, answer) ==
    IF end.failure = None THEN 200
    ELSE IF Handled(end.failure) THEN answer.code
    ELSE IF end.failure.code = None THEN 500 ELSE end.failure.code

\* inc_fastapi_response in AccessMiddleware: the code of the failure, and the
\* status of an answer that is none.
Counted(end, answer) ==
    IF end.failure = None THEN answer.status ELSE Kept(end, answer)

Logged(req, end, answer) ==
    IF req.path \in Unlogged THEN None
    ELSE [code |-> Kept(end, answer), failed |-> end.failure # None]

AnswerTo(end, prod) ==
    IF end.failure # None THEN Answer(end.failure, prod)
    ELSE [status |-> IF end.code = None THEN 307 ELSE 200, code |-> end.code]

\* get_request_args parses the body before the request goes on and outside the
\* try of dispatch, unless it leaves the body out.
Unparsable(req) == req.json = "malformed" /\ ~req.large

Response(req, end, answer) ==
    [status |-> answer.status, code |-> answer.code, metric |-> Counted(end, answer),
     log |-> IF Unparsable(req) THEN None ELSE Logged(req, end, answer),
     ran |-> end.ran, committed |-> end.committed]

Ending(req, end) == Response(req, end, AnswerTo(end, req.prod))

dispatch(req, user) ==
    Ending(req, IF Unparsable(req) THEN Ended(JSONDecodeError, 0, None, FALSE) ELSE Serve(req, user))

\* AuthenticationMiddleware answers by itself, before the operation log.
Handle(req) ==
    LET auth == authenticate(req)
    IN IF auth.code # 200 THEN auth_exception_handler(auth.code, req.prod)
       ELSE dispatch(req, auth.user)

-----------------------------------------------------------------------------

\* Who may call an endpoint, said of the endpoint as a whole.
MayCall(user, e) ==
    LET kinds == {d.kind : d \in ToSet(e.deps)}
        asked == {d.arg : d \in {d \in ToSet(e.deps) : d.kind = "permission"}}
    IN /\ kinds \cap {"jwt", "superuser", "rbac"} # {} => user # None
       /\ "superuser" \in kinds => user.superuser /\ user.staff
       /\ asked # {} => \/ user.superuser
                        \/ asked \subseteq Perms(Enabled(user.roles)) /\ (e.method = "GET" \/ user.staff)

\* What is right of the answer a to a request for the endpoint e: the endpoint
\* runs only for those who may call it, while its plugin is enabled; the rows it
\* changes are committed exactly when the answer is no failure: 200, or the 307 of
\* a callback that redirects.  The operation log holds every request except those
\* for the paths it excludes, those authentication turned away and those whose
\* body the log itself could not parse; a malformed body it left unparsed is in the
\* log like any other request, and only an endpoint that takes no body runs with
\* it.  The log tells a failure exactly when the status does, and its code is the
\* one the metrics count and, but for an endpoint that answers FailAnswer (kept as
\* 200) and a foreign exception with a code of its own, the one in the body of the
\* answer.
AnswerRight(req, e, auth, a) ==
    LET done == a.ran # None /\ req.ends \in Answered /\ (e.db = "write" => req.commits)
        away == auth.code # 200 \/ Unparsable(req)
    IN /\ a.ran # None =>
            /\ a.ran = e.name
            /\ MayCall(auth.user, e)
            /\ req.json = "malformed" => req.large /\ ~req.takes
            /\ \A d \in ToSet(e.deps) : d.kind = "plugin" => d.arg \in req.plugins
       /\ a.status < 400 <=> done
       /\ done => a.status = IF e.path \in Redirecting THEN 307 ELSE 200
       /\ a.committed <=> done /\ e.writes
       /\ a.log = None <=> away \/ req.path \in Unlogged
       /\ a.log # None =>
            /\ a.log.failed <=> a.status >= 400
            /\ a.log.code = a.metric
            /\ \/ a.log.code = a.code
               \/ done /\ req.ends = FailAnswer /\ a.log.code = 200
               \/ ~done /\ a.log.code = Text

RequestRight(req, e) == AnswerRight(req, e, authenticate(req), Handle(req))

\* Either the request is one for the endpoint e, or it is for none.
Reached(req, e) ==
    LET route == Api!Route(Endpoints, req.method, req.path)
    IN route.code = 200 => route.endpoint = e
=============================================================================

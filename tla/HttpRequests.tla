---------------------------- MODULE HttpRequests ----------------------------
(***************************************************************************)
(* One request on its way through the application: the layers of app.rs    *)
(* around it, the route it reaches, the extractors its handler names in    *)
(* their order, the handler, the calls on the dependencies and the answer. *)
(* The token verifier, the profile service and the GitHub service answer   *)
(* as their own modules say they may. A panic may strike wherever a        *)
(* handler runs, and the client may leave wherever a handler waits.        *)
(*                                                                         *)
(* The request itself never changes; its fields hold what the code tells   *)
(* apart. query: the "&" separated parts, each a decoded name and whether  *)
(* its value is good ("%" stands for a component that does not decode).    *)
(* lengths, auth, encodings, types: the lines of Content-Length,           *)
(* Authorization, Content-Encoding and Content-Type. body: the document,   *)
(* as the sequence of all members of its maps ("in": "" for the root, else *)
(* the place in the root it is nested in) and, if its root is an array, of *)
(* its items, with the language it is written in and whether anything      *)
(* follows it. A value is "good", "bad" (of the right type, but refused)   *)
(* or something of another type. arrival: how reading the body ends.       *)
(***************************************************************************)
EXTENDS HttpNegotiation, HttpApi, FiniteSets

CONSTANTS
    Requests,       \* the requests a client may send
    MaxBody         \* MAX_REQUEST_BODY_SIZE_BYTES

VARIABLES
    request,        \* the request
    pc,             \* "arriving", "extracting", "waiting", "answered", "sent", "dropped"
    handler,        \* the handler routed to
    step,           \* the extractor it runs next
    format,         \* the representation negotiated
    user,           \* whether a user was authenticated
    calls,          \* the dependencies called so far
    acts,           \* what the executions of a profile call found or did
    lost,           \* a commit of the call took effect and its reply was lost
    answer          \* the response

vars == <<request, pc, handler, step, format, user, calls, acts, lost, answer>>

Methods == {"GET", "HEAD", "POST", "PATCH", "DELETE", "PUT", "OPTIONS"}

QueryPart == [name : STRING, value : {"good", "bad", "%"}]
Member == [in : STRING, key : STRING, value : STRING]
RequestType ==
    [method : Methods, path : Seq(STRING), accept : {NoAccept} \cup Seq(Element),
     query : Seq(QueryPart), lengths : Seq(Nat \cup {Unreadable}),
     auth : Seq([text : BOOLEAN, comma : BOOLEAN, scheme : STRING, token68 : BOOLEAN]),
     encodings : Seq(STRING), types : Seq([media : STRING, params : Seq(STRING)]),
     body : [empty : BOOLEAN, syntax : STRING, trailing : BOOLEAN, root : STRING,
             members : Seq(Member), items : Seq(STRING)],
     arrival : STRING]

ASSUME RequestsAssumption ==
    /\ MaxBody \in Nat
    /\ Requests \subseteq RequestType

---------------------------------------------------------------------------
(* Answers. code is the problem code, or the kind of success.              *)
NoAnswer == [code |-> "none", media |-> "none", headers |-> {}, allow |-> {},
             links |-> {}, csp |-> "none", body |-> FALSE]

(* ProblemDetails::into_response                                           *)
ProblemResponse(code, accept) ==
    [NoAnswer EXCEPT !.code = code, !.headers = {"Vary"}, !.body = TRUE,
                     !.media = ProblemContentType(NegotiateProblem(accept))]
Problem(code) == ProblemResponse(code, request.accept)

(* problem_for_path                                                        *)
ProblemForPath(code) ==
    IF IsDocumentPath(request.path) THEN ProblemResponse(code, NoAccept) ELSE Problem(code)

(* success_response_with_headers, document_response's success and          *)
(* no_content_response.                                                    *)
Content(code, media, headers) ==
    [NoAnswer EXCEPT !.code = code, !.media = media, !.body = TRUE,
                     !.headers = {"Vary"} \cup headers]
Success(code, headers) == Content(code, SuccessContentType(format), headers)
NoContent == [NoAnswer EXCEPT !.code = "no_content"]

(* unauthorized_response                                                   *)
Unauthorized == [Problem("unauthorized") EXCEPT !.headers = @ \cup {"WWW-Authenticate"}]

---------------------------------------------------------------------------
(* What the extractors make of the request.                                *)

(* declared_body_size_middleware                                           *)
DeclaredSizeProblem ==
    IF ~IsPortableBodyOperation(request.method, request.path) \/ request.lengths = <<>>
    THEN "none"
    ELSE IF Len(request.lengths) > 1 \/ request.lengths[1] = Unreadable
    THEN "invalid_request"
    ELSE IF request.lengths[1] > MaxBody THEN "payload_too_large" ELSE "none"

(* parse_query with decode_query_component, and closed.                    *)
Names(query) == {query[i].name : i \in DOMAIN query}
ParsesQuery(query) ==
    /\ \A i \in DOMAIN query : query[i].name \notin {"", "%"} /\ query[i].value # "%"
    /\ Cardinality(Names(query)) = Len(query)
Closed(query, allowed) == Names(query) \subseteq allowed
Says(query, name, value) ==
    \E i \in DOMAIN query : query[i].name = name /\ query[i].value = value

(* ProblemPath: only a segment that is no UTF-8 is refused here.           *)
PathDecodes(path) == \A i \in DOMAIN path : path[i] # "%"

(* extract_bearer_token over the Authorization lines.                      *)
HasBearerToken(auth) ==
    /\ Len(auth) = 1
    /\ auth[1].text /\ ~auth[1].comma
    /\ auth[1].scheme = "bearer" /\ auth[1].token68

(* validate_request_content_encoding                                       *)
EncodingAllowed(encodings) ==
    encodings = <<>> \/ (Len(encodings) = 1 /\ encodings[1] = "identity")

(* parse_content_type: JSON alone or with a UTF-8 charset, CBOR alone.     *)
ContentTypeFormat(type) ==
    CASE type.media = "cbor" /\ type.params = <<>>            -> "cbor"
      [] type.media = "json" /\ type.params = <<>>            -> "json"
      [] type.media = "json" /\ type.params = <<"charset=utf-8">> -> "json"
      [] OTHER                                                -> NotOffered

(* request_body_format                                                     *)
BodyFormatProblem(r) ==
    CASE r.types = <<>> /\ r.body.empty  -> "invalid_request"
      [] r.types = <<>> /\ ~r.body.empty -> "unsupported_media_type"
      [] Len(r.types) > 1                -> "unsupported_media_type"
      [] Len(r.types) = 1 -> IF ContentTypeFormat(r.types[1]) = NotOffered
                             THEN "unsupported_media_type" ELSE "none"

(* StrictJsonVisitor::visit_map and has_duplicate_cbor_key                 *)
HasDuplicateKey(body) ==
    \E i, j \in DOMAIN body.members :
        /\ i < j
        /\ body.members[i].in = body.members[j].in
        /\ body.members[i].key = body.members[j].key

(* The types a body is deserialized into: their required and other fields. *)
(* Fields: all of them as the type declares them.                          *)
Required == [HelloCreate |-> {"name"},
             ProfileCreate |-> {"firstName", "lastName", "contactEmail", "phoneNumber",
                                "termsAccepted"},
             ProfileUpdate |-> {}]
Optional == [HelloCreate |-> {}, ProfileCreate |-> {"marketingOptIn"},
             ProfileUpdate |-> {"firstName", "lastName", "contactEmail", "phoneNumber",
                                "marketingOptIn"}]
Fields == [HelloCreate |-> <<"name">>,
           ProfileCreate |-> <<"firstName", "lastName", "contactEmail", "phoneNumber",
                               "marketingOptIn", "termsAccepted">>,
           ProfileUpdate |-> <<"firstName", "lastName", "contactEmail", "phoneNumber",
                               "marketingOptIn">>]

(* What serde reads into the type: the members of a map by their names     *)
(* and, from JSON only, the items of an array in the order of the fields.  *)
FromArray(body) == body.root = "array"
GivenByName(body) ==
    {[key |-> body.members[i].key, value |-> body.members[i].value] :
        i \in {j \in DOMAIN body.members : body.members[j].in = ""}}
GivenByPlace(body, schema) ==
    {[key |-> Fields[schema][i], value |-> body.items[i]] :
        i \in DOMAIN body.items \cap DOMAIN Fields[schema]}
Given(body, schema) ==
    IF FromArray(body) THEN GivenByPlace(body, schema) ELSE GivenByName(body)
Keys(body, schema) == {given.key : given \in Given(body, schema)}
HasShape(body, schema) ==
    /\ \/ body.root = "map"
       \/ /\ FromArray(body) /\ body.syntax = "json"
          /\ Len(body.items) <= Len(Fields[schema])
    /\ Required[schema] \subseteq Keys(body, schema)
    /\ Keys(body, schema) \subseteq Required[schema] \cup Optional[schema]
    /\ \A given \in Given(body, schema) : given.value \in {"good", "bad"}

(* decode_request_body                                                     *)
DecodeProblemSkipsDuplicates(r, schema) ==                         \* mutant
    IF ~EncodingAllowed(r.encodings) THEN "unsupported_media_type"
    ELSE IF BodyFormatProblem(r) # "none" THEN BodyFormatProblem(r)
    ELSE IF \/ r.body.empty \/ r.body.trailing
            \/ r.body.syntax # ContentTypeFormat(r.types[1])
         THEN "invalid_request"
    ELSE IF HasShape(r.body, schema) THEN "none" ELSE "validation_failed"
DecodeProblem(r, schema) ==
    IF ~EncodingAllowed(r.encodings) THEN "unsupported_media_type"
    ELSE IF BodyFormatProblem(r) # "none" THEN BodyFormatProblem(r)
    ELSE IF \/ r.body.empty \/ r.body.trailing
            \/ r.body.syntax # ContentTypeFormat(r.types[1])
            \/ HasDuplicateKey(r.body)
         THEN "invalid_request"
    ELSE IF HasShape(r.body, schema) THEN "none" ELSE "validation_failed"

(* The validation of the decoded values by the handlers: parse_create and  *)
(* parse_update. marketingOptIn may be either boolean, termsAccepted only  *)
(* true.                                                                   *)
Valid(body, schema, fields) ==
    \A given \in Given(body, schema) : given.key \in fields => given.value = "good"
ParseCreate(body) == Valid(body, "ProfileCreate", Required.ProfileCreate)
ParseUpdate(body) ==
    /\ Keys(body, "ProfileUpdate") # {}
    /\ Valid(body, "ProfileUpdate", Optional.ProfileUpdate \ {"marketingOptIn"})

(* page_query and the pagination it is turned into.                        *)
PageQueryProblem(query) ==
    IF ~Closed(query, {"limit", "cursor"}) THEN "invalid_request"
    ELSE IF Says(query, "limit", "bad") THEN "validation_failed"
    ELSE IF Says(query, "cursor", "bad") THEN "invalid_request"
    ELSE "none"

(* valid_github_owner and valid_github_repository on the path parameters.  *)
ValidName(segment) == segment \notin {"", "bad name", "%"}
ValidOwner(path) == ValidName(path[4])
ValidRepositoryPath(path) == ValidName(path[4]) /\ ValidName(path[5])
---------------------------------------------------------------------------
(* The arguments of each handler, in the order they are extracted.         *)
Extractors ==
    [getHealth |-> <<"format", "no_query">>,
     getHello |-> <<"format", "no_query">>,
     createHello |-> <<"format", "no_query", "body">>,
     listItems |-> <<"format", "query">>,
     createProfile |-> <<"format", "no_query", "user", "body">>,
     getProfile |-> <<"format", "no_query", "user">>,
     updateProfile |-> <<"format", "no_query", "user", "body">>,
     deleteProfile |-> <<"no_query", "user">>,
     getGitHubOwner |-> <<"format", "no_query", "path">>,
     listGitHubOwnerRepositories |-> <<"format", "path", "query">>,
     getGitHubRepository |-> <<"format", "no_query", "path">>,
     listGitHubRepositoryActivity |-> <<"format", "path", "query">>,
     listGitHubRepositoryLanguages |-> <<"format", "no_query", "path">>,
     listGitHubRepositoryTags |-> <<"format", "path", "query">>,
     openapi |-> <<"json_format", "no_query">>,
     catalog |-> <<"no_query">>, index |-> <<"no_query">>, guide |-> <<"no_query">>,
     swaggerUi |-> <<>>, swaggerRedirect |-> <<>>]

Handlers == DOMAIN Extractors
ProfileCalls == {"profile.create", "profile.get", "profile.update", "profile.delete"}
GitHubCalls == {"github.owner", "github.repositories", "github.repository",
                "github.activity", "github.languages", "github.tags"}
Dependencies == {"verify"} \cup ProfileCalls \cup GitHubCalls

Init ==
    /\ request \in Requests
    /\ pc = "arriving"
    /\ handler = "none"
    /\ step = 0
    /\ format = "none"
    /\ user = FALSE
    /\ calls = <<>>
    /\ acts = {}
    /\ lost = FALSE
    /\ answer = NoAnswer

Respond(a) ==
    /\ pc' = "answered"
    /\ answer' = a
    /\ UNCHANGED <<request, handler, step, format, user, calls, acts, lost>>

Await(call) ==
    /\ pc' = "waiting"
    /\ calls' = Append(calls, call)
    /\ UNCHANGED <<request, handler, step, format, user, acts, lost, answer>>

Awaiting(call) == pc = "waiting" /\ calls # <<>> /\ calls[Len(calls)] = call

---------------------------------------------------------------------------
(* The layers in front of the router, outermost first.                     *)
HeadRejected == request.method = "HEAD" /\ PortableAllow(request.path) # {}

(* method_not_allowed_handler; elsewhere the router names the methods, and *)
(* HEAD beside GET.                                                        *)
MethodNotAllowedAnswer ==
    LET portable == PortableAllow(request.path)
        served   == {route.method : route \in RoutesAt(request.path)}
    IN  [ProblemForPath("method_not_allowed") EXCEPT
            !.headers = @ \cup {"Allow"},
            !.allow = IF portable # {} THEN portable
                      ELSE served \cup (IF "GET" \in served THEN {"HEAD"} ELSE {})]

PortableHeadRejection ==
    /\ pc = "arriving"
    /\ HeadRejected
    /\ Respond(MethodNotAllowedAnswer)

DeclaredBodySizeRejection ==
    /\ pc = "arriving"
    /\ ~HeadRejected
    /\ DeclaredSizeProblem # "none"
    /\ Respond(Problem(DeclaredSizeProblem))

Admitted == pc = "arriving" /\ ~HeadRejected /\ DeclaredSizeProblem = "none"

NotFoundHandler ==
    /\ Admitted
    /\ RoutesAt(request.path) = {}
    /\ Respond(Problem("not_found"))

MethodNotAllowedHandler ==
    /\ Admitted
    /\ RoutesAt(request.path) # {}
    /\ Serving(request.path, request.method) = {}
    /\ Respond(MethodNotAllowedAnswer)

Dispatch ==
    /\ Admitted
    /\ \E route \in Serving(request.path, request.method) : handler' = route.handler
    /\ pc' = "extracting"
    /\ step' = 1
    /\ UNCHANGED <<request, format, user, calls, acts, lost, answer>>

---------------------------------------------------------------------------
(* The extractors. Each refuses the request or lets the next one run.      *)
Extracting(extractor) ==
    /\ pc = "extracting"
    /\ step <= Len(Extractors[handler])
    /\ Extractors[handler][step] = extractor

Proceed ==
    /\ step' = step + 1
    /\ UNCHANGED <<request, pc, handler, user, calls, acts, lost, answer>>

(* ResponseFormat                                                          *)
NegotiateFormat ==
    LET chosen == NegotiateSuccess(request.accept, TRUE)
    IN  /\ Extracting("format")
        /\ \/ chosen = NotOffered /\ Respond(Problem("not_acceptable"))
           \/ chosen # NotOffered /\ format' = chosen /\ Proceed

(* JsonResponseFormat                                                      *)
NegotiateJsonFormat ==
    LET chosen == NegotiateSuccess(request.accept, FALSE)
    IN  /\ Extracting("json_format")
        /\ \/ chosen = NotOffered /\ Respond(ProblemForPath("not_acceptable"))
           \/ chosen # NotOffered /\ format' = chosen /\ Proceed

(* NoQuery                                                                 *)
RefuseQuery ==
    /\ Extracting("no_query")
    /\ \/ /\ ~ParsesQuery(request.query) \/ request.query # <<>>
          /\ Respond(ProblemForPath("invalid_request"))
       \/ request.query = <<>> /\ UNCHANGED format /\ Proceed

(* StrictQuery                                                             *)
ReadQuery ==
    /\ Extracting("query")
    /\ \/ ~ParsesQuery(request.query) /\ Respond(Problem("invalid_request"))
       \/ ParsesQuery(request.query) /\ UNCHANGED format /\ Proceed

(* ProblemPath                                                             *)
ReadPath ==
    /\ Extracting("path")
    /\ \/ ~PathDecodes(request.path) /\ Respond(Problem("invalid_request"))
       \/ PathDecodes(request.path) /\ UNCHANGED format /\ Proceed

(* AuthenticatedUser, up to the verifier.                                  *)
Authenticate ==
    /\ Extracting("user")
    /\ \/ ~HasBearerToken(request.auth) /\ Respond(Unauthorized)
       \/ HasBearerToken(request.auth) /\ Await("verify")

(* The verifier's verdict: map_auth_error.                                 *)
AuthErrors == {"InvalidToken", "TokenExpired", "TokenRevoked", "UserDisabled",
               "CertificateFetch", "ServiceUnavailable"}
MapAuthError(error) ==
    IF error \in {"CertificateFetch", "ServiceUnavailable"}
    THEN Problem("dependency_unavailable") ELSE Unauthorized

VerifierAnswers ==
    /\ Awaiting("verify")
    /\ \/ /\ pc' = "extracting"
          /\ step' = step + 1
          /\ user' = TRUE
          /\ UNCHANGED <<request, handler, format, calls, acts, lost, answer>>
       \/ \E error \in AuthErrors : Respond(MapAuthError(error))

(* BufferedBody: any failure to read the body is a body too large.         *)
BufferBody ==
    /\ Extracting("body")
    /\ \/ request.arrival # "whole" /\ Respond(Problem("payload_too_large"))
       \/ request.arrival = "whole" /\ UNCHANGED format /\ Proceed

---------------------------------------------------------------------------
(* The handlers, once all their arguments are there.                       *)
Ready(name) ==
    /\ pc = "extracting"
    /\ handler = name
    /\ step = Len(Extractors[name]) + 1

HealthHandler == Ready("getHealth") /\ Respond(Success("ok", {}))
GetHelloHandler == Ready("getHello") /\ Respond(Success("ok", {}))

CreateHelloHandler ==
    LET problem == DecodeProblem(request, "HelloCreate")
    IN  /\ Ready("createHello")
        /\ Respond(IF problem # "none" THEN Problem(problem)
                   ELSE IF ~Valid(request.body, "HelloCreate", {"name"})
                   THEN Problem("validation_failed")
                   ELSE Success("ok", {}))

OpenapiHandler == Ready("openapi") /\ Respond(Success("ok", {}))

(* document_response                                                       *)
DocumentHandler(name, target, media) ==
    /\ Ready(name)
    /\ Respond(IF AcceptsDocument(request.accept, target) THEN Content("ok", media, {})
               ELSE ProblemResponse("not_acceptable", NoAccept))

CatalogType == [main |-> "application", sub |-> "linkset+json",
                params |-> {[name |-> "profile", value |-> "rfc9727"]}]
TextType == [main |-> "text", sub |-> "plain",
             params |-> {[name |-> "charset", value |-> "utf-8"]}]
CatalogHandler == DocumentHandler("catalog", CatalogType, "application/linkset+json")
IndexHandler == DocumentHandler("index", TextType, "text/plain")
GuideHandler == DocumentHandler("guide", TextType, "text/plain")

(* utoipa-swagger-ui. Below the page are its files: which there are, and   *)
(* what they hold, is the library's; one that is missing is a bare 404.    *)
SwaggerFile(media) == [NoAnswer EXCEPT !.code = "ok", !.media = media, !.body = TRUE]
SwaggerFiles(path) ==
    {SwaggerFile("text/html")} \cup
        (IF path = SwaggerPage THEN {}
         ELSE {SwaggerFile("text/javascript"), [NoAnswer EXCEPT !.code = "no_such_file"]})
SwaggerHandler ==
    \/ Ready("swaggerUi") /\ \E file \in SwaggerFiles(request.path) : Respond(file)
    \/ Ready("swaggerRedirect")
       /\ Respond([NoAnswer EXCEPT !.code = "redirect"])

(* list_items_handler; which items are on the page is module ItemPages.    *)
ItemsQueryProblem(query) ==
    IF ~Closed(query, {"cursor", "limit", "category"}) THEN "invalid_request"
    ELSE IF Says(query, "limit", "bad") \/ Says(query, "category", "bad")
    THEN "validation_failed"
    ELSE IF Says(query, "cursor", "bad") THEN "invalid_request" ELSE "none"

ListItemsHandler ==
    LET problem == ItemsQueryProblem(request.query)
    IN  /\ Ready("listItems")
        /\ \E links \in {{}, {"Link"}} :
               Respond(IF problem # "none" THEN Problem(problem) ELSE Success("ok", links))

---------------------------------------------------------------------------
(* The profile service. A call executes at most once, unless a commit's    *)
(* reply was lost; one that was given up may still execute. What it finds  *)
(* is as the other requests of its user left it.                           *)
Calling(dependencies) == calls # <<>> /\ calls[Len(calls)] \in dependencies
GaveUp == pc = "dropped" \/ answer.code \in {"dependency_unavailable", "internal_error"}

Outcomes(call) == IF call = "profile.create" THEN {"ok", "AlreadyExists"}
                  ELSE {"ok", "NotFound"}

StoreExecutes ==
    /\ Calling(ProfileCalls)
    /\ pc = "waiting" \/ GaveUp
    /\ acts = {} \/ lost
    /\ \E outcome \in Outcomes(calls[Len(calls)]) : acts' = acts \cup {outcome}
    /\ UNCHANGED <<request, pc, handler, step, format, user, calls, lost, answer>>

LoseReply ==
    /\ Calling(ProfileCalls \ {"profile.get"})
    /\ pc = "waiting"
    /\ acts # {}
    /\ lost' = TRUE
    /\ UNCHANGED <<request, pc, handler, step, format, user, calls, acts, answer>>

(* map_service_error of the profile handlers.                              *)
ProfileErrors == {"NotFound", "AlreadyExists", "Unavailable", "Backend"}
MapProfileErrorConflict(error) ==                                  \* mutant
    CASE error = "NotFound"      -> Problem("profile_exists")
      [] error = "AlreadyExists" -> Problem("profile_exists")
      [] error = "Unavailable"   -> Problem("dependency_unavailable")
      [] error = "Backend"       -> Problem("internal_error")
MapProfileError(error) ==
    CASE error = "NotFound"      -> Problem("profile_not_found")
      [] error = "AlreadyExists" -> Problem("profile_exists")
      [] error = "Unavailable"   -> Problem("dependency_unavailable")
      [] error = "Backend"       -> Problem("internal_error")

(* The end of a profile handler: the call answers with an outcome of its   *)
(* own, or gives up. Whatever the call, NotFound is also the answer when   *)
(* Firestore does not find the database (map_firestore_error): nothing has *)
(* been executed then, unless a reply was lost before.                     *)
ProfileServiceAnswers(call, success) ==
    /\ Awaiting(call)
    /\ \/ "ok" \in acts /\ Respond(success)
       \/ \E error \in ProfileErrors :
             /\ error = "NotFound" => error \in acts \/ acts = {} \/ lost
             /\ error = "AlreadyExists" => error \in acts
             /\ Respond(MapProfileError(error))

CreateProfileHandler ==
    LET problem == DecodeProblem(request, "ProfileCreate")
    IN  \/ /\ Ready("createProfile")
           /\ IF problem # "none" THEN Respond(Problem(problem))
              ELSE IF ~ParseCreate(request.body) THEN Respond(Problem("validation_failed"))
              ELSE Await("profile.create")
        \/ ProfileServiceAnswers("profile.create", Success("created", {"Location"}))

GetProfileHandler ==
    \/ Ready("getProfile") /\ Await("profile.get")
    \/ ProfileServiceAnswers("profile.get", Success("ok", {}))

UpdateProfileHandler ==
    LET problem == DecodeProblem(request, "ProfileUpdate")
    IN  \/ /\ Ready("updateProfile")
           /\ IF problem # "none" THEN Respond(Problem(problem))
              ELSE IF ~ParseUpdate(request.body) THEN Respond(Problem("validation_failed"))
              ELSE Await("profile.update")
        \/ ProfileServiceAnswers("profile.update", Success("ok", {}))

DeleteProfileHandler ==
    \/ Ready("deleteProfile") /\ Await("profile.delete")
    \/ ProfileServiceAnswers("profile.delete", NoContent)

---------------------------------------------------------------------------
(* The GitHub service answers once (module GitHubClient). map_service_error *)
(* of the GitHub handlers; a page whose cursors do not fit a link is an    *)
(* upstream problem too.                                                   *)
GitHubErrors == {"NotFound", "RateLimited", "Timeout", "Upstream"}
MapGitHubError(error) ==
    CASE error = "NotFound"    -> {Problem("github_not_found")}
      [] error = "RateLimited" ->
             {[Problem("github_rate_limit") EXCEPT !.headers = @ \cup hints] :
                  hints \in {{"Retry-After"}, {"Retry-After", "X-RateLimit-Reset"}}}
      [] error = "Timeout"     -> {Problem("github_timeout")}
      [] error = "Upstream"    -> {Problem("github_upstream")}

GitHubServiceAnswers(call, successes) ==
    /\ Awaiting(call)
    /\ \E a \in successes \cup UNION {MapGitHubError(error) : error \in GitHubErrors} :
           Respond(a)

(* paged_response *)
Pages == {Success("ok", {}), Success("ok", {"Link"}), Problem("github_upstream")}

GetGitHubOwnerHandler ==
    \/ /\ Ready("getGitHubOwner")
       /\ IF ValidOwner(request.path) THEN Await("github.owner")
          ELSE Respond(Problem("validation_failed"))
    \/ GitHubServiceAnswers("github.owner", {Success("ok", {})})

ListGitHubOwnerReposHandler ==
    LET problem == PageQueryProblem(request.query)
    IN  \/ /\ Ready("listGitHubOwnerRepositories")
           /\ IF ~ValidOwner(request.path) THEN Respond(Problem("validation_failed"))
              ELSE IF problem # "none" THEN Respond(Problem(problem))
              ELSE Await("github.repositories")
        \/ GitHubServiceAnswers("github.repositories", Pages)

GetGitHubRepoHandler ==
    \/ /\ Ready("getGitHubRepository")
       /\ IF ValidRepositoryPath(request.path) THEN Await("github.repository")
          ELSE Respond(Problem("validation_failed"))
    \/ GitHubServiceAnswers("github.repository", {Success("ok", {})})

ListGitHubRepoActivityHandler ==
    LET problem == PageQueryProblem(request.query)
    IN  \/ /\ Ready("listGitHubRepositoryActivity")
           /\ IF ~ValidRepositoryPath(request.path) THEN Respond(Problem("validation_failed"))
              ELSE IF problem # "none" THEN Respond(Problem(problem))
              ELSE Await("github.activity")
        \/ GitHubServiceAnswers("github.activity", Pages)

GetGitHubRepoLanguagesHandler ==
    \/ /\ Ready("listGitHubRepositoryLanguages")
       /\ IF ValidRepositoryPath(request.path) THEN Await("github.languages")
          ELSE Respond(Problem("validation_failed"))
    \/ GitHubServiceAnswers("github.languages", {Success("ok", {})})

ListGitHubRepoTagsHandler ==
    LET problem == PageQueryProblem(request.query)
    IN  \/ /\ Ready("listGitHubRepositoryTags")
           /\ IF ~ValidRepositoryPath(request.path) THEN Respond(Problem("validation_failed"))
              ELSE IF problem # "none" THEN Respond(Problem(problem))
              ELSE Await("github.tags")
        \/ GitHubServiceAnswers("github.tags", Pages)

---------------------------------------------------------------------------
(* panic_recovery_middleware: whatever panics below it becomes a 500.      *)
PanicRecovery ==
    /\ pc \in {"extracting", "waiting"}
    /\ Respond(ProblemForPath("internal_error"))

(* The client leaves: the handler's future is dropped where it waits.      *)
Disconnect ==
    /\ \/ pc = "waiting"
       \/ Extracting("body")
    /\ pc' = "dropped"
    /\ UNCHANGED <<request, handler, step, format, user, calls, acts, lost, answer>>

(* discovery_links_middleware                                              *)
WithDiscoveryLinks(a) ==
    IF a.code \in Successes THEN [a EXCEPT !.links = DiscoveryLinks(request.path)] ELSE a

(* security_headers_middleware                                             *)
WithSecurityHeadersProblemsBare(a) ==                              \* mutant
    IF a.code \in Successes
    THEN [a EXCEPT !.headers = @ \cup CommonHeaders, !.csp = "strict"] ELSE a
WithSecurityHeaders(a) ==
    [a EXCEPT !.headers = @ \cup CommonHeaders,
              !.csp = IF request.path[1] = "api-docs" /\ Len(request.path) > 1
                         /\ a.media = "text/html"
                      THEN "swagger" ELSE "strict"]

(* empty_head_response_body                                                *)
WithoutHeadBody(a) == IF request.method = "HEAD" THEN [a EXCEPT !.body = FALSE] ELSE a

(* The response leaves through the layers of build_app_with_routes.        *)
Leave ==
    /\ pc = "answered"
    /\ pc' = "sent"
    /\ answer' = WithoutHeadBody(WithSecurityHeaders(WithDiscoveryLinks(answer)))
    /\ UNCHANGED <<request, handler, step, format, user, calls, acts, lost>>

Next ==
    \/ PortableHeadRejection \/ DeclaredBodySizeRejection
    \/ NotFoundHandler \/ MethodNotAllowedHandler \/ Dispatch
    \/ NegotiateFormat \/ NegotiateJsonFormat \/ RefuseQuery \/ ReadQuery \/ ReadPath
    \/ Authenticate \/ VerifierAnswers \/ BufferBody
    \/ HealthHandler \/ GetHelloHandler \/ CreateHelloHandler \/ OpenapiHandler
    \/ CatalogHandler \/ IndexHandler \/ GuideHandler \/ SwaggerHandler
    \/ ListItemsHandler
    \/ CreateProfileHandler \/ GetProfileHandler
    \/ UpdateProfileHandler \/ DeleteProfileHandler
    \/ StoreExecutes \/ LoseReply
    \/ GetGitHubOwnerHandler \/ ListGitHubOwnerReposHandler \/ GetGitHubRepoHandler
    \/ ListGitHubRepoActivityHandler \/ GetGitHubRepoLanguagesHandler
    \/ ListGitHubRepoTagsHandler
    \/ PanicRecovery \/ Disconnect \/ Leave

Spec == Init /\ [][Next]_vars

---------------------------------------------------------------------------
(* Every variable but the format has its type (which one is negotiated is  *)
(* the subject of BestRepresentation).                                     *)
TypeOK ==
    /\ request \in RequestType
    /\ pc \in {"arriving", "extracting", "waiting", "answered", "sent", "dropped"}
    /\ handler \in Handlers \cup {"none"}
    /\ step \in 0 .. 5
    /\ user \in BOOLEAN
    /\ calls \in Seq(Dependencies) /\ Len(calls) <= 2
    /\ acts \subseteq {"ok", "NotFound", "AlreadyExists"}
    /\ lost \in BOOLEAN
    /\ DOMAIN answer = DOMAIN NoAnswer
    /\ answer.code \in DOMAIN Status \cup {"none"}

Answered == pc \in {"answered", "sent"}

(* A map with every required member, no other than the known ones, and     *)
(* each of them valid; an array that has all this by position. A value     *)
(* that is not checked may be "bad", but still has its type.               *)
AcceptableValue(value, isChecked) == value = "good" \/ (value = "bad" /\ ~isChecked)
NamesValues(body, required, optional, checked) ==
    /\ \A key \in required : \E i \in DOMAIN body.members :
           body.members[i].key = key /\ body.members[i].in = ""
    /\ \A i \in DOMAIN body.members : body.members[i].in = "" =>
           /\ body.members[i].key \in required \cup optional
           /\ AcceptableValue(body.members[i].value, body.members[i].key \in checked)
ListsValues(body, order, required, checked) ==
    /\ \A i \in 1 .. Len(order) : order[i] \in required => i <= Len(body.items)
    /\ \A i \in 1 .. Len(body.items) :
           i <= Len(order) /\ AcceptableValue(body.items[i], order[i] \in checked)

(* The document a profile write must carry, whatever the order in which    *)
(* it is examined: read whole, of an accepted size, one plain JSON or CBOR *)
(* map of distinct names that has the required and valid members, or one   *)
(* JSON array of the values in the order in which the type declares them.  *)
CarriesDocument(r, order, required, optional, checked) ==
    /\ r.arrival = "whole" /\ ~r.body.empty /\ ~r.body.trailing
    /\ r.lengths # <<>> => Len(r.lengths) = 1 /\ r.lengths[1] \in 0 .. MaxBody
    /\ \A i \in DOMAIN r.encodings : r.encodings[i] = "identity"
    /\ Len(r.types) = 1 /\ r.types[1].media = r.body.syntax
    /\ r.types[1].params \in {<<>>, <<"charset=utf-8">>}
    /\ \A i, j \in DOMAIN r.body.members :
           i # j => \/ r.body.members[i].in # r.body.members[j].in
                    \/ r.body.members[i].key # r.body.members[j].key
    /\ \/ r.body.root = "map" /\ NamesValues(r.body, required, optional, checked)
       \/ /\ r.body.root = "array" /\ r.body.syntax = "json"
          /\ ListsValues(r.body, order, required, checked)

Called(call) == \E i \in DOMAIN calls : calls[i] = call
PersonalFields == {"firstName", "lastName", "contactEmail", "phoneNumber"}
CarriesProfile(r) ==
    CarriesDocument(r, <<"firstName", "lastName", "contactEmail", "phoneNumber",
                         "marketingOptIn", "termsAccepted">>,
                    PersonalFields \cup {"termsAccepted"}, {"marketingOptIn"},
                    PersonalFields \cup {"termsAccepted"})
CarriesChange(r) ==
    /\ CarriesDocument(r, <<"firstName", "lastName", "contactEmail", "phoneNumber",
                            "marketingOptIn">>,
                       {}, PersonalFields \cup {"marketingOptIn"}, PersonalFields)
    /\ IF r.body.root = "map" THEN r.body.members # <<>> ELSE r.body.items # <<>>

(* The verifier is only asked about a request without a query and with one *)
(* bearer token, the profile store only on behalf of a user it accepted,   *)
(* and to write only for a document that is valid throughout.              *)
ProfileCallsChecked ==
    /\ \A c \in ProfileCalls \cup {"verify"} : Called(c) =>
           request.query = <<>> /\ HasBearerToken(request.auth)
    /\ \A c \in ProfileCalls : Called(c) => user /\ calls = <<"verify", c>>
    /\ Called("profile.create") => CarriesProfile(request)
    /\ Called("profile.update") => CarriesChange(request)

(* What is refused is refused before anything is asked of a dependency:    *)
(* none is asked anything about a request without an acceptable            *)
(* representation (unless it deletes), the verifier and the profile store  *)
(* as above, and GitHub only for valid names and a valid closed query, and *)
(* never for a request that authenticates. llms-full.txt: "Unsupported     *)
(* success negotiation returns 406 before authentication, persistence, or  *)
(* provider calls".                                                        *)
CallsAfterChecks ==
    /\ calls # <<>> /\ request.method # "DELETE" =>
           ~BestOf(request.accept, Candidates(TRUE), "json", NotOffered)
    /\ ProfileCallsChecked
    /\ \A c \in GitHubCalls : Called(c) =>
           /\ calls = <<c>> /\ ~user
           /\ \A i \in 4 .. Len(request.path) : request.path[i] \notin {"", "%", "bad name"}
           /\ \A i \in DOMAIN request.query :
                  request.query[i].name \in {"limit", "cursor"} /\ request.query[i].value = "good"

(* Whatever answers a documented operation (its handler, an extractor, the *)
(* size limit, the recovery from a panic) gives an answer its OpenAPI      *)
(* description declares: the status, the one problem code the schema of    *)
(* that status fixes, a declared media type and the declared headers. The  *)
(* one answer it does not declare is the "profile_not_found" of a create   *)
(* whose database Firestore does not find (module ProfileService shows     *)
(* how it comes about); in all but its status that one too is as for the   *)
(* other profile operations.                                               *)
UndeclaredNotFound(op, code) == op.id = "createProfile" /\ code = "profile_not_found"
AnswersAsDocumented ==
    pc = "sent" =>
        \A op \in ApiDoc :
            op.method = request.method /\ Matches(request.path, op.path) =>
                LET status == Status[answer.code]
                IN  /\ DeclaredHeaders(op, status) \subseteq answer.headers \cup
                           (IF answer.links # {} THEN {"Link"} ELSE {})
                    /\ \/ /\ answer.code = op.success
                          /\ answer.body <=> op.method # "DELETE"
                          /\ answer.media \in IF op.method = "DELETE" THEN {"none"}
                                               ELSE {SuccessContentType(r) : r \in Representations}
                       \/ /\ status \in op.problems \/ UndeclaredNotFound(op, answer.code)
                          /\ answer.code = ProblemCodeForResponse(op.path, status)
                          /\ answer.media \in {ProblemContentType(r) : r \in Representations}

(* The representation sent is the one a client that knows only RFC 9110    *)
(* expects: of those on offer the one of the highest weight, where the     *)
(* most specific ranges decide; a 406 means that every one of them weighs  *)
(* nothing, and only a problem is then sent against the client's wish. A   *)
(* problem about a document is plain JSON. Only a Swagger file that is     *)
(* missing is refused without a problem.                                   *)
BestRepresentation ==
    Answered =>
        LET offered == Candidates(handler # "openapi")
        IN  /\ answer.code = "not_acceptable" /\ handler \notin {"catalog", "index", "guide"} =>
                   BestOf(request.accept, offered, "json", NotOffered)
            /\ answer.code \in {"ok", "created"} /\ format # "none" =>
                   \E rep \in Representations :
                       /\ answer.media = SuccessContentType(rep)
                       /\ BestOf(request.accept, offered, "json", rep)
            /\ answer.code \notin Successes \cup {"no_such_file"} =>
                   \E rep \in Representations :
                       /\ answer.media = ProblemContentType(rep)
                       /\ IF IsDocumentPath(request.path) THEN rep = "json"
                          ELSE \/ BestOf(request.accept, Candidates(TRUE), "problem+json", rep)
                               \/ /\ rep = "json"
                                  /\ BestOf(request.accept, Candidates(TRUE), "problem+json",
                                            NotOffered)

(* A 405 tells the truth, and a HEAD never gets a body: the methods it     *)
(* names are those with which a request on this path reaches a handler,    *)
(* the refused one not among them, and a path that is reached by none is a *)
(* 404. (README: "unsupported methods return 405 with truthful Allow       *)
(* values".)                                                               *)
TruthfulAllow ==
    /\ Answered /\ answer.code = "method_not_allowed" =>
           /\ request.method \notin answer.allow
           /\ answer.allow \ {"HEAD"} = {route.method : route \in RoutesAt(request.path)}
           /\ "HEAD" \in answer.allow <=>
                  "GET" \in answer.allow /\ PortableAllow(request.path) = {}
    /\ Answered /\ answer.code = "not_found" => RoutesAt(request.path) = {}
    /\ pc = "sent" /\ request.method = "HEAD" => ~answer.body

ProfileHandlers == {"createProfile", "getProfile", "updateProfile", "deleteProfile"}

(* What an answer says of the store is true, short of a lost reply: a      *)
(* success means that the call took effect; "profile_exists" that it found *)
(* one and changed nothing before; "profile_not_found" that it changed     *)
(* nothing (whether it found no profile or Firestore no database, which    *)
(* the answer does not tell); any other refusal of the request that the    *)
(* store was never touched. Only 503 and 500 leave it open.                *)
AnswerTellsEffect ==
    Answered /\ handler \in ProfileHandlers =>
        /\ answer.code \in Successes => "ok" \in acts
        /\ answer.code = "profile_not_found" => lost \/ acts \subseteq {"NotFound"}
        /\ answer.code = "profile_exists" =>
               "AlreadyExists" \in acts /\ (lost \/ acts = {"AlreadyExists"})
        /\ Status[answer.code] \in {400, 401, 406, 413, 415, 422} =>
               acts = {} /\ \A c \in ProfileCalls : ~Called(c)

(* The strengthening: what the extractors that already ran have            *)
(* established, and how calls, user and acts grow with them.               *)
Passed(extractor) == \E i \in 1 .. step - 1 : Extractors[handler][i] = extractor
IndInv ==
    /\ TypeOK
    /\ pc = "arriving" =>
           /\ handler = "none" /\ calls = <<>> /\ acts = {} /\ ~lost /\ ~user
           /\ answer = NoAnswer
    /\ handler \in {"createProfile", "updateProfile"} =>
           /\ IsPortableBodyOperation(request.method, request.path)
           /\ DeclaredSizeProblem = "none"
    /\ pc \in {"extracting", "waiting"} =>
           /\ handler \in Handlers /\ step \in 1 .. Len(Extractors[handler]) + 1
           /\ answer = NoAnswer
           /\ Passed("no_query") => request.query = <<>>
           /\ Passed("body") => request.arrival = "whole"
    /\ pc = "extracting" =>
           /\ acts = {} /\ ~lost
           /\ calls = IF user THEN <<"verify">> ELSE <<>>
           /\ Passed("user") <=> user
    /\ Awaiting("verify") =>
           /\ step <= Len(Extractors[handler]) /\ Extractors[handler][step] = "user"
           /\ calls = <<"verify">> /\ ~user /\ acts = {} /\ ~lost
    /\ Calling(GitHubCalls) => handler \notin ProfileHandlers
    /\ ~Calling(ProfileCalls) => acts = {}
    /\ ~lost => \A a, b \in acts : a = b
    /\ ProfileCallsChecked
    /\ AnswerTellsEffect

(* The second strengthening: the handler is the one the request is routed  *)
(* to, the format is the one negotiated for it, a call is the handler's    *)
(* own, and an answer is as documented already before it leaves, but for   *)
(* what the layers add.                                                    *)
CallOf == [createProfile |-> "profile.create", getProfile |-> "profile.get",
           updateProfile |-> "profile.update", deleteProfile |-> "profile.delete",
           getGitHubOwner |-> "github.owner",
           listGitHubOwnerRepositories |-> "github.repositories",
           getGitHubRepository |-> "github.repository",
           listGitHubRepositoryActivity |-> "github.activity",
           listGitHubRepositoryLanguages |-> "github.languages",
           listGitHubRepositoryTags |-> "github.tags"]
DocumentHandlers == {"catalog", "index", "guide"}

DocumentedSoFar(r, a) ==
    \A op \in ApiDoc :
        op.method = r.method /\ Matches(r.path, op.path) =>
            LET status == Status[a.code]
            IN  /\ DeclaredHeaders(op, status) \subseteq
                       a.headers \cup CommonHeaders
                           \cup (IF op.id = "getHealth" THEN {"Link"} ELSE {})
                /\ \/ /\ a.code = op.success
                      /\ a.body <=> op.method # "DELETE"
                      /\ a.media \in IF op.method = "DELETE" THEN {"none"}
                                      ELSE {SuccessContentType(rep) : rep \in Representations}
                   \/ /\ status \in op.problems \/ UndeclaredNotFound(op, a.code)
                      /\ a.code = ProblemCodeForResponse(op.path, status)
                      /\ a.media \in {ProblemContentType(rep) : rep \in Representations}

HandlerServed ==
    /\ handler = "none" => format = "none" /\ calls = <<>>
    /\ handler # "none" => \E route \in Serving(request.path, request.method) :
                               route.handler = handler
FormatNegotiated ==
    format # "none" =>
        /\ handler \notin DocumentHandlers \cup {"none", "deleteProfile", "swaggerUi",
                                               "swaggerRedirect"}
        /\ format = NegotiateSuccess(request.accept, handler # "openapi")
ChecksPassed ==
    pc \in {"extracting", "waiting"} =>
        /\ Passed("format") \/ Passed("json_format") => format # "none"
        /\ Passed("query") => ParsesQuery(request.query)
OwnCalls ==
    /\ calls # <<>> =>
           /\ handler \in DOMAIN CallOf
           /\ calls[Len(calls)] \in {"verify", CallOf[handler]}
           /\ handler # "deleteProfile" => format # "none"
    /\ Calling(ProfileCalls) => acts \subseteq Outcomes(calls[Len(calls)])
AnswerReady == pc = "answered" => answer.links = {} /\ DocumentedSoFar(request, answer)

AnswerInv ==
    /\ HandlerServed
    /\ FormatNegotiated
    /\ ChecksPassed
    /\ OwnCalls
    /\ AnswerReady
    /\ CallsAfterChecks
    /\ BestRepresentation
    /\ TruthfulAllow
    /\ AnswersAsDocumented
=============================================================================

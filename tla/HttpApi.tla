------------------------------ MODULE HttpApi ------------------------------
(***************************************************************************)
(* The API as it is registered and as it is documented. Three tables of    *)
(* the source say what the application serves, and nothing but tests keeps *)
(* them together: the routers (which handler a method and a path reach),   *)
(* portable_allow (the methods a 405 names) and the OpenAPI document (the  *)
(* answers each operation may give, with their problem codes and headers). *)
(*                                                                         *)
(* A path is the sequence of its segments; "{...}" in a pattern stands for *)
(* a path parameter.                                                       *)
(***************************************************************************)
EXTENDS Integers, Sequences

Status == [ok |-> 200, created |-> 201, no_content |-> 204, redirect |-> 303,
           invalid_request |-> 400, unauthorized |-> 401, forbidden |-> 403,
           client_generated_id_unsupported |-> 403, relationships_unsupported |-> 403,
           not_found |-> 404, profile_not_found |-> 404, github_not_found |-> 404,
           no_such_file |-> 404,
           method_not_allowed |-> 405, not_acceptable |-> 406,
           profile_exists |-> 409, profile_resource_mismatch |-> 409,
           payload_too_large |-> 413, unsupported_media_type |-> 415,
           validation_failed |-> 422, rate_limited |-> 429, github_rate_limit |-> 429,
           internal_error |-> 500, github_upstream |-> 502,
           dependency_unavailable |-> 503, github_timeout |-> 504]

Successes == {"ok", "created", "no_content", "redirect"}

---------------------------------------------------------------------------
(* The documented operations, from the attributes of their handlers: where *)
(* they are, what a success is called, and the other statuses declared.    *)
Operation(id, method, path, success, problems) ==
    [id |-> id, method |-> method, path |-> path,
     success |-> success, problems |-> problems]

GetHealth == Operation("getHealth", "GET", <<"health">>, "ok", {400, 406, 500})
GetHello == Operation("getHello", "GET", <<"v1", "hello">>, "ok", {400, 406, 500})
CreateHello == Operation("createHello", "POST", <<"v1", "hello">>, "ok",
                         {400, 406, 413, 415, 422, 500})
ListItems == Operation("listItems", "GET", <<"v1", "items">>, "ok", {400, 406, 422, 500})

CreateProfile == Operation("createProfile", "POST", <<"v1", "profile">>, "created",
                           {400, 401, 406, 409, 413, 415, 422, 500, 503})
GetProfile == Operation("getProfile", "GET", <<"v1", "profile">>, "ok",
                        {400, 401, 404, 406, 500, 503})
UpdateProfile == Operation("updateProfile", "PATCH", <<"v1", "profile">>, "ok",
                           {400, 401, 404, 406, 413, 415, 422, 500, 503})
DeleteProfile == Operation("deleteProfile", "DELETE", <<"v1", "profile">>, "no_content",
                           {400, 401, 404, 500, 503})

GitHubProblems == {400, 404, 406, 422, 429, 500, 502, 504}
GetGitHubOwner == Operation("getGitHubOwner", "GET",
    <<"v1", "github", "owners", "{owner}">>, "ok", GitHubProblems)
ListGitHubOwnerRepositories == Operation("listGitHubOwnerRepositories", "GET",
    <<"v1", "github", "owners", "{owner}", "repos">>, "ok", GitHubProblems)
GetGitHubRepository == Operation("getGitHubRepository", "GET",
    <<"v1", "github", "repos", "{owner}", "{repo}">>, "ok", GitHubProblems)
ListGitHubRepositoryActivity == Operation("listGitHubRepositoryActivity", "GET",
    <<"v1", "github", "repos", "{owner}", "{repo}", "activity">>, "ok", GitHubProblems)
ListGitHubRepositoryLanguages == Operation("listGitHubRepositoryLanguages", "GET",
    <<"v1", "github", "repos", "{owner}", "{repo}", "languages">>, "ok", GitHubProblems)
ListGitHubRepositoryTags == Operation("listGitHubRepositoryTags", "GET",
    <<"v1", "github", "repos", "{owner}", "{repo}", "tags">>, "ok", GitHubProblems)

(* ApiDoc: the inventory of the document.                                  *)
ApiDoc ==
    {GetHealth, GetHello, CreateHello, ListItems,
     CreateProfile, GetProfile, UpdateProfile, DeleteProfile,
     GetGitHubOwner, ListGitHubOwnerRepositories, GetGitHubRepository,
     ListGitHubRepositoryActivity, ListGitHubRepositoryLanguages,
     ListGitHubRepositoryTags}

(* problem_code_for_response: the one code each problem may carry.         *)
ProblemCodeForResponse(path, status) ==
    CASE status = 400 -> "invalid_request"
      [] status = 401 -> "unauthorized"
      [] status = 404 -> IF path = <<"v1", "profile">>
                         THEN "profile_not_found" ELSE "github_not_found"
      [] status = 406 -> "not_acceptable"
      [] status = 409 -> "profile_exists"
      [] status = 413 -> "payload_too_large"
      [] status = 415 -> "unsupported_media_type"
      [] status = 422 -> "validation_failed"
      [] status = 429 -> "github_rate_limit"
      [] status = 500 -> "internal_error"
      [] status = 502 -> "github_upstream"
      [] status = 503 -> "dependency_unavailable"
      [] status = 504 -> "github_timeout"

(* add_common_response_headers *)
CommonHeaders == {"Cache-Control", "X-Content-Type-Options", "X-Frame-Options",
                  "Referrer-Policy"}

(* strengthen_operations: the headers a response of the operation carries. *)
DeclaredHeaders(op, status) ==
    UNION {CommonHeaders,
           IF op.method = "DELETE" /\ status = 204 THEN {} ELSE {"Vary"},
           IF op.id = "getHealth" /\ status = 200 THEN {"Link"} ELSE {},
           IF status = 429 THEN {"Retry-After"} ELSE {},
           IF status = 401 THEN {"WWW-Authenticate"} ELSE {},
           IF op.id = "createProfile" /\ status = 201 THEN {"Location"} ELSE {}}

---------------------------------------------------------------------------
(* The routers: the handlers of a pattern by method.                       *)
Route(path, method, handler) == [path |-> path, method |-> method, handler |-> handler]

OwnerPath(rest) == <<"v1", "github", "owners", "{owner}">> \o rest
RepoPath(rest) == <<"v1", "github", "repos", "{owner}", "{repo}">> \o rest
GitHubRouter ==
    {Route(OwnerPath(<<>>), "GET", "getGitHubOwner"),
     Route(OwnerPath(<<"repos">>), "GET", "listGitHubOwnerRepositories"),
     Route(RepoPath(<<>>), "GET", "getGitHubRepository"),
     Route(RepoPath(<<"activity">>), "GET", "listGitHubRepositoryActivity"),
     Route(RepoPath(<<"languages">>), "GET", "listGitHubRepositoryLanguages"),
     Route(RepoPath(<<"tags">>), "GET", "listGitHubRepositoryTags")}
HelloRouter == {Route(<<"v1", "hello">>, "GET", "getHello"),
                Route(<<"v1", "hello">>, "POST", "createHello")}
ItemsRouter == {Route(<<"v1", "items">>, "GET", "listItems")}
ProfileRouter == {Route(<<"v1", "profile">>, "GET", "getProfile"),
                  Route(<<"v1", "profile">>, "POST", "createProfile"),
                  Route(<<"v1", "profile">>, "PATCH", "updateProfile"),
                  Route(<<"v1", "profile">>, "DELETE", "deleteProfile")}
DiscoveryRouter == {Route(<<".well-known", "api-catalog">>, "GET", "catalog"),
                    Route(<<"llms.txt">>, "GET", "index"),
                    Route(<<"llms-full.txt">>, "GET", "guide")}
DocsRouter == {Route(<<"openapi.json">>, "GET", "openapi")}
(* utoipa-swagger-ui: a redirect to the page, the page, and its files.     *)
SwaggerPage == <<"api-docs", "">>
SwaggerRouter == {Route(<<"api-docs">>, "GET", "swaggerRedirect"),
                  Route(SwaggerPage, "GET", "swaggerUi"),
                  Route(<<"api-docs", "{*rest}">>, "GET", "swaggerUi")}

V1Router == GitHubRouter \cup HelloRouter \cup ItemsRouter \cup ProfileRouter

(* build_app_with_routes                                                   *)
Routes == {Route(<<"health">>, "GET", "getHealth")}
            \cup DocsRouter \cup DiscoveryRouter \cup SwaggerRouter \cup V1Router

(* The router's matching of the segments: a parameter takes any segment    *)
(* but an empty last one, and "{*rest}" the segments after it as well.     *)
IsParameter(segment) == segment \in {"{owner}", "{repo}", "{*rest}"}
Matches(path, pattern) ==
    /\ \/ Len(path) = Len(pattern)
       \/ Len(path) > Len(pattern) /\ pattern[Len(pattern)] = "{*rest}"
    /\ \A i \in DOMAIN pattern :
           \/ path[i] = pattern[i]
           \/ IsParameter(pattern[i]) /\ (path[i] # "" \/ i < Len(path))
RoutesAt(path) == {route \in Routes : Matches(path, route.path)}

(* A GET handler also serves HEAD.                                         *)
Serving(path, method) ==
    {route \in RoutesAt(path) : route.method \in {method} \cup
         (IF method = "HEAD" THEN {"GET"} ELSE {})}

---------------------------------------------------------------------------
(* is_github_path: the shapes of the GitHub routes.                        *)
IsGitHubPath(path) ==
    /\ Len(path) >= 4
    /\ path[1] = "v1" /\ path[2] = "github"
    /\ \/ path[3] = "owners" /\ Len(path) = 4 /\ path[4] # ""
       \/ path[3] = "owners" /\ Len(path) = 5 /\ path[5] = "repos"
       \/ path[3] = "repos" /\ Len(path) = 5 /\ path[5] # ""
       \/ path[3] = "repos" /\ Len(path) = 6
          /\ path[6] \in {"activity", "languages", "tags"}

(* portable_allow: the methods named at a path, {} where the path is none  *)
(* of the portable ones.                                                   *)
PortableAllowForgetsPatch(path) ==                                 \* mutant
    IF path = <<"v1", "profile">> THEN {"GET", "POST", "DELETE"}
    ELSE IF path = <<"v1", "hello">> THEN {"GET", "POST"}
    ELSE IF IsGitHubPath(path) \/ path \in {<<"health">>, <<"v1", "items">>,
                <<"openapi.json">>, <<"llms.txt">>, <<"llms-full.txt">>}
         THEN {"GET"} ELSE {}
PortableAllow(path) ==
    CASE path \in {<<"health">>, <<"v1", "items">>, <<"openapi.json">>,
                   <<"llms.txt">>, <<"llms-full.txt">>}  -> {"GET"}
      [] path = <<"v1", "hello">>                        -> {"GET", "POST"}
      [] path = <<"v1", "profile">>                      -> {"GET", "POST", "PATCH", "DELETE"}
      [] IsGitHubPath(path)                              -> {"GET"}
      [] OTHER                                           -> {}

(* is_portable_body_operation                                              *)
IsPortableBodyOperation(method, path) ==
    \/ method = "POST" /\ path \in {<<"v1", "hello">>, <<"v1", "profile">>}
    \/ method = "PATCH" /\ path = <<"v1", "profile">>

(* is_document_path: the paths whose problems are always plain JSON.       *)
IsDocumentPath(path) ==
    path \in {<<"openapi.json">>, <<".well-known", "api-catalog">>,
              <<"llms.txt">>, <<"llms-full.txt">>}

(* append_discovery_links                                                  *)
DiscoveryLinks(path) ==
    CASE path = <<"health">> -> {"api-catalog", "service-desc"}
      [] path = <<".well-known", "api-catalog">> -> {"api-catalog", "describedby"}
      [] path \in {<<"openapi.json">>, <<"llms-full.txt">>,
                   <<"api-docs">>, <<"api-docs", "">>} -> {"describedby"}
      [] OTHER -> {}
=============================================================================

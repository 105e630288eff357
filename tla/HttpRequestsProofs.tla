------------------------- MODULE HttpRequestsProofs -------------------------
(***************************************************************************)
(* Proofs about HttpRequests for every set of requests and every limit on  *)
(* their bodies: what the profile calls are made for and what the answers  *)
(* about them say (IndInv); and that the representation sent is the best   *)
(* one, a 405 is truthful, every answer is as documented and nothing is    *)
(* asked of a dependency before the checks (AnswerInv).                    *)
(*                                                                         *)
(* In order: the first invariant, step by step; negotiation against RFC    *)
(* 9110; the tables of HttpApi, that they agree; which answers are right;  *)
(* the second invariant, step by step; the theorems.                       *)
(***************************************************************************)
EXTENDS HttpRequests, SequenceTheorems, WellFoundedInduction, TLAPS

---------------------------------------------------------------------------
(* Facts about the tables.                                                 *)

(* Only the profile handlers authenticate, after they refused a query, and *)
(* once.                                                                   *)
LEMMA UserExtractors ==
    ASSUME NEW h \in Handlers, NEW i \in 1 .. Len(Extractors[h]), Extractors[h][i] = "user"
    PROVE  /\ h \in ProfileHandlers
           /\ i = (IF h = "deleteProfile" THEN 2 ELSE 3)
           /\ i - 1 \in 1 .. Len(Extractors[h]) /\ Extractors[h][i - 1] = "no_query"
  <1>1. h \in {"getHealth", "getHello", "createHello", "listItems", "createProfile", "getProfile",
               "updateProfile", "deleteProfile", "getGitHubOwner",
               "listGitHubOwnerRepositories", "getGitHubRepository",
               "listGitHubRepositoryActivity", "listGitHubRepositoryLanguages",
               "listGitHubRepositoryTags", "openapi", "catalog", "index", "guide",
               "swaggerUi", "swaggerRedirect"}
    BY DEF Handlers, Extractors
  <1>2. CASE h \in {"createProfile", "updateProfile"}
    <2>1. Extractors[h] = <<"format", "no_query", "user", "body">>
      BY <1>2 DEF Extractors
    <2> QED
      BY <1>2, <2>1 DEF ProfileHandlers
  <1>3. CASE h = "getProfile"
    <2>1. Extractors[h] = <<"format", "no_query", "user">>
      BY <1>3 DEF Extractors
    <2> QED
      BY <1>3, <2>1 DEF ProfileHandlers
  <1>4. CASE h = "deleteProfile"
    <2>1. Extractors[h] = <<"no_query", "user">>
      BY <1>4 DEF Extractors
    <2> QED
      BY <1>4, <2>1 DEF ProfileHandlers
  <1>5. CASE h \in {"getHealth", "getHello"}
    <2>1. Extractors[h] = <<"format", "no_query">>
      BY <1>5 DEF Extractors
    <2> QED
      BY <2>1
  <1>6. CASE h = "createHello"
    <2>1. Extractors[h] = <<"format", "no_query", "body">>
      BY <1>6 DEF Extractors
    <2> QED
      BY <2>1
  <1>7. CASE h = "listItems"
    <2>1. Extractors[h] = <<"format", "query">>
      BY <1>7 DEF Extractors
    <2> QED
      BY <2>1
  <1>8. CASE h \in {"getGitHubOwner", "getGitHubRepository", "listGitHubRepositoryLanguages"}
    <2>1. Extractors[h] = <<"format", "no_query", "path">>
      BY <1>8 DEF Extractors
    <2> QED
      BY <2>1
  <1>9. CASE h \in {"listGitHubOwnerRepositories", "listGitHubRepositoryActivity",
                    "listGitHubRepositoryTags"}
    <2>1. Extractors[h] = <<"format", "path", "query">>
      BY <1>9 DEF Extractors
    <2> QED
      BY <2>1
  <1>10. CASE h = "openapi"
    <2>1. Extractors[h] = <<"json_format", "no_query">>
      BY <1>10 DEF Extractors
    <2> QED
      BY <2>1
  <1>11. CASE h \in {"catalog", "index", "guide"}
    <2>1. Extractors[h] = <<"no_query">>
      BY <1>11 DEF Extractors
    <2> QED
      BY <2>1
  <1>12. CASE h \in {"swaggerUi", "swaggerRedirect"}
    <2>1. Extractors[h] = <<>>
      BY <1>12 DEF Extractors
    <2> QED
      BY <2>1
  <1> QED
    BY <1>1, <1>2, <1>3, <1>4, <1>5, <1>6, <1>7, <1>8, <1>9, <1>10, <1>11, <1>12

LEMMA ProfileExtractors ==
    /\ Extractors["createProfile"] = <<"format", "no_query", "user", "body">>
    /\ Extractors["updateProfile"] = <<"format", "no_query", "user", "body">>
    /\ Extractors["getProfile"] = <<"format", "no_query", "user">>
    /\ Extractors["deleteProfile"] = <<"no_query", "user">>
  BY DEF Extractors

LEMMA StatusFacts ==
    /\ {"not_found", "method_not_allowed", "not_acceptable", "invalid_request", "unauthorized",
        "dependency_unavailable", "payload_too_large", "unsupported_media_type",
        "validation_failed", "internal_error", "profile_exists", "profile_not_found",
        "github_not_found", "github_rate_limit", "github_timeout", "github_upstream",
        "ok", "created", "no_content", "redirect", "no_such_file"} \subseteq DOMAIN Status
    /\ Status["internal_error"] = 500 /\ Status["dependency_unavailable"] = 503
    /\ Status["profile_not_found"] = 404 /\ Status["profile_exists"] = 409
    /\ Status["ok"] = 200 /\ Status["created"] = 201 /\ Status["no_content"] = 204
  BY DEF Status

LEMMA RouteHandler == \A path, method, handles : Route(path, method, handles).handler = handles
  BY DEF Route

LEMMA SwaggerNames ==
    \A route \in SwaggerRouter : route.handler \in {"swaggerUi", "swaggerRedirect"}
  <1> SUFFICES ASSUME NEW route \in SwaggerRouter
               PROVE  route.handler \in {"swaggerUi", "swaggerRedirect"}
    OBVIOUS
  <1>1. \E path : \/ route = Route(path, "GET", "swaggerRedirect")
                  \/ route = Route(path, "GET", "swaggerUi")
    BY Zenon DEF SwaggerRouter
  <1>2. route.handler = "swaggerRedirect" \/ route.handler = "swaggerUi"
    BY <1>1 DEF Route
  <1> QED
    BY <1>2

(* The two writes are routed only from their own method and path.          *)
LEMMA WriteRoutes ==
    ASSUME NEW path \in Seq(STRING), NEW method \in Methods,
           NEW route \in Serving(path, method),
           route.handler \in {"createProfile", "updateProfile"}
    PROVE  IsPortableBodyOperation(method, path)
  <1>1. route \in Routes /\ Matches(path, route.path)
        /\ route.method \in {method} \cup (IF method = "HEAD" THEN {"GET"} ELSE {})
    BY DEF Serving, RoutesAt
  <1>2. /\ route.path = <<"v1", "profile">>
        /\ route.handler = "createProfile" => route.method = "POST"
        /\ route.handler = "updateProfile" => route.method = "PATCH"
    <2>1. route \notin GitHubRouter
      BY RouteHandler DEF GitHubRouter
    <2>2. route \notin HelloRouter \cup ItemsRouter
      BY RouteHandler DEF HelloRouter, ItemsRouter
    <2>3. route \notin DocsRouter \cup DiscoveryRouter \cup SwaggerRouter
      BY RouteHandler, SwaggerNames DEF DocsRouter, DiscoveryRouter
    <2>4. route # Route(<<"health">>, "GET", "getHealth")
      BY RouteHandler
    <2>5. route \in ProfileRouter
      BY <1>1, <2>1, <2>2, <2>3, <2>4 DEF Routes, V1Router
    <2> QED
      BY <2>5 DEF ProfileRouter, Route
  <1>3. Len(path) = 2 /\ path[1] = "v1" /\ path[2] = "profile"
    <2> DEFINE pattern == <<"v1", "profile">>
    <2>1. Len(pattern) = 2 /\ DOMAIN pattern = {1, 2}
          /\ pattern[1] = "v1" /\ pattern[2] = "profile"
      OBVIOUS
    <2>2. Matches(path, pattern)
      BY <1>1, <1>2
    <2> HIDE DEF pattern
    <2> QED
      BY <2>1, <2>2 DEF Matches, IsParameter
  <1>4. path = <<"v1", "profile">>
    BY <1>3
  <1>5. method = route.method
    BY <1>1, <1>2 DEF Methods
  <1> QED
    BY <1>2, <1>4, <1>5 DEF IsPortableBodyOperation

---------------------------------------------------------------------------
(* The shape of the answers.                                               *)
Shaped(a) == DOMAIN a = DOMAIN NoAnswer /\ a.code \in DOMAIN Status

LEMMA ProblemShape ==
    ASSUME NEW code \in DOMAIN Status, NEW accept
    PROVE  Shaped(ProblemResponse(code, accept)) /\ ProblemResponse(code, accept).code = code
  BY DEF Shaped, ProblemResponse, NoAnswer

LEMMA ProblemShapes ==
    ASSUME NEW code \in DOMAIN Status
    PROVE  /\ Shaped(Problem(code)) /\ Problem(code).code = code
           /\ Shaped(ProblemForPath(code)) /\ ProblemForPath(code).code = code
  BY ProblemShape DEF Problem, ProblemForPath

LEMMA SuccessShapes ==
    ASSUME NEW code \in DOMAIN Status, NEW media, NEW headers
    PROVE  /\ Shaped(Content(code, media, headers)) /\ Content(code, media, headers).code = code
           /\ Shaped(Success(code, headers)) /\ Success(code, headers).code = code
           /\ Shaped(NoContent) /\ NoContent.code = "no_content"
  BY StatusFacts DEF Shaped, Content, Success, NoContent, NoAnswer

LEMMA UnauthorizedShape == Shaped(Unauthorized) /\ Unauthorized.code = "unauthorized"
  BY ProblemShapes, StatusFacts DEF Unauthorized, Shaped, NoAnswer

LEMMA NotAllowedShape ==
    Shaped(MethodNotAllowedAnswer) /\ MethodNotAllowedAnswer.code = "method_not_allowed"
  <1>1. Shaped(ProblemForPath("method_not_allowed"))
        /\ ProblemForPath("method_not_allowed").code = "method_not_allowed"
    BY ProblemShapes, StatusFacts
  <1> QED
    BY <1>1 DEF MethodNotAllowedAnswer, Shaped, NoAnswer

LEMMA LeaveShape ==
    ASSUME NEW a, DOMAIN a = DOMAIN NoAnswer
    PROVE  LET b == WithoutHeadBody(WithSecurityHeaders(WithDiscoveryLinks(a)))
           IN  DOMAIN b = DOMAIN NoAnswer /\ b.code = a.code
  <1> DEFINE l == WithDiscoveryLinks(a)
             h == WithSecurityHeaders(l)
  <1>1. DOMAIN l = DOMAIN NoAnswer /\ l.code = a.code
    BY DEF WithDiscoveryLinks, NoAnswer
  <1> HIDE DEF l
  <1>2. DOMAIN h = DOMAIN NoAnswer /\ h.code = a.code
    BY <1>1 DEF WithSecurityHeaders, NoAnswer
  <1> HIDE DEF h
  <1>3. DOMAIN WithoutHeadBody(h) = DOMAIN NoAnswer /\ WithoutHeadBody(h).code = a.code
    BY <1>2 DEF WithoutHeadBody, NoAnswer
  <1> QED
    BY <1>3 DEF l, h

(* What the checks of a body may find.                                     *)
Refusals == {"not_acceptable", "invalid_request", "unauthorized", "dependency_unavailable",
             "payload_too_large", "unsupported_media_type", "validation_failed",
             "internal_error", "method_not_allowed", "not_found"}

LEMMA OneOrMore == \A n \in Nat \ {0} : n > 1 \/ n = 1
  OBVIOUS

LEMMA TypeLines ==
    ASSUME NEW types \in Seq([media : STRING, params : Seq(STRING)])
    PROVE  types = <<>> \/ Len(types) > 1 \/ Len(types) = 1
  <1>1. types = <<>> \/ Len(types) \in Nat \ {0}
    BY EmptySeq
  <1> QED
    BY <1>1, OneOrMore, Zenon

BodyRefusals == {"invalid_request", "unsupported_media_type", "validation_failed"}

LEMMA DecodeRefusals ==
    ASSUME NEW r \in RequestType, NEW schema
    PROVE  DecodeProblem(r, schema) \in BodyRefusals \cup {"none"}
  <1>1. r.body.empty \in BOOLEAN /\ r.types \in Seq([media : STRING, params : Seq(STRING)])
    BY DEF RequestType
  <1>2. r.types = <<>> \/ Len(r.types) > 1 \/ Len(r.types) = 1
    BY <1>1, TypeLines, Zenon
  <1>3. BodyFormatProblem(r) \in BodyRefusals \cup {"none"}
    BY <1>1, <1>2 DEF BodyFormatProblem, BodyRefusals
  <1> QED
    BY <1>3 DEF DecodeProblem, BodyRefusals

LEMMA DecodeProblemRange ==
    ASSUME NEW r \in RequestType, NEW schema
    PROVE  DecodeProblem(r, schema) \in Refusals \cup {"none"}
  BY DecodeRefusals DEF BodyRefusals, Refusals

LEMMA RefusalFacts ==
    /\ Refusals \subseteq DOMAIN Status
    /\ Refusals \cap (Successes \cup {"profile_not_found", "profile_exists"}) = {}
  BY StatusFacts DEF Refusals, Successes

---------------------------------------------------------------------------
(* What the checks of a body establish.                                    *)

LEMMA SizeAccepted ==
    ASSUME request \in RequestType, DeclaredSizeProblem = "none",
           IsPortableBodyOperation(request.method, request.path),
           request.lengths # <<>>
    PROVE  Len(request.lengths) = 1 /\ request.lengths[1] \in 0 .. MaxBody
  <1>1. request.lengths \in Seq(Nat \cup {Unreadable})
    BY DEF RequestType
  <1>2. ~(Len(request.lengths) > 1) /\ request.lengths[1] # Unreadable
        /\ ~(request.lengths[1] > MaxBody)
    BY DEF DeclaredSizeProblem
  <1>3. Len(request.lengths) \in Nat \ {0}
    BY <1>1, EmptySeq
  <1>4. Len(request.lengths) = 1
    BY <1>2, <1>3, OneOrMore, Zenon
  <1>5. request.lengths[1] \in Nat \cup {Unreadable}
    BY <1>1, <1>4, ElementOfSeq
  <1> QED
    BY <1>2, <1>4, <1>5, RequestsAssumption DEF Unreadable

LEMMA TypeAccepted ==
    ASSUME NEW r \in RequestType, BodyFormatProblem(r) = "none"
    PROVE  /\ Len(r.types) = 1 /\ r.types[1].media = ContentTypeFormat(r.types[1])
           /\ r.types[1].params \in {<<>>, <<"charset=utf-8">>}
  <1>1. r.body.empty \in BOOLEAN /\ r.types \in Seq([media : STRING, params : Seq(STRING)])
    BY DEF RequestType
  <1>2. r.types = <<>> \/ Len(r.types) > 1 \/ Len(r.types) = 1
    BY <1>1, TypeLines, Zenon
  <1>3. Len(r.types) = 1 /\ ContentTypeFormat(r.types[1]) # NotOffered
    BY <1>1, <1>2 DEF BodyFormatProblem
  <1> QED
    BY <1>3 DEF ContentTypeFormat

(* A document decode_request_body accepts for a type.                      *)
LEMMA DecodedDocument ==
    ASSUME NEW r \in RequestType, NEW schema, DecodeProblem(r, schema) = "none"
    PROVE  /\ ~r.body.empty /\ ~r.body.trailing
           /\ \A i \in DOMAIN r.encodings : r.encodings[i] = "identity"
           /\ Len(r.types) = 1 /\ r.types[1].media = r.body.syntax
           /\ r.types[1].params \in {<<>>, <<"charset=utf-8">>}
           /\ ~HasDuplicateKey(r.body)
           /\ HasShape(r.body, schema)
  <1>1. EncodingAllowed(r.encodings)
    BY DEF DecodeProblem
  <1>2. BodyFormatProblem(r) = "none"
    BY <1>1 DEF DecodeProblem
  <1>3. /\ ~r.body.empty /\ ~r.body.trailing /\ ~HasDuplicateKey(r.body)
        /\ r.body.syntax = ContentTypeFormat(r.types[1])
    BY <1>1, <1>2 DEF DecodeProblem
  <1>4. HasShape(r.body, schema)
    BY <1>1, <1>2, <1>3 DEF DecodeProblem
  <1>5. \A i \in DOMAIN r.encodings : r.encodings[i] = "identity"
    <2>1. r.encodings \in Seq(STRING)
      BY DEF RequestType
    <2> QED
      BY <1>1, <2>1 DEF EncodingAllowed
  <1> QED
    BY <1>2, <1>3, <1>4, <1>5, TypeAccepted

LEMMA Distinct ==
    ASSUME NEW r \in RequestType, ~HasDuplicateKey(r.body),
           NEW i \in DOMAIN r.body.members, NEW j \in DOMAIN r.body.members, i # j
    PROVE  \/ r.body.members[i].in # r.body.members[j].in
           \/ r.body.members[i].key # r.body.members[j].key
  <1>1. r.body.members \in Seq(Member)
    BY DEF RequestType
  <1>2. i \in Int /\ j \in Int
    BY <1>1
  <1>3. i < j \/ j < i
    BY <1>2
  <1> QED
    BY <1>3 DEF HasDuplicateKey

(* The types of the profile writes: the order of their fields is one of    *)
(* distinct names, and their tables in the properties are those of the     *)
(* code.                                                                   *)
CreateOrder == <<"firstName", "lastName", "contactEmail", "phoneNumber",
                 "marketingOptIn", "termsAccepted">>
UpdateOrder == <<"firstName", "lastName", "contactEmail", "phoneNumber", "marketingOptIn">>

LEMMA ProfileSchemas ==
    /\ Fields["ProfileCreate"] = CreateOrder /\ Fields["ProfileUpdate"] = UpdateOrder
    /\ Required["ProfileCreate"] = PersonalFields \cup {"termsAccepted"}
    /\ Required.ProfileCreate = PersonalFields \cup {"termsAccepted"}
    /\ Optional["ProfileCreate"] = {"marketingOptIn"}
    /\ Required["ProfileUpdate"] = {}
    /\ Optional["ProfileUpdate"] = PersonalFields \cup {"marketingOptIn"}
    /\ Optional.ProfileUpdate \ {"marketingOptIn"} = PersonalFields
  BY DEF Fields, CreateOrder, UpdateOrder, Required, Optional, PersonalFields

LEMMA ProfileOrders ==
    ASSUME NEW order \in {CreateOrder, UpdateOrder}
    PROVE  /\ Len(order) \in Nat /\ DOMAIN order = 1 .. Len(order)
           /\ \A i, j \in 1 .. Len(order) : order[i] = order[j] => i = j
  <1>1. CASE order = CreateOrder
    <2>1. /\ Len(CreateOrder) = 6 /\ DOMAIN CreateOrder = 1 .. 6
          /\ CreateOrder[1] = "firstName" /\ CreateOrder[2] = "lastName"
          /\ CreateOrder[3] = "contactEmail" /\ CreateOrder[4] = "phoneNumber"
          /\ CreateOrder[5] = "marketingOptIn" /\ CreateOrder[6] = "termsAccepted"
      BY DEF CreateOrder
    <2>2. \A i \in 1 .. 6 : i \in {1, 2, 3, 4, 5, 6}
      OBVIOUS
    <2> QED
      BY <1>1, <2>1, <2>2
  <1>2. CASE order = UpdateOrder
    <2>1. /\ Len(UpdateOrder) = 5 /\ DOMAIN UpdateOrder = 1 .. 5
          /\ UpdateOrder[1] = "firstName" /\ UpdateOrder[2] = "lastName"
          /\ UpdateOrder[3] = "contactEmail" /\ UpdateOrder[4] = "phoneNumber"
          /\ UpdateOrder[5] = "marketingOptIn"
      BY DEF UpdateOrder
    <2>2. \A i \in 1 .. 5 : i \in {1, 2, 3, 4, 5}
      OBVIOUS
    <2> QED
      BY <1>2, <2>1, <2>2
  <1> QED
    BY <1>1, <1>2

(* A map of the type's shape names its values.                             *)
LEMMA MapNames ==
    ASSUME NEW body, NEW schema, HasShape(body, schema), body.root = "map",
           NEW checked, Valid(body, schema, checked)
    PROVE  NamesValues(body, Required[schema], Optional[schema], checked)
  <1>1. Given(body, schema) = GivenByName(body)
    BY DEF Given, FromArray
  <1>2. ASSUME NEW key \in Required[schema]
        PROVE  \E i \in DOMAIN body.members :
                   body.members[i].key = key /\ body.members[i].in = ""
    <2>1. PICK given \in GivenByName(body) : given.key = key
      BY <1>1 DEF HasShape, Keys
    <2>2. PICK i \in {j \in DOMAIN body.members : body.members[j].in = ""} :
              given = [key |-> body.members[i].key, value |-> body.members[i].value]
      BY <2>1, Zenon DEF GivenByName
    <2>3. given.key = body.members[i].key
      BY <2>2
    <2> QED
      BY <2>1, <2>2, <2>3
  <1>3. ASSUME NEW i \in DOMAIN body.members, body.members[i].in = ""
        PROVE  /\ body.members[i].key \in Required[schema] \cup Optional[schema]
               /\ AcceptableValue(body.members[i].value, body.members[i].key \in checked)
    <2> DEFINE given == [key |-> body.members[i].key, value |-> body.members[i].value]
    <2>1. given \in GivenByName(body)
      BY <1>3 DEF GivenByName
    <2>2. given.key = body.members[i].key /\ given.value = body.members[i].value
      OBVIOUS
    <2> HIDE DEF given
    <2>3. given.key \in Required[schema] \cup Optional[schema] /\ given.value \in {"good", "bad"}
      BY <1>1, <2>1 DEF HasShape, Keys
    <2>4. given.key \in checked => given.value = "good"
      BY <1>1, <2>1 DEF Valid
    <2> QED
      BY <2>2, <2>3, <2>4 DEF AcceptableValue
  <1> QED
    BY <1>2, <1>3 DEF NamesValues

(* An array of the type's shape lists them.                                *)
LEMMA ArrayLists ==
    ASSUME NEW body, body.items \in Seq(STRING),
           NEW schema, HasShape(body, schema), body.root # "map",
           Fields[schema] \in {CreateOrder, UpdateOrder},
           NEW checked, Valid(body, schema, checked)
    PROVE  /\ body.root = "array" /\ body.syntax = "json"
           /\ ListsValues(body, Fields[schema], Required[schema], checked)
  <1> DEFINE order == Fields[schema]
             given(i) == [key |-> order[i], value |-> body.items[i]]
  <1>1. /\ FromArray(body) /\ body.syntax = "json" /\ Len(body.items) <= Len(order)
        /\ Given(body, schema) = GivenByPlace(body, schema)
    BY DEF HasShape, Given
  <1>2. /\ Len(order) \in Nat /\ DOMAIN order = 1 .. Len(order)
        /\ \A i, j \in 1 .. Len(order) : order[i] = order[j] => i = j
    BY ProfileOrders
  <1>3. Len(body.items) \in Nat /\ DOMAIN body.items = 1 .. Len(body.items)
    OBVIOUS
  <1> HIDE DEF order
  <1>4. ASSUME NEW i \in 1 .. Len(order), order[i] \in Required[schema]
        PROVE  i <= Len(body.items)
    <2>1. PICK g \in GivenByPlace(body, schema) : g.key = order[i]
      BY <1>1, <1>4 DEF HasShape, Keys
    <2>2. PICK k \in DOMAIN body.items \cap DOMAIN order : g = given(k)
      BY <2>1 DEF GivenByPlace, order
    <2>3. order[k] = order[i]
      BY <2>1, <2>2
    <2> QED
      BY <1>2, <1>3, <2>2, <2>3
  <1>5. ASSUME NEW i \in 1 .. Len(body.items)
        PROVE  i <= Len(order) /\ AcceptableValue(body.items[i], order[i] \in checked)
    <2>1. i \in DOMAIN body.items \cap DOMAIN order
      BY <1>1, <1>2, <1>3
    <2>2. given(i) \in Given(body, schema)
      BY <1>1, <2>1 DEF GivenByPlace, order
    <2>3. given(i).key = order[i] /\ given(i).value = body.items[i]
      OBVIOUS
    <2> HIDE DEF given
    <2>4. body.items[i] \in {"good", "bad"}
      BY <2>2, <2>3 DEF HasShape
    <2>5. order[i] \in checked => body.items[i] = "good"
      BY <2>2, <2>3 DEF Valid
    <2> QED
      BY <1>2, <2>1, <2>4, <2>5 DEF AcceptableValue
  <1> QED
    BY <1>1, <1>4, <1>5 DEF ListsValues, FromArray, order

LEMMA DocumentCarried ==
    ASSUME request \in RequestType, DeclaredSizeProblem = "none",
           IsPortableBodyOperation(request.method, request.path),
           request.arrival = "whole",
           NEW schema, Fields[schema] \in {CreateOrder, UpdateOrder},
           DecodeProblem(request, schema) = "none",
           NEW checked, Valid(request.body, schema, checked)
    PROVE  /\ CarriesDocument(request, Fields[schema], Required[schema], Optional[schema], checked)
           /\ HasShape(request.body, schema)
  <1>1. /\ ~request.body.empty /\ ~request.body.trailing
        /\ \A i \in DOMAIN request.encodings : request.encodings[i] = "identity"
        /\ Len(request.types) = 1 /\ request.types[1].media = request.body.syntax
        /\ request.types[1].params \in {<<>>, <<"charset=utf-8">>}
        /\ ~HasDuplicateKey(request.body)
        /\ HasShape(request.body, schema)
    BY DecodedDocument
  <1>2. \A i, j \in DOMAIN request.body.members :
           i # j => \/ request.body.members[i].in # request.body.members[j].in
                    \/ request.body.members[i].key # request.body.members[j].key
    BY <1>1, Distinct
  <1>3. request.lengths # <<>> =>
           Len(request.lengths) = 1 /\ request.lengths[1] \in 0 .. MaxBody
    BY SizeAccepted
  <1>4. request.body.items \in Seq(STRING)
    BY DEF RequestType
  <1>5. \/ /\ request.body.root = "map"
           /\ NamesValues(request.body, Required[schema], Optional[schema], checked)
        \/ /\ request.body.root = "array" /\ request.body.syntax = "json"
           /\ ListsValues(request.body, Fields[schema], Required[schema], checked)
    BY <1>1, <1>4, MapNames, ArrayLists
  <1> QED
    BY <1>1, <1>2, <1>3, <1>5, Zenon DEF CarriesDocument

LEMMA CreateDocument ==
    ASSUME request \in RequestType, DeclaredSizeProblem = "none",
           IsPortableBodyOperation(request.method, request.path),
           request.arrival = "whole",
           DecodeProblem(request, "ProfileCreate") = "none", ParseCreate(request.body)
    PROVE  CarriesProfile(request)
  <1>1. Valid(request.body, "ProfileCreate", PersonalFields \cup {"termsAccepted"})
    BY ProfileSchemas, Zenon DEF ParseCreate
  <1>2. CarriesDocument(request, Fields["ProfileCreate"], Required["ProfileCreate"],
                        Optional["ProfileCreate"], PersonalFields \cup {"termsAccepted"})
    BY <1>1, ProfileSchemas, DocumentCarried
  <1> QED
    BY <1>2, ProfileSchemas, Zenon DEF CarriesProfile, CreateOrder

LEMMA UpdateDocument ==
    ASSUME request \in RequestType, DeclaredSizeProblem = "none",
           IsPortableBodyOperation(request.method, request.path),
           request.arrival = "whole",
           DecodeProblem(request, "ProfileUpdate") = "none", ParseUpdate(request.body)
    PROVE  CarriesChange(request)
  <1>1. /\ Valid(request.body, "ProfileUpdate", PersonalFields)
        /\ Keys(request.body, "ProfileUpdate") # {}
    BY ProfileSchemas, Zenon DEF ParseUpdate
  <1>2. /\ CarriesDocument(request, Fields["ProfileUpdate"], Required["ProfileUpdate"],
                           Optional["ProfileUpdate"], PersonalFields)
        /\ HasShape(request.body, "ProfileUpdate")
    BY <1>1, ProfileSchemas, DocumentCarried
  <1>3. CarriesDocument(request, UpdateOrder, {}, PersonalFields \cup {"marketingOptIn"},
                        PersonalFields)
    BY <1>2, ProfileSchemas, Zenon
  <1>4. IF request.body.root = "map" THEN request.body.members # <<>>
        ELSE request.body.items # <<>>
    <2>1. PICK given : given \in Given(request.body, "ProfileUpdate")
      BY <1>1 DEF Keys
    <2>2. CASE request.body.root = "map"
      <3>1. given \in GivenByName(request.body)
        BY <2>1, <2>2 DEF Given, FromArray
      <3>2. DOMAIN request.body.members # {}
        BY <3>1 DEF GivenByName
      <3> QED
        BY <2>2, <3>2
    <2>3. CASE request.body.root # "map"
      <3>1. given \in GivenByPlace(request.body, "ProfileUpdate")
        BY <1>2, <2>1, <2>3 DEF Given, HasShape
      <3>2. DOMAIN request.body.items # {}
        BY <3>1 DEF GivenByPlace
      <3> QED
        BY <2>3, <3>2
    <2> QED
      BY <2>2, <2>3
  <1> QED
    BY <1>3, <1>4 DEF CarriesChange, UpdateOrder

---------------------------------------------------------------------------
(* What the extractors have established when a handler runs.               *)

LEMMA ExtractorFacts ==
    ASSUME NEW h \in Handlers
    PROVE  Len(Extractors[h]) \in 0 .. 4
  <1>1. h \in {"getHealth", "getHello", "createHello", "listItems", "createProfile", "getProfile",
               "updateProfile", "deleteProfile", "getGitHubOwner",
               "listGitHubOwnerRepositories", "getGitHubRepository",
               "listGitHubRepositoryActivity", "listGitHubRepositoryLanguages",
               "listGitHubRepositoryTags", "openapi", "catalog", "index", "guide",
               "swaggerUi", "swaggerRedirect"}
    BY DEF Handlers, Extractors
  <1>2. CASE h \in {"createProfile", "updateProfile"}
    <2>1. Extractors[h] = <<"format", "no_query", "user", "body">>
      BY <1>2 DEF Extractors
    <2> QED
      BY <2>1
  <1>3. CASE h = "getProfile"
    <2>1. Extractors[h] = <<"format", "no_query", "user">>
      BY <1>3 DEF Extractors
    <2> QED
      BY <2>1
  <1>4. CASE h = "deleteProfile"
    <2>1. Extractors[h] = <<"no_query", "user">>
      BY <1>4 DEF Extractors
    <2> QED
      BY <2>1
  <1>5. CASE h \in {"getHealth", "getHello"}
    <2>1. Extractors[h] = <<"format", "no_query">>
      BY <1>5 DEF Extractors
    <2> QED
      BY <2>1
  <1>6. CASE h = "createHello"
    <2>1. Extractors[h] = <<"format", "no_query", "body">>
      BY <1>6 DEF Extractors
    <2> QED
      BY <2>1
  <1>7. CASE h = "listItems"
    <2>1. Extractors[h] = <<"format", "query">>
      BY <1>7 DEF Extractors
    <2> QED
      BY <2>1
  <1>8. CASE h \in {"getGitHubOwner", "getGitHubRepository", "listGitHubRepositoryLanguages"}
    <2>1. Extractors[h] = <<"format", "no_query", "path">>
      BY <1>8 DEF Extractors
    <2> QED
      BY <2>1
  <1>9. CASE h \in {"listGitHubOwnerRepositories", "listGitHubRepositoryActivity",
                    "listGitHubRepositoryTags"}
    <2>1. Extractors[h] = <<"format", "path", "query">>
      BY <1>9 DEF Extractors
    <2> QED
      BY <2>1
  <1>10. CASE h = "openapi"
    <2>1. Extractors[h] = <<"json_format", "no_query">>
      BY <1>10 DEF Extractors
    <2> QED
      BY <2>1
  <1>11. CASE h \in {"catalog", "index", "guide"}
    <2>1. Extractors[h] = <<"no_query">>
      BY <1>11 DEF Extractors
    <2> QED
      BY <2>1
  <1>12. CASE h \in {"swaggerUi", "swaggerRedirect"}
    <2>1. Extractors[h] = <<>>
      BY <1>12 DEF Extractors
    <2> QED
      BY <2>1
  <1> QED
    BY <1>1, <1>2, <1>3, <1>4, <1>5, <1>6, <1>7, <1>8, <1>9, <1>10, <1>11, <1>12

(* A profile handler runs for an authenticated user and without a query,   *)
(* a write with a body that was read whole; no other handler has a user.   *)
LEMMA ReadyFacts ==
    ASSUME IndInv, NEW name \in Handlers, Ready(name)
    PROVE  /\ name \in ProfileHandlers =>
                  user /\ calls = <<"verify">> /\ request.query = <<>>
                       /\ HasBearerToken(request.auth)
           /\ name \notin ProfileHandlers => ~user /\ calls = <<>>
           /\ name \in {"createProfile", "updateProfile"} =>
                  request.arrival = "whole" /\ DeclaredSizeProblem = "none"
                  /\ IsPortableBodyOperation(request.method, request.path)
  <1>1. /\ pc = "extracting" /\ handler = name /\ step = Len(Extractors[name]) + 1
        /\ calls = IF user THEN <<"verify">> ELSE <<>>
        /\ Passed("user") <=> user
        /\ Passed("no_query") => request.query = <<>>
        /\ Passed("body") => request.arrival = "whole"
    BY DEF IndInv, Ready
  <1>2. Len(Extractors[name]) \in 0 .. 4 /\ step - 1 = Len(Extractors[name])
    BY <1>1, ExtractorFacts
  <1>3. \A e : Passed(e) <=> \E i \in 1 .. Len(Extractors[name]) : Extractors[name][i] = e
    BY <1>1, <1>2 DEF Passed
  <1>4. CASE name \in ProfileHandlers
    <2>1. \E i \in 1 .. Len(Extractors[name]) : Extractors[name][i] = "user"
      BY <1>4, ProfileExtractors DEF ProfileHandlers
    <2>2. \E i \in 1 .. Len(Extractors[name]) : Extractors[name][i] = "no_query"
      BY <1>4, ProfileExtractors DEF ProfileHandlers
    <2>3. name \in {"createProfile", "updateProfile"} =>
              \E i \in 1 .. Len(Extractors[name]) : Extractors[name][i] = "body"
      <3>1. SUFFICES ASSUME name \in {"createProfile", "updateProfile"}
                     PROVE  \E i \in 1 .. Len(Extractors[name]) : Extractors[name][i] = "body"
        OBVIOUS
      <3>2. Extractors[name] = <<"format", "no_query", "user", "body">>
        BY <3>1, ProfileExtractors
      <3>3. 4 \in 1 .. Len(Extractors[name]) /\ Extractors[name][4] = "body"
        BY <3>2
      <3> QED
        BY <3>3
    <2>4. user /\ calls = <<"verify">> /\ request.query = <<>>
      BY <1>1, <1>3, <2>1, <2>2
    <2>5. HasBearerToken(request.auth)
      <3>1. Called("verify")
        BY <2>4 DEF Called
      <3> QED
        BY <3>1 DEF IndInv, ProfileCallsChecked
    <2>6. name \in {"createProfile", "updateProfile"} => request.arrival = "whole"
      BY <1>1, <1>3, <2>3
    <2>7. name \in {"createProfile", "updateProfile"} =>
              DeclaredSizeProblem = "none"
              /\ IsPortableBodyOperation(request.method, request.path)
      BY <1>1 DEF IndInv
    <2> QED
      BY <1>4, <2>4, <2>5, <2>6, <2>7
  <1>5. CASE name \notin ProfileHandlers
    <2>1. ~Passed("user")
      BY <1>3, <1>5, UserExtractors
    <2> QED
      BY <1>1, <1>5, <2>1 DEF ProfileHandlers
  <1> QED
    BY <1>4, <1>5

---------------------------------------------------------------------------
(* The kinds of steps.                                                     *)

(* What AnswerTellsEffect asks of an answer a.                             *)
Truthful(a) ==
    /\ a.code \in Successes => "ok" \in acts
    /\ a.code = "profile_not_found" => lost \/ acts \subseteq {"NotFound"}
    /\ a.code = "profile_exists" =>
           "AlreadyExists" \in acts /\ (lost \/ acts = {"AlreadyExists"})
    /\ Status[a.code] \in {400, 401, 406, 413, 415, 422} =>
           acts = {} /\ \A c \in ProfileCalls : ~Called(c)

LEMMA CallsFrame ==
    ASSUME ProfileCallsChecked, request' = request, calls' = calls, user' = user
    PROVE  ProfileCallsChecked'
  <1>1. \A c : Called(c)' <=> Called(c)
    BY DEF Called
  <1>2. HasBearerToken(request.auth)' <=> HasBearerToken(request.auth)
    BY DEF HasBearerToken
  <1>3. CarriesProfile(request)' <=> CarriesProfile(request)
    OBVIOUS
  <1>4. CarriesChange(request)' <=> CarriesChange(request)
    OBVIOUS
  <1> QED
    BY <1>1, <1>2, <1>3, <1>4 DEF ProfileCallsChecked

LEMMA RespondStep ==
    ASSUME IndInv, NEW a, Respond(a), Shaped(a),
           handler \in ProfileHandlers => Truthful(a)
    PROVE  IndInv'
  <1>1. /\ pc' = "answered" /\ answer' = a /\ request' = request /\ handler' = handler
        /\ step' = step /\ user' = user /\ calls' = calls /\ acts' = acts /\ lost' = lost
    BY DEF Respond
  <1>2. TypeOK'
    BY <1>1 DEF IndInv, TypeOK, Shaped
  <1>3. (handler \in {"createProfile", "updateProfile"} =>
           /\ IsPortableBodyOperation(request.method, request.path)
           /\ DeclaredSizeProblem = "none")'
    BY <1>1 DEF IndInv, DeclaredSizeProblem
  <1>4. ProfileCallsChecked'
    BY <1>1, CallsFrame DEF IndInv
  <1>5. AnswerTellsEffect'
    BY <1>1 DEF AnswerTellsEffect, Truthful, Called
  <1>6. /\ (Calling(GitHubCalls) => handler \notin ProfileHandlers)'
        /\ (~Calling(ProfileCalls) => acts = {})'
        /\ (~lost => \A x, y \in acts : x = y)'
        /\ ~Awaiting("verify")'
    BY <1>1 DEF IndInv, Calling, Awaiting
  <1> QED
    BY <1>1, <1>2, <1>3, <1>4, <1>5, <1>6 DEF IndInv

(* A refusal before the store was asked is truthful.                       *)
LEMMA RefusalTruthful ==
    ASSUME IndInv, pc = "extracting" \/ Awaiting("verify"), NEW a, a.code \in Refusals
    PROVE  Truthful(a)
  <1>1. acts = {} /\ calls \in {<<>>, <<"verify">>}
    BY DEF IndInv
  <1>2. \A c \in ProfileCalls : ~Called(c)
    BY <1>1 DEF Called, ProfileCalls
  <1> QED
    BY <1>1, <1>2, RefusalFacts DEF Truthful

LEMMA RefusalStep ==
    ASSUME IndInv, pc = "extracting" \/ Awaiting("verify"), NEW a, Respond(a), Shaped(a),
           a.code \in Refusals
    PROVE  IndInv'
  BY RefusalTruthful, RespondStep

(* An extractor other than the user's is passed.                           *)
LEMMA ProceedStep ==
    ASSUME IndInv, NEW e, Extracting(e), e # "user",
           e = "no_query" => request.query = <<>>,
           e = "body" => request.arrival = "whole",
           Proceed
    PROVE  IndInv'
  <1>1. /\ pc = "extracting" /\ pc' = pc /\ answer' = answer /\ request' = request
        /\ handler' = handler /\ step' = step + 1 /\ user' = user /\ calls' = calls
        /\ acts' = acts /\ lost' = lost
    BY DEF Extracting, Proceed
  <1>2. handler \in Handlers /\ step \in 1 .. 4 /\ step + 1 \in 1 .. Len(Extractors[handler]) + 1
    BY <1>1, ExtractorFacts DEF IndInv, TypeOK, Extracting
  <1>3. TypeOK'
    BY <1>1, <1>2 DEF IndInv, TypeOK
  <1>4. \A x : Passed(x)' <=> (Passed(x) \/ x = e)
    <2>1. 1 .. step' - 1 = (1 .. step - 1) \cup {step}
      BY <1>1, <1>2
    <2>2. Extractors[handler][step] = e
      BY DEF Extracting
    <2> QED
      BY <1>1, <2>1, <2>2 DEF Passed
  <1>5. /\ (Passed("no_query") => request.query = <<>>)'
        /\ (Passed("body") => request.arrival = "whole")'
        /\ (Passed("user") <=> user)'
    BY <1>1, <1>4 DEF IndInv
  <1>6. (handler \in {"createProfile", "updateProfile"} =>
           /\ IsPortableBodyOperation(request.method, request.path)
           /\ DeclaredSizeProblem = "none")'
    BY <1>1 DEF IndInv, DeclaredSizeProblem
  <1>7. ProfileCallsChecked'
    BY <1>1, CallsFrame DEF IndInv
  <1>8. /\ (Calling(GitHubCalls) => handler \notin ProfileHandlers)'
        /\ (~Calling(ProfileCalls) => acts = {})'
        /\ (~lost => \A x, y \in acts : x = y)'
        /\ ~Awaiting("verify")'
    BY <1>1 DEF IndInv, Calling, Awaiting
  <1>9. /\ acts' = {} /\ ~lost' /\ calls' = (IF user' THEN <<"verify">> ELSE <<>>)
        /\ answer' = NoAnswer
    BY <1>1 DEF IndInv
  <1>10. AnswerTellsEffect'
    BY <1>1 DEF AnswerTellsEffect, Answered
  <1> QED
    BY <1>1, <1>2, <1>3, <1>5, <1>6, <1>7, <1>8, <1>9, <1>10 DEF IndInv

(* A call is made: only what depends on the calls is at stake.             *)
LEMMA AwaitStep ==
    ASSUME IndInv, pc = "extracting", NEW c \in Dependencies, Await(c),
           calls' = Append(calls, c),
           c = "verify" => /\ ~user /\ step <= Len(Extractors[handler])
                           /\ Extractors[handler][step] = "user",
           c \in GitHubCalls => handler \notin ProfileHandlers,
           ProfileCallsChecked'
    PROVE  IndInv'
  <1>1. /\ pc' = "waiting" /\ answer' = answer /\ request' = request /\ handler' = handler
        /\ step' = step /\ user' = user /\ acts' = acts /\ lost' = lost
    BY DEF Await
  <1>2. /\ acts = {} /\ ~lost /\ answer = NoAnswer /\ calls \in Seq(Dependencies)
        /\ calls = IF user THEN <<"verify">> ELSE <<>>
        /\ handler \in Handlers /\ step \in 1 .. Len(Extractors[handler]) + 1
        /\ Passed("no_query") => request.query = <<>>
        /\ Passed("body") => request.arrival = "whole"
    BY DEF IndInv, TypeOK
  <1>3. /\ Len(calls') \in 1 .. 2 /\ calls'[Len(calls')] = c
        /\ calls' = IF user THEN <<"verify", c>> ELSE <<c>>
    BY <1>2
  <1>4. TypeOK'
    <2>1. calls' \in Seq(Dependencies) /\ Len(calls') <= 2
      BY <1>2, <1>3
    <2> QED
      BY <1>1, <2>1 DEF IndInv, TypeOK
  <1>5. /\ (Passed("no_query") => request.query = <<>>)'
        /\ (Passed("body") => request.arrival = "whole")'
    BY <1>1, <1>2 DEF Passed
  <1>6. (handler \in {"createProfile", "updateProfile"} =>
           /\ IsPortableBodyOperation(request.method, request.path)
           /\ DeclaredSizeProblem = "none")'
    BY <1>1 DEF IndInv, DeclaredSizeProblem
  <1>7. (Awaiting("verify") =>
           /\ step <= Len(Extractors[handler]) /\ Extractors[handler][step] = "user"
           /\ calls = <<"verify">> /\ ~user /\ acts = {} /\ ~lost)'
    <2>1. SUFFICES ASSUME Awaiting("verify")'
                   PROVE  (/\ step <= Len(Extractors[handler])
                           /\ Extractors[handler][step] = "user"
                           /\ calls = <<"verify">> /\ ~user /\ acts = {} /\ ~lost)'
      OBVIOUS
    <2>2. c = "verify"
      BY <1>3, <2>1 DEF Awaiting
    <2> QED
      BY <1>1, <1>2, <1>3, <2>2
  <1>8. (Calling(GitHubCalls) => handler \notin ProfileHandlers)'
    BY <1>1, <1>3 DEF Calling
  <1>9. AnswerTellsEffect'
    BY <1>1 DEF AnswerTellsEffect, Answered
  <1>10. pc' # "extracting" /\ pc' # "arriving"
    BY <1>1
  <1>11. (/\ handler \in Handlers /\ step \in 1 .. Len(Extractors[handler]) + 1
          /\ answer = NoAnswer)'
    BY <1>1, <1>2
  <1>12. acts' = {}
    BY <1>1, <1>2
  <1> QED
    BY <1>4, <1>5, <1>6, <1>7, <1>8, <1>9, <1>10, <1>11, <1>12 DEF IndInv

LEMMA AwaitVerify ==
    ASSUME IndInv, Extracting("user"), HasBearerToken(request.auth), Await("verify")
    PROVE  IndInv'
  <1>1. /\ pc = "extracting" /\ handler \in Handlers /\ step \in 1 .. 4
        /\ step \in 1 .. Len(Extractors[handler]) /\ Extractors[handler][step] = "user"
    BY ExtractorFacts DEF IndInv, Extracting
  <1>2. ~Passed("user")
    BY <1>1, UserExtractors DEF Passed
  <1>3. ~user /\ calls = <<>>
    BY <1>1, <1>2 DEF IndInv
  <1>4. Passed("no_query")
    <2>1. step - 1 \in 1 .. Len(Extractors[handler]) /\ Extractors[handler][step - 1] = "no_query"
      BY <1>1, UserExtractors
    <2>2. step - 1 \in 1 .. step - 1
      BY <1>1, <2>1
    <2> QED
      BY <2>1, <2>2 DEF Passed
  <1>5. request.query = <<>>
    BY <1>1, <1>4 DEF IndInv
  <1>6. calls' = <<"verify">> /\ calls' = Append(calls, "verify") /\ request' = request
    BY <1>3 DEF Await
  <1>7. \A c : Called(c)' <=> c = "verify"
    BY <1>6 DEF Called
  <1>8. HasBearerToken(request.auth)'
    BY <1>6 DEF HasBearerToken
  <1>9. ProfileCallsChecked'
    BY <1>5, <1>6, <1>7, <1>8 DEF ProfileCallsChecked, ProfileCalls
  <1>10. "verify" \in Dependencies /\ "verify" \notin GitHubCalls
    BY DEF Dependencies, GitHubCalls
  <1> QED
    BY <1>1, <1>3, <1>6, <1>9, <1>10, AwaitStep

LEMMA AppendPair ==
    ASSUME NEW S, NEW a \in S, NEW c \in S
    PROVE  Append(<<a>>, c) = <<a, c>>
  <1>1. <<a>> \in Seq(S)
    OBVIOUS
  <1>2. /\ Append(<<a>>, c) \in Seq(S) /\ Len(Append(<<a>>, c)) = 2
        /\ Append(<<a>>, c)[1] = a /\ Append(<<a>>, c)[2] = c
    BY <1>1, AppendProperties
  <1>3. /\ <<a, c>> \in Seq(S) /\ Len(<<a, c>>) = 2
        /\ <<a, c>>[1] = a /\ <<a, c>>[2] = c
    OBVIOUS
  <1>4. \A i \in 1 .. Len(<<a, c>>) : <<a, c>>[i] = Append(<<a>>, c)[i]
    BY <1>2, <1>3
  <1> QED
    BY <1>2, <1>3, <1>4, SeqEqual

LEMMA AwaitProfile ==
    ASSUME IndInv, NEW name \in ProfileHandlers, Ready(name), NEW c \in ProfileCalls, Await(c),
           c = "profile.create" => CarriesProfile(request),
           c = "profile.update" => CarriesChange(request)
    PROVE  IndInv'
  <1>1. name \in Handlers
    BY DEF ProfileHandlers, Handlers, Extractors
  <1>2. user /\ calls = <<"verify">> /\ request.query = <<>> /\ HasBearerToken(request.auth)
    BY <1>1, ReadyFacts
  <1>3. /\ calls' = <<"verify", c>> /\ calls' = Append(calls, c) /\ request' = request
        /\ user' = user
    <2>1. Append(<<"verify">>, c) = <<"verify", c>>
      <3>1. <<"verify">> \in Seq(Dependencies) /\ c \in Dependencies
        BY DEF Dependencies
      <3> QED
        BY <3>1, AppendPair
    <2>2. calls' = Append(calls, c) /\ request' = request /\ user' = user
      BY DEF Await
    <2> QED
      BY <1>2, <2>1, <2>2
  <1>4. \A x : Called(x)' <=> x \in {"verify", c}
    BY <1>3 DEF Called
  <1>5. HasBearerToken(request.auth)'
    BY <1>2, <1>3 DEF HasBearerToken
  <1>6. \A x \in ProfileCalls : Called(x)' => x = c
    BY <1>4 DEF ProfileCalls
  <1>7. ProfileCallsChecked'
    <2>1. \A x \in ProfileCalls \cup {"verify"} : Called(x)' =>
             request'.query = <<>> /\ HasBearerToken(request.auth)'
      BY <1>2, <1>3, <1>5
    <2>2. \A x \in ProfileCalls : Called(x)' => user' /\ calls' = <<"verify", x>>
      BY <1>2, <1>3, <1>6
    <2>3. Called("profile.create")' => CarriesProfile(request)'
      BY <1>3, <1>6 DEF ProfileCalls
    <2>4. Called("profile.update")' => CarriesChange(request)'
      BY <1>3, <1>6 DEF ProfileCalls
    <2> QED
      BY <2>1, <2>2, <2>3, <2>4 DEF ProfileCallsChecked
  <1>8. c \in Dependencies /\ c # "verify" /\ c \notin GitHubCalls
    BY DEF Dependencies, ProfileCalls, GitHubCalls
  <1>9. pc = "extracting"
    BY DEF Ready
  <1> QED
    BY <1>3, <1>7, <1>8, <1>9, AwaitStep

LEMMA AwaitGitHub ==
    ASSUME IndInv, NEW name \in Handlers \ ProfileHandlers, Ready(name),
           NEW c \in GitHubCalls, Await(c)
    PROVE  IndInv'
  <1>1. ~user /\ calls = <<>>
    BY ReadyFacts
  <1>2. calls' = <<c>> /\ calls' = Append(calls, c)
    BY <1>1 DEF Await
  <1>3. c \in Dependencies /\ c # "verify" /\ c \notin ProfileCalls
    BY DEF Dependencies, ProfileCalls, GitHubCalls
  <1>4. \A x \in ProfileCalls \cup {"verify"} : ~Called(x)'
    BY <1>2, <1>3 DEF Called
  <1>5. ProfileCallsChecked'
    BY <1>4 DEF ProfileCallsChecked, ProfileCalls
  <1>6. pc = "extracting" /\ handler \notin ProfileHandlers
    BY DEF Ready
  <1> QED
    BY <1>2, <1>3, <1>5, <1>6, AwaitStep

---------------------------------------------------------------------------
(* The steps.                                                              *)

LEMMA InitIndInv == Init => IndInv
  <1> SUFFICES ASSUME Init PROVE IndInv
    OBVIOUS
  <1>1. TypeOK
    <2>1. request \in RequestType
      BY RequestsAssumption DEF Init
    <2>2. calls \in Seq(Dependencies) /\ Len(calls) <= 2
      BY DEF Init
    <2>3. step \in 0 .. 5 /\ handler \in Handlers \cup {"none"}
          /\ acts \subseteq {"ok", "NotFound", "AlreadyExists"}
      BY SMT DEF Init
    <2>6. user \in BOOLEAN /\ lost \in BOOLEAN
      BY Zenon DEF Init
    <2>4. DOMAIN answer = DOMAIN NoAnswer /\ answer.code = "none"
      BY DEF Init, NoAnswer
    <2>5. pc = "arriving"
      BY DEF Init
    <2> QED
      BY <2>1, <2>2, <2>3, <2>4, <2>5, <2>6 DEF TypeOK
  <1>2. ~Calling(GitHubCalls) /\ ~Awaiting("verify") /\ \A c : ~Called(c)
    BY DEF Init, Calling, Awaiting, Called
  <1>3. ProfileCallsChecked
    BY <1>2 DEF ProfileCallsChecked
  <1>4. AnswerTellsEffect
    BY DEF Init, AnswerTellsEffect, Answered
  <1> QED
    BY <1>1, <1>2, <1>3, <1>4 DEF Init, IndInv

LEMMA StutterIndInv == IndInv /\ UNCHANGED vars => IndInv'
  <1> SUFFICES ASSUME IndInv, UNCHANGED vars PROVE IndInv'
    OBVIOUS
  <1>1. /\ pc' = pc /\ answer' = answer /\ request' = request /\ handler' = handler
        /\ step' = step /\ user' = user /\ calls' = calls /\ acts' = acts /\ lost' = lost
    BY DEF vars
  <1>2. TypeOK'
    BY <1>1 DEF IndInv, TypeOK
  <1>3. ProfileCallsChecked'
    BY <1>1, CallsFrame DEF IndInv
  <1>4. AnswerTellsEffect'
    BY <1>1 DEF IndInv, AnswerTellsEffect, Answered, Called
  <1>5. (handler \in {"createProfile", "updateProfile"} =>
           /\ IsPortableBodyOperation(request.method, request.path)
           /\ DeclaredSizeProblem = "none")'
    BY <1>1 DEF IndInv, DeclaredSizeProblem
  <1>6. \A x : Passed(x)' <=> Passed(x)
    BY <1>1 DEF Passed
  <1>7. /\ (Calling(GitHubCalls) => handler \notin ProfileHandlers)'
        /\ (~Calling(ProfileCalls) => acts = {})'
        /\ (~lost => \A x, y \in acts : x = y)'
        /\ Awaiting("verify")' <=> Awaiting("verify")
    BY <1>1 DEF IndInv, Calling, Awaiting
  <1>8. (pc = "arriving" =>
           /\ handler = "none" /\ calls = <<>> /\ acts = {} /\ ~lost /\ ~user
           /\ answer = NoAnswer)'
    BY <1>1 DEF IndInv
  <1>9. (pc \in {"extracting", "waiting"} =>
           /\ handler \in Handlers /\ step \in 1 .. Len(Extractors[handler]) + 1
           /\ answer = NoAnswer
           /\ Passed("no_query") => request.query = <<>>
           /\ Passed("body") => request.arrival = "whole")'
    BY <1>1, <1>6 DEF IndInv
  <1>10. (pc = "extracting" =>
           /\ acts = {} /\ ~lost
           /\ calls = IF user THEN <<"verify">> ELSE <<>>
           /\ Passed("user") <=> user)'
    BY <1>1, <1>6 DEF IndInv
  <1>11. (Awaiting("verify") =>
           /\ step <= Len(Extractors[handler]) /\ Extractors[handler][step] = "user"
           /\ calls = <<"verify">> /\ ~user /\ acts = {} /\ ~lost)'
    BY <1>1, <1>7 DEF IndInv
  <1> QED
    BY <1>2, <1>3, <1>4, <1>5, <1>7, <1>8, <1>9, <1>10, <1>11 DEF IndInv

LEMMA RoutesToHandlers == \A route \in Routes : route.handler \in Handlers
  <1> SUFFICES ASSUME NEW route \in Routes PROVE route.handler \in Handlers
    OBVIOUS
  <1> DEFINE names == {"getHealth", "getHello", "createHello", "listItems", "createProfile",
                       "getProfile", "updateProfile", "deleteProfile", "getGitHubOwner",
                       "listGitHubOwnerRepositories", "getGitHubRepository",
                       "listGitHubRepositoryActivity", "listGitHubRepositoryLanguages",
                       "listGitHubRepositoryTags", "openapi", "catalog", "index", "guide",
                       "swaggerUi", "swaggerRedirect"}
  <1>1. names \subseteq Handlers
    BY DEF Handlers, Extractors
  <1> HIDE DEF names
  <1>2. \A r \in GitHubRouter : r.handler \in names
    BY RouteHandler DEF GitHubRouter, names
  <1>3. \A r \in HelloRouter \cup ItemsRouter \cup ProfileRouter : r.handler \in names
    BY RouteHandler DEF HelloRouter, ItemsRouter, ProfileRouter, names
  <1>4. \A r \in DocsRouter \cup DiscoveryRouter \cup SwaggerRouter : r.handler \in names
    BY RouteHandler, SwaggerNames DEF DocsRouter, DiscoveryRouter, names
  <1>5. Route(<<"health">>, "GET", "getHealth").handler \in names
    BY RouteHandler DEF names
  <1> QED
    BY <1>1, <1>2, <1>3, <1>4, <1>5 DEF Routes, V1Router

LEMMA DispatchStep ==
    ASSUME IndInv, Dispatch
    PROVE  IndInv'
  <1>1. /\ pc = "arriving" /\ DeclaredSizeProblem = "none"
        /\ pc' = "extracting" /\ answer' = answer /\ request' = request /\ step' = 1
        /\ user' = user /\ calls' = calls /\ acts' = acts /\ lost' = lost
    BY DEF Dispatch, Admitted
  <1>2. PICK route \in Serving(request.path, request.method) : handler' = route.handler
    BY DEF Dispatch
  <1>3. handler' \in Handlers
    BY <1>2, RoutesToHandlers DEF Serving, RoutesAt
  <1>4. Len(Extractors[handler']) \in 0 .. 4
    BY <1>3, ExtractorFacts
  <1>5. TypeOK'
    BY <1>1, <1>3 DEF IndInv, TypeOK
  <1>6. handler' \in {"createProfile", "updateProfile"} =>
           IsPortableBodyOperation(request.method, request.path)
    <2>1. request.path \in Seq(STRING) /\ request.method \in Methods
      BY DEF IndInv, TypeOK, RequestType
    <2> QED
      BY <1>2, <2>1, WriteRoutes
  <1>7. (handler \in {"createProfile", "updateProfile"} =>
           /\ IsPortableBodyOperation(request.method, request.path)
           /\ DeclaredSizeProblem = "none")'
    BY <1>1, <1>6 DEF DeclaredSizeProblem
  <1>8. \A x : ~Passed(x)'
    BY <1>1 DEF Passed
  <1>9. ProfileCallsChecked'
    BY <1>1, CallsFrame DEF IndInv
  <1>10. AnswerTellsEffect' /\ ~Awaiting("verify")'
    BY <1>1 DEF AnswerTellsEffect, Answered, Awaiting
  <1>11. calls = <<>> /\ acts = {} /\ ~lost /\ ~user /\ answer = NoAnswer
    BY <1>1 DEF IndInv
  <1>12. ~Calling(GitHubCalls)'
    BY <1>1, <1>11 DEF Calling
  <1> QED
    BY <1>1, <1>3, <1>4, <1>5, <1>7, <1>8, <1>9, <1>10, <1>11, <1>12 DEF IndInv

(* What answers before the router.                                         *)
LEMMA ArrivingStep ==
    ASSUME IndInv,
           \/ PortableHeadRejection \/ DeclaredBodySizeRejection
           \/ NotFoundHandler \/ MethodNotAllowedHandler
    PROVE  IndInv'
  <1>1. pc = "arriving"
    BY DEF PortableHeadRejection, DeclaredBodySizeRejection, NotFoundHandler,
           MethodNotAllowedHandler, Admitted
  <1>2. handler \notin ProfileHandlers
    BY <1>1 DEF IndInv, ProfileHandlers
  <1>3. DeclaredSizeProblem \in {"none", "invalid_request", "payload_too_large"}
    BY DEF DeclaredSizeProblem
  <1>4. \E a : Respond(a) /\ Shaped(a)
    <2>1. CASE PortableHeadRejection \/ MethodNotAllowedHandler
      BY <2>1, NotAllowedShape DEF PortableHeadRejection, MethodNotAllowedHandler
    <2>2. CASE DeclaredBodySizeRejection
      <3>1. DeclaredSizeProblem \in DOMAIN Status
        BY <1>3, <2>2, StatusFacts DEF DeclaredBodySizeRejection
      <3> QED
        BY <2>2, <3>1, ProblemShapes DEF DeclaredBodySizeRejection
    <2>3. CASE NotFoundHandler
      BY <2>3, ProblemShapes, StatusFacts DEF NotFoundHandler
    <2> QED
      BY <2>1, <2>2, <2>3
  <1> QED
    BY <1>2, <1>4, RespondStep

LEMMA ExtractorStep ==
    ASSUME IndInv,
           \/ NegotiateFormat \/ NegotiateJsonFormat \/ RefuseQuery \/ ReadQuery \/ ReadPath
           \/ BufferBody
    PROVE  IndInv'
  <1> DEFINE Refused(code) ==
                 \/ Respond(Problem(code)) \/ Respond(ProblemForPath(code))
             Passes(e) == /\ Extracting(e) /\ Proceed
                          /\ e = "no_query" => request.query = <<>>
                          /\ e = "body" => request.arrival = "whole"
  <1>1. \/ \E code \in {"not_acceptable", "invalid_request", "payload_too_large"} : Refused(code)
        \/ \E e \in {"format", "json_format", "no_query", "query", "path", "body"} : Passes(e)
    <2>1. CASE NegotiateFormat
      BY <2>1 DEF NegotiateFormat
    <2>2. CASE NegotiateJsonFormat
      BY <2>2 DEF NegotiateJsonFormat
    <2>3. CASE RefuseQuery
      BY <2>3 DEF RefuseQuery
    <2>4. CASE ReadQuery
      BY <2>4 DEF ReadQuery
    <2>5. CASE ReadPath
      BY <2>5 DEF ReadPath
    <2>6. CASE BufferBody
      BY <2>6 DEF BufferBody
    <2> QED
      BY <2>1, <2>2, <2>3, <2>4, <2>5, <2>6
  <1>2. pc = "extracting"
    BY DEF NegotiateFormat, NegotiateJsonFormat, RefuseQuery, ReadQuery, ReadPath, BufferBody,
           Extracting
  <1>3. ASSUME NEW code \in {"not_acceptable", "invalid_request", "payload_too_large"},
               Refused(code)
        PROVE  IndInv'
    <2>1. code \in DOMAIN Status /\ code \in Refusals
      BY StatusFacts DEF Refusals
    <2>2. /\ Shaped(Problem(code)) /\ Problem(code).code = code
          /\ Shaped(ProblemForPath(code)) /\ ProblemForPath(code).code = code
      BY <2>1, ProblemShapes
    <2> QED
      BY <1>2, <1>3, <2>1, <2>2, RefusalStep
  <1>4. ASSUME NEW e \in {"format", "json_format", "no_query", "query", "path", "body"}, Passes(e)
        PROVE  IndInv'
    BY <1>4, ProceedStep
  <1> QED
    BY <1>1, <1>3, <1>4

LEMMA AuthenticateStep ==
    ASSUME IndInv, Authenticate
    PROVE  IndInv'
  <1>1. Extracting("user") /\ pc = "extracting"
    BY DEF Authenticate, Extracting
  <1>2. CASE Respond(Unauthorized)
    <2>1. "unauthorized" \in Refusals
      BY DEF Refusals
    <2> QED
      BY <1>1, <1>2, <2>1, UnauthorizedShape, RefusalStep
  <1>3. CASE HasBearerToken(request.auth) /\ Await("verify")
    BY <1>1, <1>3, AwaitVerify
  <1> QED
    BY <1>2, <1>3 DEF Authenticate

LEMMA VerifierStep ==
    ASSUME IndInv, VerifierAnswers
    PROVE  IndInv'
  <1>1. Awaiting("verify") /\ pc = "waiting"
    BY DEF VerifierAnswers, Awaiting
  <1>2. ASSUME NEW error \in AuthErrors, Respond(MapAuthError(error))
        PROVE  IndInv'
    <2>1. /\ Shaped(Problem("dependency_unavailable"))
          /\ Problem("dependency_unavailable").code = "dependency_unavailable"
      BY StatusFacts, ProblemShapes
    <2>2. Shaped(MapAuthError(error)) /\ MapAuthError(error).code \in Refusals
      BY <2>1, UnauthorizedShape DEF MapAuthError, Refusals
    <2> QED
      BY <1>1, <1>2, <2>2, RefusalStep
  <1>3. CASE /\ pc' = "extracting" /\ step' = step + 1 /\ user' = TRUE
             /\ UNCHANGED <<request, handler, format, calls, acts, lost, answer>>
    <2>1. /\ handler \in Handlers /\ step \in 1 .. Len(Extractors[handler]) + 1
          /\ step <= Len(Extractors[handler]) /\ Extractors[handler][step] = "user"
          /\ calls = <<"verify">> /\ ~user /\ acts = {} /\ ~lost /\ answer = NoAnswer
      BY <1>1 DEF IndInv
    <2>2. step \in 1 .. 4 /\ step' \in 1 .. Len(Extractors[handler]) + 1
      BY <1>3, <2>1, ExtractorFacts
    <2>3. TypeOK'
      BY <1>3, <2>2 DEF IndInv, TypeOK
    <2>4. \A x : Passed(x)' <=> (Passed(x) \/ x = "user")
      <3>1. 1 .. step' - 1 = (1 .. step - 1) \cup {step}
        BY <1>3, <2>2
      <3> QED
        BY <1>3, <2>1, <3>1 DEF Passed
    <2>5. /\ (Passed("no_query") => request.query = <<>>)'
          /\ (Passed("body") => request.arrival = "whole")'
          /\ Passed("user")'
      BY <1>1, <1>3, <2>4 DEF IndInv
    <2>6. (handler \in {"createProfile", "updateProfile"} =>
             /\ IsPortableBodyOperation(request.method, request.path)
             /\ DeclaredSizeProblem = "none")'
      BY <1>3 DEF IndInv, DeclaredSizeProblem
    <2>7. ProfileCallsChecked'
      <3>1. \A x : Called(x)' <=> x = "verify"
        BY <1>3, <2>1 DEF Called
      <3>2. Called("verify")
        BY <2>1 DEF Called
      <3>3. request.query = <<>> /\ HasBearerToken(request.auth)
        BY <3>2 DEF IndInv, ProfileCallsChecked
      <3>4. HasBearerToken(request.auth)'
        BY <1>3, <3>3 DEF HasBearerToken
      <3> QED
        BY <1>3, <3>1, <3>3, <3>4 DEF ProfileCallsChecked, ProfileCalls
    <2>8. AnswerTellsEffect' /\ ~Awaiting("verify")'
      BY <1>3 DEF AnswerTellsEffect, Answered, Awaiting
    <2>9. ~Calling(GitHubCalls)'
      BY <1>3, <2>1 DEF Calling, GitHubCalls
    <2> QED
      BY <1>3, <2>1, <2>2, <2>3, <2>5, <2>6, <2>7, <2>8, <2>9 DEF IndInv
  <1> QED
    BY <1>2, <1>3 DEF VerifierAnswers

(* The handlers that ask no dependency.                                    *)
LEMMA PlainHandlerStep ==
    ASSUME IndInv,
           \/ HealthHandler \/ GetHelloHandler \/ CreateHelloHandler \/ OpenapiHandler
           \/ CatalogHandler \/ IndexHandler \/ GuideHandler \/ SwaggerHandler
           \/ ListItemsHandler
    PROVE  IndInv'
  <1>1. handler \notin ProfileHandlers
    BY DEF ProfileHandlers, HealthHandler, GetHelloHandler, CreateHelloHandler, OpenapiHandler,
           CatalogHandler, IndexHandler, GuideHandler, DocumentHandler, SwaggerHandler,
           ListItemsHandler, Ready
  <1>2. request \in RequestType
    BY DEF IndInv, TypeOK
  <1>3. \E a : Respond(a) /\ Shaped(a)
    <2>1. CASE HealthHandler \/ GetHelloHandler \/ OpenapiHandler
      BY <2>1, SuccessShapes, StatusFacts DEF HealthHandler, GetHelloHandler, OpenapiHandler
    <2>2. CASE CreateHelloHandler
      <3> DEFINE problem == DecodeProblem(request, "HelloCreate")
                 a == IF problem # "none" THEN Problem(problem)
                      ELSE IF ~Valid(request.body, "HelloCreate", {"name"})
                      THEN Problem("validation_failed")
                      ELSE Success("ok", {})
      <3>1. Respond(a)
        BY <2>2 DEF CreateHelloHandler
      <3>2. problem # "none" => problem \in DOMAIN Status
        BY <1>2, DecodeProblemRange, RefusalFacts
      <3> HIDE DEF problem
      <3>3. Shaped(Problem("validation_failed")) /\ Shaped(Success("ok", {}))
        BY ProblemShapes, SuccessShapes, StatusFacts
      <3>4. Shaped(a)
        BY <3>2, <3>3, ProblemShapes
      <3> QED
        BY <3>1, <3>4
    <2>3. ASSUME NEW name, NEW target, NEW media, DocumentHandler(name, target, media)
          PROVE  \E a : Respond(a) /\ Shaped(a)
      BY <2>3, ProblemShape, SuccessShapes, StatusFacts DEF DocumentHandler
    <2>4. CASE CatalogHandler \/ IndexHandler \/ GuideHandler
      BY <2>3, <2>4 DEF CatalogHandler, IndexHandler, GuideHandler
    <2>5. CASE SwaggerHandler
      <3>1. \A media : Shaped(SwaggerFile(media))
        BY StatusFacts DEF Shaped, NoAnswer, SwaggerFile
      <3>2. /\ Shaped([NoAnswer EXCEPT !.code = "no_such_file"])
            /\ Shaped([NoAnswer EXCEPT !.code = "redirect"])
        BY StatusFacts DEF Shaped, NoAnswer
      <3>3. \A file \in SwaggerFiles(request.path) : Shaped(file)
        BY <3>1, <3>2, Zenon DEF SwaggerFiles
      <3> QED
        BY <2>5, <3>2, <3>3, Zenon DEF SwaggerHandler
    <2>6. CASE ListItemsHandler
      <3> DEFINE problem == ItemsQueryProblem(request.query)
      <3>1. PICK links : Respond(IF problem # "none" THEN Problem(problem)
                                 ELSE Success("ok", links))
        BY <2>6 DEF ListItemsHandler
      <3>2. problem # "none" => problem \in DOMAIN Status
        BY StatusFacts DEF ItemsQueryProblem
      <3> HIDE DEF problem
      <3>3. Shaped(Success("ok", links))
        BY SuccessShapes, StatusFacts
      <3>4. Shaped(IF problem # "none" THEN Problem(problem) ELSE Success("ok", links))
        BY <3>2, <3>3, ProblemShapes
      <3> QED
        BY <3>1, <3>4
    <2> QED
      BY <2>1, <2>2, <2>4, <2>5, <2>6
  <1> QED
    BY <1>1, <1>3, RespondStep

(* The answer of the profile service, and what the handler makes of it.    *)
LEMMA ProfileAnswerStep ==
    ASSUME IndInv, NEW call \in ProfileCalls, NEW success,
           Shaped(success), success.code \in Successes,
           ProfileServiceAnswers(call, success)
    PROVE  IndInv'
  <1>1. lost \/ \A x, y \in acts : x = y
    BY DEF IndInv
  <1>2. CASE "ok" \in acts /\ Respond(success)
    <2>1. Truthful(success)
      BY <1>2, StatusFacts DEF Truthful, Successes, Status
    <2> QED
      BY <1>2, <2>1, RespondStep
  <1>3. ASSUME NEW error \in ProfileErrors,
               error = "NotFound" => error \in acts \/ acts = {} \/ lost,
               error = "AlreadyExists" => error \in acts,
               Respond(MapProfileError(error))
        PROVE  IndInv'
    <2>1. \A code \in {"profile_not_found", "profile_exists", "dependency_unavailable",
                      "internal_error"} : Shaped(Problem(code)) /\ Problem(code).code = code
      BY ProblemShapes, StatusFacts
    <2>2. Shaped(MapProfileError(error))
          /\ MapProfileError(error).code =
                (CASE error = "NotFound"      -> "profile_not_found"
                   [] error = "AlreadyExists" -> "profile_exists"
                   [] error = "Unavailable"   -> "dependency_unavailable"
                   [] error = "Backend"       -> "internal_error")
      BY <2>1 DEF MapProfileError, ProfileErrors
    <2>3. Truthful(MapProfileError(error))
      <3> DEFINE code == MapProfileError(error).code
      <3>1. CASE error = "NotFound"
        <4>1. code = "profile_not_found"
          BY <2>2, <3>1
        <4>2. lost \/ acts \subseteq {"NotFound"}
          BY <1>1, <1>3, <3>1
        <4> QED
          BY <4>1, <4>2, StatusFacts DEF Truthful, Successes
      <3>2. CASE error = "AlreadyExists"
        <4>1. code = "profile_exists" /\ "AlreadyExists" \in acts
          BY <1>3, <2>2, <3>2
        <4>2. lost \/ acts = {"AlreadyExists"}
          BY <1>1, <4>1
        <4> QED
          BY <4>1, <4>2, StatusFacts DEF Truthful, Successes
      <3>3. CASE error \in {"Unavailable", "Backend"}
        <4>1. code \in {"dependency_unavailable", "internal_error"}
          BY <2>2, <3>3
        <4> QED
          BY <4>1, StatusFacts DEF Truthful, Successes
      <3> QED
        BY <3>1, <3>2, <3>3 DEF ProfileErrors
    <2> QED
      BY <1>3, <2>2, <2>3, RespondStep
  <1> QED
    BY <1>2, <1>3 DEF ProfileServiceAnswers

LEMMA ProfileHandlerStep ==
    ASSUME IndInv,
           \/ CreateProfileHandler \/ GetProfileHandler
           \/ UpdateProfileHandler \/ DeleteProfileHandler
    PROVE  IndInv'
  <1>1. /\ Shaped(Success("created", {"Location"})) /\ Shaped(Success("ok", {}))
        /\ Shaped(NoContent)
        /\ Success("created", {"Location"}).code = "created" /\ Success("ok", {}).code = "ok"
        /\ NoContent.code = "no_content"
    <2>1. "created" \in DOMAIN Status /\ "ok" \in DOMAIN Status
      BY StatusFacts
    <2>2. Shaped(Success("created", {"Location"}))
          /\ Success("created", {"Location"}).code = "created"
      BY <2>1, SuccessShapes
    <2>3. Shaped(Success("ok", {})) /\ Success("ok", {}).code = "ok"
      BY <2>1, SuccessShapes
    <2>4. Shaped(NoContent) /\ NoContent.code = "no_content"
      BY <2>1, SuccessShapes
    <2> QED
      BY <2>2, <2>3, <2>4
  <1>2. {"created", "ok", "no_content"} \subseteq Successes
    BY DEF Successes
  <1>3. {"profile.create", "profile.get", "profile.update", "profile.delete"}
            \subseteq ProfileCalls
    BY DEF ProfileCalls
  <1>4. /\ "createProfile" \in ProfileHandlers /\ "getProfile" \in ProfileHandlers
        /\ "updateProfile" \in ProfileHandlers /\ "deleteProfile" \in ProfileHandlers
        /\ ProfileHandlers \subseteq Handlers
    BY DEF ProfileHandlers, Handlers, Extractors
  <1>5. request \in RequestType
    BY DEF IndInv, TypeOK
  <1>6. ASSUME NEW code, code \in Refusals, pc = "extracting", Respond(Problem(code))
        PROVE  IndInv'
    BY <1>6, RefusalFacts, ProblemShapes, RefusalStep
  <1>7. "validation_failed" \in Refusals
    BY DEF Refusals
  <1>8. CASE CreateProfileHandler
    <2> DEFINE problem == DecodeProblem(request, "ProfileCreate")
    <2>1. CASE ProfileServiceAnswers("profile.create", Success("created", {"Location"}))
      BY <1>1, <1>2, <1>3, <2>1, ProfileAnswerStep
    <2>2. CASE /\ Ready("createProfile")
               /\ IF problem # "none" THEN Respond(Problem(problem))
                  ELSE IF ~ParseCreate(request.body) THEN Respond(Problem("validation_failed"))
                  ELSE Await("profile.create")
      <3>1. pc = "extracting" /\ problem \in Refusals \cup {"none"}
        BY <1>5, <2>2, DecodeProblemRange DEF Ready
      <3>2. CASE problem # "none" \/ ~ParseCreate(request.body)
        <4> HIDE DEF problem
        <4> QED
          BY <1>6, <1>7, <2>2, <3>1, <3>2
      <3>3. CASE problem = "none" /\ ParseCreate(request.body)
        <4>1. /\ request.arrival = "whole" /\ DeclaredSizeProblem = "none"
              /\ IsPortableBodyOperation(request.method, request.path)
          BY <1>4, <2>2, ReadyFacts
        <4>2. CarriesProfile(request)
          BY <1>5, <3>3, <4>1, CreateDocument
        <4>3. Await("profile.create") /\ Ready("createProfile")
          BY <2>2, <3>3
        <4> QED
          BY <1>3, <1>4, <4>2, <4>3, AwaitProfile
      <3> QED
        BY <3>2, <3>3
    <2> QED
      BY <1>8, <2>1, <2>2 DEF CreateProfileHandler
  <1>9. CASE GetProfileHandler
    <2>1. CASE ProfileServiceAnswers("profile.get", Success("ok", {}))
      BY <1>1, <1>2, <1>3, <2>1, ProfileAnswerStep
    <2>2. CASE Ready("getProfile") /\ Await("profile.get")
      BY <1>3, <1>4, <2>2, AwaitProfile
    <2> QED
      BY <1>9, <2>1, <2>2 DEF GetProfileHandler
  <1>10. CASE UpdateProfileHandler
    <2> DEFINE problem == DecodeProblem(request, "ProfileUpdate")
    <2>1. CASE ProfileServiceAnswers("profile.update", Success("ok", {}))
      BY <1>1, <1>2, <1>3, <2>1, ProfileAnswerStep
    <2>2. CASE /\ Ready("updateProfile")
               /\ IF problem # "none" THEN Respond(Problem(problem))
                  ELSE IF ~ParseUpdate(request.body) THEN Respond(Problem("validation_failed"))
                  ELSE Await("profile.update")
      <3>1. pc = "extracting" /\ problem \in Refusals \cup {"none"}
        BY <1>5, <2>2, DecodeProblemRange DEF Ready
      <3>2. CASE problem # "none" \/ ~ParseUpdate(request.body)
        <4> HIDE DEF problem
        <4> QED
          BY <1>6, <1>7, <2>2, <3>1, <3>2
      <3>3. CASE problem = "none" /\ ParseUpdate(request.body)
        <4>1. /\ request.arrival = "whole" /\ DeclaredSizeProblem = "none"
              /\ IsPortableBodyOperation(request.method, request.path)
          BY <1>4, <2>2, ReadyFacts
        <4>2. CarriesChange(request)
          BY <1>5, <3>3, <4>1, UpdateDocument
        <4>3. Await("profile.update") /\ Ready("updateProfile")
          BY <2>2, <3>3
        <4> QED
          BY <1>3, <1>4, <4>2, <4>3, AwaitProfile
      <3> QED
        BY <3>2, <3>3
    <2> QED
      BY <1>10, <2>1, <2>2 DEF UpdateProfileHandler
  <1>11. CASE DeleteProfileHandler
    <2>1. CASE ProfileServiceAnswers("profile.delete", NoContent)
      BY <1>1, <1>2, <1>3, <2>1, ProfileAnswerStep
    <2>2. CASE Ready("deleteProfile") /\ Await("profile.delete")
      BY <1>3, <1>4, <2>2, AwaitProfile
    <2> QED
      BY <1>11, <2>1, <2>2 DEF DeleteProfileHandler
  <1> QED
    BY <1>8, <1>9, <1>10, <1>11

(* The store executes the call, possibly after its handler gave up.        *)
LEMMA StoreStep ==
    ASSUME IndInv, StoreExecutes
    PROVE  IndInv'
  <1>1. /\ Calling(ProfileCalls)
        /\ request' = request /\ pc' = pc /\ handler' = handler /\ step' = step
        /\ user' = user /\ calls' = calls /\ lost' = lost /\ answer' = answer
    BY DEF StoreExecutes
  <1>2. PICK outcome \in {"ok", "NotFound", "AlreadyExists"} : acts' = acts \cup {outcome}
    BY DEF StoreExecutes, Outcomes
  <1>3. acts = {} \/ lost
    BY DEF StoreExecutes
  <1>4. pc # "arriving" /\ pc # "extracting"
    <2>1. calls # <<>> /\ calls[Len(calls)] \in ProfileCalls
      BY <1>1 DEF Calling
    <2>2. calls # <<"verify">>
      BY <2>1 DEF ProfileCalls
    <2> QED
      BY <2>1, <2>2 DEF IndInv
  <1>5. ~Awaiting("verify") /\ ~Awaiting("verify")'
    BY <1>1 DEF Calling, Awaiting, ProfileCalls
  <1>6. TypeOK'
    BY <1>1, <1>2 DEF IndInv, TypeOK
  <1>7. ProfileCallsChecked'
    BY <1>1, CallsFrame DEF IndInv
  <1>8. AnswerTellsEffect'
    <2>1. CASE pc = "waiting" \/ pc = "dropped"
      BY <1>1, <2>1 DEF AnswerTellsEffect, Answered
    <2>2. CASE answer.code \in {"dependency_unavailable", "internal_error"}
      BY <1>1, <2>2, StatusFacts DEF AnswerTellsEffect, Successes
    <2> QED
      BY <2>1, <2>2 DEF StoreExecutes, GaveUp
  <1>9. (handler \in {"createProfile", "updateProfile"} =>
           /\ IsPortableBodyOperation(request.method, request.path)
           /\ DeclaredSizeProblem = "none")'
    BY <1>1 DEF IndInv, DeclaredSizeProblem
  <1>10. \A x : Passed(x)' <=> Passed(x)
    BY <1>1 DEF Passed
  <1>11. (pc \in {"extracting", "waiting"} =>
           /\ handler \in Handlers /\ step \in 1 .. Len(Extractors[handler]) + 1
           /\ answer = NoAnswer
           /\ Passed("no_query") => request.query = <<>>
           /\ Passed("body") => request.arrival = "whole")'
    BY <1>1, <1>10 DEF IndInv
  <1>12. /\ (Calling(GitHubCalls) => handler \notin ProfileHandlers)'
         /\ (~Calling(ProfileCalls) => acts = {})'
    BY <1>1 DEF IndInv, Calling
  <1>13. (~lost => \A x, y \in acts : x = y)'
    BY <1>1, <1>2, <1>3
  <1> QED
    BY <1>1, <1>4, <1>5, <1>6, <1>7, <1>8, <1>9, <1>11, <1>12, <1>13 DEF IndInv

LEMMA LoseReplyStep ==
    ASSUME IndInv, LoseReply
    PROVE  IndInv'
  <1>1. /\ Calling(ProfileCalls) /\ pc = "waiting" /\ lost' = TRUE
        /\ request' = request /\ pc' = pc /\ handler' = handler /\ step' = step
        /\ user' = user /\ calls' = calls /\ acts' = acts /\ answer' = answer
    BY DEF LoseReply, Calling
  <1>2. ~Awaiting("verify")'
    BY <1>1 DEF Calling, Awaiting, ProfileCalls
  <1>3. TypeOK'
    BY <1>1 DEF IndInv, TypeOK
  <1>4. ProfileCallsChecked'
    BY <1>1, CallsFrame DEF IndInv
  <1>5. AnswerTellsEffect'
    BY <1>1 DEF AnswerTellsEffect, Answered
  <1>6. (handler \in {"createProfile", "updateProfile"} =>
           /\ IsPortableBodyOperation(request.method, request.path)
           /\ DeclaredSizeProblem = "none")'
    BY <1>1 DEF IndInv, DeclaredSizeProblem
  <1>7. \A x : Passed(x)' <=> Passed(x)
    BY <1>1 DEF Passed
  <1>8. (/\ handler \in Handlers /\ step \in 1 .. Len(Extractors[handler]) + 1
         /\ answer = NoAnswer
         /\ Passed("no_query") => request.query = <<>>
         /\ Passed("body") => request.arrival = "whole")'
    BY <1>1, <1>7 DEF IndInv
  <1>9. /\ (Calling(GitHubCalls) => handler \notin ProfileHandlers)'
        /\ (~Calling(ProfileCalls) => acts = {})'
    BY <1>1 DEF IndInv, Calling
  <1> QED
    BY <1>1, <1>2, <1>3, <1>4, <1>5, <1>6, <1>8, <1>9 DEF IndInv

(* The GitHub handlers touch neither the verifier nor the store.           *)
LEMMA GitHubShapes ==
    ASSUME NEW error \in GitHubErrors, NEW a \in MapGitHubError(error)
    PROVE  Shaped(a)
  <1>1. /\ Shaped(Problem("github_not_found")) /\ Shaped(Problem("github_rate_limit"))
        /\ Shaped(Problem("github_timeout")) /\ Shaped(Problem("github_upstream"))
    BY ProblemShapes, StatusFacts
  <1>2. CASE error = "RateLimited"
    <2>1. PICK hints : a = [Problem("github_rate_limit") EXCEPT !.headers = @ \cup hints]
      BY <1>2 DEF MapGitHubError
    <2> QED
      BY <1>1, <2>1 DEF Shaped, NoAnswer
  <1>3. CASE error # "RateLimited"
    BY <1>1, <1>3 DEF MapGitHubError, GitHubErrors
  <1> QED
    BY <1>2, <1>3

LEMMA GitHubAnswerStep ==
    ASSUME IndInv, NEW call \in GitHubCalls, NEW successes,
           \A a \in successes : Shaped(a),
           GitHubServiceAnswers(call, successes)
    PROVE  IndInv'
  <1>1. PICK a \in successes \cup UNION {MapGitHubError(error) : error \in GitHubErrors} :
            Respond(a)
    BY DEF GitHubServiceAnswers
  <1>2. Shaped(a)
    BY <1>1, GitHubShapes
  <1>3. handler \notin ProfileHandlers
    BY DEF IndInv, GitHubServiceAnswers, Awaiting, Calling
  <1> QED
    BY <1>1, <1>2, <1>3, RespondStep

LEMMA GitHubHandlerStep ==
    ASSUME IndInv,
           \/ GetGitHubOwnerHandler \/ ListGitHubOwnerReposHandler \/ GetGitHubRepoHandler
           \/ ListGitHubRepoActivityHandler \/ GetGitHubRepoLanguagesHandler
           \/ ListGitHubRepoTagsHandler
    PROVE  IndInv'
  <1>1. /\ \A a \in {Success("ok", {})} : Shaped(a)
        /\ \A a \in Pages : Shaped(a)
    <2>1. "ok" \in DOMAIN Status /\ "github_upstream" \in DOMAIN Status
      BY StatusFacts
    <2>2. Shaped(Success("ok", {})) /\ Shaped(Success("ok", {"Link"}))
          /\ Shaped(Problem("github_upstream"))
      BY <2>1, SuccessShapes, ProblemShapes
    <2> QED
      BY <2>2 DEF Pages
  <1>2. ASSUME NEW call \in GitHubCalls,
               \/ GitHubServiceAnswers(call, {Success("ok", {})})
               \/ GitHubServiceAnswers(call, Pages)
        PROVE  IndInv'
    BY <1>1, <1>2, GitHubAnswerStep
  <1>3. GitHubCalls = {"github.owner", "github.repositories", "github.repository",
                       "github.activity", "github.languages", "github.tags"}
    BY DEF GitHubCalls
  <1>4. CASE \E call \in GitHubCalls :
                \/ GitHubServiceAnswers(call, {Success("ok", {})})
                \/ GitHubServiceAnswers(call, Pages)
    BY <1>2, <1>4
  <1>5. ASSUME NEW name \in Handlers \ ProfileHandlers, Ready(name), NEW call \in GitHubCalls,
               Await(call)
        PROVE  IndInv'
    BY <1>5, AwaitGitHub
  <1>6. ASSUME NEW name \in Handlers \ ProfileHandlers, Ready(name), NEW code \in Refusals,
               Respond(Problem(code))
        PROVE  IndInv'
    <2>1. pc = "extracting" /\ code \in DOMAIN Status
      BY <1>6, RefusalFacts DEF Ready
    <2> QED
      BY <1>6, <2>1, ProblemShapes, RefusalStep
  <1>7. /\ {"getGitHubOwner", "listGitHubOwnerRepositories", "getGitHubRepository",
            "listGitHubRepositoryActivity", "listGitHubRepositoryLanguages",
            "listGitHubRepositoryTags"} \subseteq Handlers \ ProfileHandlers
        /\ "validation_failed" \in Refusals
        /\ PageQueryProblem(request.query) \in Refusals \cup {"none"}
    BY DEF Handlers, Extractors, ProfileHandlers, Refusals, PageQueryProblem
  <1>8. CASE \E name \in Handlers \ ProfileHandlers :
                /\ Ready(name)
                /\ \/ \E call \in GitHubCalls : Await(call)
                   \/ \E code \in Refusals : Respond(Problem(code))
    BY <1>5, <1>6, <1>8
  <1> DEFINE Asks == \E name \in Handlers \ ProfileHandlers :
                         /\ Ready(name)
                         /\ \/ \E call \in GitHubCalls : Await(call)
                            \/ \E code \in Refusals : Respond(Problem(code))
             Gets == \E call \in GitHubCalls :
                         \/ GitHubServiceAnswers(call, {Success("ok", {})})
                         \/ GitHubServiceAnswers(call, Pages)
  <1>9. CASE GetGitHubOwnerHandler
    <2>1. Asks \/ Gets
      BY <1>3, <1>7, <1>9 DEF GetGitHubOwnerHandler
    <2> QED
      BY <1>4, <1>8, <2>1
  <1>10. CASE ListGitHubOwnerReposHandler
    <2>1. Asks \/ Gets
      BY <1>3, <1>7, <1>10 DEF ListGitHubOwnerReposHandler
    <2> QED
      BY <1>4, <1>8, <2>1
  <1>11. CASE GetGitHubRepoHandler
    <2>1. Asks \/ Gets
      BY <1>3, <1>7, <1>11 DEF GetGitHubRepoHandler
    <2> QED
      BY <1>4, <1>8, <2>1
  <1>12. CASE ListGitHubRepoActivityHandler
    <2>1. Asks \/ Gets
      BY <1>3, <1>7, <1>12 DEF ListGitHubRepoActivityHandler
    <2> QED
      BY <1>4, <1>8, <2>1
  <1>13. CASE GetGitHubRepoLanguagesHandler
    <2>1. Asks \/ Gets
      BY <1>3, <1>7, <1>13 DEF GetGitHubRepoLanguagesHandler
    <2> QED
      BY <1>4, <1>8, <2>1
  <1>14. CASE ListGitHubRepoTagsHandler
    <2>1. Asks \/ Gets
      BY <1>3, <1>7, <1>14 DEF ListGitHubRepoTagsHandler
    <2> QED
      BY <1>4, <1>8, <2>1
  <1> QED
    BY <1>9, <1>10, <1>11, <1>12, <1>13, <1>14

LEMMA PanicStep ==
    ASSUME IndInv, PanicRecovery
    PROVE  IndInv'
  <1> DEFINE a == ProblemForPath("internal_error")
  <1>1. Shaped(a) /\ a.code = "internal_error"
    BY ProblemShapes, StatusFacts
  <1> HIDE DEF a
  <1>2. Truthful(a)
    BY <1>1, StatusFacts DEF Truthful, Successes
  <1>3. Respond(a)
    BY DEF PanicRecovery, a
  <1> QED
    BY <1>1, <1>2, <1>3, RespondStep

(* Nothing but the control or the headers changes.                         *)
LEMMA EndStep ==
    ASSUME IndInv, Disconnect \/ Leave
    PROVE  IndInv'
  <1>1. /\ request' = request /\ handler' = handler /\ step' = step
        /\ user' = user /\ calls' = calls /\ acts' = acts /\ lost' = lost
        /\ pc' \in {"sent", "dropped"}
    BY DEF Disconnect, Leave
  <1>2. /\ DOMAIN answer' = DOMAIN NoAnswer /\ answer'.code = answer.code
    <2>1. DOMAIN answer = DOMAIN NoAnswer
      BY DEF IndInv, TypeOK
    <2>2. CASE Disconnect
      BY <2>1, <2>2 DEF Disconnect
    <2>3. CASE Leave
      <3>1. answer' = WithoutHeadBody(WithSecurityHeaders(WithDiscoveryLinks(answer)))
        BY <2>3 DEF Leave
      <3> QED
        BY <2>1, <3>1, LeaveShape
    <2> QED
      BY <2>2, <2>3
  <1>3. TypeOK'
    BY <1>1, <1>2 DEF IndInv, TypeOK
  <1>4. ProfileCallsChecked'
    BY <1>1, CallsFrame DEF IndInv
  <1>5. AnswerTellsEffect'
    <2>1. CASE Disconnect
      BY <2>1 DEF Disconnect, AnswerTellsEffect, Answered
    <2>2. CASE Leave
      <3>1. pc = "answered"
        BY <2>2 DEF Leave
      <3> QED
        BY <1>1, <1>2, <3>1 DEF IndInv, AnswerTellsEffect, Answered, Called
    <2> QED
      BY <2>1, <2>2
  <1>6. (handler \in {"createProfile", "updateProfile"} =>
           /\ IsPortableBodyOperation(request.method, request.path)
           /\ DeclaredSizeProblem = "none")'
    BY <1>1 DEF IndInv, DeclaredSizeProblem
  <1>7. /\ (Calling(GitHubCalls) => handler \notin ProfileHandlers)'
        /\ (~Calling(ProfileCalls) => acts = {})'
        /\ (~lost => \A x, y \in acts : x = y)'
        /\ ~Awaiting("verify")'
    BY <1>1 DEF IndInv, Calling, Awaiting
  <1> QED
    BY <1>1, <1>3, <1>4, <1>5, <1>6, <1>7 DEF IndInv

LEMMA NextIndInv == IndInv /\ [Next]_vars => IndInv'
  <1> SUFFICES ASSUME IndInv, [Next]_vars PROVE IndInv'
    OBVIOUS
  <1>1. CASE UNCHANGED vars
    BY <1>1, StutterIndInv
  <1>2. CASE Next
    BY <1>2, ArrivingStep, DispatchStep, ExtractorStep, AuthenticateStep, VerifierStep,
       PlainHandlerStep, ProfileHandlerStep, StoreStep, LoseReplyStep, GitHubHandlerStep,
       PanicStep, EndStep
       DEF Next
  <1> QED
    BY <1>1, <1>2

---------------------------------------------------------------------------
(* Induction over a set of naturals, and functions defined by a pass over  *)
(* a sequence.                                                             *)
LEMMA LeastNumber ==
    ASSUME NEW S \in SUBSET Nat, S # {}
    PROVE  \E n \in S : \A m \in S : n <= m
  <1>1. PICK n \in S : \A m \in S : <<m, n>> \notin OpToRel(<, Nat)
    BY NatLessThanWellFounded, WFMin
  <1>2. \A m \in S : ~(m < n)
    BY <1>1 DEF OpToRel
  <1> QED
    BY <1>2

LEMMA UpTo ==
    ASSUME NEW n \in Nat, NEW S, 0 \in S, \A k \in 0 .. n - 1 : k \in S => k + 1 \in S
    PROVE  n \in S
  <1> DEFINE C == {k \in 0 .. n : k \notin S}
  <1>1. SUFFICES ASSUME C # {} PROVE FALSE
    OBVIOUS
  <1>2. C \in SUBSET Nat
    OBVIOUS
  <1>3. PICK k \in C : \A m \in C : k <= m
    <2> HIDE DEF C
    <2> QED
      BY <1>1, <1>2, LeastNumber
  <1>4. k \in 1 .. n /\ k - 1 \in 0 .. n - 1 /\ k - 1 \notin C
    BY <1>3
  <1>5. k - 1 \in S /\ (k - 1) + 1 = k
    BY <1>4
  <1> QED
    BY <1>3, <1>4, <1>5

(* A pass that starts with c and takes G from one element to the next      *)
(* exists, and stays within its states.                                    *)
HasPass(n, S, c, G) ==
    \E f \in [0 .. n -> S] : f[0] = c /\ \A i \in 1 .. n : f[i] = G[i][f[i - 1]]

LEMMA Pass ==
    ASSUME NEW n \in Nat, NEW S, NEW c \in S, NEW G \in [1 .. n -> [S -> S]]
    PROVE  HasPass(n, S, c, G)
  <1> DEFINE Is(f, k) == f[0] = c /\ \A i \in 1 .. k : f[i] = G[i][f[i - 1]]
             T == {k \in 0 .. n : \E f \in [0 .. k -> S] : Is(f, k)}
  <1>1. 0 \in T
    <2> DEFINE f == [i \in 0 .. 0 |-> c]
    <2>1. f \in [0 .. 0 -> S] /\ f[0] = c /\ 1 .. 0 = {}
      OBVIOUS
    <2> HIDE DEF f
    <2>2. Is(f, 0)
      BY <2>1
    <2> QED
      BY <2>1, <2>2
  <1>2. ASSUME NEW k \in 0 .. n - 1, k \in T PROVE k + 1 \in T
    <2>1. PICK f \in [0 .. k -> S] : Is(f, k)
      BY <1>2
    <2> DEFINE g == [i \in 0 .. k + 1 |-> IF i = k + 1 THEN G[k + 1][f[k]] ELSE f[i]]
    <2>2. k + 1 \in 1 .. n /\ f[k] \in S
      BY <2>1
    <2>3. G[k + 1][f[k]] \in S
      BY <2>2
    <2>4. g \in [0 .. k + 1 -> S]
      BY <2>3
    <2>5. g[0] = c /\ \A i \in 1 .. k + 1 : g[i] = G[i][g[i - 1]]
      <3>1. \A i \in 0 .. k : g[i] = f[i]
        OBVIOUS
      <3>2. g[k + 1] = G[k + 1][f[k]]
        OBVIOUS
      <3> HIDE DEF g
      <3>3. ASSUME NEW i \in 1 .. k PROVE g[i] = G[i][g[i - 1]]
        BY <2>1, <3>1
      <3>4. \A i \in 1 .. k + 1 : i = k + 1 \/ i \in 1 .. k
        OBVIOUS
      <3> QED
        BY <2>1, <3>1, <3>2, <3>3, <3>4
    <2> HIDE DEF g
    <2> QED
      BY <2>4, <2>5
  <1>3. n \in T
    <2> HIDE DEF T
    <2> QED
      BY <1>1, <1>2, UpTo
  <1>4. PICK f \in [0 .. n -> S] : Is(f, n)
    BY <1>3
  <1> QED
    BY <1>4 DEF HasPass

---------------------------------------------------------------------------
(* accept_ranges: the ranges kept are those of the elements that parse.    *)
RangesOf(accept, n) == {ParsedRange(accept[j]) : j \in {k \in 1 .. n : IsRange(accept[k])}}

LEMMA RangesGrow ==
    ASSUME NEW accept, NEW n \in Nat \ {0}
    PROVE  RangesOf(accept, n) = RangesOf(accept, n - 1) \cup
               (IF IsRange(accept[n]) THEN {ParsedRange(accept[n])} ELSE {})
  <1>1. \A k : k \in 1 .. n <=> k \in 1 .. n - 1 \/ k = n
    OBVIOUS
  <1>2. ASSUME NEW r PROVE r \in RangesOf(accept, n) <=>
            r \in RangesOf(accept, n - 1) \/ (IsRange(accept[n]) /\ r = ParsedRange(accept[n]))
    BY <1>1, Zenon DEF RangesOf
  <1> QED
    BY <1>2

LEMMA AppendRange ==
    ASSUME NEW S, NEW s \in Seq(S), NEW e \in S
    PROVE  /\ Append(s, e) \in Seq(S)
           /\ Range(Append(s, e)) = Range(s) \cup {e}
  <1> DEFINE t == Append(s, e)
  <1>1. /\ t \in Seq(S) /\ Len(s) \in Nat /\ DOMAIN s = 1 .. Len(s)
        /\ DOMAIN t = 1 .. Len(s) + 1 /\ t[Len(s) + 1] = e
        /\ \A i \in 1 .. Len(s) : t[i] = s[i]
    OBVIOUS
  <1> HIDE DEF t
  <1>2. \A x : x \in Range(t) <=> x \in Range(s) \/ x = e
    <2>1. \A i : i \in DOMAIN t <=> i \in DOMAIN s \/ i = Len(s) + 1
      BY <1>1
    <2>2. \A i \in DOMAIN s : t[i] = s[i]
      BY <1>1
    <2> QED
      BY <1>1, <2>1, <2>2 DEF Range
  <1>3. Range(t) = Range(s) \cup {e}
    BY <1>2
  <1> QED
    BY <1>1, <1>3 DEF t

LEMMA AcceptedRanges ==
    ASSUME NEW accept \in Seq(Element)
    PROVE  /\ AcceptRanges(accept) \in Seq(RangesOf(accept, Len(accept)))
           /\ Range(AcceptRanges(accept)) = RangesOf(accept, Len(accept))
  <1> DEFINE n == Len(accept)
             S == Seq(RangesOf(accept, n))
             empty == <<>>
             Keep(i, s) == IF IsRange(accept[i]) THEN Append(s, ParsedRange(accept[i])) ELSE s
             Rec(f) == f = [i \in 0 .. n |-> IF i = 0 THEN empty ELSE Keep(i, f[i - 1])]
             G == [i \in 1 .. n |-> [s \in S |-> Keep(i, s)]]
             r == CHOOSE f : Rec(f)
  <1>1. n \in Nat
    OBVIOUS
  <1>2. AcceptRanges(accept) = r[n]
    BY DEF AcceptRanges
  <1>3. \E f : Rec(f)
    <2>1. ASSUME NEW i \in 1 .. n, NEW s \in S PROVE Keep(i, s) \in S
      <3>1. CASE IsRange(accept[i])
        <4>1. ParsedRange(accept[i]) \in RangesOf(accept, n)
          BY <3>1 DEF RangesOf
        <4> HIDE DEF n
        <4> QED
          BY <3>1, <4>1, AppendProperties
      <3> QED
        BY <3>1
    <2>2. empty \in S
      OBVIOUS
    <2> HIDE DEF S, n, empty, Keep
    <2>3. G \in [1 .. n -> [S -> S]]
      BY <2>1
    <2> HIDE DEF G
    <2>4. PICK f \in [0 .. n -> S] : f[0] = empty /\ \A i \in 1 .. n : f[i] = G[i][f[i - 1]]
      <3>1. HasPass(n, S, empty, G)
        BY <1>1, <2>2, <2>3, Pass
      <3> QED
        BY <3>1 DEF HasPass
    <2>5. ASSUME NEW i \in 1 .. n PROVE G[i][f[i - 1]] = Keep(i, f[i - 1])
      <3>1. f[i - 1] \in S
        BY <1>1, <2>4
      <3> QED
        BY <3>1 DEF G
    <2>6. Rec(f)
      BY <1>1, <2>4, <2>5
    <2> QED
      BY <2>6
  <1> HIDE DEF n, Rec
  <1>4. Rec(r)
    BY <1>3
  <1> HIDE DEF r, Keep, empty
  <1>5. r[0] = empty /\ \A i \in 1 .. n : r[i] = Keep(i, r[i - 1])
    BY <1>1, <1>4 DEF Rec
  <1> USE DEF Keep, empty
  <1> DEFINE Kept(i) == /\ r[i] \in Seq(RangesOf(accept, i))
                        /\ Range(r[i]) = RangesOf(accept, i)
             T == {i \in 0 .. n : Kept(i)}
  <1>6. 0 \in T
    <2>1. RangesOf(accept, 0) = {}
      BY DEF RangesOf
    <2>2. r[0] = <<>> /\ 0 \in 0 .. n
      BY <1>1, <1>5
    <2>3. Kept(0)
      BY <2>1, <2>2 DEF Range
    <2> QED
      BY <2>2, <2>3
  <1>7. ASSUME NEW k \in 0 .. n - 1, k \in T PROVE k + 1 \in T
    <2> DEFINE e == ParsedRange(accept[k + 1])
    <2>1. /\ k + 1 \in Nat \ {0} /\ (k + 1) - 1 = k /\ k + 1 \in 1 .. n
          /\ Kept(k)
      BY <1>1, <1>7
    <2>2. RangesOf(accept, k + 1) = RangesOf(accept, k) \cup
              (IF IsRange(accept[k + 1]) THEN {e} ELSE {})
      BY <2>1, RangesGrow
    <2>3. CASE IsRange(accept[k + 1])
      <3>1. r[k + 1] = Append(r[k], e)
        <4>1. r[k + 1] = Keep(k + 1, r[(k + 1) - 1])
          BY <1>5, <2>1
        <4> QED
          BY <2>1, <2>3, <4>1
      <3>2. e \in RangesOf(accept, k + 1) /\ r[k] \in Seq(RangesOf(accept, k + 1))
            /\ RangesOf(accept, k + 1) = RangesOf(accept, k) \cup {e}
        <4>1. RangesOf(accept, k + 1) = RangesOf(accept, k) \cup {e}
          BY <2>2, <2>3
        <4> HIDE DEF e
        <4> QED
          BY <2>1, <4>1, SeqMonotonic
      <3> HIDE DEF e
      <3>3. /\ Append(r[k], e) \in Seq(RangesOf(accept, k + 1))
            /\ Range(Append(r[k], e)) = Range(r[k]) \cup {e}
        BY <3>2, AppendRange
      <3>4. Kept(k + 1)
        BY <2>1, <3>1, <3>2, <3>3
      <3> QED
        BY <1>1, <3>4
    <2>4. CASE ~IsRange(accept[k + 1])
      <3>1. r[k + 1] = r[k] /\ RangesOf(accept, k + 1) = RangesOf(accept, k)
        <4>1. r[k + 1] = Keep(k + 1, r[(k + 1) - 1])
          BY <1>5, <2>1
        <4> QED
          BY <2>1, <2>2, <2>4, <4>1
      <3> QED
        BY <1>1, <2>1, <3>1
    <2> QED
      BY <2>3, <2>4
  <1>8. n \in T
    <2> HIDE DEF T
    <2> QED
      BY <1>1, <1>6, <1>7, UpTo
  <1> QED
    BY <1>2, <1>8 DEF n

LEMMA RangeShape ==
    ASSUME NEW accept \in Seq(Element), NEW r \in RangesOf(accept, Len(accept))
    PROVE  (r.main = "*" => r.sub = "*") /\ r.quality \in 0 .. 1000
  <1>1. PICK i \in 1 .. Len(accept) : IsRange(accept[i]) /\ r = ParsedRange(accept[i])
    BY DEF RangesOf
  <1>2. accept[i] \in Element
    OBVIOUS
  <1>3. accept[i].qs \in Seq(Readings)
    BY <1>2 DEF Element
  <1>4. accept[i].qs = <<>> \/ accept[i].qs[1] \in 0 .. 1000
    <2>1. SUFFICES ASSUME accept[i].qs # <<>> PROVE accept[i].qs[1] \in 0 .. 1000
      OBVIOUS
    <2>2. Len(accept[i].qs) = 1 /\ accept[i].qs[1] # Unreadable
      BY <1>1, <2>1 DEF IsRange
    <2>3. accept[i].qs[1] \in Readings
      BY <1>3, <2>2, ElementOfSeq
    <2> QED
      BY <2>2, <2>3 DEF Readings
  <1>5. r.main = accept[i].main /\ r.sub = accept[i].sub
        /\ r.quality = (IF accept[i].qs = <<>> THEN 1000 ELSE accept[i].qs[1])
    BY <1>1 DEF ParsedRange
  <1>6. accept[i].main = "*" => accept[i].sub = "*"
    BY <1>1 DEF IsRange
  <1> QED
    BY <1>4, <1>5, <1>6

---------------------------------------------------------------------------
(* effective_quality: the heaviest of the ranges that match best.          *)
Concrete(target) ==
    /\ target.main # "*" /\ target.sub # "*"
    /\ target.params = {} \/ \E p : target.params = {p}

Applies(r, target) ==
    RangeSpecificity(r, target) # NoMatch /\ RangeParametersMatch(r, target)

(* No range among them counts for more than r.                             *)
Decides(r, ranges, target) ==
    /\ r \in ranges /\ Applies(r, target)
    /\ \A s \in ranges : Applies(s, target) =>
           \/ Precedence(s, target) < Precedence(r, target)
           \/ Precedence(s, target) = Precedence(r, target) /\ s.quality <= r.quality

(* What is kept of a set of ranges.                                        *)
Keeps(b, ranges, target) ==
    \/ b = [precedence |-> NoMatch, quality |-> 0] /\ \A s \in ranges : ~Applies(s, target)
    \/ \E r \in ranges : /\ Decides(r, ranges, target)
                         /\ b = [precedence |-> Precedence(r, target), quality |-> r.quality]

LEMMA PrecedenceRange ==
    ASSUME NEW r, NEW target
    PROVE  /\ Precedence(r, target) \in Int
           /\ Applies(r, target) => Precedence(r, target) \in 0 .. 5
  <1>1. RangeSpecificity(r, target) \in {2, 0, 1, NoMatch}
    BY DEF RangeSpecificity
  <1> QED
    BY <1>1 DEF Precedence, Applies, NoMatch

KeepBetter(b, r, target) ==
    LET current == [precedence |-> Precedence(r, target), quality |-> r.quality]
    IN  IF \/ RangeSpecificity(r, target) = NoMatch
           \/ ~RangeParametersMatch(r, target)
           \/ current.precedence < b.precedence
        THEN b
        ELSE IF current.precedence > b.precedence \/ current.quality > b.quality
             THEN current ELSE b

LEMMA KeepBetterKeeps ==
    ASSUME NEW ranges, NEW r, NEW target, NEW b, Keeps(b, ranges, target),
           \A s \in ranges \cup {r} : s.quality \in 0 .. 1000
    PROVE  Keeps(KeepBetter(b, r, target), ranges \cup {r}, target)
  <1> DEFINE all == ranges \cup {r}
             current == [precedence |-> Precedence(r, target), quality |-> r.quality]
  <1>1. \A s \in all : /\ Precedence(s, target) \in Int /\ s.quality \in Int
                       /\ Applies(s, target) => Precedence(s, target) \in 0 .. 5
    BY PrecedenceRange
  <1>2. CASE ~Applies(r, target)
    <2>1. KeepBetter(b, r, target) = b
      BY <1>2 DEF KeepBetter, Applies
    <2> QED
      BY <1>2, <2>1 DEF Keeps, Decides
  <1>3. CASE Applies(r, target) /\ \A s \in ranges : ~Applies(s, target)
    <2>1. b = [precedence |-> NoMatch, quality |-> 0]
      BY <1>3 DEF Keeps, Decides
    <2>2. KeepBetter(b, r, target) = current
      BY <1>1, <1>3, <2>1 DEF KeepBetter, Applies, NoMatch
    <2>3. Decides(r, all, target)
      BY <1>1, <1>3 DEF Decides
    <2> QED
      BY <2>2, <2>3 DEF Keeps
  <1>4. CASE /\ Applies(r, target)
             /\ \E s \in ranges : Decides(s, ranges, target)
                    /\ b = [precedence |-> Precedence(s, target), quality |-> s.quality]
    <2>1. PICK s \in ranges : Decides(s, ranges, target)
                    /\ b = [precedence |-> Precedence(s, target), quality |-> s.quality]
      BY <1>4
    <2>2. /\ Precedence(r, target) \in Int /\ Precedence(s, target) \in Int
          /\ r.quality \in Int /\ s.quality \in Int
      BY <1>1
    <2>3. CASE \/ Precedence(r, target) < Precedence(s, target)
               \/ Precedence(r, target) = Precedence(s, target) /\ r.quality <= s.quality
      <3>1. KeepBetter(b, r, target) = b
        BY <2>1, <2>2, <2>3 DEF KeepBetter
      <3>2. Decides(s, all, target)
        BY <2>1, <2>3 DEF Decides
      <3> QED
        BY <2>1, <3>1, <3>2 DEF Keeps
    <2>4. CASE \/ Precedence(s, target) < Precedence(r, target)
               \/ Precedence(r, target) = Precedence(s, target) /\ s.quality < r.quality
      <3>1. KeepBetter(b, r, target) = current
        BY <1>4, <2>1, <2>2, <2>4 DEF KeepBetter, Applies
      <3>2. Decides(r, all, target)
        <4>1. ASSUME NEW q \in all, Applies(q, target)
              PROVE  \/ Precedence(q, target) < Precedence(r, target)
                     \/ Precedence(q, target) = Precedence(r, target) /\ q.quality <= r.quality
          <5>1. CASE q = r
            BY <2>2, <5>1
          <5>2. CASE q \in ranges
            <6>1. \/ Precedence(q, target) < Precedence(s, target)
                  \/ Precedence(q, target) = Precedence(s, target) /\ q.quality <= s.quality
              BY <2>1, <4>1, <5>2 DEF Decides
            <6>2. Precedence(q, target) \in Int /\ q.quality \in Int
              BY <1>1, <4>1
            <6> QED
              BY <2>2, <2>4, <6>1, <6>2
          <5> QED
            BY <4>1, <5>1, <5>2
        <4> QED
          BY <1>4, <4>1 DEF Decides
      <3> QED
        BY <3>1, <3>2 DEF Keeps
    <2> QED
      BY <2>2, <2>3, <2>4
  <1> QED
    BY <1>2, <1>3, <1>4 DEF Keeps

---------------------------------------------------------------------------
(* effective_quality, as the pass it is.                                   *)
LEMMA BestQuality ==
    ASSUME NEW R, NEW ranges \in Seq(R), NEW target,
           \A s \in R : s.quality \in 0 .. 1000
    PROVE  \/ /\ EffectiveQuality(ranges, target) = 0
              /\ \A s \in Range(ranges) : ~Applies(s, target)
           \/ \E r \in Range(ranges) : /\ Decides(r, Range(ranges), target)
                                       /\ EffectiveQuality(ranges, target) = r.quality
  <1> DEFINE n == Len(ranges)
             S == [precedence : Int, quality : Int]
             none == [precedence |-> NoMatch, quality |-> 0]
             Keep(i, b) == KeepBetter(b, ranges[i], target)
             Rec(f) == f = [i \in 0 .. n |-> IF i = 0 THEN none ELSE Keep(i, f[i - 1])]
             G == [i \in 1 .. n |-> [b \in S |-> Keep(i, b)]]
             r == CHOOSE f : Rec(f)
  <1>0. \A q : Precedence(q, target) \in Int
    BY PrecedenceRange
  <1>1. n \in Nat /\ DOMAIN ranges = 1 .. n /\ \A i \in 1 .. n : ranges[i] \in R
    OBVIOUS
  <1>2. EffectiveQuality(ranges, target) = r[n].quality
    BY DEF EffectiveQuality, KeepBetter
  <1>3. \E f : Rec(f)
    <2>1. ASSUME NEW i \in 1 .. n, NEW b \in S PROVE Keep(i, b) \in S
      <3>1. Precedence(ranges[i], target) \in Int /\ ranges[i].quality \in Int
        <4>1. ranges[i] \in R
          BY <1>1
        <4>2. ranges[i].quality \in 0 .. 1000
          BY <4>1
        <4>3. Precedence(ranges[i], target) \in Int
          BY <1>0
        <4>4. \A x \in 0 .. 1000 : x \in Int
          OBVIOUS
        <4>5. ranges[i].quality \in Int
          BY <4>2, <4>4, Zenon
        <4> QED
          BY <4>3, <4>5
      <3> QED
        BY <3>1 DEF KeepBetter
    <2>2. none \in S
      BY DEF NoMatch
    <2> HIDE DEF S, n, none, Keep
    <2>3. G \in [1 .. n -> [S -> S]]
      BY <2>1
    <2> HIDE DEF G
    <2>4. PICK f \in [0 .. n -> S] : f[0] = none /\ \A i \in 1 .. n : f[i] = G[i][f[i - 1]]
      <3>1. HasPass(n, S, none, G)
        BY <1>1, <2>2, <2>3, Pass
      <3> QED
        BY <3>1 DEF HasPass
    <2>5. ASSUME NEW i \in 1 .. n PROVE G[i][f[i - 1]] = Keep(i, f[i - 1])
      <3>1. f[i - 1] \in S
        BY <1>1, <2>4
      <3> QED
        BY <3>1 DEF G
    <2>6. Rec(f)
      BY <1>1, <2>4, <2>5
    <2> QED
      BY <2>6
  <1> HIDE DEF n, Rec
  <1>4. Rec(r)
    BY <1>3
  <1> HIDE DEF r, Keep, none
  <1>5. r[0] = none /\ \A i \in 1 .. n : r[i] = Keep(i, r[i - 1])
    BY <1>1, <1>4 DEF Rec
  <1> USE DEF Keep, none
  <1> DEFINE First(i) == {ranges[j] : j \in 1 .. i}
             T == {i \in 0 .. n : Keeps(r[i], First(i), target)}
  <1>6. 0 \in T
    <2>1. Keeps(r[0], {}, target)
      BY <1>5 DEF Keeps
    <2>2. First(0) = {} /\ 0 \in 0 .. n
      BY <1>1
    <2> HIDE DEF First
    <2> QED
      BY <2>1, <2>2
  <1>7. ASSUME NEW k \in 0 .. n - 1, k \in T PROVE k + 1 \in T
    <2>1. k + 1 \in 1 .. n /\ (k + 1) - 1 = k /\ k + 1 \in 0 .. n
      BY <1>1
    <2>2. First(k + 1) = First(k) \cup {ranges[k + 1]}
      <3>1. \A j : j \in 1 .. k + 1 <=> j \in 1 .. k \/ j = k + 1
        OBVIOUS
      <3> QED
        BY <3>1
    <2>3. \A s \in First(k) \cup {ranges[k + 1]} : s.quality \in 0 .. 1000
      <3>1. First(k + 1) \subseteq R
        BY <1>1, <2>1
      <3> QED
        BY <2>2, <3>1
    <2>4. Keeps(r[k], First(k), target)
      BY <1>7
    <2> HIDE DEF First
    <2>5. Keeps(KeepBetter(r[k], ranges[k + 1], target), First(k) \cup {ranges[k + 1]}, target)
      BY <2>3, <2>4, KeepBetterKeeps
    <2>6. r[k + 1] = KeepBetter(r[k], ranges[k + 1], target)
      <3>1. r[k + 1] = Keep(k + 1, r[(k + 1) - 1])
        BY <1>5, <2>1
      <3> QED
        BY <2>1, <3>1
    <2> QED
      BY <2>1, <2>2, <2>5, <2>6
  <1>8. n \in T
    <2> HIDE DEF T
    <2> QED
      BY <1>1, <1>6, <1>7, UpTo
  <1>9. Keeps(r[n], Range(ranges), target)
    <2>1. First(n) = Range(ranges)
      BY <1>1 DEF Range
    <2>2. Keeps(r[n], First(n), target)
      BY <1>8
    <2> HIDE DEF First
    <2> QED
      BY <2>1, <2>2
  <1> HIDE DEF Keep
  <1>10. CASE /\ r[n] = [precedence |-> NoMatch, quality |-> 0]
              /\ \A s \in Range(ranges) : ~Applies(s, target)
    BY <1>2, <1>10
  <1>11. ASSUME NEW s \in Range(ranges), Decides(s, Range(ranges), target),
                r[n] = [precedence |-> Precedence(s, target), quality |-> s.quality]
         PROVE  EffectiveQuality(ranges, target) = s.quality
    BY <1>2, <1>11
  <1> QED
    BY <1>9, <1>10, <1>11 DEF Keeps

(* The two ways to say how well a range matches agree.                     *)
Wildcards(r) == (IF r.main = "*" THEN 1 ELSE 0) + (IF r.sub = "*" THEN 1 ELSE 0)
Outranks(r, s) == \/ Wildcards(r) < Wildcards(s)
                  \/ Wildcards(r) = Wildcards(s) /\ s.params = {} /\ r.params # {}
MatchesTarget(r, target) ==
    /\ r.main \in {"*", target.main}
    /\ r.sub \in {"*", target.sub}
    /\ r.params \subseteq target.params

LEMMA MatchingRange ==
    ASSUME NEW r, NEW target, Concrete(target), r.main = "*" => r.sub = "*"
    PROVE  /\ Applies(r, target) <=> MatchesTarget(r, target)
           /\ Applies(r, target) => RangeSpecificity(r, target) = 2 - Wildcards(r)
           /\ Wildcards(r) \in 0 .. 2
  <1>1. CASE r.main = "*"
    BY <1>1
       DEF Applies, MatchesTarget, Concrete, RangeSpecificity, RangeParametersMatch, NoMatch,
           Wildcards
  <1>2. CASE r.main = target.main
    BY <1>2
       DEF Applies, MatchesTarget, Concrete, RangeSpecificity, RangeParametersMatch, NoMatch,
           Wildcards
  <1>3. CASE r.main \notin {"*", target.main}
    BY <1>3
       DEF Applies, MatchesTarget, Concrete, RangeSpecificity, RangeParametersMatch, NoMatch,
           Wildcards
  <1> QED
    BY <1>1, <1>2, <1>3

LEMMA OutranksMeansPrecedes ==
    ASSUME NEW r, NEW s, NEW target, Concrete(target),
           r.main = "*" => r.sub = "*", s.main = "*" => s.sub = "*",
           Applies(r, target), Applies(s, target)
    PROVE  Outranks(r, s) <=> Precedence(r, target) > Precedence(s, target)
  <1> DEFINE wr == Wildcards(r)
             ws == Wildcards(s)
  <1>1. /\ RangeSpecificity(r, target) = 2 - wr /\ RangeSpecificity(s, target) = 2 - ws
        /\ wr \in 0 .. 2 /\ ws \in 0 .. 2
    BY MatchingRange
  <1> HIDE DEF wr, ws
  <1>2. /\ Precedence(r, target) = 2 * (2 - wr) + (IF r.params = {} THEN 0 ELSE 1)
        /\ Precedence(s, target) = 2 * (2 - ws) + (IF s.params = {} THEN 0 ELSE 1)
    BY <1>1 DEF Precedence
  <1>3. Outranks(r, s) <=> wr < ws \/ (wr = ws /\ s.params = {} /\ r.params # {})
    BY DEF Outranks, wr, ws
  <1> QED
    BY <1>1, <1>2, <1>3

LEMMA RangesInField ==
    ASSUME NEW accept \in Seq(Element)
    PROVE  {ParsedRange(accept[i]) : i \in {j \in DOMAIN accept : IsRange(accept[j])}}
               = RangesOf(accept, Len(accept))
  <1>1. DOMAIN accept = 1 .. Len(accept)
    OBVIOUS
  <1> QED
    BY <1>1, Zenon DEF RangesOf

HeaviestOf(ranges, target) ==
    LET matching == {r \in ranges : MatchesTarget(r, target)}
        top == {r \in matching : \A s \in matching : ~Outranks(s, r)}
        heaviest == {r \in top : \A s \in top : s.quality <= r.quality}
    IN  IF top = {} THEN 0 ELSE (CHOOSE r \in heaviest : TRUE).quality

LEMMA WeightOfField ==
    ASSUME NEW accept \in Seq(Element), accept # NoAccept, NEW target
    PROVE  Weight(accept, target) = HeaviestOf(RangesOf(accept, Len(accept)), target)
  <1> DEFINE field == {ParsedRange(accept[i]) : i \in {j \in DOMAIN accept : IsRange(accept[j])}}
  <1>1. field = RangesOf(accept, Len(accept))
    BY RangesInField, Zenon
  <1>2. Weight(accept, target) = HeaviestOf(field, target)
    BY Zenon DEF Weight, HeaviestOf, Outranks, Wildcards, MatchesTarget
  <1> HIDE DEF field
  <1> QED
    BY <1>1, <1>2, Zenon

(* effective_quality gives a media type the weight of RFC 9110.            *)
LEMMA QualityIsWeight ==
    ASSUME NEW accept \in Seq(Element), accept # NoAccept, NEW target, Concrete(target)
    PROVE  /\ EffectiveQuality(AcceptRanges(accept), target) = Weight(accept, target)
           /\ Weight(accept, target) \in 0 .. 1000
  <1> DEFINE R == RangesOf(accept, Len(accept))
             q == EffectiveQuality(AcceptRanges(accept), target)
             matching == {r \in R : MatchesTarget(r, target)}
             top == {r \in matching : \A s \in matching : ~Outranks(s, r)}
             heaviest == {r \in top : \A s \in top : s.quality <= r.quality}
  <1>1. \A r \in R : (r.main = "*" => r.sub = "*") /\ r.quality \in 0 .. 1000
    BY RangeShape
  <1>2. \/ q = 0 /\ \A s \in R : ~Applies(s, target)
        \/ \E r \in R : Decides(r, R, target) /\ q = r.quality
    <2>1. AcceptRanges(accept) \in Seq(R) /\ Range(AcceptRanges(accept)) = R
      BY AcceptedRanges
    <2> HIDE DEF R
    <2> QED
      BY <1>1, <2>1, BestQuality
  <1>3. Weight(accept, target) = IF top = {} THEN 0 ELSE (CHOOSE r \in heaviest : TRUE).quality
    BY WeightOfField, Zenon DEF HeaviestOf
  <1> HIDE DEF R, q
  <1>4. \A r \in R : r \in matching <=> Applies(r, target)
    BY <1>1, MatchingRange
  <1>5. \A r, s \in matching : Outranks(r, s) <=> Precedence(r, target) > Precedence(s, target)
    BY <1>1, <1>4, OutranksMeansPrecedes
  <1>6. CASE q = 0 /\ \A s \in R : ~Applies(s, target)
    <2>1. top = {}
      BY <1>4, <1>6
    <2> QED
      BY <1>3, <1>6, <2>1 DEF q
  <1>7. CASE \E r \in R : Decides(r, R, target) /\ q = r.quality
    <2>1. PICK r \in R : Decides(r, R, target) /\ q = r.quality
      BY <1>7
    <2>2. r \in matching
      BY <1>4, <2>1 DEF Decides
    <2>3. \A s \in matching : /\ Precedence(s, target) \in Int /\ s.quality \in Int
                              /\ \/ Precedence(s, target) < Precedence(r, target)
                                 \/ Precedence(s, target) = Precedence(r, target)
                                    /\ s.quality <= r.quality
      <3> SUFFICES ASSUME NEW s \in matching
                   PROVE  /\ Precedence(s, target) \in Int /\ s.quality \in Int
                          /\ \/ Precedence(s, target) < Precedence(r, target)
                             \/ Precedence(s, target) = Precedence(r, target)
                                /\ s.quality <= r.quality
        OBVIOUS
      <3>1. s \in R /\ Applies(s, target)
        BY <1>4
      <3>2. Precedence(s, target) \in Int /\ s.quality \in Int
        <4>1. Precedence(s, target) \in Int
          BY PrecedenceRange, Zenon
        <4>2. s.quality \in 0 .. 1000 /\ \A x \in 0 .. 1000 : x \in Int
          BY <1>1, <3>1
        <4> QED
          BY <4>1, <4>2, Zenon
      <3> QED
        BY <2>1, <3>1, <3>2 DEF Decides
    <2> HIDE DEF matching
    <2>4. r \in top
      BY <1>5, <2>2, <2>3
    <2>5. \A s \in top : s.quality <= r.quality /\ s.quality \in Int
      BY <1>5, <2>2, <2>3
    <2> HIDE DEF top
    <2>6. r \in heaviest
      BY <2>4, <2>5
    <2> DEFINE w == CHOOSE s \in heaviest : TRUE
    <2>7. w \in heaviest
      BY <2>6
    <2> HIDE DEF w
    <2>8. w \in top /\ w.quality = r.quality
      BY <2>4, <2>5, <2>7
    <2>9. top # {} /\ Weight(accept, target) = w.quality
      BY <1>3, <2>4 DEF w
    <2> QED
      BY <1>1, <2>1, <2>8, <2>9 DEF q
  <1> QED
    BY <1>2, <1>6, <1>7

---------------------------------------------------------------------------
(* The candidates, and the choice among them.                              *)
LEMMA MediaTypesConcrete ==
    ASSUME NEW rep \in Representations, NEW json \in {"json", "problem+json"}
    PROVE  Concrete(MediaType(rep, json))
  <1>1. CASE rep = "json"
    BY <1>1 DEF MediaType, Concrete
  <1>2. CASE rep = "json_utf8"
    <2>1. MediaType(rep, json).params = {[name |-> "charset", value |-> "utf-8"]}
          /\ MediaType(rep, json).main = "application" /\ MediaType(rep, json).sub = json
      BY <1>2 DEF MediaType
    <2> QED
      BY <2>1 DEF Concrete
  <1>3. CASE rep = "cbor"
    BY <1>3 DEF MediaType, Concrete
  <1> QED
    BY <1>1, <1>2, <1>3 DEF Representations

LEMMA CandidatesOffered ==
    ASSUME NEW allow_cbor \in BOOLEAN
    PROVE  Candidates(allow_cbor) \in Seq(Representations)
  <1>1. /\ <<"json", "json_utf8", "cbor">> \in Seq(Representations)
        /\ <<"json", "json_utf8">> \in Seq(Representations)
    BY DEF Representations
  <1> QED
    BY <1>1, Zenon DEF Candidates

(* choose_representation: its result is the right choice.                  *)
LEMMA ChosenIsBest ==
    ASSUME NEW accept \in Seq(Element), accept # NoAccept, NEW allow_cbor \in BOOLEAN,
           NEW json \in {"json", "problem+json"}
    PROVE  LET chosen == ChooseRepresentation(AcceptRanges(accept), allow_cbor, json)
           IN  /\ BestOf(accept, Candidates(allow_cbor), json, chosen)
               /\ chosen \in Representations \cup {NotOffered}
  <1> DEFINE tried == Candidates(allow_cbor)
             n == Len(tried)
             Quality(i) == EffectiveQuality(AcceptRanges(accept), MediaType(tried[i], json))
             S == [rep : Representations \cup {NotOffered}, quality : Int]
             none == [rep |-> NotOffered, quality |-> 0]
             Keep(i, b) == IF Quality(i) > b.quality
                           THEN [rep |-> tried[i], quality |-> Quality(i)] ELSE b
             Rec(f) == f = [i \in 0 .. n |-> IF i = 0 THEN none ELSE Keep(i, f[i - 1])]
             G == [i \in 1 .. n |-> [b \in S |-> Keep(i, b)]]
             r == CHOOSE f : Rec(f)
             W(i) == Weight(accept, MediaType(tried[i], json))
             chosen == ChooseRepresentation(AcceptRanges(accept), allow_cbor, json)
  <1>1. n \in Nat /\ DOMAIN tried = 1 .. n /\ \A i \in 1 .. n : tried[i] \in Representations
    <2>1. tried \in Seq(Representations)
      BY CandidatesOffered
    <2> HIDE DEF tried
    <2> QED
      BY <2>1
  <1>2. chosen = r[n].rep
    BY DEF ChooseRepresentation
  <1>3. \A i \in 1 .. n : Quality(i) = W(i) /\ W(i) \in 0 .. 1000 /\ Quality(i) \in Int
    <2> SUFFICES ASSUME NEW i \in 1 .. n
                 PROVE  Quality(i) = W(i) /\ W(i) \in 0 .. 1000 /\ Quality(i) \in Int
      OBVIOUS
    <2>1. Concrete(MediaType(tried[i], json))
      BY <1>1, MediaTypesConcrete
    <2> HIDE DEF n, tried
    <2>2. Quality(i) = W(i) /\ W(i) \in 0 .. 1000
      BY <2>1, QualityIsWeight, Zenon
    <2> HIDE DEF Quality, W
    <2> QED
      BY <2>2
  <1>4. \E f : Rec(f)
    <2>1. ASSUME NEW i \in 1 .. n, NEW b \in S PROVE Keep(i, b) \in S
      <3>1. tried[i] \in Representations
        BY <1>1
      <3> HIDE DEF Quality, tried, n
      <3>3. Quality(i) \in Int
        BY <1>3
      <3> QED
        BY <3>1, <3>3
    <2>2. none \in S
      OBVIOUS
    <2> HIDE DEF S, n, none, Keep
    <2>3. G \in [1 .. n -> [S -> S]]
      BY <2>1
    <2> HIDE DEF G
    <2>4. PICK f \in [0 .. n -> S] : f[0] = none /\ \A i \in 1 .. n : f[i] = G[i][f[i - 1]]
      <3>1. HasPass(n, S, none, G)
        BY <1>1, <2>2, <2>3, Pass
      <3> QED
        BY <3>1 DEF HasPass
    <2>5. ASSUME NEW i \in 1 .. n PROVE G[i][f[i - 1]] = Keep(i, f[i - 1])
      <3>1. f[i - 1] \in S
        BY <1>1, <2>4
      <3> QED
        BY <3>1 DEF G
    <2>6. Rec(f)
      BY <1>1, <2>4, <2>5
    <2> QED
      BY <2>6
  <1> HIDE DEF n, Rec
  <1>5. Rec(r)
    BY <1>4
  <1> HIDE DEF r, Keep, none
  <1>6. r[0] = none /\ \A i \in 1 .. n : r[i] = Keep(i, r[i - 1])
    BY <1>1, <1>5 DEF Rec
  <1> HIDE DEF Quality, W, tried
  <1> DEFINE Best(b, i) ==
                 \/ b = none /\ \A j \in 1 .. i : W(j) = 0
                 \/ \E k \in 1 .. i :
                        /\ b = [rep |-> tried[k], quality |-> W(k)]
                        /\ W(k) > 0
                        /\ \A j \in 1 .. i : W(j) <= W(k) /\ (j < k => W(j) < W(k))
             T == {i \in 0 .. n : Best(r[i], i)}
  <1>7. 0 \in T
    BY <1>1, <1>6
  <1>8. ASSUME NEW i \in 0 .. n - 1, i \in T PROVE i + 1 \in T
    <2>1. i + 1 \in 1 .. n /\ (i + 1) - 1 = i /\ i + 1 \in 0 .. n /\ Best(r[i], i)
      BY <1>1, <1>8
    <2>2. r[i + 1] = Keep(i + 1, r[i])
      <3>1. r[i + 1] = Keep(i + 1, r[(i + 1) - 1])
        BY <1>6, <2>1
      <3> QED
        BY <2>1, <3>1
    <2>3. Quality(i + 1) = W(i + 1)
      BY <1>3, <2>1
    <2>4. \A j \in 1 .. i + 1 : W(j) \in Nat
      <3>1. \A j \in 1 .. i + 1 : j \in 1 .. n
        BY <1>1, <2>1
      <3>2. \A x \in 0 .. 1000 : x \in Nat
        OBVIOUS
      <3> QED
        BY <1>3, <3>1, <3>2
    <2>5. \A j : j \in 1 .. i + 1 <=> j \in 1 .. i \/ j = i + 1
      OBVIOUS
    <2>6. CASE r[i] = none /\ \A j \in 1 .. i : W(j) = 0
      <3>1. r[i].quality = 0
        BY <2>6 DEF none
      <3>2. r[i + 1] = IF W(i + 1) > 0 THEN [rep |-> tried[i + 1], quality |-> W(i + 1)]
                       ELSE none
        BY <2>2, <2>3, <2>6, <3>1 DEF Keep
      <3>3. CASE W(i + 1) > 0
        <4>1. r[i + 1] = [rep |-> tried[i + 1], quality |-> W(i + 1)]
          BY <3>2, <3>3
        <4>2. \A j \in 1 .. i + 1 : W(j) <= W(i + 1) /\ (j < i + 1 => W(j) < W(i + 1))
          BY <2>4, <2>5, <2>6, <3>3
        <4>3. i + 1 \in 1 .. i + 1
          OBVIOUS
        <4>4. Best(r[i + 1], i + 1)
          BY <3>3, <4>1, <4>2, <4>3
        <4> HIDE DEF Best
        <4> QED
          BY <2>1, <4>4
      <3>4. CASE ~(W(i + 1) > 0)
        <4>1. r[i + 1] = none
          BY <3>2, <3>4
        <4>2. \A j \in 1 .. i + 1 : W(j) = 0
          BY <2>4, <2>5, <2>6, <3>4
        <4>3. Best(r[i + 1], i + 1)
          BY <4>1, <4>2
        <4> HIDE DEF Best
        <4> QED
          BY <2>1, <4>3
      <3> QED
        BY <3>3, <3>4
    <2>7. CASE \E k \in 1 .. i :
                    /\ r[i] = [rep |-> tried[k], quality |-> W(k)]
                    /\ W(k) > 0
                    /\ \A j \in 1 .. i : W(j) <= W(k) /\ (j < k => W(j) < W(k))
      <3>1. PICK k \in 1 .. i :
                    /\ r[i] = [rep |-> tried[k], quality |-> W(k)]
                    /\ W(k) > 0
                    /\ \A j \in 1 .. i : W(j) <= W(k) /\ (j < k => W(j) < W(k))
        BY <2>7
      <3>2. r[i + 1] = IF W(i + 1) > W(k) THEN [rep |-> tried[i + 1], quality |-> W(i + 1)]
                       ELSE r[i]
        BY <2>2, <2>3, <3>1 DEF Keep
      <3>3. k \in 1 .. i + 1 /\ i + 1 \in 1 .. i + 1 /\ ~(i + 1 < k)
        OBVIOUS
      <3>4. W(k) \in Nat /\ W(i + 1) \in Nat
        BY <2>4, <3>3
      <3>5. CASE W(i + 1) > W(k)
        <4>1. r[i + 1] = [rep |-> tried[i + 1], quality |-> W(i + 1)]
          BY <3>2, <3>5
        <4>2. \A j \in 1 .. i + 1 : W(j) <= W(i + 1) /\ (j < i + 1 => W(j) < W(i + 1))
          BY <2>4, <2>5, <3>1, <3>4, <3>5
        <4>3. W(i + 1) > 0
          BY <3>1, <3>4, <3>5
        <4>4. Best(r[i + 1], i + 1)
          BY <3>3, <4>1, <4>2, <4>3
        <4> HIDE DEF Best
        <4> QED
          BY <2>1, <4>4
      <3>6. CASE ~(W(i + 1) > W(k))
        <4>1. r[i + 1] = [rep |-> tried[k], quality |-> W(k)]
          BY <3>1, <3>2, <3>6
        <4>2. \A j \in 1 .. i + 1 : W(j) <= W(k) /\ (j < k => W(j) < W(k))
          BY <2>4, <2>5, <3>1, <3>3, <3>4, <3>6
        <4>3. Best(r[i + 1], i + 1)
          BY <3>1, <3>3, <4>1, <4>2
        <4> HIDE DEF Best
        <4> QED
          BY <2>1, <4>3
      <3> QED
        BY <3>5, <3>6
    <2> QED
      BY <2>1, <2>6, <2>7
  <1>9. n \in T
    <2> HIDE DEF T
    <2> QED
      BY <1>1, <1>7, <1>8, UpTo
  <1>10. Best(r[n], n)
    BY <1>9
  <1> HIDE DEF chosen
  <1>11. CASE r[n] = none /\ \A j \in 1 .. n : W(j) = 0
    <2>1. chosen = NotOffered
      BY <1>2, <1>11 DEF none
    <2> QED
      BY <1>1, <1>11, <2>1 DEF BestOf, W, tried, chosen
  <1>12. ASSUME NEW k \in 1 .. n, r[n] = [rep |-> tried[k], quality |-> W(k)], W(k) > 0,
                \A j \in 1 .. n : W(j) <= W(k) /\ (j < k => W(j) < W(k))
         PROVE  BestOf(accept, tried, json, chosen) /\ chosen \in Representations
    <2>1. chosen = tried[k] /\ tried[k] \in Representations
      BY <1>1, <1>2, <1>12
    <2>2. chosen # NotOffered
      BY <2>1 DEF Representations, NotOffered
    <2>3. \E j \in DOMAIN tried :
              /\ tried[j] = chosen
              /\ Weight(accept, MediaType(chosen, json)) > 0
              /\ \A i \in DOMAIN tried :
                     /\ Weight(accept, MediaType(tried[i], json))
                            <= Weight(accept, MediaType(chosen, json))
                     /\ i < j => Weight(accept, MediaType(tried[i], json))
                                     < Weight(accept, MediaType(chosen, json))
      BY <1>1, <1>12, <2>1 DEF W
    <2> QED
      BY <2>1, <2>2, <2>3, Zenon DEF BestOf
  <1> QED
    BY <1>10, <1>11, <1>12 DEF tried, chosen

AcceptFields == {NoAccept} \cup Seq(Element)

LEMMA FirstWithoutWish ==
    ASSUME NEW allow_cbor \in BOOLEAN, NEW json
    PROVE  BestOf(NoAccept, Candidates(allow_cbor), json, "json")
  <1> DEFINE offered == Candidates(allow_cbor)
  <1>1. \A r : Weight(NoAccept, MediaType(r, json)) = 1000
    BY Zenon DEF Weight
  <1>2. offered \in Seq(Representations) /\ 1 \in DOMAIN offered /\ offered[1] = "json"
        /\ \A i \in DOMAIN offered : ~(i < 1)
    <2>1. /\ <<"json", "json_utf8", "cbor">>[1] = "json" /\ <<"json", "json_utf8">>[1] = "json"
          /\ DOMAIN <<"json", "json_utf8", "cbor">> = 1 .. 3
          /\ DOMAIN <<"json", "json_utf8">> = 1 .. 2
      OBVIOUS
    <2>2. DOMAIN offered \in {1 .. 3, 1 .. 2} /\ offered[1] = "json"
      BY <2>1, Zenon DEF Candidates
    <2> HIDE DEF offered
    <2>3. 1 \in DOMAIN offered /\ \A i \in DOMAIN offered : ~(i < 1)
      BY <2>2
    <2> QED
      BY <2>2, <2>3, CandidatesOffered DEF offered
  <1> HIDE DEF offered
  <1>3. \E k \in DOMAIN offered :
            /\ offered[k] = "json"
            /\ Weight(NoAccept, MediaType("json", json)) > 0
            /\ \A i \in DOMAIN offered :
                   /\ Weight(NoAccept, MediaType(offered[i], json))
                          <= Weight(NoAccept, MediaType("json", json))
                   /\ i < k => Weight(NoAccept, MediaType(offered[i], json))
                                   < Weight(NoAccept, MediaType("json", json))
    BY <1>1, <1>2
  <1>4. "json" # NotOffered
    BY DEF NotOffered
  <1>5. BestOf(NoAccept, offered, json, "json")
    BY <1>3, <1>4, Zenon DEF BestOf
  <1> QED
    BY <1>5 DEF offered

(* negotiate_success                                                       *)
LEMMA SuccessNegotiated ==
    ASSUME NEW accept \in AcceptFields, NEW allow_cbor \in BOOLEAN
    PROVE  LET chosen == NegotiateSuccess(accept, allow_cbor)
           IN  /\ BestOf(accept, Candidates(allow_cbor), "json", chosen)
               /\ chosen \in Representations \cup {NotOffered}
  <1>1. CASE accept = NoAccept
    BY <1>1, FirstWithoutWish DEF NegotiateSuccess, Representations
  <1>2. CASE accept # NoAccept
    <2>1. accept \in Seq(Element)
      BY <1>2 DEF AcceptFields
    <2> QED
      BY <1>2, <2>1, ChosenIsBest, Zenon DEF NegotiateSuccess
  <1> QED
    BY <1>1, <1>2

(* negotiate_problem_representation                                        *)
ProblemBest(accept, rep) ==
    \/ BestOf(accept, Candidates(TRUE), "problem+json", rep)
    \/ rep = "json" /\ BestOf(accept, Candidates(TRUE), "problem+json", NotOffered)

LEMMA ProblemNegotiated ==
    ASSUME NEW accept \in AcceptFields
    PROVE  /\ NegotiateProblem(accept) \in Representations
           /\ ProblemBest(accept, NegotiateProblem(accept))
  <1>1. CASE accept = NoAccept
    <2>1. NegotiateProblem(accept) = "json"
      BY <1>1 DEF NegotiateProblem, NotOffered
    <2>2. BestOf(accept, Candidates(TRUE), "problem+json", "json")
      BY <1>1, FirstWithoutWish
    <2>3. "json" \in Representations
      BY DEF Representations
    <2> QED
      BY <2>1, <2>2, <2>3, Zenon DEF ProblemBest
  <1>2. CASE accept # NoAccept
    <2> DEFINE chosen == ChooseRepresentation(AcceptRanges(accept), TRUE, "problem+json")
    <2>1. accept \in Seq(Element)
      BY <1>2 DEF AcceptFields
    <2>2. /\ BestOf(accept, Candidates(TRUE), "problem+json", chosen)
          /\ chosen \in Representations \cup {NotOffered}
      BY <1>2, <2>1, ChosenIsBest, Zenon
    <2>3. NegotiateProblem(accept) = IF chosen = NotOffered THEN "json" ELSE chosen
      BY <1>2, Zenon DEF NegotiateProblem
    <2> HIDE DEF chosen
    <2>4. "json" \in Representations
      BY DEF Representations
    <2> QED
      BY <2>2, <2>3, <2>4, Zenon DEF ProblemBest
  <1> QED
    BY <1>1, <1>2

(* What can be sent is acceptable.                                         *)
LEMMA ChosenIsAcceptable ==
    ASSUME NEW accept, NEW offered, NEW json, NEW rep,
           BestOf(accept, offered, json, rep), rep # NotOffered
    PROVE  ~BestOf(accept, offered, json, NotOffered)
  <1>1. PICK k \in DOMAIN offered :
            offered[k] = rep /\ Weight(accept, MediaType(rep, json)) > 0
    BY Zenon DEF BestOf
  <1>2. Weight(accept, MediaType(offered[k], json)) # 0
    BY <1>1
  <1> QED
    BY <1>2, Zenon DEF BestOf

---------------------------------------------------------------------------
(* The patterns of the routes.                                             *)
At1(path, a) == Len(path) = 1 /\ path[1] = a
At2(path, a, b) == Len(path) = 2 /\ path[1] = a /\ path[2] = b
GitHubAt(path, n, kind) ==
    Len(path) = n /\ path[1] = "v1" /\ path[2] = "github" /\ path[3] = kind

Parameters == {"{owner}", "{repo}", "{*rest}"}
Fits(path, pattern, i) ==
    path[i] = pattern[i]
    \/ (pattern[i] \in Parameters /\ (path[i] # "" \/ i < Len(path)))

LEMMA Segments ==
    /\ "v1" \notin Parameters /\ "github" \notin Parameters /\ "owners" \notin Parameters
    /\ "repos" \notin Parameters /\ "{owner}" \in Parameters /\ "{repo}" \in Parameters
    /\ "{owner}" # "" /\ "{repo}" # "" /\ "repos" # ""
    /\ "{*rest}" \in Parameters /\ "{owner}" # "{*rest}" /\ "{repo}" # "{*rest}"
    /\ ~(4 < 4) /\ 4 < 5 /\ ~(5 < 5) /\ 4 < 6 /\ 5 < 6 /\ ~(6 < 6)
  BY DEF Parameters

LEMMA PlainPattern ==
    ASSUME NEW path, NEW pattern, NEW n, Len(pattern) = n, pattern[n] # "{*rest}"
    PROVE  Matches(path, pattern)
               <=> Len(path) = n /\ \A i \in DOMAIN pattern : Fits(path, pattern, i)
  BY Zenon DEF Matches, Fits, IsParameter, Parameters

LEMMA MatchesOne ==
    ASSUME NEW path, NEW a, a \notin Parameters
    PROVE  Matches(path, <<a>>)
               <=> At1(path, a)
  <1> DEFINE pattern == <<a>>
  <1>1. /\ Len(pattern) = 1 /\ DOMAIN pattern = {1}
        /\ pattern[1] = a
    OBVIOUS
  <1> HIDE DEF pattern
  <1>2. Matches(path, pattern) <=> /\ Len(path) = 1
                                   /\ \A i \in {1} : Fits(path, pattern, i)
    BY <1>1, PlainPattern, Segments, Zenon
  <1>3. Matches(path, pattern) <=> /\ Len(path) = 1
                                   /\ Fits(path, pattern, 1)
    BY <1>2, Zenon
  <1>4. Matches(path, pattern)
            <=> At1(path, a)
    BY <1>1, <1>3, Segments, Zenon DEF Fits, GitHubAt, At1, At2
  <1> QED
    BY <1>4 DEF pattern

LEMMA MatchesTwo ==
    ASSUME NEW path, NEW a, a \notin Parameters, NEW b, b \notin Parameters
    PROVE  Matches(path, <<a, b>>)
               <=> At2(path, a, b)
  <1> DEFINE pattern == <<a, b>>
  <1>1. /\ Len(pattern) = 2 /\ DOMAIN pattern = {1, 2}
        /\ pattern[1] = a /\ pattern[2] = b
    OBVIOUS
  <1> HIDE DEF pattern
  <1>2. Matches(path, pattern) <=> /\ Len(path) = 2
                                   /\ \A i \in {1, 2} : Fits(path, pattern, i)
    BY <1>1, PlainPattern, Segments, Zenon
  <1>3. Matches(path, pattern) <=> /\ Len(path) = 2
                                   /\ Fits(path, pattern, 1) /\ Fits(path, pattern, 2)
    BY <1>2, Zenon
  <1>4. Matches(path, pattern)
            <=> At2(path, a, b)
    BY <1>1, <1>3, Segments, Zenon DEF Fits, GitHubAt, At1, At2
  <1> QED
    BY <1>4 DEF pattern

LEMMA MatchesOwner ==
    ASSUME NEW path
    PROVE  Matches(path, <<"v1", "github", "owners", "{owner}">>)
               <=> GitHubAt(path, 4, "owners") /\ path[4] # ""
  <1> DEFINE pattern == <<"v1", "github", "owners", "{owner}">>
  <1>1. /\ Len(pattern) = 4 /\ DOMAIN pattern = {1, 2, 3, 4}
        /\ pattern[1] = "v1" /\ pattern[2] = "github" /\ pattern[3] = "owners"
        /\ pattern[4] = "{owner}"
    OBVIOUS
  <1> HIDE DEF pattern
  <1>2. Matches(path, pattern) <=> /\ Len(path) = 4
                                   /\ \A i \in {1, 2, 3, 4} : Fits(path, pattern, i)
    BY <1>1, PlainPattern, Segments, Zenon
  <1>3. Matches(path, pattern) <=> /\ Len(path) = 4
                                   /\ Fits(path, pattern, 1) /\ Fits(path, pattern, 2)
                                   /\ Fits(path, pattern, 3) /\ Fits(path, pattern, 4)
    BY <1>2, Zenon
  <1>4. Matches(path, pattern)
            <=> GitHubAt(path, 4, "owners") /\ path[4] # ""
    BY <1>1, <1>3, Segments, Zenon DEF Fits, GitHubAt, At1, At2
  <1> QED
    BY <1>4 DEF pattern

LEMMA MatchesOwnerRepos ==
    ASSUME NEW path
    PROVE  Matches(path, <<"v1", "github", "owners", "{owner}", "repos">>)
               <=> GitHubAt(path, 5, "owners") /\ path[5] = "repos"
  <1> DEFINE pattern == <<"v1", "github", "owners", "{owner}", "repos">>
  <1>1. /\ Len(pattern) = 5 /\ DOMAIN pattern = {1, 2, 3, 4, 5}
        /\ pattern[1] = "v1" /\ pattern[2] = "github" /\ pattern[3] = "owners"
        /\ pattern[4] = "{owner}" /\ pattern[5] = "repos"
    OBVIOUS
  <1> HIDE DEF pattern
  <1>2. Matches(path, pattern) <=> /\ Len(path) = 5
                                   /\ \A i \in {1, 2, 3, 4, 5} : Fits(path, pattern, i)
    BY <1>1, PlainPattern, Segments, Zenon
  <1>3. Matches(path, pattern) <=> /\ Len(path) = 5
                                   /\ Fits(path, pattern, 1) /\ Fits(path, pattern, 2)
                                   /\ Fits(path, pattern, 3) /\ Fits(path, pattern, 4)
                                   /\ Fits(path, pattern, 5)
    BY <1>2, Zenon
  <1>4. Matches(path, pattern)
            <=> GitHubAt(path, 5, "owners") /\ path[5] = "repos"
    BY <1>1, <1>3, Segments, Zenon DEF Fits, GitHubAt, At1, At2
  <1> QED
    BY <1>4 DEF pattern

LEMMA MatchesRepo ==
    ASSUME NEW path
    PROVE  Matches(path, <<"v1", "github", "repos", "{owner}", "{repo}">>)
               <=> GitHubAt(path, 5, "repos") /\ path[5] # ""
  <1> DEFINE pattern == <<"v1", "github", "repos", "{owner}", "{repo}">>
  <1>1. /\ Len(pattern) = 5 /\ DOMAIN pattern = {1, 2, 3, 4, 5}
        /\ pattern[1] = "v1" /\ pattern[2] = "github" /\ pattern[3] = "repos"
        /\ pattern[4] = "{owner}" /\ pattern[5] = "{repo}"
    OBVIOUS
  <1> HIDE DEF pattern
  <1>2. Matches(path, pattern) <=> /\ Len(path) = 5
                                   /\ \A i \in {1, 2, 3, 4, 5} : Fits(path, pattern, i)
    BY <1>1, PlainPattern, Segments, Zenon
  <1>3. Matches(path, pattern) <=> /\ Len(path) = 5
                                   /\ Fits(path, pattern, 1) /\ Fits(path, pattern, 2)
                                   /\ Fits(path, pattern, 3) /\ Fits(path, pattern, 4)
                                   /\ Fits(path, pattern, 5)
    BY <1>2, Zenon
  <1>4. Matches(path, pattern)
            <=> GitHubAt(path, 5, "repos") /\ path[5] # ""
    BY <1>1, <1>3, Segments, Zenon DEF Fits, GitHubAt, At1, At2
  <1> QED
    BY <1>4 DEF pattern

LEMMA MatchesRepoPart ==
    ASSUME NEW path, NEW part, part \notin Parameters
    PROVE  Matches(path, <<"v1", "github", "repos", "{owner}", "{repo}", part>>)
               <=> GitHubAt(path, 6, "repos") /\ path[6] = part
  <1> DEFINE pattern == <<"v1", "github", "repos", "{owner}", "{repo}", part>>
  <1>1. /\ Len(pattern) = 6 /\ DOMAIN pattern = {1, 2, 3, 4, 5, 6}
        /\ pattern[1] = "v1" /\ pattern[2] = "github" /\ pattern[3] = "repos"
        /\ pattern[4] = "{owner}" /\ pattern[5] = "{repo}" /\ pattern[6] = part
    OBVIOUS
  <1> HIDE DEF pattern
  <1>2. Matches(path, pattern) <=> /\ Len(path) = 6
                                   /\ \A i \in {1, 2, 3, 4, 5, 6} : Fits(path, pattern, i)
    BY <1>1, PlainPattern, Segments, Zenon
  <1>3. Matches(path, pattern) <=> /\ Len(path) = 6
                                   /\ Fits(path, pattern, 1) /\ Fits(path, pattern, 2)
                                   /\ Fits(path, pattern, 3) /\ Fits(path, pattern, 4)
                                   /\ Fits(path, pattern, 5) /\ Fits(path, pattern, 6)
    BY <1>2, Zenon
  <1>4. Matches(path, pattern)
            <=> GitHubAt(path, 6, "repos") /\ path[6] = part
    BY <1>1, <1>3, Segments, Zenon DEF Fits, GitHubAt, At1, At2
  <1> QED
    BY <1>4 DEF pattern

(* The files of the Swagger page are all paths below it.                   *)
BelowSwagger(path) ==
    /\ Len(path) = 2 \/ Len(path) > 2
    /\ path[1] = "api-docs"
    /\ path[2] # "" \/ 2 < Len(path)

LEMMA MatchesBelow ==
    ASSUME NEW path
    PROVE  Matches(path, <<"api-docs", "{*rest}">>) <=> BelowSwagger(path)
  <1> DEFINE pattern == <<"api-docs", "{*rest}">>
  <1>1. /\ Len(pattern) = 2 /\ DOMAIN pattern = {1, 2}
        /\ pattern[1] = "api-docs" /\ pattern[2] = "{*rest}"
    OBVIOUS
  <1> HIDE DEF pattern
  <1>2. Matches(path, pattern) <=> /\ Len(path) = 2 \/ Len(path) > 2
                                   /\ \A i \in {1, 2} : Fits(path, pattern, i)
    BY <1>1, Zenon DEF Matches, Fits, IsParameter, Parameters
  <1>3. Matches(path, pattern) <=> /\ Len(path) = 2 \/ Len(path) > 2
                                   /\ Fits(path, pattern, 1) /\ Fits(path, pattern, 2)
    BY <1>2, Zenon
  <1>4. "api-docs" \notin Parameters /\ "{*rest}" # ""
    BY DEF Parameters
  <1>5. Matches(path, pattern) <=> BelowSwagger(path)
    BY <1>1, <1>3, <1>4, Segments, Zenon DEF Fits, BelowSwagger
  <1> QED
    BY <1>5 DEF pattern

LEMMA Joined ==
    ASSUME NEW S, NEW s \in Seq(S), NEW u \in Seq(S), NEW t \in Seq(S),
           Len(t) = Len(s) + Len(u),
           \A i \in 1 .. Len(t) : t[i] = IF i <= Len(s) THEN s[i] ELSE u[i - Len(s)]
    PROVE  s \o u = t
  <1>1. s \o u \in Seq(S) /\ Len(s \o u) = Len(s) + Len(u)
    BY ConcatProperties, Zenon
  <1>2. \A i \in 1 .. Len(s) + Len(u) :
            (s \o u)[i] = IF i <= Len(s) THEN s[i] ELSE u[i - Len(s)]
    BY ConcatProperties, Zenon
  <1> DEFINE j == s \o u
  <1> HIDE DEF j
  <1>3. j \in Seq(S) /\ Len(j) = Len(t) /\ \A i \in 1 .. Len(t) : j[i] = t[i]
    BY <1>1, <1>2, Zenon DEF j
  <1>4. j = t
    BY <1>3, SeqEqual, Zenon
  <1> QED
    BY <1>4 DEF j
LEMMA GitHubPatterns ==
    ASSUME NEW part
    PROVE  /\ OwnerPath(<<part>>) = <<"v1", "github", "owners", "{owner}", part>>
           /\ RepoPath(<<part>>) = <<"v1", "github", "repos", "{owner}", "{repo}", part>>
  <1> DEFINE S == {"v1", "github", "owners", "repos", "{owner}", "{repo}", part}
             u == <<part>>
  <1>1. u \in Seq(S) /\ Len(u) = 1 /\ u[1] = part
    OBVIOUS
  <1>2. ASSUME NEW s \in Seq(S), NEW t \in Seq(S), NEW n \in Nat, Len(s) = n, Len(t) = n + 1,
               \A i \in 1 .. n : t[i] = s[i], t[n + 1] = part
        PROVE  s \o u = t
    <2> HIDE DEF u, S
    <2>1. Len(t) = Len(s) + Len(u)
      BY <1>1, <1>2
    <2>2. \A i \in 1 .. Len(t) : t[i] = IF i <= Len(s) THEN s[i] ELSE u[i - Len(s)]
      BY <1>1, <1>2
    <2> QED
      BY <1>1, <2>1, <2>2, Joined
  <1>3. <<"v1", "github", "owners", "{owner}">> \o u
            = <<"v1", "github", "owners", "{owner}", part>>
    <2> DEFINE s == <<"v1", "github", "owners", "{owner}">>
               t == <<"v1", "github", "owners", "{owner}", part>>
    <2>1. s \in Seq(S) /\ t \in Seq(S) /\ Len(s) = 4 /\ Len(t) = 4 + 1
      OBVIOUS
    <2>2. t[4 + 1] = part /\ t[1] = s[1] /\ t[2] = s[2] /\ t[3] = s[3] /\ t[4] = s[4]
      OBVIOUS
    <2>3. \A i \in 1 .. 4 : i \in {1, 2, 3, 4}
      OBVIOUS
    <2> HIDE DEF s, t, u, S
    <2>4. \A i \in 1 .. 4 : t[i] = s[i]
      BY <2>2, <2>3, Zenon
    <2>5. s \o u = t
      BY <1>2, <2>1, <2>2, <2>4
    <2> QED
      BY <2>5 DEF s, t
  <1>4. <<"v1", "github", "repos", "{owner}", "{repo}">> \o u
            = <<"v1", "github", "repos", "{owner}", "{repo}", part>>
    <2> DEFINE s == <<"v1", "github", "repos", "{owner}", "{repo}">>
               t == <<"v1", "github", "repos", "{owner}", "{repo}", part>>
    <2>1. s \in Seq(S) /\ t \in Seq(S) /\ Len(s) = 5 /\ Len(t) = 5 + 1
      OBVIOUS
    <2>2. /\ t[5 + 1] = part /\ t[1] = s[1] /\ t[2] = s[2] /\ t[3] = s[3] /\ t[4] = s[4]
          /\ t[5] = s[5]
      OBVIOUS
    <2>3. \A i \in 1 .. 5 : i \in {1, 2, 3, 4, 5}
      OBVIOUS
    <2> HIDE DEF s, t, u, S
    <2>4. \A i \in 1 .. 5 : t[i] = s[i]
      BY <2>2, <2>3, Zenon
    <2>5. s \o u = t
      BY <1>2, <2>1, <2>2, <2>4
    <2> QED
      BY <2>5 DEF s, t
  <1> QED
    BY <1>3, <1>4 DEF OwnerPath, RepoPath

LEMMA GitHubRoots ==
    /\ OwnerPath(<<>>) = <<"v1", "github", "owners", "{owner}">>
    /\ RepoPath(<<>>) = <<"v1", "github", "repos", "{owner}", "{repo}">>
  <1> DEFINE S == {"v1", "github", "owners", "repos", "{owner}", "{repo}"}
  <1>1. /\ <<"v1", "github", "owners", "{owner}">> \in Seq(S)
        /\ <<"v1", "github", "repos", "{owner}", "{repo}">> \in Seq(S)
    OBVIOUS
  <1> QED
    BY <1>1, ConcatEmptySeq, Zenon DEF OwnerPath, RepoPath

---------------------------------------------------------------------------
(* Which handler a method reaches on a path, through these routes.         *)
Reaches(routes, path, m, h) ==
    \E route \in routes : Matches(path, route.path) /\ route.method = m /\ route.handler = h

LEMMA RouteFields ==
    \A path, method, handles : /\ Route(path, method, handles).path = path
                               /\ Route(path, method, handles).method = method
                               /\ Route(path, method, handles).handler = handles
  BY DEF Route

(* The table of the routers, by the number of segments.                    *)
OneSegment(path, h) ==
    \/ At1(path, "health") /\ h = "getHealth"
    \/ At1(path, "openapi.json") /\ h = "openapi"
    \/ At1(path, "llms.txt") /\ h = "index"
    \/ At1(path, "llms-full.txt") /\ h = "guide"
    \/ At1(path, "api-docs") /\ h = "swaggerRedirect"
TwoSegments(path, h) ==
    \/ At2(path, "v1", "hello") /\ h = "getHello"
    \/ At2(path, "v1", "items") /\ h = "listItems"
    \/ At2(path, "v1", "profile") /\ h = "getProfile"
    \/ At2(path, ".well-known", "api-catalog") /\ h = "catalog"
    \/ At2(path, "api-docs", "") /\ h = "swaggerUi"
GitHubSegments(path, h) ==
    \/ GitHubAt(path, 4, "owners") /\ path[4] # "" /\ h = "getGitHubOwner"
    \/ GitHubAt(path, 5, "owners") /\ path[5] = "repos" /\ h = "listGitHubOwnerRepositories"
    \/ GitHubAt(path, 5, "repos") /\ path[5] # "" /\ h = "getGitHubRepository"
    \/ GitHubAt(path, 6, "repos") /\ path[6] = "activity" /\ h = "listGitHubRepositoryActivity"
    \/ GitHubAt(path, 6, "repos") /\ path[6] = "languages" /\ h = "listGitHubRepositoryLanguages"
    \/ GitHubAt(path, 6, "repos") /\ path[6] = "tags" /\ h = "listGitHubRepositoryTags"
Writes(path, m, h) ==
    \/ At2(path, "v1", "hello") /\ m = "POST" /\ h = "createHello"
    \/ At2(path, "v1", "profile") /\ m = "POST" /\ h = "createProfile"
    \/ At2(path, "v1", "profile") /\ m = "PATCH" /\ h = "updateProfile"
    \/ At2(path, "v1", "profile") /\ m = "DELETE" /\ h = "deleteProfile"
Files(path, h) == BelowSwagger(path) /\ h = "swaggerUi"
Reads(path, h) ==
    OneSegment(path, h) \/ TwoSegments(path, h) \/ GitHubSegments(path, h) \/ Files(path, h)

LEMMA LiteralSegments ==
    \A a \in {"health", "openapi.json", "llms.txt", "llms-full.txt", "api-docs", "v1", "hello",
              "items", "profile", ".well-known", "api-catalog", "", "activity", "languages",
              "tags"} : a \notin Parameters
  BY DEF Parameters

LEMMA ReachesUnion ==
    ASSUME NEW R, NEW S, NEW path, NEW m, NEW h
    PROVE  Reaches(R \cup S, path, m, h) <=> Reaches(R, path, m, h) \/ Reaches(S, path, m, h)
  BY Zenon DEF Reaches

LEMMA ReachesOne ==
    ASSUME NEW path, NEW m, NEW h, NEW pattern, NEW method, NEW handles
    PROVE  Reaches({Route(pattern, method, handles)}, path, m, h)
               <=> Matches(path, pattern) /\ m = method /\ h = handles
  <1> DEFINE route == Route(pattern, method, handles)
  <1>1. route.path = pattern /\ route.method = method /\ route.handler = handles
    BY RouteFields
  <1> HIDE DEF route
  <1>2. Reaches({route}, path, m, h)
            <=> Matches(path, route.path) /\ route.method = m /\ route.handler = h
    BY Zenon DEF Reaches
  <1>3. Reaches({route}, path, m, h) <=> Matches(path, pattern) /\ m = method /\ h = handles
    BY <1>1, <1>2, Zenon
  <1> QED
    BY <1>3 DEF route

LEMMA OneSegmentRoutes ==
    ASSUME NEW path, NEW m, NEW h
    PROVE  /\ Reaches({Route(<<"health">>, "GET", "getHealth")}, path, m, h)
                  <=> m = "GET" /\ At1(path, "health") /\ h = "getHealth"
           /\ Reaches(DocsRouter, path, m, h)
                  <=> m = "GET" /\ At1(path, "openapi.json") /\ h = "openapi"
  <1>1. /\ Matches(path, <<"health">>) <=> At1(path, "health")
        /\ Matches(path, <<"openapi.json">>) <=> At1(path, "openapi.json")
    BY MatchesOne, LiteralSegments, Zenon
  <1> QED
    BY <1>1, ReachesOne DEF DocsRouter

LEMMA DiscoveryRoutes ==
    ASSUME NEW path, NEW m, NEW h
    PROVE  Reaches(DiscoveryRouter, path, m, h)
               <=> m = "GET" /\ \/ At1(path, "llms.txt") /\ h = "index"
                                \/ At1(path, "llms-full.txt") /\ h = "guide"
                                \/ At2(path, ".well-known", "api-catalog") /\ h = "catalog"
  <1> DEFINE One(pattern, method, handles) ==
                 Reaches({Route(pattern, method, handles)}, path, m, h)
  <1>0. \A pattern, method, handles : One(pattern, method, handles)
            <=> Matches(path, pattern) /\ m = method /\ h = handles
    BY ReachesOne
  <1>1. Reaches(DiscoveryRouter, path, m, h)
            <=> m = "GET" /\ \/ Matches(path, <<"llms.txt">>) /\ h = "index"
                             \/ Matches(path, <<"llms-full.txt">>) /\ h = "guide"
                             \/ Matches(path, <<".well-known", "api-catalog">>) /\ h = "catalog"
    <2>1. Reaches(DiscoveryRouter, path, m, h) <=>
              \/ One(<<".well-known", "api-catalog">>, "GET", "catalog")
              \/ One(<<"llms.txt">>, "GET", "index")
              \/ One(<<"llms-full.txt">>, "GET", "guide")
      BY Zenon DEF DiscoveryRouter, Reaches
    <2> HIDE DEF One
    <2> QED
      BY <1>0, <2>1
  <1> QED
    BY <1>1, MatchesOne, MatchesTwo, LiteralSegments, Zenon

LEMMA SwaggerRoutes ==
    ASSUME NEW path, NEW m, NEW h
    PROVE  Reaches(SwaggerRouter, path, m, h)
               <=> m = "GET" /\ \/ At1(path, "api-docs") /\ h = "swaggerRedirect"
                                \/ At2(path, "api-docs", "") /\ h = "swaggerUi"
                                \/ Files(path, h)
  <1> DEFINE One(pattern, method, handles) ==
                 Reaches({Route(pattern, method, handles)}, path, m, h)
  <1>0. \A pattern, method, handles : One(pattern, method, handles)
            <=> Matches(path, pattern) /\ m = method /\ h = handles
    BY ReachesOne
  <1>1. Reaches(SwaggerRouter, path, m, h)
            <=> m = "GET" /\ \/ Matches(path, <<"api-docs">>) /\ h = "swaggerRedirect"
                             \/ Matches(path, <<"api-docs", "">>) /\ h = "swaggerUi"
                             \/ Matches(path, <<"api-docs", "{*rest}">>) /\ h = "swaggerUi"
    <2>1. Reaches(SwaggerRouter, path, m, h) <=>
              \/ One(<<"api-docs">>, "GET", "swaggerRedirect")
              \/ One(<<"api-docs", "">>, "GET", "swaggerUi")
              \/ One(<<"api-docs", "{*rest}">>, "GET", "swaggerUi")
      BY Zenon DEF SwaggerRouter, SwaggerPage, Reaches
    <2> HIDE DEF One
    <2> QED
      BY <1>0, <2>1
  <1> QED
    BY <1>1, MatchesOne, MatchesTwo, MatchesBelow, LiteralSegments, Zenon DEF Files

LEMMA V1Routes ==
    ASSUME NEW path, NEW m, NEW h
    PROVE  Reaches(HelloRouter \cup ItemsRouter \cup ProfileRouter, path, m, h)
               <=> \/ m = "GET" /\ \/ At2(path, "v1", "hello") /\ h = "getHello"
                                   \/ At2(path, "v1", "items") /\ h = "listItems"
                                   \/ At2(path, "v1", "profile") /\ h = "getProfile"
                   \/ Writes(path, m, h)
  <1> DEFINE One(pattern, method, handles) ==
                 Reaches({Route(pattern, method, handles)}, path, m, h)
  <1>0. \A pattern, method, handles : One(pattern, method, handles)
            <=> Matches(path, pattern) /\ m = method /\ h = handles
    BY ReachesOne
  <1>1. Reaches(HelloRouter, path, m, h)
            <=> /\ Matches(path, <<"v1", "hello">>)
                /\ \/ m = "GET" /\ h = "getHello"
                   \/ m = "POST" /\ h = "createHello"
    <2>1. Reaches(HelloRouter, path, m, h) <=>
              \/ One(<<"v1", "hello">>, "GET", "getHello")
              \/ One(<<"v1", "hello">>, "POST", "createHello")
      BY Zenon DEF HelloRouter, Reaches
    <2> HIDE DEF One
    <2> QED
      BY <1>0, <2>1
  <1>2. Reaches(ItemsRouter, path, m, h)
            <=> Matches(path, <<"v1", "items">>) /\ m = "GET" /\ h = "listItems"
    BY ReachesOne DEF ItemsRouter
  <1>3. Reaches(ProfileRouter, path, m, h)
            <=> /\ Matches(path, <<"v1", "profile">>)
                /\ \/ m = "GET" /\ h = "getProfile"
                   \/ m = "POST" /\ h = "createProfile"
                   \/ m = "PATCH" /\ h = "updateProfile"
                   \/ m = "DELETE" /\ h = "deleteProfile"
    <2>1. Reaches(ProfileRouter, path, m, h) <=>
              \/ One(<<"v1", "profile">>, "GET", "getProfile")
              \/ One(<<"v1", "profile">>, "POST", "createProfile")
              \/ One(<<"v1", "profile">>, "PATCH", "updateProfile")
              \/ One(<<"v1", "profile">>, "DELETE", "deleteProfile")
      BY Zenon DEF ProfileRouter, Reaches
    <2> HIDE DEF One
    <2> QED
      BY <1>0, <2>1
  <1>4. /\ Matches(path, <<"v1", "hello">>) <=> At2(path, "v1", "hello")
        /\ Matches(path, <<"v1", "items">>) <=> At2(path, "v1", "items")
        /\ Matches(path, <<"v1", "profile">>) <=> At2(path, "v1", "profile")
    BY MatchesTwo, LiteralSegments, Zenon
  <1> QED
    BY <1>1, <1>2, <1>3, <1>4, ReachesUnion, Zenon DEF Writes

LEMMA GitHubRoutes ==
    ASSUME NEW path, NEW m, NEW h
    PROVE  Reaches(GitHubRouter, path, m, h) <=> m = "GET" /\ GitHubSegments(path, h)
  <1> DEFINE One(pattern, method, handles) ==
                 Reaches({Route(pattern, method, handles)}, path, m, h)
  <1>0. \A pattern, method, handles : One(pattern, method, handles)
            <=> Matches(path, pattern) /\ m = method /\ h = handles
    BY ReachesOne
  <1> DEFINE Repo(part) == <<"v1", "github", "repos", "{owner}", "{repo}", part>>
  <1>1. Reaches(GitHubRouter, path, m, h)
            <=> m = "GET" /\ \/ Matches(path, OwnerPath(<<>>)) /\ h = "getGitHubOwner"
                             \/ /\ Matches(path, OwnerPath(<<"repos">>))
                                /\ h = "listGitHubOwnerRepositories"
                             \/ Matches(path, RepoPath(<<>>)) /\ h = "getGitHubRepository"
                             \/ /\ Matches(path, RepoPath(<<"activity">>))
                                /\ h = "listGitHubRepositoryActivity"
                             \/ /\ Matches(path, RepoPath(<<"languages">>))
                                /\ h = "listGitHubRepositoryLanguages"
                             \/ /\ Matches(path, RepoPath(<<"tags">>))
                                /\ h = "listGitHubRepositoryTags"
    <2>1. Reaches(GitHubRouter, path, m, h) <=>
              \/ One(OwnerPath(<<>>), "GET", "getGitHubOwner")
              \/ One(OwnerPath(<<"repos">>), "GET", "listGitHubOwnerRepositories")
              \/ One(RepoPath(<<>>), "GET", "getGitHubRepository")
              \/ One(RepoPath(<<"activity">>), "GET", "listGitHubRepositoryActivity")
              \/ One(RepoPath(<<"languages">>), "GET", "listGitHubRepositoryLanguages")
              \/ One(RepoPath(<<"tags">>), "GET", "listGitHubRepositoryTags")
      BY Zenon DEF GitHubRouter, Reaches
    <2> HIDE DEF One
    <2> QED
      BY <1>0, <2>1
  <1>2. /\ Matches(path, OwnerPath(<<>>)) <=> GitHubAt(path, 4, "owners") /\ path[4] # ""
        /\ Matches(path, OwnerPath(<<"repos">>))
               <=> GitHubAt(path, 5, "owners") /\ path[5] = "repos"
        /\ Matches(path, RepoPath(<<>>)) <=> GitHubAt(path, 5, "repos") /\ path[5] # ""
    BY GitHubRoots, GitHubPatterns, MatchesOwner, MatchesOwnerRepos, MatchesRepo, Zenon
  <1>3. ASSUME NEW part \in {"activity", "languages", "tags"}
        PROVE  Matches(path, RepoPath(<<part>>)) <=> GitHubAt(path, 6, "repos") /\ path[6] = part
    <2>1. part \notin Parameters
      BY LiteralSegments
    <2> QED
      BY <2>1, GitHubPatterns, MatchesRepoPart, Zenon
  <1> QED
    BY <1>1, <1>2, <1>3, Zenon DEF GitHubSegments

LEMMA RoutesTable ==
    ASSUME NEW path, NEW m, NEW h
    PROVE  Reaches(Routes, path, m, h) <=> (m = "GET" /\ Reads(path, h)) \/ Writes(path, m, h)
  <1> DEFINE v1 == HelloRouter \cup ItemsRouter \cup ProfileRouter
             health == {Route(<<"health">>, "GET", "getHealth")}
  <1>1. \A r : r \in Routes <=> \/ r \in health \/ r \in DocsRouter \/ r \in DiscoveryRouter
                                \/ r \in SwaggerRouter \/ r \in GitHubRouter \/ r \in v1
    BY Zenon DEF Routes, V1Router
  <1> HIDE DEF v1, health
  <1>2. Reaches(Routes, path, m, h) <=>
            \/ Reaches(health, path, m, h) \/ Reaches(DocsRouter, path, m, h)
            \/ Reaches(DiscoveryRouter, path, m, h) \/ Reaches(SwaggerRouter, path, m, h)
            \/ Reaches(GitHubRouter, path, m, h) \/ Reaches(v1, path, m, h)
    BY <1>1, Zenon DEF Reaches
  <1> QED
    BY <1>2, OneSegmentRoutes, DiscoveryRoutes, SwaggerRoutes, GitHubRoutes, V1Routes, Zenon
       DEF Reads, OneSegment, TwoSegments, v1, health

---------------------------------------------------------------------------
(* No two handlers share a method and a path.                              *)
LEMMA OneUnique ==
    ASSUME NEW path, NEW g, NEW h, OneSegment(path, g), OneSegment(path, h)
    PROVE  g = h
  BY DEF OneSegment, At1

LEMMA TwoUnique ==
    ASSUME NEW path, NEW g, NEW h, TwoSegments(path, g), TwoSegments(path, h)
    PROVE  g = h
  <1>1. CASE At2(path, "v1", "hello") /\ g = "getHello"
    BY <1>1 DEF TwoSegments, At2
  <1>2. CASE At2(path, "v1", "items") /\ g = "listItems"
    BY <1>2 DEF TwoSegments, At2
  <1>3. CASE At2(path, "v1", "profile") /\ g = "getProfile"
    BY <1>3 DEF TwoSegments, At2
  <1>4. CASE At2(path, ".well-known", "api-catalog") /\ g = "catalog"
    BY <1>4 DEF TwoSegments, At2
  <1>5. CASE At2(path, "api-docs", "") /\ g = "swaggerUi"
    BY <1>5 DEF TwoSegments, At2
  <1> QED
    BY <1>1, <1>2, <1>3, <1>4, <1>5, Zenon DEF TwoSegments

LEMMA GitHubUnique ==
    ASSUME NEW path, NEW g, NEW h, GitHubSegments(path, g), GitHubSegments(path, h)
    PROVE  g = h
  <1>0. 4 # 5 /\ 4 # 6 /\ 5 # 6 /\ "owners" # "repos"
    OBVIOUS
  <1>1. CASE GitHubAt(path, 4, "owners") /\ g = "getGitHubOwner"
    BY <1>0, <1>1, Zenon DEF GitHubSegments, GitHubAt
  <1>2. CASE GitHubAt(path, 5, "owners") /\ g = "listGitHubOwnerRepositories"
    BY <1>0, <1>2, Zenon DEF GitHubSegments, GitHubAt
  <1>3. CASE GitHubAt(path, 5, "repos") /\ g = "getGitHubRepository"
    BY <1>0, <1>3, Zenon DEF GitHubSegments, GitHubAt
  <1>4. CASE /\ GitHubAt(path, 6, "repos") /\ path[6] = "activity"
             /\ g = "listGitHubRepositoryActivity"
    BY <1>4 DEF GitHubSegments, GitHubAt
  <1>5. CASE /\ GitHubAt(path, 6, "repos") /\ path[6] = "languages"
             /\ g = "listGitHubRepositoryLanguages"
    BY <1>5 DEF GitHubSegments, GitHubAt
  <1>6. CASE /\ GitHubAt(path, 6, "repos") /\ path[6] = "tags"
             /\ g = "listGitHubRepositoryTags"
    BY <1>6 DEF GitHubSegments, GitHubAt
  <1> QED
    BY <1>1, <1>2, <1>3, <1>4, <1>5, <1>6, Zenon DEF GitHubSegments

LEMMA FilesUnique ==
    ASSUME NEW path, NEW g, NEW h, Files(path, g), Reads(path, h)
    PROVE  g = h
  <1>1. /\ path[1] = "api-docs" /\ g = "swaggerUi"
        /\ Len(path) = 2 \/ Len(path) > 2
    BY Zenon DEF Files, BelowSwagger
  <1>2. CASE OneSegment(path, h)
    <2>1. Len(path) = 1
      BY <1>2, Zenon DEF OneSegment, At1
    <2>2. 1 = 2 \/ 1 > 2
      BY <1>1, <2>1, Zenon
    <2> QED
      BY <2>2
  <1>3. CASE TwoSegments(path, h)
    BY <1>1, <1>3 DEF TwoSegments, At2
  <1>4. CASE GitHubSegments(path, h)
    BY <1>1, <1>4 DEF GitHubSegments, GitHubAt
  <1>5. CASE Files(path, h)
    BY <1>1, <1>5 DEF Files
  <1> QED
    BY <1>2, <1>3, <1>4, <1>5 DEF Reads

LEMMA SegmentCounts ==
    ASSUME NEW path, NEW h
    PROVE  /\ OneSegment(path, h) => Len(path) = 1
           /\ TwoSegments(path, h) => Len(path) = 2
           /\ GitHubSegments(path, h) => Len(path) \in {4, 5, 6}
           /\ 1 # 2 /\ 1 \notin {4, 5, 6} /\ 2 \notin {4, 5, 6}
  <1>1. 1 # 2 /\ 1 \notin {4, 5, 6} /\ 2 \notin {4, 5, 6}
    OBVIOUS
  <1>2. OneSegment(path, h) => Len(path) = 1
    BY Zenon DEF OneSegment, At1
  <1>3. TwoSegments(path, h) => Len(path) = 2
    BY Zenon DEF TwoSegments, At2
  <1>4. GitHubSegments(path, h) => Len(path) \in {4, 5, 6}
    BY Zenon DEF GitHubSegments, GitHubAt
  <1> QED
    BY <1>1, <1>2, <1>3, <1>4

LEMMA ReachesUnique ==
    ASSUME NEW path, NEW m, NEW g, NEW h,
           Reaches(Routes, path, m, g), Reaches(Routes, path, m, h)
    PROVE  g = h
  <1>1. CASE m = "GET"
    <2>1. \A x : Reaches(Routes, path, m, x) <=> Reads(path, x)
      <3>1. "GET" \notin {"POST", "PATCH", "DELETE"}
        OBVIOUS
      <3> QED
        BY <1>1, <3>1, RoutesTable, Zenon DEF Writes
    <2>2. Reads(path, g) /\ Reads(path, h)
      BY <2>1
    <2> QED
      BY <2>2, OneUnique, TwoUnique, GitHubUnique, FilesUnique, SegmentCounts, Zenon DEF Reads
  <1>2. CASE m # "GET"
    <2>1. Writes(path, m, g) /\ Writes(path, m, h)
      BY <1>2, RoutesTable, Zenon
    <2> QED
      BY <2>1 DEF Writes, At2
  <1> QED
    BY <1>1, <1>2

LEMMA ServedMethods ==
    ASSUME NEW path, NEW m
    PROVE  m \in {route.method : route \in RoutesAt(path)} <=> \E h : Reaches(Routes, path, m, h)
  BY Zenon DEF RoutesAt, Reaches

LEMMA ServedHandlers ==
    ASSUME NEW path, NEW method, NEW h
    PROVE  (\E route \in Serving(path, method) : route.handler = h)
               <=> \/ Reaches(Routes, path, method, h)
                   \/ method = "HEAD" /\ Reaches(Routes, path, "GET", h)
  BY Zenon DEF Serving, RoutesAt, Reaches

(* The documented operations, and that each is routed to its handler.      *)
LEMMA OperationFields ==
    \A id, method, path, success, problems :
        /\ Operation(id, method, path, success, problems).id = id
        /\ Operation(id, method, path, success, problems).method = method
        /\ Operation(id, method, path, success, problems).path = path
        /\ Operation(id, method, path, success, problems).success = success
        /\ Operation(id, method, path, success, problems).problems = problems
  BY DEF Operation

Described(op, id, method, path, success) ==
    op.id = id /\ op.method = method /\ op.path = path /\ op.success = success

LEMMA OperationDescribed ==
    \A id, method, path, success, problems :
        Described(Operation(id, method, path, success, problems), id, method, path, success)
  BY OperationFields DEF Described

LEMMA GetHealthFields ==
    Described(GetHealth, "getHealth", "GET",
              <<"health">>, "ok")
  BY OperationFields DEF GetHealth, Described

LEMMA GetHelloFields ==
    Described(GetHello, "getHello", "GET",
              <<"v1", "hello">>, "ok")
  BY OperationFields DEF GetHello, Described

LEMMA CreateHelloFields ==
    Described(CreateHello, "createHello", "POST",
              <<"v1", "hello">>, "ok")
  BY OperationFields DEF CreateHello, Described

LEMMA ListItemsFields ==
    Described(ListItems, "listItems", "GET",
              <<"v1", "items">>, "ok")
  BY OperationFields DEF ListItems, Described

LEMMA CreateProfileFields ==
    Described(CreateProfile, "createProfile", "POST",
              <<"v1", "profile">>, "created")
  BY OperationFields DEF CreateProfile, Described

LEMMA GetProfileFields ==
    Described(GetProfile, "getProfile", "GET",
              <<"v1", "profile">>, "ok")
  BY OperationFields DEF GetProfile, Described

LEMMA UpdateProfileFields ==
    Described(UpdateProfile, "updateProfile", "PATCH",
              <<"v1", "profile">>, "ok")
  BY OperationFields DEF UpdateProfile, Described

LEMMA DeleteProfileFields ==
    Described(DeleteProfile, "deleteProfile", "DELETE",
              <<"v1", "profile">>, "no_content")
  BY OperationFields DEF DeleteProfile, Described

LEMMA GetGitHubOwnerFields ==
    Described(GetGitHubOwner, "getGitHubOwner", "GET",
              <<"v1", "github", "owners", "{owner}">>, "ok")
  BY OperationDescribed, Zenon DEF GetGitHubOwner

LEMMA ListGitHubOwnerRepositoriesFields ==
    Described(ListGitHubOwnerRepositories, "listGitHubOwnerRepositories", "GET",
              <<"v1", "github", "owners", "{owner}", "repos">>, "ok")
  BY OperationDescribed, Zenon DEF ListGitHubOwnerRepositories

LEMMA GetGitHubRepositoryFields ==
    Described(GetGitHubRepository, "getGitHubRepository", "GET",
              <<"v1", "github", "repos", "{owner}", "{repo}">>, "ok")
  BY OperationDescribed, Zenon DEF GetGitHubRepository

LEMMA ListGitHubRepositoryActivityFields ==
    Described(ListGitHubRepositoryActivity, "listGitHubRepositoryActivity", "GET",
              <<"v1", "github", "repos", "{owner}", "{repo}", "activity">>, "ok")
  BY OperationDescribed, Zenon DEF ListGitHubRepositoryActivity

LEMMA ListGitHubRepositoryLanguagesFields ==
    Described(ListGitHubRepositoryLanguages, "listGitHubRepositoryLanguages", "GET",
              <<"v1", "github", "repos", "{owner}", "{repo}", "languages">>, "ok")
  BY OperationDescribed, Zenon DEF ListGitHubRepositoryLanguages

LEMMA ListGitHubRepositoryTagsFields ==
    Described(ListGitHubRepositoryTags, "listGitHubRepositoryTags", "GET",
              <<"v1", "github", "repos", "{owner}", "{repo}", "tags">>, "ok")
  BY OperationDescribed, Zenon DEF ListGitHubRepositoryTags

LEMMA LiteralPatterns ==
    ASSUME NEW path
    PROVE  /\ Matches(path, <<"health">>) <=> At1(path, "health")
           /\ Matches(path, <<"v1", "hello">>) <=> At2(path, "v1", "hello")
           /\ Matches(path, <<"v1", "items">>) <=> At2(path, "v1", "items")
           /\ Matches(path, <<"v1", "profile">>) <=> At2(path, "v1", "profile")
  BY MatchesOne, MatchesTwo, LiteralSegments, Zenon

LEMMA PartPatterns ==
    ASSUME NEW path, NEW part \in {"activity", "languages", "tags"}
    PROVE  Matches(path, <<"v1", "github", "repos", "{owner}", "{repo}", part>>)
               <=> GitHubAt(path, 6, "repos") /\ path[6] = part
  <1>1. part \notin Parameters
    BY LiteralSegments
  <1> QED
    BY <1>1, MatchesRepoPart, Zenon

LEMMA OperationReached ==
    ASSUME NEW op \in ApiDoc, NEW path, Matches(path, op.path)
    PROVE  Reaches(Routes, path, op.method, op.id)
  <1>0. ASSUME NEW m, NEW h, (m = "GET" /\ Reads(path, h)) \/ Writes(path, m, h),
               op.method = m, op.id = h
        PROVE  Reaches(Routes, path, op.method, op.id)
    BY <1>0, RoutesTable, Zenon
  <1>1. CASE op = GetHealth
    <2>1. /\ op.method = "GET" /\ op.id = "getHealth"
          /\ Matches(path, <<"health">>)
      BY <1>1, GetHealthFields, Zenon DEF Described
    <2>2. Reads(path, "getHealth")
      BY <2>1, LiteralPatterns, Zenon DEF Reads, OneSegment
    <2> QED
      BY <1>0, <2>1, <2>2, Zenon
  <1>2. CASE op = GetHello
    <2>1. /\ op.method = "GET" /\ op.id = "getHello"
          /\ Matches(path, <<"v1", "hello">>)
      BY <1>2, GetHelloFields, Zenon DEF Described
    <2>2. Reads(path, "getHello")
      BY <2>1, LiteralPatterns, Zenon DEF Reads, TwoSegments
    <2> QED
      BY <1>0, <2>1, <2>2, Zenon
  <1>3. CASE op = CreateHello
    <2>1. /\ op.method = "POST" /\ op.id = "createHello"
          /\ Matches(path, <<"v1", "hello">>)
      BY <1>3, CreateHelloFields, Zenon DEF Described
    <2>2. Writes(path, "POST", "createHello")
      BY <2>1, LiteralPatterns, Zenon DEF Writes
    <2> QED
      BY <1>0, <2>1, <2>2, Zenon
  <1>4. CASE op = ListItems
    <2>1. /\ op.method = "GET" /\ op.id = "listItems"
          /\ Matches(path, <<"v1", "items">>)
      BY <1>4, ListItemsFields, Zenon DEF Described
    <2>2. Reads(path, "listItems")
      BY <2>1, LiteralPatterns, Zenon DEF Reads, TwoSegments
    <2> QED
      BY <1>0, <2>1, <2>2, Zenon
  <1>5. CASE op = CreateProfile
    <2>1. /\ op.method = "POST" /\ op.id = "createProfile"
          /\ Matches(path, <<"v1", "profile">>)
      BY <1>5, CreateProfileFields, Zenon DEF Described
    <2>2. Writes(path, "POST", "createProfile")
      BY <2>1, LiteralPatterns, Zenon DEF Writes
    <2> QED
      BY <1>0, <2>1, <2>2, Zenon
  <1>6. CASE op = GetProfile
    <2>1. /\ op.method = "GET" /\ op.id = "getProfile"
          /\ Matches(path, <<"v1", "profile">>)
      BY <1>6, GetProfileFields, Zenon DEF Described
    <2>2. Reads(path, "getProfile")
      BY <2>1, LiteralPatterns, Zenon DEF Reads, TwoSegments
    <2> QED
      BY <1>0, <2>1, <2>2, Zenon
  <1>7. CASE op = UpdateProfile
    <2>1. /\ op.method = "PATCH" /\ op.id = "updateProfile"
          /\ Matches(path, <<"v1", "profile">>)
      BY <1>7, UpdateProfileFields, Zenon DEF Described
    <2>2. Writes(path, "PATCH", "updateProfile")
      BY <2>1, LiteralPatterns, Zenon DEF Writes
    <2> QED
      BY <1>0, <2>1, <2>2, Zenon
  <1>8. CASE op = DeleteProfile
    <2>1. /\ op.method = "DELETE" /\ op.id = "deleteProfile"
          /\ Matches(path, <<"v1", "profile">>)
      BY <1>8, DeleteProfileFields, Zenon DEF Described
    <2>2. Writes(path, "DELETE", "deleteProfile")
      BY <2>1, LiteralPatterns, Zenon DEF Writes
    <2> QED
      BY <1>0, <2>1, <2>2, Zenon
  <1>9. CASE op = GetGitHubOwner
    <2>1. /\ op.method = "GET" /\ op.id = "getGitHubOwner"
          /\ Matches(path, <<"v1", "github", "owners", "{owner}">>)
      BY <1>9, GetGitHubOwnerFields, Zenon DEF Described
    <2>2. Reads(path, "getGitHubOwner")
      BY <2>1, MatchesOwner, Zenon DEF Reads, GitHubSegments
    <2> QED
      BY <1>0, <2>1, <2>2, Zenon
  <1>10. CASE op = ListGitHubOwnerRepositories
    <2>1. /\ op.method = "GET" /\ op.id = "listGitHubOwnerRepositories"
          /\ Matches(path, <<"v1", "github", "owners", "{owner}", "repos">>)
      BY <1>10, ListGitHubOwnerRepositoriesFields, Zenon DEF Described
    <2>2. Reads(path, "listGitHubOwnerRepositories")
      BY <2>1, MatchesOwnerRepos, Zenon DEF Reads, GitHubSegments
    <2> QED
      BY <1>0, <2>1, <2>2, Zenon
  <1>11. CASE op = GetGitHubRepository
    <2>1. /\ op.method = "GET" /\ op.id = "getGitHubRepository"
          /\ Matches(path, <<"v1", "github", "repos", "{owner}", "{repo}">>)
      BY <1>11, GetGitHubRepositoryFields, Zenon DEF Described
    <2>2. Reads(path, "getGitHubRepository")
      BY <2>1, MatchesRepo, Zenon DEF Reads, GitHubSegments
    <2> QED
      BY <1>0, <2>1, <2>2, Zenon
  <1>12. CASE op = ListGitHubRepositoryActivity
    <2>1. /\ op.method = "GET" /\ op.id = "listGitHubRepositoryActivity"
          /\ Matches(path, <<"v1", "github", "repos", "{owner}", "{repo}", "activity">>)
      BY <1>12, ListGitHubRepositoryActivityFields, Zenon DEF Described
    <2>2. Reads(path, "listGitHubRepositoryActivity")
      BY <2>1, PartPatterns, Zenon DEF Reads, GitHubSegments
    <2> QED
      BY <1>0, <2>1, <2>2, Zenon
  <1>13. CASE op = ListGitHubRepositoryLanguages
    <2>1. /\ op.method = "GET" /\ op.id = "listGitHubRepositoryLanguages"
          /\ Matches(path, <<"v1", "github", "repos", "{owner}", "{repo}", "languages">>)
      BY <1>13, ListGitHubRepositoryLanguagesFields, Zenon DEF Described
    <2>2. Reads(path, "listGitHubRepositoryLanguages")
      BY <2>1, PartPatterns, Zenon DEF Reads, GitHubSegments
    <2> QED
      BY <1>0, <2>1, <2>2, Zenon
  <1>14. CASE op = ListGitHubRepositoryTags
    <2>1. /\ op.method = "GET" /\ op.id = "listGitHubRepositoryTags"
          /\ Matches(path, <<"v1", "github", "repos", "{owner}", "{repo}", "tags">>)
      BY <1>14, ListGitHubRepositoryTagsFields, Zenon DEF Described
    <2>2. Reads(path, "listGitHubRepositoryTags")
      BY <2>1, PartPatterns, Zenon DEF Reads, GitHubSegments
    <2> QED
      BY <1>0, <2>1, <2>2, Zenon
  <1> QED
    BY <1>1, <1>2, <1>3, <1>4, <1>5, <1>6, <1>7, <1>8, <1>9, <1>10, <1>11, <1>12, <1>13,
       <1>14, Zenon DEF ApiDoc

LEMMA OperationMethods == \A op \in ApiDoc : op.method # "HEAD"
  <1>2. "GET" # "HEAD" /\ "POST" # "HEAD" /\ "PATCH" # "HEAD" /\ "DELETE" # "HEAD"
    OBVIOUS
  <1> QED
    BY <1>2, GetHealthFields, GetHelloFields, CreateHelloFields, ListItemsFields,
       CreateProfileFields, GetProfileFields, UpdateProfileFields, DeleteProfileFields,
       GetGitHubOwnerFields, ListGitHubOwnerRepositoriesFields,
       GetGitHubRepositoryFields, ListGitHubRepositoryActivityFields,
       ListGitHubRepositoryLanguagesFields, ListGitHubRepositoryTagsFields, Zenon
       DEF ApiDoc, Described

LEMMA OperationServed ==
    ASSUME NEW op \in ApiDoc, NEW path, Matches(path, op.path), NEW h,
           \E route \in Serving(path, op.method) : route.handler = h
    PROVE  h = op.id
  <1>2. Reaches(Routes, path, op.method, h)
    BY OperationMethods, ServedHandlers, Zenon
  <1>3. Reaches(Routes, path, op.method, op.id)
    BY OperationReached, Zenon
  <1> QED
    BY <1>2, <1>3, ReachesUnique, Zenon

---------------------------------------------------------------------------
(* The paths named by the layers.                                          *)
LEMMA Tuples ==
    ASSUME NEW S, NEW path \in Seq(S)
    PROVE  /\ \A a : path = <<a>> <=> At1(path, a)
           /\ \A a, b : path = <<a, b>> <=> At2(path, a, b)
  <1>1. ASSUME NEW a PROVE path = <<a>> <=> At1(path, a)
    BY DEF At1
  <1>2. ASSUME NEW a, NEW b PROVE path = <<a, b>> <=> At2(path, a, b)
    BY DEF At2
  <1> QED
    BY <1>1, <1>2

DocumentAt(path) ==
    \/ At1(path, "openapi.json") \/ At2(path, ".well-known", "api-catalog")
    \/ At1(path, "llms.txt") \/ At1(path, "llms-full.txt")

LEMMA DocumentPaths ==
    ASSUME NEW S, NEW path \in Seq(S)
    PROVE  IsDocumentPath(path) <=> DocumentAt(path)
  <1>1. /\ path = <<"openapi.json">> <=> At1(path, "openapi.json")
        /\ path = <<"llms.txt">> <=> At1(path, "llms.txt")
        /\ path = <<"llms-full.txt">> <=> At1(path, "llms-full.txt")
        /\ path = <<".well-known", "api-catalog">> <=> At2(path, ".well-known", "api-catalog")
    BY Tuples
  <1> QED
    BY <1>1, Zenon DEF IsDocumentPath, DocumentAt

LEMMA DocumentRoutes ==
    ASSUME NEW path, NEW m, NEW h, Reaches(Routes, path, m, h)
    PROVE  DocumentAt(path) <=> h \in {"openapi", "catalog", "index", "guide"}
  <1>1. CASE Reads(path, h)
    <2>1. CASE OneSegment(path, h)
      BY <2>1 DEF OneSegment, DocumentAt, At1, At2
    <2>2. CASE TwoSegments(path, h)
      BY <2>2 DEF TwoSegments, DocumentAt, At1, At2
    <2>3. CASE GitHubSegments(path, h)
      BY <2>3 DEF GitHubSegments, DocumentAt, At1, At2, GitHubAt
    <2>4. CASE Files(path, h)
      BY <2>4 DEF Files, BelowSwagger, DocumentAt, At1, At2
    <2> QED
      BY <1>1, <2>1, <2>2, <2>3, <2>4 DEF Reads
  <1>2. CASE Writes(path, m, h)
    BY <1>2 DEF Writes, DocumentAt, At1, At2
  <1> QED
    BY <1>1, <1>2, RoutesTable, Zenon

LEMMA DocumentsRouted ==
    ASSUME NEW path, DocumentAt(path)
    PROVE  \E h : Reaches(Routes, path, "GET", h)
  BY RoutesTable, Zenon DEF DocumentAt, Reads, OneSegment, TwoSegments

(* portable_allow names the methods that are routed, wherever it names any. *)
LEMMA PortableMethods ==
    ASSUME NEW S, NEW path \in Seq(S), PortableAllow(path) # {}, NEW m
    PROVE  m \in PortableAllow(path) <=> \E h : Reaches(Routes, path, m, h)
  <1> DEFINE Plain == \/ At1(path, "health") \/ At2(path, "v1", "items")
                      \/ At1(path, "openapi.json") \/ At1(path, "llms.txt")
                      \/ At1(path, "llms-full.txt")
             Hello == At2(path, "v1", "hello")
             Profile == At2(path, "v1", "profile")
  <1>1. /\ path \in {<<"health">>, <<"v1", "items">>, <<"openapi.json">>, <<"llms.txt">>,
                     <<"llms-full.txt">>} <=> Plain
        /\ path = <<"v1", "hello">> <=> Hello
        /\ path = <<"v1", "profile">> <=> Profile
    <2>1. /\ path = <<"health">> <=> At1(path, "health")
          /\ path = <<"openapi.json">> <=> At1(path, "openapi.json")
          /\ path = <<"llms.txt">> <=> At1(path, "llms.txt")
          /\ path = <<"llms-full.txt">> <=> At1(path, "llms-full.txt")
          /\ path = <<"v1", "items">> <=> At2(path, "v1", "items")
          /\ path = <<"v1", "hello">> <=> At2(path, "v1", "hello")
          /\ path = <<"v1", "profile">> <=> At2(path, "v1", "profile")
      BY Tuples
    <2> QED
      BY <2>1, Zenon
  <1>2. IsGitHubPath(path) <=> \E h : GitHubSegments(path, h)
    <2>1. /\ 4 >= 4 /\ 5 >= 4 /\ 6 >= 4 /\ 4 # 5 /\ 4 # 6 /\ 5 # 6
          /\ "owners" # "repos"
      OBVIOUS
    <2>2. CASE ~(path[1] = "v1" /\ path[2] = "github")
      BY <2>2, Zenon DEF IsGitHubPath, GitHubSegments, GitHubAt
    <2>3. ASSUME path[1] = "v1", path[2] = "github", path[3] = "owners"
          PROVE  IsGitHubPath(path) <=> \E h : GitHubSegments(path, h)
      BY <2>1, <2>3, Zenon DEF IsGitHubPath, GitHubSegments, GitHubAt
    <2>4. ASSUME path[1] = "v1", path[2] = "github", path[3] # "owners"
          PROVE  IsGitHubPath(path) <=> \E h : GitHubSegments(path, h)
      BY <2>1, <2>4, Zenon DEF IsGitHubPath, GitHubSegments, GitHubAt
    <2> QED
      BY <2>2, <2>3, <2>4, Zenon
  <1>3. /\ Plain => ~Hello /\ ~Profile /\ ~IsGitHubPath(path)
        /\ Hello => ~Profile /\ ~IsGitHubPath(path)
        /\ Profile => ~IsGitHubPath(path)
    BY <1>2 DEF At1, At2, GitHubSegments, GitHubAt
  <1> HIDE DEF Plain, Hello, Profile
  <1>4. \/ Plain /\ PortableAllow(path) = {"GET"}
        \/ Hello /\ PortableAllow(path) = {"GET", "POST"}
        \/ Profile /\ PortableAllow(path) = {"GET", "POST", "PATCH", "DELETE"}
        \/ IsGitHubPath(path) /\ PortableAllow(path) = {"GET"}
    BY <1>1, <1>3 DEF PortableAllow
  <1>5. (\E h : Reaches(Routes, path, m, h))
            <=> (m = "GET" /\ \E h : Reads(path, h)) \/ \E h : Writes(path, m, h)
    BY RoutesTable, Zenon
  <1>6. /\ Plain \/ Hello \/ Profile \/ IsGitHubPath(path) => \E h : Reads(path, h)
        /\ (\E h : Writes(path, m, h)) <=> \/ Hello /\ m = "POST"
                                           \/ Profile /\ m \in {"POST", "PATCH", "DELETE"}
    BY <1>2, Zenon DEF Plain, Hello, Profile, Reads, OneSegment, TwoSegments, Writes
  <1> QED
    BY <1>3, <1>4, <1>5, <1>6

---------------------------------------------------------------------------
(* What the operations declare, by the kind of their handlers.             *)
GitHubHandlers == {"getGitHubOwner", "listGitHubOwnerRepositories", "getGitHubRepository",
                   "listGitHubRepositoryActivity", "listGitHubRepositoryLanguages",
                   "listGitHubRepositoryTags"}
DeclaresStatuses(op) ==
    /\ {400, 500} \subseteq op.problems
    /\ op.id = "deleteProfile" \/ 406 \in op.problems
    /\ op.id \in {"createHello", "createProfile", "updateProfile"} =>
           {413, 415, 422} \subseteq op.problems
    /\ op.id \in ProfileHandlers => {401, 503} \subseteq op.problems
    /\ op.id = "createProfile" => 409 \in op.problems
    /\ op.id \in ProfileHandlers \ {"createProfile"} => 404 \in op.problems
    /\ op.id = "listItems" => 422 \in op.problems
    /\ op.id \in GitHubHandlers => {404, 422, 429, 502, 504} \subseteq op.problems
    /\ 200 \notin op.problems /\ 201 \notin op.problems
    /\ op.success = (CASE op.id = "createProfile" -> "created"
                      [] op.id = "deleteProfile" -> "no_content"
                      [] OTHER                   -> "ok")
    /\ op.method = "DELETE" <=> op.id = "deleteProfile"
    /\ op.id \notin {"catalog", "index", "guide", "openapi", "swaggerUi", "swaggerRedirect",
                     "none"}

HasProblems(op, problems) == op.problems = problems
LEMMA OperationProblems ==
    \A id, method, path, success, problems :
        HasProblems(Operation(id, method, path, success, problems), problems)
  BY OperationFields, Zenon DEF HasProblems

LEMMA OperationStatuses == \A op \in ApiDoc : DeclaresStatuses(op)
  <1> SUFFICES ASSUME NEW op \in ApiDoc PROVE DeclaresStatuses(op)
    OBVIOUS
  <1>1. CASE op = GetHealth
    <2>1. op.id = "getHealth" /\ op.method = "GET" /\ op.success = "ok"
      BY <1>1, GetHealthFields, Zenon DEF Described
    <2>2. op.problems = {400, 406, 500}
      BY <1>1, OperationFields DEF GetHealth
    <2> QED
      BY <2>1, <2>2 DEF DeclaresStatuses, ProfileHandlers, GitHubHandlers
  <1>2. CASE op = GetHello
    <2>1. op.id = "getHello" /\ op.method = "GET" /\ op.success = "ok"
      BY <1>2, GetHelloFields, Zenon DEF Described
    <2>2. op.problems = {400, 406, 500}
      BY <1>2, OperationFields DEF GetHello
    <2> QED
      BY <2>1, <2>2 DEF DeclaresStatuses, ProfileHandlers, GitHubHandlers
  <1>3. CASE op = CreateHello
    <2>1. op.id = "createHello" /\ op.method = "POST" /\ op.success = "ok"
      BY <1>3, CreateHelloFields, Zenon DEF Described
    <2>2. op.problems = {400, 406, 413, 415, 422, 500}
      BY <1>3, OperationFields DEF CreateHello
    <2> QED
      BY <2>1, <2>2 DEF DeclaresStatuses, ProfileHandlers, GitHubHandlers
  <1>4. CASE op = ListItems
    <2>1. op.id = "listItems" /\ op.method = "GET" /\ op.success = "ok"
      BY <1>4, ListItemsFields, Zenon DEF Described
    <2>2. op.problems = {400, 406, 422, 500}
      BY <1>4, OperationFields DEF ListItems
    <2> QED
      BY <2>1, <2>2 DEF DeclaresStatuses, ProfileHandlers, GitHubHandlers
  <1>5. CASE op = CreateProfile
    <2>1. op.id = "createProfile" /\ op.method = "POST" /\ op.success = "created"
      BY <1>5, CreateProfileFields, Zenon DEF Described
    <2>2. op.problems = {400, 401, 406, 409, 413, 415, 422, 500, 503}
      BY <1>5, OperationFields DEF CreateProfile
    <2> QED
      BY <2>1, <2>2 DEF DeclaresStatuses, ProfileHandlers, GitHubHandlers
  <1>6. CASE op = GetProfile
    <2>1. op.id = "getProfile" /\ op.method = "GET" /\ op.success = "ok"
      BY <1>6, GetProfileFields, Zenon DEF Described
    <2>2. op.problems = {400, 401, 404, 406, 500, 503}
      BY <1>6, OperationFields DEF GetProfile
    <2> QED
      BY <2>1, <2>2 DEF DeclaresStatuses, ProfileHandlers, GitHubHandlers
  <1>7. CASE op = UpdateProfile
    <2>1. op.id = "updateProfile" /\ op.method = "PATCH" /\ op.success = "ok"
      BY <1>7, UpdateProfileFields, Zenon DEF Described
    <2>2. op.problems = {400, 401, 404, 406, 413, 415, 422, 500, 503}
      BY <1>7, OperationFields DEF UpdateProfile
    <2> QED
      BY <2>1, <2>2 DEF DeclaresStatuses, ProfileHandlers, GitHubHandlers
  <1>8. CASE op = DeleteProfile
    <2>1. op.id = "deleteProfile" /\ op.method = "DELETE" /\ op.success = "no_content"
      BY <1>8, DeleteProfileFields, Zenon DEF Described
    <2>2. op.problems = {400, 401, 404, 500, 503}
      BY <1>8, OperationFields DEF DeleteProfile
    <2> QED
      BY <2>1, <2>2 DEF DeclaresStatuses, ProfileHandlers, GitHubHandlers
  <1>9. CASE op = GetGitHubOwner
    <2>1. op.id = "getGitHubOwner" /\ op.method = "GET" /\ op.success = "ok"
      BY <1>9, GetGitHubOwnerFields, Zenon DEF Described
    <2>2. HasProblems(GetGitHubOwner, GitHubProblems)
      BY OperationProblems, Zenon DEF GetGitHubOwner
    <2> QED
      BY <1>9, <2>1, <2>2
         DEF DeclaresStatuses, ProfileHandlers, GitHubHandlers, GitHubProblems, HasProblems
  <1>10. CASE op = ListGitHubOwnerRepositories
    <2>1. op.id = "listGitHubOwnerRepositories" /\ op.method = "GET" /\ op.success = "ok"
      BY <1>10, ListGitHubOwnerRepositoriesFields, Zenon DEF Described
    <2>2. HasProblems(ListGitHubOwnerRepositories, GitHubProblems)
      BY OperationProblems, Zenon DEF ListGitHubOwnerRepositories
    <2> QED
      BY <1>10, <2>1, <2>2
         DEF DeclaresStatuses, ProfileHandlers, GitHubHandlers, GitHubProblems, HasProblems
  <1>11. CASE op = GetGitHubRepository
    <2>1. op.id = "getGitHubRepository" /\ op.method = "GET" /\ op.success = "ok"
      BY <1>11, GetGitHubRepositoryFields, Zenon DEF Described
    <2>2. HasProblems(GetGitHubRepository, GitHubProblems)
      BY OperationProblems, Zenon DEF GetGitHubRepository
    <2> QED
      BY <1>11, <2>1, <2>2
         DEF DeclaresStatuses, ProfileHandlers, GitHubHandlers, GitHubProblems, HasProblems
  <1>12. CASE op = ListGitHubRepositoryActivity
    <2>1. op.id = "listGitHubRepositoryActivity" /\ op.method = "GET" /\ op.success = "ok"
      BY <1>12, ListGitHubRepositoryActivityFields, Zenon DEF Described
    <2>2. HasProblems(ListGitHubRepositoryActivity, GitHubProblems)
      BY OperationProblems, Zenon DEF ListGitHubRepositoryActivity
    <2> QED
      BY <1>12, <2>1, <2>2
         DEF DeclaresStatuses, ProfileHandlers, GitHubHandlers, GitHubProblems, HasProblems
  <1>13. CASE op = ListGitHubRepositoryLanguages
    <2>1. op.id = "listGitHubRepositoryLanguages" /\ op.method = "GET" /\ op.success = "ok"
      BY <1>13, ListGitHubRepositoryLanguagesFields, Zenon DEF Described
    <2>2. HasProblems(ListGitHubRepositoryLanguages, GitHubProblems)
      BY OperationProblems, Zenon DEF ListGitHubRepositoryLanguages
    <2> QED
      BY <1>13, <2>1, <2>2
         DEF DeclaresStatuses, ProfileHandlers, GitHubHandlers, GitHubProblems, HasProblems
  <1>14. CASE op = ListGitHubRepositoryTags
    <2>1. op.id = "listGitHubRepositoryTags" /\ op.method = "GET" /\ op.success = "ok"
      BY <1>14, ListGitHubRepositoryTagsFields, Zenon DEF Described
    <2>2. HasProblems(ListGitHubRepositoryTags, GitHubProblems)
      BY OperationProblems, Zenon DEF ListGitHubRepositoryTags
    <2> QED
      BY <1>14, <2>1, <2>2
         DEF DeclaresStatuses, ProfileHandlers, GitHubHandlers, GitHubProblems, HasProblems
  <1> QED
    BY <1>1, <1>2, <1>3, <1>4, <1>5, <1>6, <1>7, <1>8, <1>9, <1>10, <1>11, <1>12, <1>13,
       <1>14, Zenon DEF ApiDoc

LEMMA OperationPaths ==
    ASSUME NEW op \in ApiDoc
    PROVE  /\ op.id \in ProfileHandlers => op.path = <<"v1", "profile">>
           /\ op.id \in GitHubHandlers => op.path # <<"v1", "profile">>
           /\ op.id = "getHealth" => op.path = <<"health">>
  <1>0. /\ "getHealth" \notin ProfileHandlers \cup GitHubHandlers
        /\ "getHello" \notin ProfileHandlers \cup GitHubHandlers
        /\ "createHello" \notin ProfileHandlers \cup GitHubHandlers
        /\ "listItems" \notin ProfileHandlers \cup GitHubHandlers
        /\ ProfileHandlers \cap GitHubHandlers = {}
        /\ "getHello" # "getHealth" /\ "createHello" # "getHealth"
        /\ "listItems" # "getHealth"
        /\ \A h \in ProfileHandlers \cup GitHubHandlers : h # "getHealth"
        /\ \A h \in ProfileHandlers : h \notin GitHubHandlers
    BY DEF ProfileHandlers, GitHubHandlers
  <1>1. CASE op = GetHealth
    BY <1>0, <1>1, GetHealthFields, Zenon DEF Described
  <1>2. CASE op = GetHello
    BY <1>0, <1>2, GetHelloFields, Zenon DEF Described
  <1>3. CASE op = CreateHello
    BY <1>0, <1>3, CreateHelloFields, Zenon DEF Described
  <1>4. CASE op = ListItems
    BY <1>0, <1>4, ListItemsFields, Zenon DEF Described
  <1>5. CASE op = CreateProfile
    <2>1. "createProfile" \in ProfileHandlers
      BY DEF ProfileHandlers
    <2> QED
      BY <1>0, <1>5, <2>1, CreateProfileFields, Zenon DEF Described
  <1>6. CASE op = GetProfile
    <2>1. "getProfile" \in ProfileHandlers
      BY DEF ProfileHandlers
    <2> QED
      BY <1>0, <1>6, <2>1, GetProfileFields, Zenon DEF Described
  <1>7. CASE op = UpdateProfile
    <2>1. "updateProfile" \in ProfileHandlers
      BY DEF ProfileHandlers
    <2> QED
      BY <1>0, <1>7, <2>1, UpdateProfileFields, Zenon DEF Described
  <1>8. CASE op = DeleteProfile
    <2>1. "deleteProfile" \in ProfileHandlers
      BY DEF ProfileHandlers
    <2> QED
      BY <1>0, <1>8, <2>1, DeleteProfileFields, Zenon DEF Described
  <1>9. CASE op = GetGitHubOwner
    <2>1. "getGitHubOwner" \in GitHubHandlers
      BY DEF GitHubHandlers
    <2>2. <<"v1", "github", "owners", "{owner}">> # <<"v1", "profile">>
      OBVIOUS
    <2>3. op.id = "getGitHubOwner" /\ op.path # <<"v1", "profile">>
      BY <1>9, <2>2, GetGitHubOwnerFields, Zenon DEF Described
    <2> QED
      BY <1>0, <2>1, <2>3, Zenon
  <1>10. CASE op = ListGitHubOwnerRepositories
    <2>1. "listGitHubOwnerRepositories" \in GitHubHandlers
      BY DEF GitHubHandlers
    <2>2. <<"v1", "github", "owners", "{owner}", "repos">> # <<"v1", "profile">>
      OBVIOUS
    <2>3. op.id = "listGitHubOwnerRepositories" /\ op.path # <<"v1", "profile">>
      BY <1>10, <2>2, ListGitHubOwnerRepositoriesFields, Zenon DEF Described
    <2> QED
      BY <1>0, <2>1, <2>3, Zenon
  <1>11. CASE op = GetGitHubRepository
    <2>1. "getGitHubRepository" \in GitHubHandlers
      BY DEF GitHubHandlers
    <2>2. <<"v1", "github", "repos", "{owner}", "{repo}">> # <<"v1", "profile">>
      OBVIOUS
    <2>3. op.id = "getGitHubRepository" /\ op.path # <<"v1", "profile">>
      BY <1>11, <2>2, GetGitHubRepositoryFields, Zenon DEF Described
    <2> QED
      BY <1>0, <2>1, <2>3, Zenon
  <1>12. CASE op = ListGitHubRepositoryActivity
    <2>1. "listGitHubRepositoryActivity" \in GitHubHandlers
      BY DEF GitHubHandlers
    <2>2. <<"v1", "github", "repos", "{owner}", "{repo}", "activity">> # <<"v1", "profile">>
      OBVIOUS
    <2>3. op.id = "listGitHubRepositoryActivity" /\ op.path # <<"v1", "profile">>
      BY <1>12, <2>2, ListGitHubRepositoryActivityFields, Zenon DEF Described
    <2> QED
      BY <1>0, <2>1, <2>3, Zenon
  <1>13. CASE op = ListGitHubRepositoryLanguages
    <2>1. "listGitHubRepositoryLanguages" \in GitHubHandlers
      BY DEF GitHubHandlers
    <2>2. <<"v1", "github", "repos", "{owner}", "{repo}", "languages">> # <<"v1", "profile">>
      OBVIOUS
    <2>3. op.id = "listGitHubRepositoryLanguages" /\ op.path # <<"v1", "profile">>
      BY <1>13, <2>2, ListGitHubRepositoryLanguagesFields, Zenon DEF Described
    <2> QED
      BY <1>0, <2>1, <2>3, Zenon
  <1>14. CASE op = ListGitHubRepositoryTags
    <2>1. "listGitHubRepositoryTags" \in GitHubHandlers
      BY DEF GitHubHandlers
    <2>2. <<"v1", "github", "repos", "{owner}", "{repo}", "tags">> # <<"v1", "profile">>
      OBVIOUS
    <2>3. op.id = "listGitHubRepositoryTags" /\ op.path # <<"v1", "profile">>
      BY <1>14, <2>2, ListGitHubRepositoryTagsFields, Zenon DEF Described
    <2> QED
      BY <1>0, <2>1, <2>3, Zenon
  <1> QED
    BY <1>1, <1>2, <1>3, <1>4, <1>5, <1>6, <1>7, <1>8, <1>9, <1>10, <1>11, <1>12, <1>13,
       <1>14, Zenon DEF ApiDoc

LEMMA ProblemCodes ==
    ASSUME NEW path
    PROVE  /\ ProblemCodeForResponse(path, 400) = "invalid_request"
           /\ ProblemCodeForResponse(path, 401) = "unauthorized"
           /\ ProblemCodeForResponse(path, 406) = "not_acceptable"
           /\ ProblemCodeForResponse(path, 409) = "profile_exists"
           /\ ProblemCodeForResponse(path, 413) = "payload_too_large"
           /\ ProblemCodeForResponse(path, 415) = "unsupported_media_type"
           /\ ProblemCodeForResponse(path, 422) = "validation_failed"
           /\ ProblemCodeForResponse(path, 429) = "github_rate_limit"
           /\ ProblemCodeForResponse(path, 500) = "internal_error"
           /\ ProblemCodeForResponse(path, 502) = "github_upstream"
           /\ ProblemCodeForResponse(path, 503) = "dependency_unavailable"
           /\ ProblemCodeForResponse(path, 504) = "github_timeout"
  <1> DEFINE profile == path = <<"v1", "profile">>
  <1>1. \A status : ProblemCodeForResponse(path, status) =
            CASE status = 400 -> "invalid_request"
              [] status = 401 -> "unauthorized"
              [] status = 404 -> IF profile THEN "profile_not_found" ELSE "github_not_found"
              [] status = 406 -> "not_acceptable"
              [] status = 409 -> "profile_exists"
              [] status = 413 -> "payload_too_large"
              [] status = 415 -> "unsupported_media_type"
              [] status = 422 -> "validation_failed"
              [] status = 429 -> "github_rate_limit"
              [] status = 500 -> "internal_error"
              [] status = 502 -> "github_upstream"
              [] status = 503 -> "dependency_unavailable"
              [] status = 504 -> "github_timeout"
    BY Zenon DEF ProblemCodeForResponse
  <1> HIDE DEF profile
  <1>2. /\ ProblemCodeForResponse(path, 400) = "invalid_request"
        /\ ProblemCodeForResponse(path, 401) = "unauthorized"
        /\ ProblemCodeForResponse(path, 406) = "not_acceptable"
        /\ ProblemCodeForResponse(path, 409) = "profile_exists"
        /\ ProblemCodeForResponse(path, 413) = "payload_too_large"
        /\ ProblemCodeForResponse(path, 415) = "unsupported_media_type"
    BY <1>1
  <1>3. /\ ProblemCodeForResponse(path, 422) = "validation_failed"
        /\ ProblemCodeForResponse(path, 429) = "github_rate_limit"
        /\ ProblemCodeForResponse(path, 500) = "internal_error"
        /\ ProblemCodeForResponse(path, 502) = "github_upstream"
        /\ ProblemCodeForResponse(path, 503) = "dependency_unavailable"
        /\ ProblemCodeForResponse(path, 504) = "github_timeout"
    BY <1>1
  <1> QED
    BY <1>2, <1>3 DEF profile

LEMMA NotFoundCodes ==
    ASSUME NEW path
    PROVE  /\ path = <<"v1", "profile">> =>
                  ProblemCodeForResponse(path, 404) = "profile_not_found"
           /\ path # <<"v1", "profile">> =>
                  ProblemCodeForResponse(path, 404) = "github_not_found"
  <1> DEFINE profile == path = <<"v1", "profile">>
  <1>1. \A status : ProblemCodeForResponse(path, status) =
            CASE status = 400 -> "invalid_request"
              [] status = 401 -> "unauthorized"
              [] status = 404 -> IF profile THEN "profile_not_found" ELSE "github_not_found"
              [] status = 406 -> "not_acceptable"
              [] status = 409 -> "profile_exists"
              [] status = 413 -> "payload_too_large"
              [] status = 415 -> "unsupported_media_type"
              [] status = 422 -> "validation_failed"
              [] status = 429 -> "github_rate_limit"
              [] status = 500 -> "internal_error"
              [] status = 502 -> "github_upstream"
              [] status = 503 -> "dependency_unavailable"
              [] status = 504 -> "github_timeout"
    BY Zenon DEF ProblemCodeForResponse
  <1> HIDE DEF profile
  <1>2. /\ profile => ProblemCodeForResponse(path, 404) = "profile_not_found"
        /\ ~profile => ProblemCodeForResponse(path, 404) = "github_not_found"
    BY <1>1
  <1> QED
    BY <1>2, Zenon DEF profile

LEMMA ProblemStatuses ==
    /\ Status["invalid_request"] = 400
    /\ Status["unauthorized"] = 401
    /\ Status["not_acceptable"] = 406
    /\ Status["profile_exists"] = 409
    /\ Status["payload_too_large"] = 413
    /\ Status["unsupported_media_type"] = 415
    /\ Status["validation_failed"] = 422
    /\ Status["github_rate_limit"] = 429
    /\ Status["internal_error"] = 500
    /\ Status["github_upstream"] = 502
    /\ Status["dependency_unavailable"] = 503
    /\ Status["github_timeout"] = 504
    /\ Status["profile_not_found"] = 404 /\ Status["github_not_found"] = 404
  BY DEF Status

(* A problem code the description of h declares, or the one exception.     *)
Declared(h, code) ==
    \A op \in ApiDoc : op.id = h =>
        /\ Status[code] \in op.problems \/ UndeclaredNotFound(op, code)
        /\ code = ProblemCodeForResponse(op.path, Status[code])

LEMMA Declarations ==
    ASSUME NEW h
    PROVE  /\ Declared(h, "invalid_request") /\ Declared(h, "internal_error")
           /\ h # "deleteProfile" => Declared(h, "not_acceptable")
           /\ h \in {"createHello", "createProfile", "updateProfile"} =>
                  /\ Declared(h, "payload_too_large")
                  /\ Declared(h, "unsupported_media_type") /\ Declared(h, "validation_failed")
           /\ h \in ProfileHandlers =>
                  Declared(h, "unauthorized") /\ Declared(h, "dependency_unavailable")
           /\ h = "createProfile" => Declared(h, "profile_exists")
           /\ h \in ProfileHandlers => Declared(h, "profile_not_found")
           /\ h = "listItems" => Declared(h, "validation_failed")
           /\ h \in GitHubHandlers =>
                  /\ Declared(h, "github_not_found") /\ Declared(h, "github_rate_limit")
                  /\ Declared(h, "github_timeout") /\ Declared(h, "github_upstream")
                  /\ Declared(h, "validation_failed")
  <1>1. Declared(h, "invalid_request")
    <2>1. \A op \in ApiDoc : op.id = h => 400 \in op.problems
      BY OperationStatuses DEF DeclaresStatuses
    <2>2. \A op \in ApiDoc : op.id = h => ProblemCodeForResponse(op.path, 400) = "invalid_request"
      BY ProblemCodes
    <2>3. Status["invalid_request"] = 400
      BY ProblemStatuses
    <2> QED
      BY <2>1, <2>2, <2>3 DEF Declared
  <1>2. Declared(h, "internal_error")
    <2>1. \A op \in ApiDoc : op.id = h => 500 \in op.problems
      BY OperationStatuses DEF DeclaresStatuses
    <2>2. \A op \in ApiDoc : op.id = h => ProblemCodeForResponse(op.path, 500) = "internal_error"
      BY ProblemCodes
    <2>3. Status["internal_error"] = 500
      BY ProblemStatuses
    <2> QED
      BY <2>1, <2>2, <2>3 DEF Declared
  <1>3. ASSUME h # "deleteProfile"
        PROVE  Declared(h, "not_acceptable")
    <2>1. \A op \in ApiDoc : op.id = h => 406 \in op.problems
      BY <1>3, OperationStatuses DEF DeclaresStatuses
    <2>2. \A op \in ApiDoc : op.id = h => ProblemCodeForResponse(op.path, 406) = "not_acceptable"
      BY ProblemCodes
    <2>3. Status["not_acceptable"] = 406
      BY ProblemStatuses
    <2> QED
      BY <2>1, <2>2, <2>3 DEF Declared
  <1>4. ASSUME h \in {"createHello", "createProfile", "updateProfile"}
        PROVE  Declared(h, "payload_too_large")
    <2>1. \A op \in ApiDoc : op.id = h => 413 \in op.problems
      BY <1>4, OperationStatuses DEF DeclaresStatuses
    <2>2. \A op \in ApiDoc : op.id = h => ProblemCodeForResponse(op.path, 413) = "payload_too_large"
      BY ProblemCodes
    <2>3. Status["payload_too_large"] = 413
      BY ProblemStatuses
    <2> QED
      BY <2>1, <2>2, <2>3 DEF Declared
  <1>5. ASSUME h \in {"createHello", "createProfile", "updateProfile"}
        PROVE  Declared(h, "unsupported_media_type")
    <2>1. \A op \in ApiDoc : op.id = h => 415 \in op.problems
      BY <1>5, OperationStatuses DEF DeclaresStatuses
    <2>2. \A op \in ApiDoc : op.id = h =>
              ProblemCodeForResponse(op.path, 415) = "unsupported_media_type"
      BY ProblemCodes
    <2>3. Status["unsupported_media_type"] = 415
      BY ProblemStatuses
    <2> QED
      BY <2>1, <2>2, <2>3 DEF Declared
  <1>6. ASSUME h \in {"createHello", "createProfile", "updateProfile"}
        PROVE  Declared(h, "validation_failed")
    <2>1. \A op \in ApiDoc : op.id = h => 422 \in op.problems
      BY <1>6, OperationStatuses DEF DeclaresStatuses
    <2>2. \A op \in ApiDoc : op.id = h => ProblemCodeForResponse(op.path, 422) = "validation_failed"
      BY ProblemCodes
    <2>3. Status["validation_failed"] = 422
      BY ProblemStatuses
    <2> QED
      BY <2>1, <2>2, <2>3 DEF Declared
  <1>7. ASSUME h \in ProfileHandlers
        PROVE  Declared(h, "unauthorized")
    <2>1. \A op \in ApiDoc : op.id = h => 401 \in op.problems
      BY <1>7, OperationStatuses DEF DeclaresStatuses
    <2>2. \A op \in ApiDoc : op.id = h => ProblemCodeForResponse(op.path, 401) = "unauthorized"
      BY ProblemCodes
    <2>3. Status["unauthorized"] = 401
      BY ProblemStatuses
    <2> QED
      BY <2>1, <2>2, <2>3 DEF Declared
  <1>8. ASSUME h \in ProfileHandlers
        PROVE  Declared(h, "dependency_unavailable")
    <2>1. \A op \in ApiDoc : op.id = h => 503 \in op.problems
      BY <1>8, OperationStatuses DEF DeclaresStatuses
    <2>2. \A op \in ApiDoc : op.id = h =>
              ProblemCodeForResponse(op.path, 503) = "dependency_unavailable"
      BY ProblemCodes
    <2>3. Status["dependency_unavailable"] = 503
      BY ProblemStatuses
    <2> QED
      BY <2>1, <2>2, <2>3 DEF Declared
  <1>9. ASSUME h = "createProfile"
        PROVE  Declared(h, "profile_exists")
    <2>1. \A op \in ApiDoc : op.id = h => 409 \in op.problems
      BY <1>9, OperationStatuses DEF DeclaresStatuses
    <2>2. \A op \in ApiDoc : op.id = h => ProblemCodeForResponse(op.path, 409) = "profile_exists"
      BY ProblemCodes
    <2>3. Status["profile_exists"] = 409
      BY ProblemStatuses
    <2> QED
      BY <2>1, <2>2, <2>3 DEF Declared
  <1>10. ASSUME h \in ProfileHandlers
        PROVE  Declared(h, "profile_not_found")
    <2>1. \A op \in ApiDoc : op.id = h =>
              404 \in op.problems \/ UndeclaredNotFound(op, "profile_not_found")
      BY <1>10, OperationStatuses DEF DeclaresStatuses, UndeclaredNotFound
    <2>2. \A op \in ApiDoc : op.id = h => ProblemCodeForResponse(op.path, 404) = "profile_not_found"
      <3>1. \A op \in ApiDoc : op.id = h => op.path = <<"v1", "profile">>
        BY <1>10, OperationPaths, Zenon
      <3> QED
        BY <3>1, NotFoundCodes
    <2>3. Status["profile_not_found"] = 404
      BY ProblemStatuses
    <2> QED
      BY <2>1, <2>2, <2>3 DEF Declared
  <1>11. ASSUME h = "listItems"
        PROVE  Declared(h, "validation_failed")
    <2>1. \A op \in ApiDoc : op.id = h => 422 \in op.problems
      BY <1>11, OperationStatuses DEF DeclaresStatuses
    <2>2. \A op \in ApiDoc : op.id = h => ProblemCodeForResponse(op.path, 422) = "validation_failed"
      BY ProblemCodes
    <2>3. Status["validation_failed"] = 422
      BY ProblemStatuses
    <2> QED
      BY <2>1, <2>2, <2>3 DEF Declared
  <1>12. ASSUME h \in GitHubHandlers
        PROVE  Declared(h, "github_not_found")
    <2>1. \A op \in ApiDoc : op.id = h => 404 \in op.problems
      BY <1>12, OperationStatuses DEF DeclaresStatuses
    <2>2. \A op \in ApiDoc : op.id = h => ProblemCodeForResponse(op.path, 404) = "github_not_found"
      BY <1>12, OperationPaths, NotFoundCodes, Zenon
    <2>3. Status["github_not_found"] = 404
      BY ProblemStatuses
    <2> QED
      BY <2>1, <2>2, <2>3 DEF Declared
  <1>13. ASSUME h \in GitHubHandlers
        PROVE  Declared(h, "github_rate_limit")
    <2>1. \A op \in ApiDoc : op.id = h => 429 \in op.problems
      BY <1>13, OperationStatuses DEF DeclaresStatuses
    <2>2. \A op \in ApiDoc : op.id = h => ProblemCodeForResponse(op.path, 429) = "github_rate_limit"
      BY ProblemCodes
    <2>3. Status["github_rate_limit"] = 429
      BY ProblemStatuses
    <2> QED
      BY <2>1, <2>2, <2>3 DEF Declared
  <1>14. ASSUME h \in GitHubHandlers
        PROVE  Declared(h, "github_timeout")
    <2>1. \A op \in ApiDoc : op.id = h => 504 \in op.problems
      BY <1>14, OperationStatuses DEF DeclaresStatuses
    <2>2. \A op \in ApiDoc : op.id = h => ProblemCodeForResponse(op.path, 504) = "github_timeout"
      BY ProblemCodes
    <2>3. Status["github_timeout"] = 504
      BY ProblemStatuses
    <2> QED
      BY <2>1, <2>2, <2>3 DEF Declared
  <1>15. ASSUME h \in GitHubHandlers
        PROVE  Declared(h, "github_upstream")
    <2>1. \A op \in ApiDoc : op.id = h => 502 \in op.problems
      BY <1>15, OperationStatuses DEF DeclaresStatuses
    <2>2. \A op \in ApiDoc : op.id = h => ProblemCodeForResponse(op.path, 502) = "github_upstream"
      BY ProblemCodes
    <2>3. Status["github_upstream"] = 502
      BY ProblemStatuses
    <2> QED
      BY <2>1, <2>2, <2>3 DEF Declared
  <1>16. ASSUME h \in GitHubHandlers
        PROVE  Declared(h, "validation_failed")
    <2>1. \A op \in ApiDoc : op.id = h => 422 \in op.problems
      BY <1>16, OperationStatuses DEF DeclaresStatuses
    <2>2. \A op \in ApiDoc : op.id = h => ProblemCodeForResponse(op.path, 422) = "validation_failed"
      BY ProblemCodes
    <2>3. Status["validation_failed"] = 422
      BY ProblemStatuses
    <2> QED
      BY <2>1, <2>2, <2>3 DEF Declared
  <1> QED
    BY <1>1, <1>2, <1>3, <1>4, <1>5, <1>6, <1>7, <1>8, <1>9, <1>10, <1>11, <1>12, <1>13,
       <1>14, <1>15, <1>16, Zenon

---------------------------------------------------------------------------
(* The properties of an answer a to a request r that h handled with the    *)
(* format f.                                                               *)
MediaRight(r, media) ==
    \E rep \in Representations :
        /\ media = ProblemContentType(rep)
        /\ IF IsDocumentPath(r.path) THEN rep = "json" ELSE ProblemBest(r.accept, rep)
Best(r, h, f, a) ==
    /\ a.code = "not_acceptable" /\ h \notin DocumentHandlers =>
           BestOf(r.accept, Candidates(h # "openapi"), "json", NotOffered)
    /\ a.code \in {"ok", "created"} /\ f # "none" =>
           \E rep \in Representations :
               /\ a.media = SuccessContentType(rep)
               /\ BestOf(r.accept, Candidates(h # "openapi"), "json", rep)
    /\ a.code \notin Successes \cup {"no_such_file"} => MediaRight(r, a.media)
Allows(r, a) ==
    /\ a.code = "method_not_allowed" =>
           /\ r.method \notin a.allow
           /\ a.allow \ {"HEAD"} = {route.method : route \in RoutesAt(r.path)}
           /\ "HEAD" \in a.allow <=> "GET" \in a.allow /\ PortableAllow(r.path) = {}
    /\ a.code = "not_found" => RoutesAt(r.path) = {}
AsDocumented(r, a) ==
    \A op \in ApiDoc :
        op.method = r.method /\ Matches(r.path, op.path) =>
            LET status == Status[a.code]
            IN  /\ DeclaredHeaders(op, status) \subseteq a.headers \cup
                       (IF a.links # {} THEN {"Link"} ELSE {})
                /\ \/ /\ a.code = op.success
                      /\ a.body <=> op.method # "DELETE"
                      /\ a.media \in IF op.method = "DELETE" THEN {"none"}
                                      ELSE {SuccessContentType(rep) : rep \in Representations}
                   \/ /\ status \in op.problems \/ UndeclaredNotFound(op, a.code)
                      /\ a.code = ProblemCodeForResponse(op.path, status)
                      /\ a.media \in {ProblemContentType(rep) : rep \in Representations}
Acceptable(r) == ~BestOf(r.accept, Candidates(TRUE), "json", NotOffered)
GitHubChecked(r, u, asked) ==
    \A c \in GitHubCalls : (\E i \in DOMAIN asked : asked[i] = c) =>
        /\ asked = <<c>> /\ ~u
        /\ \A i \in 4 .. Len(r.path) : r.path[i] \notin {"", "%", "bad name"}
        /\ \A i \in DOMAIN r.query :
               r.query[i].name \in {"limit", "cursor"} /\ r.query[i].value = "good"

LEMMA Parts ==
    /\ BestRepresentation <=> (Answered => Best(request, handler, format, answer))
    /\ TruthfulAllow <=> /\ Answered => Allows(request, answer)
                         /\ pc = "sent" /\ request.method = "HEAD" => ~answer.body
    /\ AnswersAsDocumented <=> (pc = "sent" => AsDocumented(request, answer))
    /\ CallsAfterChecks <=> /\ calls # <<>> /\ request.method # "DELETE" => Acceptable(request)
                            /\ ProfileCallsChecked
                            /\ GitHubChecked(request, user, calls)
  <1>1. BestRepresentation <=> (Answered => Best(request, handler, format, answer))
    BY Zenon DEF BestRepresentation, Best, MediaRight, ProblemBest, DocumentHandlers
  <1>2. TruthfulAllow <=> /\ Answered => Allows(request, answer)
                          /\ pc = "sent" /\ request.method = "HEAD" => ~answer.body
    BY Zenon DEF TruthfulAllow, Allows
  <1>3. AnswersAsDocumented <=> (pc = "sent" => AsDocumented(request, answer))
    BY Zenon DEF AnswersAsDocumented, AsDocumented
  <1>4. CallsAfterChecks <=> /\ calls # <<>> /\ request.method # "DELETE" => Acceptable(request)
                             /\ ProfileCallsChecked
                             /\ GitHubChecked(request, user, calls)
    BY Zenon DEF CallsAfterChecks, Acceptable, GitHubChecked, Called
  <1> QED
    BY <1>1, <1>2, <1>3, <1>4

LEMMA PartsNext ==
    /\ BestRepresentation' <=> (Answered' => Best(request', handler', format', answer'))
    /\ TruthfulAllow' <=> /\ Answered' => Allows(request', answer')
                          /\ pc' = "sent" /\ request'.method = "HEAD" => ~answer'.body
    /\ AnswersAsDocumented' <=> (pc' = "sent" => AsDocumented(request', answer'))
    /\ CallsAfterChecks' <=> /\ calls' # <<>> /\ request'.method # "DELETE" =>
                                    Acceptable(request')
                             /\ ProfileCallsChecked'
                             /\ GitHubChecked(request', user', calls')
  <1>1. BestRepresentation' <=> (Answered' => Best(request', handler', format', answer'))
    BY Zenon DEF BestRepresentation, Best, MediaRight, ProblemBest, DocumentHandlers
  <1>2. TruthfulAllow' <=> /\ Answered' => Allows(request', answer')
                           /\ pc' = "sent" /\ request'.method = "HEAD" => ~answer'.body
    BY Zenon DEF TruthfulAllow, Allows
  <1>3. AnswersAsDocumented' <=> (pc' = "sent" => AsDocumented(request', answer'))
    BY Zenon DEF AnswersAsDocumented, AsDocumented
  <1>4. CallsAfterChecks' <=> /\ calls' # <<>> /\ request'.method # "DELETE" =>
                                     Acceptable(request')
                              /\ ProfileCallsChecked'
                              /\ GitHubChecked(request', user', calls')
    BY Zenon DEF CallsAfterChecks, Acceptable, GitHubChecked, Called
  <1> QED
    BY <1>1, <1>2, <1>3, <1>4

---------------------------------------------------------------------------
(* An answer that is right.                                                *)
Right(a) ==
    /\ a.links = {} /\ DocumentedSoFar(request, a)
    /\ Best(request, handler, format, a) /\ Allows(request, a)

LEMMA AnswerStep ==
    ASSUME IndInv, AnswerInv, NEW a, Respond(a), Right(a)
    PROVE  AnswerInv'
  <1>1. /\ pc' = "answered" /\ answer' = a /\ request' = request /\ handler' = handler
        /\ step' = step /\ format' = format /\ user' = user /\ calls' = calls /\ acts' = acts
    BY DEF Respond
  <1>2. HandlerServed' /\ FormatNegotiated'
    BY <1>1 DEF AnswerInv, HandlerServed, FormatNegotiated
  <1>3. ChecksPassed'
    BY <1>1 DEF ChecksPassed
  <1>4. OwnCalls'
    BY <1>1 DEF AnswerInv, OwnCalls, Calling
  <1>5. AnswerReady'
    BY <1>1, Zenon DEF AnswerReady, Right
  <1>6. CallsAfterChecks'
    <2>1. ProfileCallsChecked'
      BY <1>1, CallsFrame DEF IndInv
    <2> QED
      BY <1>1, <2>1, Parts, PartsNext, Zenon DEF AnswerInv
  <1>7. BestRepresentation' /\ TruthfulAllow' /\ AnswersAsDocumented'
    <2>1. pc' # "sent"
      BY <1>1
    <2> QED
      BY <1>1, <2>1, PartsNext, Zenon DEF Right
  <1> QED
    BY <1>2, <1>3, <1>4, <1>5, <1>6, <1>7 DEF AnswerInv

LEMMA RequestFields ==
    ASSUME IndInv
    PROVE  /\ request.path \in Seq(STRING) /\ request.accept \in AcceptFields
           /\ request.method \in Methods /\ request.query \in Seq(QueryPart)
  BY DEF IndInv, TypeOK, RequestType, AcceptFields

LEMMA ProblemFields ==
    ASSUME NEW code, NEW accept
    PROVE  LET a == ProblemResponse(code, accept)
           IN  /\ a.code = code /\ a.links = {} /\ a.headers = {"Vary"} /\ a.allow = {}
               /\ a.media = ProblemContentType(NegotiateProblem(accept))
  BY DEF ProblemResponse, NoAnswer

LEMMA ContentFields ==
    ASSUME NEW code, NEW media, NEW headers
    PROVE  LET a == Content(code, media, headers)
           IN  /\ a.code = code /\ a.links = {} /\ a.headers = {"Vary"} \cup headers
               /\ a.media = media /\ a.body
  BY DEF Content, NoAnswer

(* The media types of problems.                                            *)
LEMMA JsonProblem == NegotiateProblem(NoAccept) = "json"
  BY DEF NegotiateProblem, NotOffered

LEMMA MediaDocument ==
    ASSUME NEW code, IsDocumentPath(request.path)
    PROVE  MediaRight(request, ProblemResponse(code, NoAccept).media)
  <1>1. "json" \in Representations
    BY DEF Representations
  <1> QED
    BY <1>1, JsonProblem, ProblemFields, Zenon DEF MediaRight

LEMMA MediaPlain ==
    ASSUME IndInv, NEW code, ~IsDocumentPath(request.path)
    PROVE  MediaRight(request, Problem(code).media)
  BY RequestFields, ProblemFields, ProblemNegotiated, Zenon DEF MediaRight, Problem

LEMMA MediaForPath ==
    ASSUME IndInv, NEW code
    PROVE  MediaRight(request, ProblemForPath(code).media)
  BY MediaDocument, MediaPlain, Zenon DEF ProblemForPath

(* What a served request says of its handler.                              *)
Served(r, h) == \E route \in Serving(r.path, r.method) : route.handler = h

LEMMA ServedReaches ==
    ASSUME NEW r, NEW h, Served(r, h)
    PROVE  Reaches(Routes, r.path, r.method, h) \/ Reaches(Routes, r.path, "GET", h)
  BY ServedHandlers, Zenon DEF Served

LEMMA ServedDocument ==
    ASSUME NEW r, r.path \in Seq(STRING), NEW h, Served(r, h)
    PROVE  IsDocumentPath(r.path) <=> h \in {"openapi", "catalog", "index", "guide"}
  BY ServedReaches, DocumentRoutes, DocumentPaths, Zenon

LEMMA ServedOperation ==
    ASSUME NEW r, NEW h, Served(r, h), NEW op \in ApiDoc, op.method = r.method,
           Matches(r.path, op.path)
    PROVE  h = op.id
  BY OperationServed, Zenon DEF Served

LEMMA HandlerFacts ==
    ASSUME AnswerInv, handler # "none"
    PROVE  Served(request, handler)
  BY DEF AnswerInv, HandlerServed, Served

LEMMA FormatFacts ==
    ASSUME IndInv, AnswerInv, format # "none"
    PROVE  /\ format \in Representations
           /\ BestOf(request.accept, Candidates(handler # "openapi"), "json", format)
           /\ handler \notin DocumentHandlers \cup {"none", "deleteProfile", "swaggerUi",
                                                  "swaggerRedirect"}
  <1>1. /\ format = NegotiateSuccess(request.accept, handler # "openapi")
        /\ handler \notin DocumentHandlers \cup {"none", "deleteProfile", "swaggerUi",
                                               "swaggerRedirect"}
    BY Zenon DEF AnswerInv, FormatNegotiated
  <1>2. (handler # "openapi") \in BOOLEAN
    OBVIOUS
  <1>3. /\ BestOf(request.accept, Candidates(handler # "openapi"), "json", format)
        /\ format \in Representations \cup {NotOffered}
    BY <1>1, <1>2, RequestFields, SuccessNegotiated, Zenon
  <1> QED
    BY <1>1, <1>3 DEF NotOffered

LEMMA HeadersDeclared ==
    ASSUME NEW op, NEW status, NEW headers, CommonHeaders \subseteq headers,
           (op.method = "DELETE" /\ status = 204) \/ "Vary" \in headers,
           op.id = "getHealth" /\ status = 200 => "Link" \in headers,
           status = 429 => "Retry-After" \in headers,
           status = 401 => "WWW-Authenticate" \in headers,
           op.id = "createProfile" /\ status = 201 => "Location" \in headers
    PROVE  DeclaredHeaders(op, status) \subseteq headers
  BY DEF DeclaredHeaders

---------------------------------------------------------------------------
(* The answers of the handlers.                                            *)
Matching(r, op) == op.method = r.method /\ Matches(r.path, op.path)

LEMMA ProblemRight ==
    ASSUME NEW a, a.links = {}, "Vary" \in a.headers, MediaRight(request, a.media),
           a.code \notin Successes \cup {"method_not_allowed", "not_found"},
           \A op \in ApiDoc : Matching(request, op) => Declared(op.id, a.code),
           a.code = "not_acceptable" /\ handler \notin DocumentHandlers =>
               BestOf(request.accept, Candidates(handler # "openapi"), "json", NotOffered),
           a.code = "unauthorized" => "WWW-Authenticate" \in a.headers,
           a.code = "github_rate_limit" => "Retry-After" \in a.headers
    PROVE  Right(a)
  <1>1. Best(request, handler, format, a)
    BY Zenon DEF Best, Successes
  <1>2. Allows(request, a)
    BY Zenon DEF Allows
  <1>3. ASSUME NEW op \in ApiDoc, op.method = request.method, Matches(request.path, op.path)
        PROVE  /\ DeclaredHeaders(op, Status[a.code]) \subseteq
                      a.headers \cup CommonHeaders
                          \cup (IF op.id = "getHealth" THEN {"Link"} ELSE {})
               /\ Status[a.code] \in op.problems \/ UndeclaredNotFound(op, a.code)
               /\ a.code = ProblemCodeForResponse(op.path, Status[a.code])
    <2> DEFINE status == Status[a.code]
               H == a.headers \cup CommonHeaders
                        \cup (IF op.id = "getHealth" THEN {"Link"} ELSE {})
    <2>1. Declared(op.id, a.code)
      BY <1>3, Zenon DEF Matching
    <2>2. /\ status \in op.problems \/ UndeclaredNotFound(op, a.code)
          /\ a.code = ProblemCodeForResponse(op.path, status)
      BY <2>1, Zenon DEF Declared
    <2>3. status # 201
      <3>1. DeclaresStatuses(op)
        BY OperationStatuses
      <3>2. UndeclaredNotFound(op, a.code) => status = 404
        BY ProblemStatuses DEF UndeclaredNotFound
      <3> HIDE DEF status
      <3> QED
        BY <2>2, <3>1, <3>2 DEF DeclaresStatuses
    <2> HIDE DEF status
    <2>4. /\ status = 429 => a.code = "github_rate_limit"
          /\ status = 401 => a.code = "unauthorized"
      BY <2>2, ProblemCodes
    <2>5. /\ CommonHeaders \subseteq H /\ "Vary" \in H
          /\ op.id = "getHealth" => "Link" \in H
          /\ status = 429 => "Retry-After" \in H
          /\ status = 401 => "WWW-Authenticate" \in H
      BY <2>4
    <2> HIDE DEF H
    <2>6. DeclaredHeaders(op, status) \subseteq H
      BY <2>3, <2>5, HeadersDeclared
    <2> QED
      BY <2>2, <2>6 DEF status, H
  <1>4. a.media \in {ProblemContentType(rep) : rep \in Representations}
    BY Zenon DEF MediaRight
  <1>5. DocumentedSoFar(request, a)
    BY <1>3, <1>4, Zenon DEF DocumentedSoFar
  <1> QED
    BY <1>1, <1>2, <1>5, Zenon DEF Right

LEMMA RefusedRight ==
    ASSUME AnswerInv, handler # "none",
           NEW a, a.links = {}, "Vary" \in a.headers, MediaRight(request, a.media),
           a.code \notin Successes \cup {"method_not_allowed", "not_found"},
           Declared(handler, a.code),
           a.code = "not_acceptable" /\ handler \notin DocumentHandlers =>
               BestOf(request.accept, Candidates(handler # "openapi"), "json", NotOffered),
           a.code = "unauthorized" => "WWW-Authenticate" \in a.headers,
           a.code = "github_rate_limit" => "Retry-After" \in a.headers
    PROVE  Right(a)
  <1>1. \A op \in ApiDoc : Matching(request, op) => Declared(op.id, a.code)
    BY HandlerFacts, ServedOperation, Zenon DEF Matching
  <1> QED
    BY <1>1, ProblemRight, Zenon

LEMMA SuccessRight ==
    ASSUME IndInv, AnswerInv, handler \notin {"none", "deleteProfile"}, format # "none",
           NEW code, code = (IF handler = "createProfile" THEN "created" ELSE "ok"),
           NEW headers, handler = "createProfile" => "Location" \in headers
    PROVE  Right(Success(code, headers))
  <1> DEFINE a == Success(code, headers)
  <1>1. /\ a.code = code /\ a.links = {} /\ a.headers = {"Vary"} \cup headers
        /\ a.media = SuccessContentType(format) /\ a.body
    BY ContentFields DEF Success
  <1> HIDE DEF a
  <1>2. /\ a.code \in {"ok", "created"}
        /\ a.code \in Successes /\ "Vary" \in a.headers
        /\ handler = "createProfile" => "Location" \in a.headers
        /\ a.code \notin {"not_acceptable", "method_not_allowed", "not_found"}
    BY <1>1 DEF Successes
  <1>3. Best(request, handler, format, a)
    BY <1>1, <1>2, FormatFacts, Zenon DEF Best
  <1>4. Allows(request, a)
    BY <1>2, Zenon DEF Allows
  <1>5. ASSUME NEW op \in ApiDoc, op.method = request.method, Matches(request.path, op.path)
        PROVE  /\ DeclaredHeaders(op, Status[a.code]) \subseteq
                      a.headers \cup CommonHeaders
                          \cup (IF op.id = "getHealth" THEN {"Link"} ELSE {})
               /\ a.code = op.success
               /\ op.method # "DELETE"
    <2> DEFINE status == Status[a.code]
               H == a.headers \cup CommonHeaders
                        \cup (IF op.id = "getHealth" THEN {"Link"} ELSE {})
    <2>1. handler = op.id
      BY <1>5, HandlerFacts, ServedOperation, Zenon
    <2>2. a.code = op.success /\ op.method # "DELETE"
      <3>1. DeclaresStatuses(op)
        BY OperationStatuses
      <3> QED
        BY <1>1, <2>1, <3>1 DEF DeclaresStatuses
    <2>3. status \in {200, 201}
      BY <1>2, StatusFacts
    <2> HIDE DEF status
    <2>4. /\ CommonHeaders \subseteq H /\ "Vary" \in H
          /\ op.id = "getHealth" => "Link" \in H
          /\ op.id = "createProfile" => "Location" \in H
      BY <1>2, <2>1
    <2>5. status # 429 /\ status # 401
      BY <2>3
    <2> HIDE DEF H
    <2>6. DeclaredHeaders(op, status) \subseteq H
      BY <2>4, <2>5, HeadersDeclared
    <2> QED
      BY <2>2, <2>6 DEF status, H
  <1>6. a.media \in {SuccessContentType(rep) : rep \in Representations}
    BY <1>1, FormatFacts, Zenon
  <1>7. DocumentedSoFar(request, a)
    BY <1>1, <1>5, <1>6, Zenon DEF DocumentedSoFar
  <1>8. Right(a)
    BY <1>1, <1>3, <1>4, <1>7, Zenon DEF Right
  <1> QED
    BY <1>8 DEF a

LEMMA NoContentFields ==
    /\ NoContent.code = "no_content" /\ NoContent.links = {} /\ NoContent.media = "none"
    /\ NoContent.body = FALSE /\ NoContent.headers = {}
  BY DEF NoContent, NoAnswer

LEMMA NoContentRight ==
    ASSUME IndInv, AnswerInv, handler = "deleteProfile"
    PROVE  Right(NoContent)
  <1>0. "deleteProfile" # "none" /\ "no_content" \in Successes
    BY DEF Successes
  <1>1. Best(request, handler, format, NoContent)
    BY <1>0, NoContentFields DEF Best
  <1>2. Allows(request, NoContent)
    BY NoContentFields DEF Allows
  <1>3. ASSUME NEW op \in ApiDoc, op.method = request.method, Matches(request.path, op.path)
        PROVE  /\ DeclaredHeaders(op, Status["no_content"]) \subseteq CommonHeaders
               /\ op.success = "no_content"
               /\ op.method = "DELETE"
    <2>1. handler = op.id
      BY <1>0, <1>3, HandlerFacts, ServedOperation, Zenon
    <2>2. op.success = "no_content" /\ op.method = "DELETE"
      <3>1. DeclaresStatuses(op)
        BY OperationStatuses
      <3> QED
        BY <2>1, <3>1 DEF DeclaresStatuses
    <2>3. Status["no_content"] = 204
      BY StatusFacts
    <2>4. DeclaredHeaders(op, 204) \subseteq CommonHeaders
      BY <2>2, HeadersDeclared
    <2> QED
      BY <2>2, <2>3, <2>4
  <1>4. DocumentedSoFar(request, NoContent)
    BY <1>3, NoContentFields DEF DocumentedSoFar
  <1> QED
    BY <1>1, <1>2, <1>4, NoContentFields, Zenon DEF Right

(* The handlers of no documented operation.                                *)
LEMMA UndocumentedRight ==
    ASSUME AnswerInv, handler \in DocumentHandlers \cup {"swaggerUi", "swaggerRedirect"},
           NEW a, a.links = {}, a.code \in {"ok", "redirect", "no_such_file"}
    PROVE  Right(a)
  <1>1. format = "none" /\ handler # "none"
    BY DEF AnswerInv, FormatNegotiated, DocumentHandlers
  <1>2. /\ a.code \in Successes \cup {"no_such_file"}
        /\ a.code \notin {"not_acceptable", "method_not_allowed", "not_found"}
    BY DEF Successes
  <1>3. Best(request, handler, format, a) /\ Allows(request, a)
    BY <1>1, <1>2, Zenon DEF Best, Allows
  <1>4. ASSUME NEW op \in ApiDoc, op.method = request.method, Matches(request.path, op.path)
        PROVE  FALSE
    <2>1. handler = op.id
      BY <1>1, <1>4, HandlerFacts, ServedOperation, Zenon
    <2>2. DeclaresStatuses(op)
      BY OperationStatuses
    <2> QED
      BY <2>1, <2>2 DEF DeclaresStatuses, DocumentHandlers
  <1>5. DocumentedSoFar(request, a)
    BY <1>4, Zenon DEF DocumentedSoFar
  <1> QED
    BY <1>3, <1>5, Zenon DEF Right

---------------------------------------------------------------------------
(* The answers before the router.                                          *)
LEMMA NoHeadRoute == \A path, h : ~Reaches(Routes, path, "HEAD", h)
  <1>1. "HEAD" \notin {"GET", "POST", "PATCH", "DELETE"}
    OBVIOUS
  <1> QED
    BY <1>1, RoutesTable, Zenon DEF Writes

LEMMA PortableServed ==
    ASSUME NEW path \in Seq(STRING), PortableAllow(path) # {}
    PROVE  PortableAllow(path) = {route.method : route \in RoutesAt(path)}
  <1>1. \A m : m \in PortableAllow(path) <=> m \in {route.method : route \in RoutesAt(path)}
    BY PortableMethods, ServedMethods, Zenon
  <1> QED
    BY <1>1, Zenon

LEMMA NoHeadServed ==
    ASSUME NEW path
    PROVE  "HEAD" \notin {route.method : route \in RoutesAt(path)}
  BY NoHeadRoute, ServedMethods, Zenon

LEMMA NotAllowedFields ==
    LET served == {route.method : route \in RoutesAt(request.path)}
    IN  /\ MethodNotAllowedAnswer.code = "method_not_allowed"
        /\ MethodNotAllowedAnswer.links = {}
        /\ "Vary" \in MethodNotAllowedAnswer.headers
        /\ MethodNotAllowedAnswer.media = ProblemForPath("method_not_allowed").media
        /\ MethodNotAllowedAnswer.allow =
               IF PortableAllow(request.path) # {} THEN PortableAllow(request.path)
               ELSE served \cup (IF "GET" \in served THEN {"HEAD"} ELSE {})
  <1> DEFINE p == ProblemForPath("method_not_allowed")
             served == {route.method : route \in RoutesAt(request.path)}
             allow == IF PortableAllow(request.path) # {} THEN PortableAllow(request.path)
                      ELSE served \cup (IF "GET" \in served THEN {"HEAD"} ELSE {})
  <1>1. /\ p.code = "method_not_allowed" /\ p.links = {} /\ p.headers = {"Vary"}
        /\ DOMAIN p = DOMAIN NoAnswer
    <2>1. \/ p = ProblemResponse("method_not_allowed", NoAccept)
          \/ p = ProblemResponse("method_not_allowed", request.accept)
      BY Zenon DEF ProblemForPath, Problem
    <2>2. p.code = "method_not_allowed" /\ p.links = {} /\ p.headers = {"Vary"}
      <3>1. \A accept : LET a == ProblemResponse("method_not_allowed", accept)
                        IN  /\ a.code = "method_not_allowed" /\ a.links = {}
                            /\ a.headers = {"Vary"}
        BY ProblemFields
      <3> HIDE DEF p
      <3> QED
        BY <2>1, <3>1, Zenon
    <2>3. DOMAIN p = DOMAIN NoAnswer
      BY ProblemShapes, StatusFacts DEF Shaped
    <2> QED
      BY <2>2, <2>3, Zenon
  <1>2. MethodNotAllowedAnswer = [p EXCEPT !.headers = @ \cup {"Allow"}, !.allow = allow]
    BY Zenon DEF MethodNotAllowedAnswer
  <1>3. DOMAIN NoAnswer = {"code", "media", "headers", "allow", "links", "csp", "body"}
    BY DEF NoAnswer
  <1> HIDE DEF p, allow
  <1>4. /\ MethodNotAllowedAnswer.code = "method_not_allowed"
        /\ MethodNotAllowedAnswer.links = {}
        /\ "Vary" \in MethodNotAllowedAnswer.headers
        /\ MethodNotAllowedAnswer.media = p.media
        /\ MethodNotAllowedAnswer.allow = allow
    BY <1>1, <1>2, <1>3
  <1> QED
    BY <1>4 DEF p, allow

LEMMA NotAllowedRight ==
    ASSUME IndInv,
           HeadRejected \/ (~HeadRejected /\ Serving(request.path, request.method) = {})
    PROVE  Right(MethodNotAllowedAnswer)
  <1> DEFINE a == MethodNotAllowedAnswer
             portable == PortableAllow(request.path)
             served == {route.method : route \in RoutesAt(request.path)}
  <1>1. request.path \in Seq(STRING)
    BY RequestFields
  <1>2. portable # {} => portable = served
    BY <1>1, PortableServed, Zenon
  <1>3. "HEAD" \notin served
    BY NoHeadServed, Zenon
  <1>4. /\ HeadRejected => request.method = "HEAD" /\ portable # {}
        /\ ~HeadRejected => request.method # "HEAD" \/ portable = {}
    BY Zenon DEF HeadRejected
  <1>5. ~HeadRejected => /\ request.method \notin served
                         /\ request.method = "HEAD" => "GET" \notin served
    BY Zenon DEF Serving
  <1>6. /\ a.code = "method_not_allowed" /\ a.links = {} /\ "Vary" \in a.headers
        /\ a.media = ProblemForPath("method_not_allowed").media
        /\ a.allow = IF portable # {} THEN portable
                     ELSE served \cup (IF "GET" \in served THEN {"HEAD"} ELSE {})
    BY NotAllowedFields, Zenon
  <1>7. \A op \in ApiDoc : ~Matching(request, op)
    <2> SUFFICES ASSUME NEW op \in ApiDoc, Matching(request, op) PROVE FALSE
      OBVIOUS
    <2>1. Reaches(Routes, request.path, request.method, op.id)
      BY OperationReached, Zenon DEF Matching
    <2>2. request.method # "HEAD"
      BY OperationMethods, Zenon DEF Matching
    <2>3. request.method \in served
      BY <2>1, ServedMethods, Zenon
    <2> QED
      BY <1>4, <1>5, <2>2, <2>3
  <1>8. MediaRight(request, a.media)
    BY <1>6, MediaForPath, Zenon
  <1> HIDE DEF a, portable, served
  <1>9. /\ request.method \notin a.allow
        /\ a.allow \ {"HEAD"} = served
        /\ "HEAD" \in a.allow <=> "GET" \in a.allow /\ portable = {}
    BY <1>2, <1>3, <1>4, <1>5, <1>6
  <1>10. Allows(request, a)
    BY <1>6, <1>9, Zenon DEF Allows, portable, served
  <1>11. Best(request, handler, format, a)
    BY <1>6, <1>8 DEF Best
  <1>12. DocumentedSoFar(request, a)
    BY <1>7, Zenon DEF DocumentedSoFar, Matching
  <1> QED
    BY <1>6, <1>10, <1>11, <1>12, Zenon DEF Right, a

LEMMA NotFoundRight ==
    ASSUME IndInv, RoutesAt(request.path) = {}
    PROVE  Right(Problem("not_found"))
  <1> DEFINE a == Problem("not_found")
  <1>1. \A m, h : ~Reaches(Routes, request.path, m, h)
    BY Zenon DEF Reaches, RoutesAt
  <1>2. ~IsDocumentPath(request.path)
    BY <1>1, RequestFields, DocumentsRouted, DocumentPaths, Zenon
  <1>3. MediaRight(request, a.media)
    BY <1>2, MediaPlain, Zenon
  <1>4. a.code = "not_found" /\ a.links = {}
    BY ProblemFields DEF Problem
  <1>5. DocumentedSoFar(request, a)
    BY <1>1, OperationReached, Zenon DEF DocumentedSoFar
  <1> HIDE DEF a
  <1>6. Best(request, handler, format, a) /\ Allows(request, a)
    BY <1>3, <1>4 DEF Best, Allows
  <1>7. Right(a)
    BY <1>4, <1>5, <1>6, Zenon DEF Right
  <1> QED
    BY <1>7 DEF a

LEMMA SizeRight ==
    ASSUME IndInv, DeclaredSizeProblem # "none"
    PROVE  Right(Problem(DeclaredSizeProblem))
  <1> DEFINE code == DeclaredSizeProblem
             a == Problem(code)
  <1>1. /\ code \in {"invalid_request", "payload_too_large"}
        /\ IsPortableBodyOperation(request.method, request.path)
    BY DEF DeclaredSizeProblem
  <1>2. /\ a.code = code /\ a.links = {} /\ "Vary" \in a.headers
    BY ProblemFields DEF Problem
  <1>3. \A op \in ApiDoc : Matching(request, op) => Declared(op.id, code)
    <2> SUFFICES ASSUME NEW op \in ApiDoc, Matching(request, op) PROVE Declared(op.id, code)
      OBVIOUS
    <2>1. Reaches(Routes, request.path, request.method, op.id)
      BY OperationReached, Zenon DEF Matching
    <2>2. request.method \in {"POST", "PATCH"}
      BY <1>1, Zenon DEF IsPortableBodyOperation
    <2>3. Writes(request.path, request.method, op.id) /\ request.method # "DELETE"
      BY <2>1, <2>2, RoutesTable
    <2>4. op.id \in {"createHello", "createProfile", "updateProfile"}
      BY <2>3, Zenon DEF Writes
    <2> QED
      BY <1>1, <2>4, Declarations, Zenon
  <1>4. ~IsDocumentPath(request.path)
    <2>1. /\ request.path \in Seq(STRING)
          /\ request.path \in {<<"v1", "hello">>, <<"v1", "profile">>}
      BY <1>1, RequestFields, Zenon DEF IsPortableBodyOperation
    <2>2. At2(request.path, "v1", "hello") \/ At2(request.path, "v1", "profile")
      BY <2>1, Tuples
    <2>3. ~DocumentAt(request.path)
      BY <2>2 DEF DocumentAt, At1, At2
    <2> QED
      BY <2>1, <2>3, DocumentPaths, Zenon
  <1>5. MediaRight(request, a.media)
    BY <1>4, MediaPlain, Zenon
  <1> HIDE DEF code
  <1>6. a.code \notin Successes \cup {"method_not_allowed", "not_found", "not_acceptable",
                                      "unauthorized", "github_rate_limit"}
    BY <1>1, <1>2 DEF Successes
  <1> HIDE DEF a
  <1>7. Right(a)
    BY <1>2, <1>3, <1>5, <1>6, ProblemRight, Zenon
  <1> QED
    BY <1>7 DEF a, code

---------------------------------------------------------------------------
(* Which handlers name an extractor.                                       *)
BodyHandlers == {"createHello", "createProfile", "updateProfile"}
Unnegotiated == DocumentHandlers \cup {"deleteProfile", "swaggerUi", "swaggerRedirect"}
ExtractorTable(h, e) ==
    /\ e = "format" => h \notin Unnegotiated \cup {"openapi"}
    /\ e = "json_format" => h = "openapi"
    /\ e = "body" => h \in BodyHandlers
    /\ e \in {"query", "path", "user", "body"} =>
           h \notin DocumentHandlers \cup {"openapi"}

LEMMA ExtractorHandlers ==
    ASSUME NEW h \in Handlers, NEW i \in 1 .. Len(Extractors[h])
    PROVE  ExtractorTable(h, Extractors[h][i])
  <1>1. h \in {"getHealth", "getHello", "createHello", "listItems", "createProfile", "getProfile",
               "updateProfile", "deleteProfile", "getGitHubOwner",
               "listGitHubOwnerRepositories", "getGitHubRepository",
               "listGitHubRepositoryActivity", "listGitHubRepositoryLanguages",
               "listGitHubRepositoryTags", "openapi", "catalog", "index", "guide",
               "swaggerUi", "swaggerRedirect"}
    BY DEF Handlers, Extractors
  <1> USE DEF ExtractorTable, DocumentHandlers, Unnegotiated, BodyHandlers
  <1>2. CASE h \in {"createProfile", "updateProfile"}
    <2>1. Extractors[h] = <<"format", "no_query", "user", "body">>
      BY <1>2 DEF Extractors
    <2> QED
      BY <1>2, <2>1
  <1>3. CASE h = "getProfile"
    <2>1. Extractors[h] = <<"format", "no_query", "user">>
      BY <1>3 DEF Extractors
    <2> QED
      BY <1>3, <2>1
  <1>4. CASE h = "deleteProfile"
    <2>1. Extractors[h] = <<"no_query", "user">>
      BY <1>4 DEF Extractors
    <2> QED
      BY <1>4, <2>1
  <1>5. CASE h \in {"getHealth", "getHello"}
    <2>1. Extractors[h] = <<"format", "no_query">>
      BY <1>5 DEF Extractors
    <2> QED
      BY <1>5, <2>1
  <1>6. CASE h = "createHello"
    <2>1. Extractors[h] = <<"format", "no_query", "body">>
      BY <1>6 DEF Extractors
    <2> QED
      BY <1>6, <2>1
  <1>7. CASE h = "listItems"
    <2>1. Extractors[h] = <<"format", "query">>
      BY <1>7 DEF Extractors
    <2> QED
      BY <1>7, <2>1
  <1>8. CASE h \in {"getGitHubOwner", "getGitHubRepository", "listGitHubRepositoryLanguages"}
    <2>1. Extractors[h] = <<"format", "no_query", "path">>
      BY <1>8 DEF Extractors
    <2> QED
      BY <1>8, <2>1
  <1>9. CASE h \in {"listGitHubOwnerRepositories", "listGitHubRepositoryActivity",
                    "listGitHubRepositoryTags"}
    <2>1. Extractors[h] = <<"format", "path", "query">>
      BY <1>9 DEF Extractors
    <2> QED
      BY <1>9, <2>1
  <1>10. CASE h = "openapi"
    <2>1. Extractors[h] = <<"json_format", "no_query">>
      BY <1>10 DEF Extractors
    <2> QED
      BY <1>10, <2>1
  <1>11. CASE h \in {"catalog", "index", "guide"}
    <2>1. Extractors[h] = <<"no_query">>
      BY <1>11 DEF Extractors
    <2> QED
      BY <1>11, <2>1
  <1>12. CASE h \in {"swaggerUi", "swaggerRedirect"}
    <2>1. Extractors[h] = <<>>
      BY <1>12 DEF Extractors
    <2> QED
      BY <2>1
  <1> QED
    BY <1>1, <1>2, <1>3, <1>4, <1>5, <1>6, <1>7, <1>8, <1>9, <1>10, <1>11, <1>12

(* Who negotiates does so first.                                           *)
LEMMA FormatFirst ==
    ASSUME NEW h \in Handlers \ Unnegotiated
    PROVE  1 \in 1 .. Len(Extractors[h]) /\ Extractors[h][1] \in {"format", "json_format"}
  <1>1. h \in {"getHealth", "getHello", "createHello", "listItems", "createProfile", "getProfile",
               "updateProfile", "getGitHubOwner", "listGitHubOwnerRepositories",
               "getGitHubRepository", "listGitHubRepositoryActivity",
               "listGitHubRepositoryLanguages", "listGitHubRepositoryTags", "openapi"}
    BY DEF Handlers, Extractors, Unnegotiated, DocumentHandlers
  <1>2. CASE h \in {"createProfile", "updateProfile"}
    BY <1>2, ProfileExtractors
  <1>3. CASE h = "getProfile"
    BY <1>3, ProfileExtractors
  <1>4. CASE h \in {"getHealth", "getHello"}
    <2>1. Extractors[h] = <<"format", "no_query">>
      BY <1>4 DEF Extractors
    <2> QED
      BY <2>1
  <1>5. CASE h = "createHello"
    <2>1. Extractors[h] = <<"format", "no_query", "body">>
      BY <1>5 DEF Extractors
    <2> QED
      BY <2>1
  <1>6. CASE h = "listItems"
    <2>1. Extractors[h] = <<"format", "query">>
      BY <1>6 DEF Extractors
    <2> QED
      BY <2>1
  <1>7. CASE h \in {"getGitHubOwner", "getGitHubRepository", "listGitHubRepositoryLanguages"}
    <2>1. Extractors[h] = <<"format", "no_query", "path">>
      BY <1>7 DEF Extractors
    <2> QED
      BY <2>1
  <1>8. CASE h \in {"listGitHubOwnerRepositories", "listGitHubRepositoryActivity",
                    "listGitHubRepositoryTags"}
    <2>1. Extractors[h] = <<"format", "path", "query">>
      BY <1>8 DEF Extractors
    <2> QED
      BY <2>1
  <1>9. CASE h = "openapi"
    <2>1. Extractors[h] = <<"json_format", "no_query">>
      BY <1>9 DEF Extractors
    <2> QED
      BY <2>1
  <1> QED
    BY <1>1, <1>2, <1>3, <1>4, <1>5, <1>6, <1>7, <1>8, <1>9

---------------------------------------------------------------------------
(* The steps that answer nothing.                                          *)
LEMMA OpenStep ==
    ASSUME pc' \notin {"answered", "sent"}
    PROVE  AnswerReady' /\ BestRepresentation' /\ TruthfulAllow' /\ AnswersAsDocumented'
  <1>1. pc' # "answered" /\ pc' # "sent"
    OBVIOUS
  <1>2. ~Answered'
    BY <1>1 DEF Answered
  <1> QED
    BY <1>1, <1>2, PartsNext, Zenon DEF AnswerReady

LEMMA ArrivingAnswers ==
    ASSUME IndInv, AnswerInv,
           \/ PortableHeadRejection \/ DeclaredBodySizeRejection
           \/ NotFoundHandler \/ MethodNotAllowedHandler
    PROVE  AnswerInv'
  <1>1. CASE PortableHeadRejection
    BY <1>1, NotAllowedRight, AnswerStep, Zenon DEF PortableHeadRejection
  <1>2. CASE DeclaredBodySizeRejection
    BY <1>2, SizeRight, AnswerStep, Zenon DEF DeclaredBodySizeRejection
  <1>3. CASE NotFoundHandler
    BY <1>3, NotFoundRight, AnswerStep, Zenon DEF NotFoundHandler
  <1>4. CASE MethodNotAllowedHandler
    BY <1>4, NotAllowedRight, AnswerStep, Zenon DEF MethodNotAllowedHandler, Admitted
  <1> QED
    BY <1>1, <1>2, <1>3, <1>4

LEMMA NothingAsked == \A r, u : GitHubChecked(r, u, <<>>)
  <1>1. \A i \in DOMAIN <<>> : FALSE
    OBVIOUS
  <1> QED
    BY <1>1, Zenon DEF GitHubChecked

LEMMA DispatchAnswers ==
    ASSUME IndInv, AnswerInv, IndInv', Dispatch
    PROVE  AnswerInv'
  <1>1. /\ pc = "arriving" /\ pc' = "extracting" /\ request' = request /\ step' = 1
        /\ format' = format /\ user' = user /\ calls' = calls /\ acts' = acts
    BY DEF Dispatch, Admitted
  <1>2. handler = "none" /\ calls = <<>>
    BY <1>1 DEF IndInv
  <1>3. format = "none"
    BY <1>2 DEF AnswerInv, HandlerServed
  <1>4. \E route \in Serving(request.path, request.method) : route.handler = handler'
    BY Zenon DEF Dispatch
  <1>5. HandlerServed'
    BY <1>1, <1>2, <1>3, <1>4, Zenon DEF HandlerServed
  <1>6. FormatNegotiated'
    BY <1>1, <1>3 DEF FormatNegotiated
  <1>7. ChecksPassed'
    <2>1. \A e : ~Passed(e)'
      BY <1>1 DEF Passed
    <2> QED
      BY <2>1, Zenon DEF ChecksPassed
  <1>8. OwnCalls'
    BY <1>1, <1>2 DEF OwnCalls, Calling
  <1>9. CallsAfterChecks'
    <2>1. ProfileCallsChecked'
      BY DEF IndInv
    <2>2. GitHubChecked(request', user', calls')
      BY <1>1, <1>2, NothingAsked, Zenon
    <2> QED
      BY <1>1, <1>2, <2>1, <2>2, PartsNext, Zenon
  <1> QED
    BY <1>1, <1>5, <1>6, <1>7, <1>8, <1>9, OpenStep DEF AnswerInv

(* Nothing but the control changes, and what the store did.                *)
LEMMA FrameAnswers ==
    ASSUME IndInv, AnswerInv,
           request' = request, handler' = handler, step' = step, format' = format,
           user' = user, calls' = calls, answer' = answer,
           pc' = pc \/ pc' = "dropped",
           Calling(ProfileCalls) => acts' \subseteq Outcomes(calls[Len(calls)])
    PROVE  AnswerInv'
  <1>1. HandlerServed' /\ FormatNegotiated'
    BY DEF AnswerInv, HandlerServed, FormatNegotiated
  <1>2. ChecksPassed'
    BY DEF AnswerInv, ChecksPassed, Passed
  <1>3. OwnCalls'
    BY DEF AnswerInv, OwnCalls, Calling
  <1>4. CallsAfterChecks'
    <2>1. ProfileCallsChecked'
      BY CallsFrame DEF IndInv
    <2> QED
      BY <2>1, Parts, PartsNext, Zenon DEF AnswerInv
  <1>5. CASE pc' = "dropped"
    BY <1>1, <1>2, <1>3, <1>4, <1>5, OpenStep DEF AnswerInv
  <1>6. CASE pc' = pc
    <2>1. Answered' <=> Answered
      BY <1>6 DEF Answered
    <2>2. AnswerReady'
      BY <1>6, Zenon DEF AnswerInv, AnswerReady
    <2>3. BestRepresentation' /\ TruthfulAllow' /\ AnswersAsDocumented'
      BY <1>6, <2>1, Parts, PartsNext, Zenon DEF AnswerInv
    <2> QED
      BY <1>1, <1>2, <1>3, <1>4, <2>2, <2>3 DEF AnswerInv
  <1> QED
    BY <1>5, <1>6

LEMMA EffectAnswers ==
    ASSUME IndInv, AnswerInv, StoreExecutes \/ LoseReply \/ Disconnect \/ UNCHANGED vars
    PROVE  AnswerInv'
  <1>1. /\ request' = request /\ handler' = handler /\ step' = step /\ format' = format
        /\ user' = user /\ calls' = calls /\ answer' = answer
        /\ pc' = pc \/ pc' = "dropped"
    BY DEF StoreExecutes, LoseReply, Disconnect, vars
  <1>2. Calling(ProfileCalls) => acts' \subseteq Outcomes(calls[Len(calls)])
    <2>1. Calling(ProfileCalls) => acts \subseteq Outcomes(calls[Len(calls)])
      BY DEF AnswerInv, OwnCalls
    <2>2. \/ acts' = acts
          \/ \E outcome \in Outcomes(calls[Len(calls)]) : acts' = acts \cup {outcome}
      BY DEF StoreExecutes, LoseReply, Disconnect, vars
    <2> QED
      BY <2>1, <2>2
  <1> QED
    BY <1>1, <1>2, FrameAnswers

(* One extractor is done.                                                  *)
LEMMA ProceedAnswers ==
    ASSUME IndInv, AnswerInv, IndInv', NEW e, Extracting(e), Proceed,
           e \in {"format", "json_format"} =>
               /\ format' = NegotiateSuccess(request.accept, e = "format")
               /\ format' # "none",
           e \notin {"format", "json_format"} => format' = format,
           e = "query" => ParsesQuery(request.query)
    PROVE  AnswerInv'
  <1>1. /\ pc = "extracting" /\ pc' = pc /\ request' = request /\ handler' = handler
        /\ step' = step + 1 /\ user' = user /\ calls' = calls /\ acts' = acts
        /\ answer' = answer
    BY DEF Extracting, Proceed
  <1>2. /\ handler \in Handlers /\ handler # "none"
        /\ step \in 1 .. Len(Extractors[handler]) /\ Extractors[handler][step] = e
    <2>1. /\ handler \in Handlers /\ step \in 1 .. Len(Extractors[handler]) + 1
          /\ step <= Len(Extractors[handler]) /\ Extractors[handler][step] = e
      BY <1>1 DEF IndInv, Extracting
    <2>2. "none" \notin Handlers
      BY DEF Handlers, Extractors
    <2> QED
      BY <2>1, <2>2, ExtractorFacts
  <1>3. ExtractorTable(handler, e)
    BY <1>2, ExtractorHandlers, Zenon
  <1>4. HandlerServed'
    BY <1>1, <1>2, Zenon DEF AnswerInv, HandlerServed
  <1>5. FormatNegotiated'
    <2>1. CASE e = "format"
      <3>1. handler \notin Unnegotiated \cup {"openapi", "none"}
        BY <1>2, <1>3, <2>1 DEF ExtractorTable
      <3>2. format' = NegotiateSuccess(request.accept, TRUE)
        BY <2>1
      <3>3. (handler # "openapi") = TRUE
        BY <3>1
      <3>4. handler \notin DocumentHandlers \cup {"none", "deleteProfile", "swaggerUi",
                                                 "swaggerRedirect"}
        BY <3>1 DEF Unnegotiated
      <3> QED
        BY <1>1, <3>2, <3>3, <3>4, Zenon DEF FormatNegotiated
    <2>2. CASE e = "json_format"
      <3>1. handler = "openapi"
        BY <1>3, <2>2 DEF ExtractorTable
      <3>2. format' = NegotiateSuccess(request.accept, FALSE)
        <4>1. (e = "format") = FALSE
          BY <2>2
        <4> QED
          BY <2>2, <4>1
      <3>3. (handler # "openapi") = FALSE
        BY <3>1
      <3>4. handler \notin DocumentHandlers \cup {"none", "deleteProfile", "swaggerUi",
                                                 "swaggerRedirect"}
        BY <3>1 DEF DocumentHandlers
      <3> QED
        BY <1>1, <3>2, <3>3, <3>4, Zenon DEF FormatNegotiated
    <2>3. CASE e \notin {"format", "json_format"}
      BY <1>1, <2>3 DEF AnswerInv, FormatNegotiated
    <2> QED
      BY <2>1, <2>2, <2>3
  <1>6. format # "none" => format' # "none"
    BY Zenon
  <1>7. ChecksPassed'
    <2>1. \A x : Passed(x)' => Passed(x) \/ x = e
      BY <1>1, <1>2, ExtractorFacts DEF Passed
    <2>2. Passed("format")' \/ Passed("json_format")' => format' # "none"
      BY <1>1, <1>6, <2>1 DEF AnswerInv, ChecksPassed
    <2>3. Passed("query")' => ParsesQuery(request.query)
      BY <1>1, <2>1 DEF AnswerInv, ChecksPassed
    <2> QED
      BY <1>1, <2>2, <2>3, Zenon DEF ChecksPassed
  <1>8. OwnCalls'
    BY <1>1, <1>6 DEF AnswerInv, OwnCalls, Calling
  <1>9. CallsAfterChecks'
    <2>1. ProfileCallsChecked'
      BY DEF IndInv
    <2> QED
      BY <1>1, <2>1, Parts, PartsNext, Zenon DEF AnswerInv
  <1> QED
    BY <1>1, <1>4, <1>5, <1>7, <1>8, <1>9, OpenStep DEF AnswerInv

---------------------------------------------------------------------------
(* The refusals.                                                           *)
PlainRefusals == {"invalid_request", "payload_too_large", "unsupported_media_type",
                  "validation_failed", "profile_not_found", "profile_exists",
                  "dependency_unavailable", "internal_error", "github_not_found",
                  "github_timeout", "github_upstream"}

LEMMA PlainProblem ==
    ASSUME IndInv, AnswerInv, handler \notin DocumentHandlers \cup {"none", "openapi"}, NEW code
    PROVE  MediaRight(request, Problem(code).media)
  <1>1. handler # "none" /\ handler \notin {"openapi", "catalog", "index", "guide"}
    BY DEF DocumentHandlers
  <1>2. ~IsDocumentPath(request.path)
    BY <1>1, HandlerFacts, RequestFields, ServedDocument, Zenon
  <1> QED
    BY <1>2, MediaPlain, Zenon

LEMMA RefuseRight ==
    ASSUME IndInv, AnswerInv, handler \notin DocumentHandlers \cup {"none", "openapi"},
           NEW code \in PlainRefusals, Declared(handler, code)
    PROVE  Right(Problem(code))
  <1> DEFINE a == Problem(code)
  <1>1. MediaRight(request, a.media)
    BY PlainProblem, Zenon
  <1>2. a.code = code /\ a.links = {} /\ "Vary" \in a.headers
    BY ProblemFields DEF Problem
  <1> HIDE DEF a
  <1>3. a.code \notin Successes \cup {"method_not_allowed", "not_found", "not_acceptable",
                                      "unauthorized", "github_rate_limit"}
    BY <1>2 DEF PlainRefusals, Successes
  <1>4. handler # "none"
    BY Zenon
  <1>5. Right(a)
    BY <1>1, <1>2, <1>3, <1>4, RefusedRight, Zenon
  <1> QED
    BY <1>5 DEF a

LEMMA PathProblemRight ==
    ASSUME IndInv, AnswerInv, handler # "none", NEW code \in {"invalid_request", "internal_error"}
    PROVE  Right(ProblemForPath(code))
  <1> DEFINE a == ProblemForPath(code)
  <1>1. MediaRight(request, a.media)
    BY MediaForPath, Zenon
  <1>2. a.code = code /\ a.links = {} /\ "Vary" \in a.headers
    <2>1. \A accept : LET p == ProblemResponse(code, accept)
                      IN  p.code = code /\ p.links = {} /\ "Vary" \in p.headers
      BY ProblemFields
    <2> QED
      BY <2>1, Zenon DEF ProblemForPath, Problem
  <1>3. Declared(handler, code)
    BY Declarations, Zenon
  <1> HIDE DEF a
  <1>4. a.code \notin Successes \cup {"method_not_allowed", "not_found", "not_acceptable",
                                      "unauthorized", "github_rate_limit"}
    BY <1>2 DEF Successes
  <1>5. Right(a)
    BY <1>1, <1>2, <1>3, <1>4, RefusedRight, Zenon
  <1> QED
    BY <1>5 DEF a

LEMMA NotAcceptableRight ==
    ASSUME IndInv, AnswerInv, handler \notin Unnegotiated \cup {"none"},
           NegotiateSuccess(request.accept, handler # "openapi") = NotOffered,
           NEW a, a.code = "not_acceptable", a.links = {}, "Vary" \in a.headers,
           MediaRight(request, a.media)
    PROVE  Right(a)
  <1>1. (handler # "openapi") \in BOOLEAN
    OBVIOUS
  <1>2. BestOf(request.accept, Candidates(handler # "openapi"), "json", NotOffered)
    BY <1>1, RequestFields, SuccessNegotiated, Zenon
  <1>3. handler # "deleteProfile" /\ handler # "none"
    BY DEF Unnegotiated
  <1>4. Declared(handler, a.code)
    BY <1>3, Declarations, Zenon
  <1>5. a.code \notin Successes \cup {"method_not_allowed", "not_found", "unauthorized",
                                      "github_rate_limit"}
    BY DEF Successes
  <1> QED
    BY <1>2, <1>3, <1>4, <1>5, RefusedRight, Zenon

LEMMA UnauthorizedRight ==
    ASSUME IndInv, AnswerInv, handler \in ProfileHandlers
    PROVE  Right(Unauthorized)
  <1> DEFINE p == Problem("unauthorized")
  <1>1. handler \notin DocumentHandlers \cup {"none", "openapi"}
    BY DEF ProfileHandlers, DocumentHandlers
  <1>2. MediaRight(request, p.media)
    BY <1>1, PlainProblem, Zenon
  <1>3. p.code = "unauthorized" /\ p.links = {} /\ p.headers = {"Vary"}
    BY ProblemFields DEF Problem
  <1>4. DOMAIN p = DOMAIN NoAnswer
    BY ProblemShapes, StatusFacts DEF Shaped
  <1>5. DOMAIN NoAnswer = {"code", "media", "headers", "allow", "links", "csp", "body"}
    BY DEF NoAnswer
  <1>6. Unauthorized = [p EXCEPT !.headers = @ \cup {"WWW-Authenticate"}]
    BY Zenon DEF Unauthorized
  <1> HIDE DEF p
  <1> DEFINE a == Unauthorized
  <1>7. /\ a.code = "unauthorized" /\ a.links = {} /\ a.headers = {"Vary", "WWW-Authenticate"}
        /\ a.media = p.media
    BY <1>3, <1>4, <1>5, <1>6
  <1> HIDE DEF a
  <1>8. Declared(handler, "unauthorized")
    BY Declarations, Zenon
  <1>9. /\ a.code \notin Successes \cup {"method_not_allowed", "not_found", "not_acceptable",
                                         "github_rate_limit"}
        /\ "Vary" \in a.headers /\ "WWW-Authenticate" \in a.headers /\ handler # "none"
    BY <1>1, <1>7 DEF Successes
  <1>10. Right(a)
    BY <1>2, <1>7, <1>8, <1>9, RefusedRight, Zenon
  <1> QED
    BY <1>10 DEF a

---------------------------------------------------------------------------
(* The extractors, each with its refusal.                                  *)
LEMMA AtExtractor ==
    ASSUME IndInv, NEW e, Extracting(e)
    PROVE  /\ pc = "extracting" /\ handler \in Handlers /\ handler # "none"
           /\ step \in 1 .. Len(Extractors[handler]) /\ Extractors[handler][step] = e
           /\ ExtractorTable(handler, e)
  <1>1. /\ pc = "extracting" /\ handler \in Handlers
        /\ step \in 1 .. Len(Extractors[handler]) + 1
        /\ step <= Len(Extractors[handler]) /\ Extractors[handler][step] = e
    BY DEF IndInv, Extracting
  <1>2. "none" \notin Handlers
    BY DEF Handlers, Extractors
  <1>3. handler # "none" /\ step \in 1 .. Len(Extractors[handler])
    BY <1>1, <1>2, ExtractorFacts
  <1> QED
    BY <1>1, <1>3, ExtractorHandlers, Zenon

LEMMA NegotiateAnswers ==
    ASSUME IndInv, AnswerInv, IndInv', NegotiateFormat \/ NegotiateJsonFormat
    PROVE  AnswerInv'
  <1>1. ASSUME NegotiateFormat
        PROVE  AnswerInv'
    <2> DEFINE chosen == NegotiateSuccess(request.accept, TRUE)
    <2>1. Extracting("format")
      BY <1>1 DEF NegotiateFormat
    <2>2. handler \notin Unnegotiated \cup {"openapi", "none"}
      BY <2>1, AtExtractor DEF ExtractorTable
    <2>3. CASE chosen = NotOffered /\ Respond(Problem("not_acceptable"))
      <3> DEFINE a == Problem("not_acceptable")
      <3>1. handler \notin DocumentHandlers \cup {"none", "openapi"}
        BY <2>2 DEF Unnegotiated
      <3>2. MediaRight(request, a.media)
        BY <3>1, PlainProblem, Zenon
      <3>3. a.code = "not_acceptable" /\ a.links = {} /\ "Vary" \in a.headers
        BY ProblemFields DEF Problem
      <3>4. (handler # "openapi") = TRUE
        BY <2>2
      <3>5. NegotiateSuccess(request.accept, handler # "openapi") = NotOffered
        BY <2>3, <3>4, Zenon
      <3>6. handler \notin Unnegotiated \cup {"none"}
        BY <2>2
      <3> HIDE DEF a, chosen
      <3>7. Right(a)
        BY <3>2, <3>3, <3>5, <3>6, NotAcceptableRight, Zenon
      <3>8. Respond(a)
        BY <2>3 DEF a
      <3> QED
        BY <3>7, <3>8, AnswerStep, Zenon
    <2>4. CASE chosen # NotOffered /\ format' = chosen /\ Proceed
      <3>1. format' = NegotiateSuccess(request.accept, "format" = "format") /\ format' # "none"
        BY <2>4 DEF NotOffered
      <3>2. "format" \in {"format", "json_format"} /\ "format" # "query"
        OBVIOUS
      <3> QED
        BY <2>1, <2>4, <3>1, <3>2, ProceedAnswers, Zenon
    <2> QED
      BY <1>1, <2>3, <2>4 DEF NegotiateFormat
  <1>2. ASSUME NegotiateJsonFormat
        PROVE  AnswerInv'
    <2> DEFINE chosen == NegotiateSuccess(request.accept, FALSE)
    <2>1. Extracting("json_format")
      BY <1>2 DEF NegotiateJsonFormat
    <2>2. handler = "openapi" /\ handler \notin Unnegotiated \cup {"none"}
      BY <2>1, AtExtractor DEF ExtractorTable, Unnegotiated, DocumentHandlers
    <2>3. CASE chosen = NotOffered /\ Respond(ProblemForPath("not_acceptable"))
      <3> DEFINE a == ProblemForPath("not_acceptable")
      <3>1. MediaRight(request, a.media)
        BY MediaForPath, Zenon
      <3>2. a.code = "not_acceptable" /\ a.links = {} /\ "Vary" \in a.headers
        <4>1. \A accept : LET p == ProblemResponse("not_acceptable", accept)
                          IN  p.code = "not_acceptable" /\ p.links = {} /\ "Vary" \in p.headers
          BY ProblemFields
        <4> QED
          BY <4>1, Zenon DEF ProblemForPath, Problem
      <3>3. (handler # "openapi") = FALSE
        BY <2>2
      <3>4. NegotiateSuccess(request.accept, handler # "openapi") = NotOffered
        BY <2>3, <3>3, Zenon
      <3>5. handler \notin Unnegotiated \cup {"none"}
        BY <2>2
      <3> HIDE DEF a, chosen
      <3>6. Right(a)
        BY <3>1, <3>2, <3>4, <3>5, NotAcceptableRight, Zenon
      <3>7. Respond(a)
        BY <2>3 DEF a
      <3> QED
        BY <3>6, <3>7, AnswerStep, Zenon
    <2>4. CASE chosen # NotOffered /\ format' = chosen /\ Proceed
      <3>1. ("json_format" = "format") = FALSE
        OBVIOUS
      <3>2. /\ format' = NegotiateSuccess(request.accept, "json_format" = "format")
            /\ format' # "none"
        BY <2>4, <3>1 DEF NotOffered
      <3>3. "json_format" \in {"format", "json_format"} /\ "json_format" # "query"
        OBVIOUS
      <3> QED
        BY <2>1, <2>4, <3>2, <3>3, ProceedAnswers, Zenon
    <2> QED
      BY <1>2, <2>3, <2>4 DEF NegotiateJsonFormat
  <1> QED
    BY <1>1, <1>2

LEMMA ExtractorAnswers ==
    ASSUME IndInv, AnswerInv, IndInv', RefuseQuery \/ ReadQuery \/ ReadPath \/ BufferBody
    PROVE  AnswerInv'
  <1>1. ASSUME NEW e \in {"query", "path", "body"}, Extracting(e),
               NEW code \in {"invalid_request", "payload_too_large"},
               code = "payload_too_large" => e = "body",
               Respond(Problem(code))
        PROVE  AnswerInv'
    <2>1. handler \notin DocumentHandlers \cup {"none", "openapi"}
      BY <1>1, AtExtractor DEF ExtractorTable
    <2>2. code = "payload_too_large" => handler \in BodyHandlers
      BY <1>1, AtExtractor, Zenon DEF ExtractorTable
    <2>3. Declared(handler, code)
      BY <2>2, Declarations, Zenon DEF BodyHandlers
    <2>4. code \in PlainRefusals
      BY DEF PlainRefusals
    <2> QED
      BY <1>1, <2>1, <2>3, <2>4, RefuseRight, AnswerStep, Zenon
  <1>2. ASSUME NEW e \in {"no_query", "query", "path", "body"}, Extracting(e), Proceed,
               format' = format, e = "query" => ParsesQuery(request.query)
        PROVE  AnswerInv'
    <2>1. e \notin {"format", "json_format"}
      OBVIOUS
    <2> QED
      BY <1>2, <2>1, ProceedAnswers, Zenon
  <1>3. CASE RefuseQuery
    <2>1. Extracting("no_query")
      BY <1>3 DEF RefuseQuery
    <2>2. CASE Respond(ProblemForPath("invalid_request"))
      BY <2>1, <2>2, AtExtractor, PathProblemRight, AnswerStep, Zenon
    <2>3. CASE UNCHANGED format /\ Proceed
      <3>1. "no_query" # "query"
        OBVIOUS
      <3> QED
        BY <1>2, <2>1, <2>3, <3>1
    <2> QED
      BY <1>3, <2>2, <2>3 DEF RefuseQuery
  <1>4. CASE ReadQuery
    BY <1>1, <1>2, <1>4, Zenon DEF ReadQuery
  <1>5. CASE ReadPath
    BY <1>1, <1>2, <1>5, Zenon DEF ReadPath
  <1>6. CASE BufferBody
    BY <1>1, <1>2, <1>6, Zenon DEF BufferBody
  <1> QED
    BY <1>3, <1>4, <1>5, <1>6

---------------------------------------------------------------------------
(* Asking a dependency.                                                    *)
LEMMA OnlyDeletes ==
    ASSUME NEW r, Served(r, "deleteProfile")
    PROVE  r.method = "DELETE"
  <1>1. ~Reads(r.path, "deleteProfile")
    BY DEF Reads, OneSegment, TwoSegments, GitHubSegments, Files
  <1>2. \A m : Writes(r.path, m, "deleteProfile") => m = "DELETE"
    BY DEF Writes
  <1>3. \A m : Reaches(Routes, r.path, m, "deleteProfile") => m = "DELETE"
    BY <1>1, <1>2, RoutesTable, Zenon
  <1>4. "GET" # "DELETE"
    OBVIOUS
  <1>5. Reaches(Routes, r.path, r.method, "deleteProfile")
          \/ Reaches(Routes, r.path, "GET", "deleteProfile")
    BY ServedReaches, Zenon
  <1> QED
    BY <1>3, <1>4, <1>5, Zenon

LEMMA AwaitAnswers ==
    ASSUME IndInv, AnswerInv, IndInv', pc = "extracting", NEW call \in Dependencies,
           Await(call), handler \in DOMAIN CallOf, call \in {"verify", CallOf[handler]},
           handler # "deleteProfile" => format # "none",
           GitHubChecked(request, user, Append(calls, call))
    PROVE  AnswerInv'
  <1>1. /\ pc' = "waiting" /\ calls' = Append(calls, call) /\ request' = request
        /\ handler' = handler /\ step' = step /\ format' = format /\ user' = user
        /\ acts' = acts
    BY DEF Await
  <1>2. acts = {} /\ calls \in Seq(Dependencies)
    BY DEF IndInv, TypeOK
  <1>3. calls' # <<>> /\ calls'[Len(calls')] = call
    BY <1>1, <1>2
  <1>4. handler \notin {"none", "openapi"}
    BY DEF CallOf
  <1>5. HandlerServed' /\ FormatNegotiated'
    BY <1>1, <1>4 DEF AnswerInv, HandlerServed, FormatNegotiated
  <1>6. ChecksPassed'
    BY <1>1 DEF AnswerInv, ChecksPassed, Passed
  <1>7. OwnCalls'
    BY <1>1, <1>2, <1>3 DEF OwnCalls
  <1>8. CallsAfterChecks'
    <2>1. ProfileCallsChecked'
      BY DEF IndInv
    <2>2. ASSUME request.method # "DELETE"
          PROVE  Acceptable(request)
      <3>1. handler # "deleteProfile"
        <4>1. handler # "none"
          BY <1>4
        <4> QED
          BY <2>2, <4>1, HandlerFacts, OnlyDeletes, Zenon
      <3>2. format # "none"
        BY <3>1
      <3>3. /\ format \in Representations
            /\ BestOf(request.accept, Candidates(handler # "openapi"), "json", format)
        BY <3>2, FormatFacts, Zenon
      <3>4. (handler # "openapi") = TRUE
        BY <1>4
      <3>5. format # NotOffered
        BY <3>2 DEF NotOffered
      <3> QED
        BY <3>3, <3>4, <3>5, ChosenIsAcceptable, Zenon DEF Acceptable
    <2> QED
      BY <1>1, <2>1, <2>2, PartsNext, Zenon
  <1> QED
    BY <1>1, <1>5, <1>6, <1>7, <1>8, OpenStep DEF AnswerInv

LEMMA NoGitHubAsked ==
    ASSUME NEW r, NEW u, NEW asked, \A i \in DOMAIN asked : asked[i] \notin GitHubCalls
    PROVE  GitHubChecked(r, u, asked)
  BY Zenon DEF GitHubChecked

LEMMA AuthenticateAnswers ==
    ASSUME IndInv, AnswerInv, IndInv', Authenticate
    PROVE  AnswerInv'
  <1>1. Extracting("user")
    BY DEF Authenticate
  <1>2. /\ pc = "extracting" /\ handler \in Handlers
        /\ step \in 1 .. Len(Extractors[handler]) /\ Extractors[handler][step] = "user"
    BY <1>1, AtExtractor, Zenon
  <1>3. handler \in ProfileHandlers /\ step = (IF handler = "deleteProfile" THEN 2 ELSE 3)
    BY <1>2, UserExtractors, Zenon
  <1>4. CASE Respond(Unauthorized)
    BY <1>3, <1>4, UnauthorizedRight, AnswerStep, Zenon
  <1>5. CASE Await("verify")
    <2>1. handler \in DOMAIN CallOf
      BY <1>3 DEF ProfileHandlers, CallOf
    <2>2. handler # "deleteProfile" => format # "none"
      <3>1. SUFFICES ASSUME handler # "deleteProfile" PROVE format # "none"
        OBVIOUS
      <3>2. handler \in Handlers \ Unnegotiated
        BY <1>2, <1>3, <3>1 DEF ProfileHandlers, Unnegotiated, DocumentHandlers
      <3>3. Extractors[handler][1] \in {"format", "json_format"} /\ 1 \in 1 .. step - 1
        BY <1>3, <3>1, <3>2, FormatFirst
      <3>4. Passed("format") \/ Passed("json_format")
        BY <3>3, Zenon DEF Passed
      <3> QED
        BY <1>2, <3>4 DEF AnswerInv, ChecksPassed
    <2>3. "verify" \in Dependencies /\ "verify" \notin GitHubCalls
      BY DEF Dependencies, GitHubCalls
    <2>4. ~user /\ calls = <<>>
      <3>1. ~Passed("user")
        <4>1. \A i \in 1 .. step - 1 : i \in 1 .. Len(Extractors[handler]) /\ i # step
          BY <1>2, ExtractorFacts
        <4> QED
          BY <1>2, <1>3, <4>1, UserExtractors, Zenon DEF Passed
      <3> QED
        BY <1>2, <3>1 DEF IndInv
    <2>5. GitHubChecked(request, user, Append(calls, "verify"))
      <3>1. Append(calls, "verify") = <<"verify">>
        BY <2>4
      <3>2. \A i \in DOMAIN <<"verify">> : <<"verify">>[i] \notin GitHubCalls
        BY <2>3
      <3> QED
        BY <3>1, <3>2, NoGitHubAsked, Zenon
    <2>6. "verify" \in {"verify", CallOf[handler]}
      OBVIOUS
    <2> QED
      BY <1>2, <1>5, <2>1, <2>2, <2>3, <2>5, <2>6, AwaitAnswers, Zenon
  <1> QED
    BY <1>4, <1>5 DEF Authenticate

LEMMA VerdictAnswers ==
    ASSUME IndInv, AnswerInv, IndInv', VerifierAnswers
    PROVE  AnswerInv'
  <1>1. /\ Awaiting("verify") /\ pc = "waiting" /\ calls = <<"verify">>
        /\ handler \in Handlers /\ step \in 1 .. Len(Extractors[handler])
        /\ Extractors[handler][step] = "user"
    <2>1. Awaiting("verify") /\ pc = "waiting"
      BY DEF VerifierAnswers, Awaiting
    <2>2. /\ calls = <<"verify">> /\ handler \in Handlers
          /\ step \in 1 .. Len(Extractors[handler]) + 1
          /\ step <= Len(Extractors[handler]) /\ Extractors[handler][step] = "user"
      BY <2>1 DEF IndInv
    <2> QED
      BY <2>1, <2>2, ExtractorFacts
  <1>2. handler \in ProfileHandlers
    BY <1>1, UserExtractors, Zenon
  <1>3. ASSUME NEW error \in AuthErrors, Respond(MapAuthError(error))
        PROVE  AnswerInv'
    <2>1. CASE MapAuthError(error) = Problem("dependency_unavailable")
      <3>1. handler \notin DocumentHandlers \cup {"none", "openapi"}
        BY <1>2 DEF ProfileHandlers, DocumentHandlers
      <3>2. "dependency_unavailable" \in PlainRefusals
        BY DEF PlainRefusals
      <3>3. Declared(handler, "dependency_unavailable")
        BY <1>2, Declarations, Zenon
      <3>4. Right(Problem("dependency_unavailable"))
        BY <3>1, <3>2, <3>3, RefuseRight, Zenon
      <3> QED
        BY <1>3, <2>1, <3>4, AnswerStep, Zenon
    <2>2. CASE MapAuthError(error) = Unauthorized
      BY <1>2, <1>3, <2>2, UnauthorizedRight, AnswerStep, Zenon
    <2> QED
      BY <2>1, <2>2, Zenon DEF MapAuthError
  <1>4. CASE /\ pc' = "extracting" /\ step' = step + 1 /\ user' = TRUE
             /\ UNCHANGED <<request, handler, format, calls, acts, lost, answer>>
    <2>1. HandlerServed' /\ FormatNegotiated'
      BY <1>4 DEF AnswerInv, HandlerServed, FormatNegotiated
    <2>2. ChecksPassed'
      <3>1. \A x : Passed(x)' => Passed(x) \/ x = "user"
        BY <1>1, <1>4, ExtractorFacts DEF Passed
      <3> QED
        BY <1>1, <1>4, <3>1 DEF AnswerInv, ChecksPassed
    <2>3. OwnCalls'
      BY <1>4 DEF AnswerInv, OwnCalls, Calling
    <2>4. CallsAfterChecks'
      <3>1. ProfileCallsChecked'
        BY DEF IndInv
      <3>2. \A i \in DOMAIN calls : calls[i] \notin GitHubCalls
        BY <1>1 DEF GitHubCalls
      <3>3. GitHubChecked(request', user', calls')
        BY <1>4, <3>2, NoGitHubAsked, Zenon
      <3> QED
        BY <1>4, <3>1, <3>3, Parts, PartsNext, Zenon DEF AnswerInv
    <2> QED
      BY <1>4, <2>1, <2>2, <2>3, <2>4, OpenStep DEF AnswerInv
  <1> QED
    BY <1>3, <1>4 DEF VerifierAnswers

---------------------------------------------------------------------------
(* The handlers that ask no dependency.                                    *)
LEMMA ReadyFormat ==
    ASSUME IndInv, AnswerInv, NEW h \in Handlers, Ready(h)
    PROVE  /\ pc = "extracting" /\ handler = h /\ h # "none"
           /\ h \notin Unnegotiated => format # "none"
           /\ \A i \in 1 .. Len(Extractors[h]) :
                  /\ Extractors[h][i] = "query" => ParsesQuery(request.query)
                  /\ Extractors[h][i] = "no_query" => request.query = <<>>
  <1>1. /\ pc = "extracting" /\ handler = h /\ step = Len(Extractors[h]) + 1
        /\ h # "none"
    BY DEF Ready, Handlers, Extractors
  <1>2. \A i \in 1 .. Len(Extractors[h]) : Passed(Extractors[h][i])
    BY <1>1, ExtractorFacts DEF Passed
  <1>3. ASSUME h \notin Unnegotiated
        PROVE  format # "none"
    <2>1. 1 \in 1 .. Len(Extractors[h]) /\ Extractors[h][1] \in {"format", "json_format"}
      BY <1>3, FormatFirst
    <2>2. Passed(Extractors[h][1])
      BY <1>2, <2>1
    <2>3. Passed("format") \/ Passed("json_format")
      BY <2>1, <2>2
    <2> QED
      BY <1>1, <2>3 DEF AnswerInv, ChecksPassed
  <1>4. Passed("query") => ParsesQuery(request.query)
    BY <1>1 DEF AnswerInv, ChecksPassed
  <1>5. Passed("no_query") => request.query = <<>>
    BY <1>1 DEF IndInv
  <1> QED
    BY <1>1, <1>2, <1>3, <1>4, <1>5, Zenon

LEMMA ReadySuccess ==
    ASSUME IndInv, AnswerInv, NEW h \in Handlers \ (Unnegotiated \cup {"createProfile"}),
           Ready(h), NEW headers, Respond(Success("ok", headers))
    PROVE  AnswerInv'
  <1>1. handler = h /\ format # "none" /\ handler \notin {"none", "deleteProfile", "createProfile"}
    BY ReadyFormat DEF Unnegotiated
  <1>2. "ok" = (IF handler = "createProfile" THEN "created" ELSE "ok")
    BY <1>1
  <1>3. handler = "createProfile" => "Location" \in headers
    BY <1>1
  <1>4. handler \notin {"none", "deleteProfile"} /\ format # "none"
    BY <1>1
  <1> QED
    BY <1>2, <1>3, <1>4, SuccessRight, AnswerStep, Zenon

LEMMA ReadyRefusal ==
    ASSUME IndInv, AnswerInv, NEW h \in Handlers \ (DocumentHandlers \cup {"openapi"}), Ready(h),
           NEW code \in PlainRefusals, Declared(h, code), Respond(Problem(code))
    PROVE  AnswerInv'
  <1>1. handler = h /\ handler \notin DocumentHandlers \cup {"none", "openapi"}
    BY ReadyFormat
  <1>2. Declared(handler, code)
    BY <1>1, Zenon
  <1> QED
    BY <1>1, <1>2, RefuseRight, AnswerStep, Zenon

(* The documents have one representation.                                  *)
LEMMA DocumentAnswers ==
    ASSUME IndInv, AnswerInv, NEW h \in DocumentHandlers, NEW target, NEW media,
           DocumentHandler(h, target, media)
    PROVE  AnswerInv'
  <1>1. h \in Handlers /\ Ready(h)
    BY DEF DocumentHandler, DocumentHandlers, Handlers, Extractors
  <1>2. handler = h /\ handler # "none"
    BY <1>1, ReadyFormat
  <1>3. CASE Respond(Content("ok", media, {}))
    <2>1. Content("ok", media, {}).code = "ok" /\ Content("ok", media, {}).links = {}
      BY ContentFields
    <2>2. handler \in DocumentHandlers \cup {"swaggerUi", "swaggerRedirect"}
      BY <1>2
    <2>3. Content("ok", media, {}).code \in {"ok", "redirect"}
      BY <2>1
    <2> QED
      BY <1>3, <2>1, <2>2, <2>3, UndocumentedRight, AnswerStep, Zenon
  <1>4. CASE Respond(ProblemResponse("not_acceptable", NoAccept))
    <2> DEFINE a == ProblemResponse("not_acceptable", NoAccept)
    <2>1. IsDocumentPath(request.path)
      <3>1. handler \in {"openapi", "catalog", "index", "guide"}
        BY <1>2 DEF DocumentHandlers
      <3> QED
        BY <1>2, <3>1, HandlerFacts, RequestFields, ServedDocument, Zenon
    <2>2. MediaRight(request, a.media)
      BY <2>1, MediaDocument, Zenon
    <2>3. a.code = "not_acceptable" /\ a.links = {} /\ "Vary" \in a.headers
      BY ProblemFields
    <2>4. handler # "deleteProfile" /\ handler \in DocumentHandlers
      BY <1>2 DEF DocumentHandlers
    <2>5. Declared(handler, "not_acceptable")
      BY <2>4, Declarations, Zenon
    <2> HIDE DEF a
    <2>6. a.code \notin Successes \cup {"method_not_allowed", "not_found", "unauthorized",
                                        "github_rate_limit"}
      BY <2>3 DEF Successes
    <2>7. Right(a)
      BY <1>2, <2>2, <2>3, <2>4, <2>5, <2>6, RefusedRight, Zenon
    <2>8. Respond(a)
      BY <1>4 DEF a
    <2> QED
      BY <2>7, <2>8, AnswerStep, Zenon
  <1> QED
    BY <1>3, <1>4, Zenon DEF DocumentHandler

LEMMA SwaggerAnswers ==
    ASSUME IndInv, AnswerInv, SwaggerHandler
    PROVE  AnswerInv'
  <1>1. PICK a : /\ a.code \in {"ok", "redirect", "no_such_file"} /\ a.links = {} /\ Respond(a)
                 /\ \E h \in {"swaggerUi", "swaggerRedirect"} : Ready(h)
    <2> DEFINE missing == [NoAnswer EXCEPT !.code = "no_such_file"]
               elsewhere == [NoAnswer EXCEPT !.code = "redirect"]
    <2>1. /\ \A media : SwaggerFile(media).code = "ok" /\ SwaggerFile(media).links = {}
          /\ missing.code = "no_such_file" /\ missing.links = {}
          /\ elsewhere.code = "redirect" /\ elsewhere.links = {}
      BY DEF NoAnswer, SwaggerFile
    <2>2. \/ Ready("swaggerUi") /\ \E file \in SwaggerFiles(request.path) : Respond(file)
          \/ Ready("swaggerRedirect") /\ Respond(elsewhere)
      BY Zenon DEF SwaggerHandler
    <2>3. \A file \in SwaggerFiles(request.path) :
              file = missing \/ \E media : file = SwaggerFile(media)
      BY Zenon DEF SwaggerFiles
    <2>4. \A file \in SwaggerFiles(request.path) :
              file.code \in {"ok", "no_such_file"} /\ file.links = {}
      <3> HIDE DEF missing
      <3> QED
        BY <2>1, <2>3, Zenon
    <2> HIDE DEF missing, elsewhere
    <2> QED
      BY <2>1, <2>2, <2>4
  <1>2. handler \in DocumentHandlers \cup {"swaggerUi", "swaggerRedirect"}
    BY <1>1 DEF Ready
  <1> QED
    BY <1>1, <1>2, UndocumentedRight, AnswerStep, Zenon

LEMMA PlainAnswers ==
    ASSUME IndInv, AnswerInv,
           \/ HealthHandler \/ GetHelloHandler \/ CreateHelloHandler \/ OpenapiHandler
           \/ CatalogHandler \/ IndexHandler \/ GuideHandler \/ SwaggerHandler
           \/ ListItemsHandler
    PROVE  AnswerInv'
  <1>1. /\ {"getHealth", "getHello", "createHello", "openapi", "listItems"}
               \subseteq Handlers \ (Unnegotiated \cup {"createProfile"})
        /\ {"createHello", "listItems"} \subseteq Handlers \ (DocumentHandlers \cup {"openapi"})
        /\ {"catalog", "index", "guide"} \subseteq DocumentHandlers
        /\ BodyRefusals \subseteq PlainRefusals
    BY DEF Handlers, Extractors, Unnegotiated, DocumentHandlers, BodyRefusals, PlainRefusals
  <1>2. CASE HealthHandler
    BY <1>1, <1>2, ReadySuccess DEF HealthHandler
  <1>3. CASE GetHelloHandler
    BY <1>1, <1>3, ReadySuccess DEF GetHelloHandler
  <1>4. CASE OpenapiHandler
    BY <1>1, <1>4, ReadySuccess DEF OpenapiHandler
  <1>5. CASE CreateHelloHandler
    <2>1. Ready("createHello")
      BY <1>5 DEF CreateHelloHandler
    <2>2. request \in RequestType
      BY DEF IndInv, TypeOK
    <2>3. \A code \in BodyRefusals : Declared("createHello", code)
      BY Declarations DEF BodyRefusals
    <2>4. \A code \in BodyRefusals : Respond(Problem(code)) => AnswerInv'
      BY <1>1, <2>1, <2>3, ReadyRefusal
    <2>5. \/ \E code \in BodyRefusals : Respond(Problem(code))
          \/ Respond(Success("ok", {}))
      BY <1>5, <2>2, DecodeRefusals DEF CreateHelloHandler, BodyRefusals
    <2> QED
      BY <1>1, <2>1, <2>4, <2>5, ReadySuccess
  <1>6. CASE CatalogHandler
    BY <1>1, <1>6, DocumentAnswers DEF CatalogHandler
  <1>7. CASE IndexHandler
    BY <1>1, <1>7, DocumentAnswers DEF IndexHandler
  <1>8. CASE GuideHandler
    BY <1>1, <1>8, DocumentAnswers DEF GuideHandler
  <1>9. CASE SwaggerHandler
    BY <1>9, SwaggerAnswers
  <1>10. CASE ListItemsHandler
    <2>1. Ready("listItems")
      BY <1>10 DEF ListItemsHandler
    <2>2. \A code \in BodyRefusals \ {"unsupported_media_type"} : Declared("listItems", code)
      BY Declarations DEF BodyRefusals
    <2>3. \A code \in BodyRefusals \ {"unsupported_media_type"} :
              Respond(Problem(code)) => AnswerInv'
      BY <1>1, <2>1, <2>2, ReadyRefusal
    <2>4. ItemsQueryProblem(request.query) \in
              (BodyRefusals \ {"unsupported_media_type"}) \cup {"none"}
      BY DEF ItemsQueryProblem, BodyRefusals
    <2>5. \/ \E code \in BodyRefusals \ {"unsupported_media_type"} : Respond(Problem(code))
          \/ \E headers : Respond(Success("ok", headers))
      BY <1>10, <2>4 DEF ListItemsHandler
    <2> QED
      BY <1>1, <2>1, <2>3, <2>5, ReadySuccess
  <1> QED
    BY <1>2, <1>3, <1>4, <1>5, <1>6, <1>7, <1>8, <1>9, <1>10

---------------------------------------------------------------------------
(* Whose call it is.                                                       *)
LEMMA CallOwners ==
    ASSUME NEW h \in DOMAIN CallOf
    PROVE  /\ CallOf[h] = "profile.create" => h = "createProfile"
           /\ CallOf[h] = "profile.get" => h = "getProfile"
           /\ CallOf[h] = "profile.update" => h = "updateProfile"
           /\ CallOf[h] = "profile.delete" => h = "deleteProfile"
           /\ CallOf[h] \in GitHubCalls => h \in GitHubHandlers
           /\ CallOf[h] \in Dependencies
  BY DEF CallOf, GitHubCalls, GitHubHandlers, Dependencies, ProfileCalls

LEMMA WaitingFacts ==
    ASSUME IndInv, AnswerInv, NEW call, call # "verify", Awaiting(call)
    PROVE  /\ handler \in DOMAIN CallOf /\ call = CallOf[handler]
           /\ handler # "deleteProfile" => format # "none"
           /\ call \in ProfileCalls => acts \subseteq Outcomes(call)
  <1>1. calls # <<>> /\ calls[Len(calls)] = call
    BY DEF Awaiting
  <1>2. OwnCalls
    BY DEF AnswerInv
  <1>3. call \in ProfileCalls => Calling(ProfileCalls)
    BY <1>1 DEF Calling
  <1>4. /\ handler \in DOMAIN CallOf /\ calls[Len(calls)] \in {"verify", CallOf[handler]}
        /\ handler # "deleteProfile" => format # "none"
    BY <1>1, <1>2, Zenon DEF OwnCalls
  <1>5. call \in ProfileCalls => acts \subseteq Outcomes(call)
    BY <1>1, <1>2, <1>3, Zenon DEF OwnCalls
  <1> QED
    BY <1>1, <1>4, <1>5, Zenon

---------------------------------------------------------------------------
(* The profile handlers.                                                   *)
LEMMA ProfileAsks ==
    ASSUME IndInv, AnswerInv, IndInv', NEW h \in ProfileHandlers, Ready(h), Await(CallOf[h])
    PROVE  AnswerInv'
  <1>1. h \in Handlers /\ h \in DOMAIN CallOf /\ CallOf[h] \notin GitHubCalls
    BY DEF ProfileHandlers, Handlers, Extractors, CallOf, GitHubCalls
  <1>2. pc = "extracting" /\ handler = h /\ (h \notin Unnegotiated => format # "none")
    BY <1>1, ReadyFormat, Zenon
  <1>3. handler # "deleteProfile" => format # "none"
    BY <1>2 DEF ProfileHandlers, Unnegotiated, DocumentHandlers
  <1>4. calls = <<"verify">>
    BY <1>1, ReadyFacts
  <1>5. CallOf[h] \in Dependencies
    BY <1>1, CallOwners
  <1> DEFINE call == CallOf[h]
  <1>6. Append(calls, call) = <<"verify", call>>
    <2>1. "verify" \in Dependencies
      BY DEF Dependencies
    <2> QED
      BY <1>4, <1>5, <2>1, AppendPair
  <1> HIDE DEF call
  <1>7. \A i \in DOMAIN <<"verify", call>> : <<"verify", call>>[i] \notin GitHubCalls
    <2>1. "verify" \notin GitHubCalls
      BY DEF GitHubCalls
    <2>2. call \notin GitHubCalls
      BY <1>1 DEF call
    <2> QED
      BY <2>1, <2>2
  <1>8. GitHubChecked(request, user, Append(calls, call))
    BY <1>6, <1>7, NoGitHubAsked, Zenon
  <1>9. handler \in DOMAIN CallOf /\ call \in {"verify", CallOf[handler]} /\ call \in Dependencies
    BY <1>1, <1>2, <1>5 DEF call
  <1>10. Await(call)
    BY DEF call
  <1> QED
    BY <1>2, <1>3, <1>8, <1>9, <1>10, AwaitAnswers, Zenon

LEMMA ProfileCallAnswers ==
    ASSUME IndInv, AnswerInv, NEW call \in ProfileCalls, NEW success,
           ProfileServiceAnswers(call, success),
           /\ handler = "createProfile" => success = Success("created", {"Location"})
           /\ handler \in {"getProfile", "updateProfile"} => success = Success("ok", {})
           /\ handler = "deleteProfile" => success = NoContent
    PROVE  AnswerInv'
  <1>1. call # "verify" /\ Awaiting(call)
    BY DEF ProfileCalls, ProfileServiceAnswers
  <1>2. /\ handler \in DOMAIN CallOf /\ call = CallOf[handler]
        /\ handler # "deleteProfile" => format # "none"
        /\ acts \subseteq Outcomes(call)
    BY <1>1, WaitingFacts
  <1>3. handler \in ProfileHandlers
    <2>1. \/ call = "profile.create" \/ call = "profile.get"
          \/ call = "profile.update" \/ call = "profile.delete"
      BY DEF ProfileCalls
    <2>2. \/ handler = "createProfile" \/ handler = "getProfile"
          \/ handler = "updateProfile" \/ handler = "deleteProfile"
      BY <1>2, <2>1, CallOwners
    <2> QED
      BY <2>2 DEF ProfileHandlers
  <1>4. handler = "createProfile" <=> call = "profile.create"
    <2>1. CallOf["createProfile"] = "profile.create"
      BY DEF CallOf
    <2> QED
      BY <1>2, <2>1, CallOwners
  <1>5. handler \notin DocumentHandlers \cup {"none", "openapi"}
    BY <1>3 DEF ProfileHandlers, DocumentHandlers
  <1>6. CASE Respond(success)
    <2>1. CASE handler = "createProfile"
      <3>1. /\ handler \notin {"none", "deleteProfile"} /\ format # "none"
            /\ "created" = (IF handler = "createProfile" THEN "created" ELSE "ok")
            /\ "Location" \in {"Location"}
        BY <1>2, <2>1
      <3>2. Respond(Success("created", {"Location"}))
        BY <1>6, <2>1
      <3> QED
        BY <3>1, <3>2, SuccessRight, AnswerStep, Zenon
    <2>2. CASE handler \in {"getProfile", "updateProfile"}
      <3>1. /\ handler \notin {"none", "deleteProfile"} /\ format # "none"
            /\ handler # "createProfile"
            /\ "ok" = (IF handler = "createProfile" THEN "created" ELSE "ok")
        BY <1>2, <2>2
      <3>2. Respond(Success("ok", {}))
        BY <1>6, <2>2
      <3> QED
        BY <3>1, <3>2, SuccessRight, AnswerStep, Zenon
    <2>3. CASE handler = "deleteProfile"
      <3>1. Respond(NoContent)
        BY <1>6, <2>3
      <3> QED
        BY <2>3, <3>1, NoContentRight, AnswerStep, Zenon
    <2> QED
      BY <1>3, <2>1, <2>2, <2>3 DEF ProfileHandlers
  <1>7. ASSUME NEW error \in ProfileErrors,
               error = "AlreadyExists" => error \in acts,
               Respond(MapProfileError(error))
        PROVE  AnswerInv'
    <2>1. PICK code \in PlainRefusals : /\ MapProfileError(error) = Problem(code)
                                        /\ Declared(handler, code)
      <3>1. CASE error = "NotFound"
        <4>1. Declared(handler, "profile_not_found")
          BY <1>3, Declarations, Zenon
        <4>2. /\ MapProfileError(error) = Problem("profile_not_found")
              /\ "profile_not_found" \in PlainRefusals
          BY <3>1 DEF MapProfileError, PlainRefusals
        <4> QED
          BY <4>1, <4>2, Zenon
      <3>2. CASE error = "AlreadyExists"
        <4>1. handler = "createProfile"
          BY <1>2, <1>4, <1>7, <3>2 DEF Outcomes
        <4>2. Declared(handler, "profile_exists")
          BY <4>1, Declarations, Zenon
        <4>3. /\ MapProfileError(error) = Problem("profile_exists")
              /\ "profile_exists" \in PlainRefusals
          BY <3>2 DEF MapProfileError, PlainRefusals
        <4> QED
          BY <4>2, <4>3, Zenon
      <3>3. CASE error = "Unavailable"
        <4>1. Declared(handler, "dependency_unavailable")
          BY <1>3, Declarations, Zenon
        <4>2. /\ MapProfileError(error) = Problem("dependency_unavailable")
              /\ "dependency_unavailable" \in PlainRefusals
          BY <3>3 DEF MapProfileError, PlainRefusals
        <4> QED
          BY <4>1, <4>2, Zenon
      <3>4. CASE error = "Backend"
        <4>1. Declared(handler, "internal_error")
          BY Declarations, Zenon
        <4>2. /\ MapProfileError(error) = Problem("internal_error")
              /\ "internal_error" \in PlainRefusals
          BY <3>4 DEF MapProfileError, PlainRefusals
        <4> QED
          BY <4>1, <4>2, Zenon
      <3> QED
        BY <3>1, <3>2, <3>3, <3>4 DEF ProfileErrors
    <2> QED
      BY <1>5, <1>7, <2>1, RefuseRight, AnswerStep, Zenon
  <1> QED
    BY <1>6, <1>7 DEF ProfileServiceAnswers

LEMMA ProfileAnswers ==
    ASSUME IndInv, AnswerInv, IndInv',
           \/ CreateProfileHandler \/ GetProfileHandler
           \/ UpdateProfileHandler \/ DeleteProfileHandler
    PROVE  AnswerInv'
  <1>1. /\ ProfileHandlers = {"createProfile", "getProfile", "updateProfile", "deleteProfile"}
        /\ CallOf["createProfile"] = "profile.create" /\ CallOf["getProfile"] = "profile.get"
        /\ CallOf["updateProfile"] = "profile.update"
        /\ CallOf["deleteProfile"] = "profile.delete"
        /\ {"profile.create", "profile.get", "profile.update", "profile.delete"} = ProfileCalls
    BY DEF ProfileHandlers, CallOf, ProfileCalls
  <1>2. /\ {"createProfile", "updateProfile"}
               \subseteq Handlers \ (DocumentHandlers \cup {"openapi"})
        /\ BodyRefusals \subseteq PlainRefusals
        /\ "validation_failed" \in BodyRefusals
    BY DEF Handlers, Extractors, DocumentHandlers, BodyRefusals, PlainRefusals
  <1>3. request \in RequestType
    BY DEF IndInv, TypeOK
  <1>4. ASSUME NEW h \in {"createProfile", "updateProfile"}, Ready(h), NEW code \in BodyRefusals,
               Respond(Problem(code))
        PROVE  AnswerInv'
    <2>1. Declared(h, code)
      <3>1. h \in {"createHello", "createProfile", "updateProfile"}
        OBVIOUS
      <3>2. \/ code = "invalid_request" \/ code = "unsupported_media_type"
            \/ code = "validation_failed"
        BY DEF BodyRefusals
      <3> QED
        BY <3>1, <3>2, Declarations, Zenon
    <2> QED
      BY <1>2, <1>4, <2>1, ReadyRefusal
  <1>5. ASSUME NEW call \in ProfileCalls, NEW h \in ProfileHandlers, CallOf[h] = call,
               NEW success, ProfileServiceAnswers(call, success)
        PROVE  handler = h
    <2>1. call # "verify" /\ Awaiting(call)
      BY <1>5 DEF ProfileCalls, ProfileServiceAnswers
    <2>2. handler \in DOMAIN CallOf /\ call = CallOf[handler]
      BY <2>1, WaitingFacts
    <2> QED
      BY <1>1, <1>5, <2>2, CallOwners
  <1>6. CASE CreateProfileHandler
    <2>1. CASE ProfileServiceAnswers("profile.create", Success("created", {"Location"}))
      BY <1>1, <1>5, <2>1, ProfileCallAnswers
    <2>2. CASE Ready("createProfile") /\ Await("profile.create")
      BY <1>1, <2>2, ProfileAsks
    <2>3. DecodeProblem(request, "ProfileCreate") \in BodyRefusals \cup {"none"}
      BY <1>3, DecodeRefusals
    <2>4. CASE Ready("createProfile") /\ \E code \in BodyRefusals : Respond(Problem(code))
      BY <1>4, <2>4
    <2> QED
      BY <1>2, <1>6, <2>1, <2>2, <2>3, <2>4 DEF CreateProfileHandler
  <1>7. CASE UpdateProfileHandler
    <2>1. CASE ProfileServiceAnswers("profile.update", Success("ok", {}))
      BY <1>1, <1>5, <2>1, ProfileCallAnswers
    <2>2. CASE Ready("updateProfile") /\ Await("profile.update")
      BY <1>1, <2>2, ProfileAsks
    <2>3. DecodeProblem(request, "ProfileUpdate") \in BodyRefusals \cup {"none"}
      BY <1>3, DecodeRefusals
    <2>4. CASE Ready("updateProfile") /\ \E code \in BodyRefusals : Respond(Problem(code))
      BY <1>4, <2>4
    <2> QED
      BY <1>2, <1>7, <2>1, <2>2, <2>3, <2>4 DEF UpdateProfileHandler
  <1>8. CASE GetProfileHandler
    <2>1. CASE ProfileServiceAnswers("profile.get", Success("ok", {}))
      BY <1>1, <1>5, <2>1, ProfileCallAnswers
    <2>2. CASE Ready("getProfile") /\ Await("profile.get")
      BY <1>1, <2>2, ProfileAsks
    <2> QED
      BY <1>8, <2>1, <2>2 DEF GetProfileHandler
  <1>9. CASE DeleteProfileHandler
    <2>1. CASE ProfileServiceAnswers("profile.delete", NoContent)
      BY <1>1, <1>5, <2>1, ProfileCallAnswers
    <2>2. CASE Ready("deleteProfile") /\ Await("profile.delete")
      BY <1>1, <2>2, ProfileAsks
    <2> QED
      BY <1>9, <2>1, <2>2 DEF DeleteProfileHandler
  <1> QED
    BY <1>6, <1>7, <1>8, <1>9

---------------------------------------------------------------------------
(* The paths and the queries with which the GitHub service is asked.       *)
PagedHandlers == {"listGitHubOwnerRepositories", "listGitHubRepositoryActivity",
                  "listGitHubRepositoryTags"}

LEMMA GitHubPathOf ==
    ASSUME NEW r, NEW h \in GitHubHandlers, Served(r, h)
    PROVE  GitHubSegments(r.path, h)
  <1>1. /\ ~OneSegment(r.path, h) /\ ~TwoSegments(r.path, h) /\ ~Files(r.path, h)
        /\ \A m : ~Writes(r.path, m, h)
    BY DEF OneSegment, TwoSegments, Files, Writes, GitHubHandlers
  <1> QED
    BY <1>1, ServedReaches, RoutesTable, Zenon DEF Reads

LEMMA GitHubExtractors ==
    ASSUME NEW h \in GitHubHandlers
    PROVE  /\ h \in Handlers \ (Unnegotiated \cup {"openapi"}) /\ h \notin ProfileHandlers
           /\ h \in PagedHandlers => 3 \in 1 .. Len(Extractors[h]) /\ Extractors[h][3] = "query"
           /\ h \notin PagedHandlers =>
                  2 \in 1 .. Len(Extractors[h]) /\ Extractors[h][2] = "no_query"
  <1>1. h \in Handlers \ (Unnegotiated \cup {"openapi"}) /\ h \notin ProfileHandlers
    BY DEF GitHubHandlers, Handlers, Extractors, Unnegotiated, DocumentHandlers, ProfileHandlers
  <1>2. CASE h \in PagedHandlers
    <2>1. Extractors[h] = <<"format", "path", "query">>
      BY <1>2 DEF Extractors, PagedHandlers
    <2> QED
      BY <1>1, <1>2, <2>1
  <1>3. CASE h \notin PagedHandlers
    <2>1. Extractors[h] = <<"format", "no_query", "path">>
      BY <1>3 DEF Extractors, GitHubHandlers, PagedHandlers
    <2> QED
      BY <1>1, <1>3, <2>1
  <1> QED
    BY <1>2, <1>3

LEMMA PageQuery ==
    ASSUME NEW query \in Seq(QueryPart), ParsesQuery(query), PageQueryProblem(query) = "none"
    PROVE  \A i \in DOMAIN query :
               query[i].name \in {"limit", "cursor"} /\ query[i].value = "good"
  <1> SUFFICES ASSUME NEW i \in DOMAIN query
               PROVE  query[i].name \in {"limit", "cursor"} /\ query[i].value = "good"
    OBVIOUS
  <1>1. /\ Closed(query, {"limit", "cursor"})
        /\ ~Says(query, "limit", "bad") /\ ~Says(query, "cursor", "bad")
    BY DEF PageQueryProblem
  <1>2. query[i].name \in {"limit", "cursor"}
    BY <1>1 DEF Closed, Names
  <1>3. query[i].value # "bad"
    BY <1>1, <1>2 DEF Says
  <1>4. query[i].value # "%"
    BY DEF ParsesQuery
  <1>5. query[i] \in QueryPart
    BY Zenon, ElementOfSeq, LenProperties
  <1>6. query[i].value \in {"good", "bad", "%"}
    BY <1>5 DEF QueryPart
  <1> QED
    BY <1>2, <1>3, <1>4, <1>6

OwnerHandlers == {"getGitHubOwner", "listGitHubOwnerRepositories"}
ValidNames(path, h) == /\ ValidName(path[4])
                       /\ h \notin OwnerHandlers => ValidName(path[5])

LEMMA RepoSegment == 4 \notin {5, 6} /\ "repos" \notin {"", "%", "bad name"}
  OBVIOUS

LEMMA FourToSix ==
    ASSUME NEW n \in {4, 5, 6}
    PROVE  \A i \in 4 .. n : i = 4 \/ (i = 5 /\ n \in {5, 6}) \/ (i = 6 /\ n = 6)
  OBVIOUS

LEMMA ValidSegments ==
    ASSUME NEW path, NEW h \in GitHubHandlers, GitHubSegments(path, h), ValidNames(path, h)
    PROVE  \A i \in 4 .. Len(path) : path[i] \notin {"", "%", "bad name"}
  <1>1. path[4] \notin {"", "%", "bad name"}
    BY DEF ValidNames, ValidName
  <1>2. Len(path) \in {4, 5, 6}
    BY DEF GitHubSegments, GitHubAt
  <1>3. Len(path) \in {5, 6} => path[5] \notin {"", "%", "bad name"}
    <2>1. CASE h \in OwnerHandlers
      <3>1. Len(path) = 4 \/ (Len(path) = 5 /\ path[5] = "repos")
        BY <2>1 DEF GitHubSegments, GitHubAt, OwnerHandlers
      <3>2. 4 \notin {5, 6} /\ "repos" \notin {"", "%", "bad name"}
        BY RepoSegment
      <3> QED
        BY <3>1, <3>2, Zenon
    <2>2. CASE h \notin OwnerHandlers
      BY <2>2 DEF ValidNames, ValidName
    <2> QED
      BY <2>1, <2>2
  <1>4. Len(path) = 6 => path[6] \in {"activity", "languages", "tags"}
    BY DEF GitHubSegments, GitHubAt
  <1>5. \A i \in 4 .. Len(path) :
            i = 4 \/ (i = 5 /\ Len(path) \in {5, 6}) \/ (i = 6 /\ Len(path) = 6)
    BY <1>2, FourToSix, Zenon
  <1> QED
    BY <1>1, <1>3, <1>4, <1>5

LEMMA GitHubAsks ==
    ASSUME IndInv, AnswerInv, IndInv', NEW h \in GitHubHandlers, Ready(h),
           Await(CallOf[h]),
           ValidNames(request.path, h),
           h \in PagedHandlers => PageQueryProblem(request.query) = "none"
    PROVE  AnswerInv'
  <1> DEFINE call == CallOf[h]
  <1>1. h \in Handlers /\ h \notin ProfileHandlers /\ h \notin Unnegotiated
    BY GitHubExtractors
  <1>2. h \in DOMAIN CallOf /\ call \in GitHubCalls /\ call \in Dependencies
    BY DEF GitHubHandlers, CallOf, GitHubCalls, Dependencies
  <1>3. pc = "extracting" /\ handler = h /\ h # "none" /\ format # "none"
    BY <1>1, ReadyFormat, Zenon
  <1>4. ~user /\ calls = <<>>
    BY <1>1, ReadyFacts
  <1>5. Append(calls, call) = <<call>>
    BY <1>4
  <1>6. \A i \in 4 .. Len(request.path) : request.path[i] \notin {"", "%", "bad name"}
    <2>1. GitHubSegments(request.path, h)
      BY <1>3, HandlerFacts, GitHubPathOf, Zenon
    <2> QED
      BY <2>1, ValidSegments
  <1>7. \A i \in DOMAIN request.query :
            request.query[i].name \in {"limit", "cursor"} /\ request.query[i].value = "good"
    <2>1. CASE h \in PagedHandlers
      <3>1. ParsesQuery(request.query)
        BY <1>1, <2>1, GitHubExtractors, ReadyFormat
      <3> QED
        BY <2>1, <3>1, RequestFields, PageQuery
    <2>2. CASE h \notin PagedHandlers
      <3>1. request.query = <<>>
        BY <1>1, <2>2, GitHubExtractors, ReadyFormat
      <3> QED
        BY <3>1
    <2> QED
      BY <2>1, <2>2
  <1> HIDE DEF call
  <1>8. \A c : (\E i \in DOMAIN <<call>> : <<call>>[i] = c) => <<call>> = <<c>>
    OBVIOUS
  <1>9. GitHubChecked(request, user, <<call>>)
    BY <1>4, <1>6, <1>7, <1>8, Zenon DEF GitHubChecked
  <1>10. /\ handler \in DOMAIN CallOf /\ call \in {"verify", CallOf[handler]}
         /\ call \in Dependencies /\ Await(call)
    BY <1>2, <1>3 DEF call
  <1>11. GitHubChecked(request, user, Append(calls, call))
    BY <1>5, <1>9, Zenon
  <1> QED
    BY <1>3, <1>10, <1>11, AwaitAnswers, Zenon

---------------------------------------------------------------------------
(* What the GitHub service answers.                                        *)
LEMMA RateLimitRight ==
    ASSUME IndInv, AnswerInv, handler \in GitHubHandlers,
           NEW hints, "Retry-After" \in hints
    PROVE  Right([Problem("github_rate_limit") EXCEPT !.headers = @ \cup hints])
  <1> DEFINE p == Problem("github_rate_limit")
             a == [p EXCEPT !.headers = @ \cup hints]
  <1>1. handler \notin DocumentHandlers \cup {"none", "openapi"}
    BY DEF GitHubHandlers, DocumentHandlers
  <1>2. MediaRight(request, p.media)
    BY <1>1, PlainProblem, Zenon
  <1>3. p.code = "github_rate_limit" /\ p.links = {} /\ p.headers = {"Vary"}
    BY ProblemFields DEF Problem
  <1>4. DOMAIN p = DOMAIN NoAnswer
    BY ProblemShapes, StatusFacts DEF Shaped
  <1>5. DOMAIN NoAnswer = {"code", "media", "headers", "allow", "links", "csp", "body"}
    BY DEF NoAnswer
  <1> HIDE DEF p
  <1>6. /\ a.code = "github_rate_limit" /\ a.links = {} /\ a.headers = {"Vary"} \cup hints
        /\ a.media = p.media
    BY <1>3, <1>4, <1>5
  <1> HIDE DEF a
  <1>7. Declared(handler, "github_rate_limit")
    BY Declarations, Zenon
  <1>8. /\ a.code \notin Successes \cup {"method_not_allowed", "not_found", "not_acceptable",
                                         "unauthorized"}
        /\ "Vary" \in a.headers /\ "Retry-After" \in a.headers /\ handler # "none"
    BY <1>1, <1>6 DEF Successes
  <1>9. Right(a)
    BY <1>2, <1>6, <1>7, <1>8, RefusedRight, Zenon
  <1> QED
    BY <1>9 DEF a, p

LEMMA GitHubCallAnswers ==
    ASSUME IndInv, AnswerInv, NEW call \in GitHubCalls, NEW successes,
           GitHubServiceAnswers(call, successes), successes \subseteq Pages
    PROVE  AnswerInv'
  <1>1. call # "verify" /\ Awaiting(call)
    BY DEF GitHubCalls, GitHubServiceAnswers
  <1>2. handler \in GitHubHandlers /\ format # "none"
    <2>1. /\ handler \in DOMAIN CallOf /\ call = CallOf[handler]
          /\ handler # "deleteProfile" => format # "none"
      BY <1>1, WaitingFacts
    <2>2. handler \in GitHubHandlers
      BY <2>1, CallOwners
    <2> QED
      BY <2>1, <2>2 DEF GitHubHandlers
  <1>3. handler \notin DocumentHandlers \cup {"none", "openapi"}
    BY <1>2 DEF GitHubHandlers, DocumentHandlers
  <1>4. ASSUME NEW code \in {"github_not_found", "github_timeout", "github_upstream"}
        PROVE  Right(Problem(code))
    <2>1. code \in PlainRefusals
      BY DEF PlainRefusals
    <2>2. Declared(handler, code)
      BY <1>2, Declarations, Zenon
    <2> QED
      BY <1>3, <2>1, <2>2, RefuseRight, Zenon
  <1>5. ASSUME NEW headers
        PROVE  Right(Success("ok", headers))
    <2>1. /\ handler \notin {"none", "deleteProfile"} /\ handler # "createProfile"
          /\ "ok" = (IF handler = "createProfile" THEN "created" ELSE "ok")
      BY <1>2 DEF GitHubHandlers
    <2> QED
      BY <1>2, <2>1, SuccessRight, Zenon
  <1>6. ASSUME NEW a \in Pages
        PROVE  Right(a)
    BY <1>4, <1>5, Zenon DEF Pages
  <1>7. ASSUME NEW error \in GitHubErrors, NEW a \in MapGitHubError(error)
        PROVE  Right(a)
    <2>1. CASE error = "NotFound"
      <3>1. a = Problem("github_not_found")
        BY <1>7, <2>1 DEF MapGitHubError
      <3> QED
        BY <1>4, <3>1, Zenon
    <2>2. CASE error = "RateLimited"
      <3>1. MapGitHubError(error) =
                {[Problem("github_rate_limit") EXCEPT !.headers = @ \cup hints] :
                     hints \in {{"Retry-After"}, {"Retry-After", "X-RateLimit-Reset"}}}
        BY <2>2 DEF MapGitHubError
      <3>2. PICK hints \in {{"Retry-After"}, {"Retry-After", "X-RateLimit-Reset"}} :
                a = [Problem("github_rate_limit") EXCEPT !.headers = @ \cup hints]
        BY <1>7, <3>1, Zenon
      <3>3. "Retry-After" \in hints
        BY <3>2
      <3> QED
        BY <1>2, <3>2, <3>3, RateLimitRight, Zenon
    <2>3. CASE error = "Timeout"
      <3>1. a = Problem("github_timeout")
        BY <1>7, <2>3 DEF MapGitHubError
      <3> QED
        BY <1>4, <3>1, Zenon
    <2>4. CASE error = "Upstream"
      <3>1. a = Problem("github_upstream")
        BY <1>7, <2>4 DEF MapGitHubError
      <3> QED
        BY <1>4, <3>1, Zenon
    <2> QED
      BY <2>1, <2>2, <2>3, <2>4 DEF GitHubErrors
  <1>8. PICK a \in successes \cup UNION {MapGitHubError(error) : error \in GitHubErrors} :
            Respond(a)
    BY DEF GitHubServiceAnswers
  <1>9. Right(a)
    BY <1>6, <1>7, <1>8
  <1> QED
    BY <1>8, <1>9, AnswerStep, Zenon

LEMMA GitHubAnswers ==
    ASSUME IndInv, AnswerInv, IndInv',
           \/ GetGitHubOwnerHandler \/ ListGitHubOwnerReposHandler \/ GetGitHubRepoHandler
           \/ ListGitHubRepoActivityHandler \/ GetGitHubRepoLanguagesHandler
           \/ ListGitHubRepoTagsHandler
    PROVE  AnswerInv'
  <1> DEFINE Refuses(h) ==
                 \E code \in {"invalid_request", "validation_failed"} : Respond(Problem(code))
             Named(h) == ValidNames(request.path, h)
             Paged(h) == h \in PagedHandlers => PageQueryProblem(request.query) = "none"
             Asks(h) == Ready(h) /\ (Refuses(h) \/ (Await(CallOf[h]) /\ Named(h) /\ Paged(h)))
             Gets == \E call \in GitHubCalls, successes \in SUBSET Pages :
                         GitHubServiceAnswers(call, successes)
  <1>1. ASSUME NEW h \in GitHubHandlers, Asks(h)
        PROVE  AnswerInv'
    <2>1. CASE Ready(h) /\ Refuses(h)
      <3>1. h \in Handlers \ (DocumentHandlers \cup {"openapi"})
        BY GitHubExtractors DEF Unnegotiated
      <3>2. PICK code \in {"invalid_request", "validation_failed"} : Respond(Problem(code))
        BY <2>1
      <3>3. code \in PlainRefusals
        BY DEF PlainRefusals
      <3>4. Declared(h, code)
        BY Declarations, Zenon
      <3> QED
        BY <2>1, <3>1, <3>2, <3>3, <3>4, ReadyRefusal
    <2>2. CASE Ready(h) /\ Await(CallOf[h]) /\ Named(h) /\ Paged(h)
      BY <2>2, GitHubAsks, Zenon
    <2> QED
      BY <1>1, <2>1, <2>2
  <1>2. Gets => AnswerInv'
    BY GitHubCallAnswers
  <1>3. /\ {Success("ok", {})} \in SUBSET Pages /\ Pages \in SUBSET Pages
        /\ {"github.owner", "github.repositories", "github.repository", "github.activity",
            "github.languages", "github.tags"} \subseteq GitHubCalls
        /\ PageQueryProblem(request.query) \in {"invalid_request", "validation_failed", "none"}
    BY DEF Pages, GitHubCalls, PageQueryProblem
  <1>4. /\ CallOf["getGitHubOwner"] = "github.owner"
        /\ CallOf["listGitHubOwnerRepositories"] = "github.repositories"
        /\ CallOf["getGitHubRepository"] = "github.repository"
        /\ CallOf["listGitHubRepositoryActivity"] = "github.activity"
        /\ CallOf["listGitHubRepositoryLanguages"] = "github.languages"
        /\ CallOf["listGitHubRepositoryTags"] = "github.tags"
    BY DEF CallOf
  <1>5. \E h \in GitHubHandlers : Asks(h) \/ Gets
    <2> USE DEF PagedHandlers, GitHubHandlers, OwnerHandlers, ValidNames, ValidOwner,
               ValidRepositoryPath
    <2>1. CASE GetGitHubOwnerHandler
      <3>1. Asks("getGitHubOwner") \/ Gets
        BY <1>3, <1>4, <2>1 DEF GetGitHubOwnerHandler
      <3> QED
        BY <3>1
    <2>2. CASE ListGitHubOwnerReposHandler
      <3>1. Asks("listGitHubOwnerRepositories") \/ Gets
        BY <1>3, <1>4, <2>2 DEF ListGitHubOwnerReposHandler
      <3> QED
        BY <3>1
    <2>3. CASE GetGitHubRepoHandler
      <3>1. Asks("getGitHubRepository") \/ Gets
        BY <1>3, <1>4, <2>3 DEF GetGitHubRepoHandler
      <3> QED
        BY <3>1
    <2>4. CASE ListGitHubRepoActivityHandler
      <3>1. Asks("listGitHubRepositoryActivity") \/ Gets
        BY <1>3, <1>4, <2>4 DEF ListGitHubRepoActivityHandler
      <3> QED
        BY <3>1
    <2>5. CASE GetGitHubRepoLanguagesHandler
      <3>1. Asks("listGitHubRepositoryLanguages") \/ Gets
        BY <1>3, <1>4, <2>5 DEF GetGitHubRepoLanguagesHandler
      <3> QED
        BY <3>1
    <2>6. CASE ListGitHubRepoTagsHandler
      <3>1. Asks("listGitHubRepositoryTags") \/ Gets
        BY <1>3, <1>4, <2>6 DEF ListGitHubRepoTagsHandler
      <3> QED
        BY <3>1
    <2> QED
      BY <2>1, <2>2, <2>3, <2>4, <2>5, <2>6
  <1> QED
    BY <1>1, <1>2, <1>5

LEMMA PanicAnswers ==
    ASSUME IndInv, AnswerInv, PanicRecovery
    PROVE  AnswerInv'
  <1>1. handler # "none"
    <2>1. handler \in Handlers
      BY DEF IndInv, PanicRecovery
    <2> QED
      BY <2>1 DEF Handlers, Extractors
  <1> QED
    BY <1>1, PathProblemRight, AnswerStep, Zenon DEF PanicRecovery

---------------------------------------------------------------------------
(* What the layers make of an answer.                                      *)
LEMMA LeaveFields ==
    ASSUME NEW a, DOMAIN a = DOMAIN NoAnswer
    PROVE  LET b == WithoutHeadBody(WithSecurityHeaders(WithDiscoveryLinks(a)))
           IN  /\ b.code = a.code /\ b.media = a.media /\ b.allow = a.allow
               /\ b.headers = a.headers \cup CommonHeaders
               /\ a.code \in Successes => b.links = DiscoveryLinks(request.path)
               /\ b.body = IF request.method = "HEAD" THEN FALSE ELSE a.body
  <1>1. DOMAIN NoAnswer = {"code", "media", "headers", "allow", "links", "csp", "body"}
    BY DEF NoAnswer
  <1> DEFINE d == WithDiscoveryLinks(a)
             s == WithSecurityHeaders(d)
             b == WithoutHeadBody(s)
  <1>2. /\ DOMAIN d = DOMAIN NoAnswer
        /\ d.code = a.code /\ d.media = a.media /\ d.allow = a.allow
        /\ d.headers = a.headers /\ d.body = a.body
        /\ a.code \in Successes => d.links = DiscoveryLinks(request.path)
    BY <1>1 DEF WithDiscoveryLinks
  <1> HIDE DEF d
  <1>3. /\ DOMAIN s = DOMAIN NoAnswer
        /\ s.code = d.code /\ s.media = d.media /\ s.allow = d.allow
        /\ s.headers = d.headers \cup CommonHeaders /\ s.body = d.body
        /\ s.links = d.links
    BY <1>1, <1>2 DEF WithSecurityHeaders
  <1> HIDE DEF s
  <1>4. /\ b.code = s.code /\ b.media = s.media /\ b.allow = s.allow
        /\ b.headers = s.headers /\ b.links = s.links
        /\ b.body = IF request.method = "HEAD" THEN FALSE ELSE s.body
    BY <1>1, <1>3 DEF WithoutHeadBody
  <1> HIDE DEF b
  <1>5. /\ b.code = a.code /\ b.media = a.media /\ b.allow = a.allow
        /\ b.headers = a.headers \cup CommonHeaders
        /\ a.code \in Successes => b.links = DiscoveryLinks(request.path)
        /\ b.body = IF request.method = "HEAD" THEN FALSE ELSE a.body
    BY <1>2, <1>3, <1>4
  <1> QED
    BY <1>5 DEF b, s, d

LEMMA HealthLinks ==
    ASSUME NEW path \in Seq(STRING), NEW op \in ApiDoc, op.id = "getHealth",
           Matches(path, op.path)
    PROVE  DiscoveryLinks(path) # {}
  <1>1. op.path = <<"health">>
    BY OperationPaths
  <1>2. Matches(path, <<"health">>)
    BY <1>1
  <1>3. At1(path, "health")
    BY <1>2, LiteralPatterns, Zenon
  <1>4. path = <<"health">>
    BY <1>3, Tuples, Zenon
  <1> QED
    BY <1>4 DEF DiscoveryLinks

LEMMA LinkDeclared ==
    ASSUME NEW op, NEW status, NEW headers, NEW links,
           DeclaredHeaders(op, status) \subseteq
               headers \cup CommonHeaders \cup (IF op.id = "getHealth" THEN {"Link"} ELSE {}),
           op.id = "getHealth" /\ status = 200 => links # {}
    PROVE  DeclaredHeaders(op, status) \subseteq
               (headers \cup CommonHeaders) \cup (IF links # {} THEN {"Link"} ELSE {})
  <1>1. op.id # "getHealth" \/ status # 200 => "Link" \notin DeclaredHeaders(op, status)
    BY DEF DeclaredHeaders, CommonHeaders
  <1> QED
    BY <1>1

LEMMA LeaveAnswers ==
    ASSUME IndInv, AnswerInv, Leave
    PROVE  AnswerInv'
  <1>1. /\ pc = "answered" /\ pc' = "sent" /\ request' = request /\ handler' = handler
        /\ step' = step /\ format' = format /\ user' = user /\ calls' = calls /\ acts' = acts
        /\ answer' = WithoutHeadBody(WithSecurityHeaders(WithDiscoveryLinks(answer)))
    BY DEF Leave
  <1>2. DOMAIN answer = DOMAIN NoAnswer
    BY DEF IndInv, TypeOK
  <1>3. /\ answer'.code = answer.code /\ answer'.media = answer.media
        /\ answer'.allow = answer.allow
        /\ answer'.headers = answer.headers \cup CommonHeaders
        /\ answer.code \in Successes => answer'.links = DiscoveryLinks(request.path)
        /\ answer'.body = IF request.method = "HEAD" THEN FALSE ELSE answer.body
    BY <1>1, <1>2, LeaveFields
  <1>4. HandlerServed' /\ FormatNegotiated'
    BY <1>1 DEF AnswerInv, HandlerServed, FormatNegotiated
  <1>5. ChecksPassed' /\ AnswerReady'
    BY <1>1 DEF ChecksPassed, AnswerReady
  <1>6. OwnCalls'
    BY <1>1 DEF AnswerInv, OwnCalls, Calling
  <1>7. CallsAfterChecks'
    <2>1. ProfileCallsChecked'
      BY <1>1, CallsFrame DEF IndInv
    <2> QED
      BY <1>1, <2>1, Parts, PartsNext, Zenon DEF AnswerInv
  <1>8. Best(request, handler, format, answer) /\ Allows(request, answer)
    BY <1>1, Parts, Zenon DEF AnswerInv, Answered
  <1>9. BestRepresentation'
    <2>1. Best(request, handler, format, answer')
      BY <1>3, <1>8, Zenon DEF Best, MediaRight
    <2> QED
      BY <1>1, <2>1, PartsNext, Zenon
  <1>10. TruthfulAllow'
    <2>1. Allows(request, answer')
      BY <1>3, <1>8, Zenon DEF Allows
    <2>2. request.method = "HEAD" => ~answer'.body
      BY <1>3
    <2> QED
      BY <1>1, <2>1, <2>2, PartsNext, Zenon
  <1>11. AnswersAsDocumented'
    <2>1. ASSUME NEW op \in ApiDoc, op.method = request.method, Matches(request.path, op.path)
          PROVE  LET status == Status[answer'.code]
                 IN  /\ DeclaredHeaders(op, status) \subseteq answer'.headers \cup
                            (IF answer'.links # {} THEN {"Link"} ELSE {})
                     /\ \/ /\ answer'.code = op.success
                           /\ answer'.body <=> op.method # "DELETE"
                           /\ answer'.media \in
                                  IF op.method = "DELETE" THEN {"none"}
                                  ELSE {SuccessContentType(rep) : rep \in Representations}
                        \/ /\ status \in op.problems \/ UndeclaredNotFound(op, answer'.code)
                           /\ answer'.code = ProblemCodeForResponse(op.path, status)
                           /\ answer'.media \in {ProblemContentType(rep) : rep \in Representations}
      <3> DEFINE status == Status[answer.code]
      <3>1. DocumentedSoFar(request, answer)
        BY <1>1 DEF AnswerInv, AnswerReady
      <3>2. /\ DeclaredHeaders(op, status) \subseteq
                   answer.headers \cup CommonHeaders
                       \cup (IF op.id = "getHealth" THEN {"Link"} ELSE {})
            /\ \/ /\ answer.code = op.success
                  /\ answer.body <=> op.method # "DELETE"
                  /\ answer.media \in IF op.method = "DELETE" THEN {"none"}
                                       ELSE {SuccessContentType(rep) : rep \in Representations}
               \/ /\ status \in op.problems \/ UndeclaredNotFound(op, answer.code)
                  /\ answer.code = ProblemCodeForResponse(op.path, status)
                  /\ answer.media \in {ProblemContentType(rep) : rep \in Representations}
        BY <2>1, <3>1, Zenon DEF DocumentedSoFar
      <3>3. DeclaresStatuses(op)
        BY OperationStatuses
      <3>4. op.id = "getHealth" /\ status = 200 => answer.code = "ok"
        <4>1. /\ 200 \notin op.problems
              /\ op.id = "getHealth" => op.success = "ok"
          BY <3>3 DEF DeclaresStatuses
        <4>2. \/ answer.code = op.success \/ status \in op.problems
              \/ op.id = "createProfile"
          BY <3>2, Zenon DEF UndeclaredNotFound
        <4> HIDE DEF status
        <4> QED
          BY <4>1, <4>2
      <3>5. op.id = "getHealth" /\ status = 200 => answer'.links # {}
        <4>1. op.id = "getHealth" => DiscoveryLinks(request.path) # {}
          BY <2>1, HealthLinks, RequestFields, Zenon
        <4>2. "ok" \in Successes
          BY DEF Successes
        <4> QED
          BY <1>3, <3>4, <4>1, <4>2, Zenon
      <3>6. DeclaredHeaders(op, status) \subseteq
                (answer.headers \cup CommonHeaders)
                    \cup (IF answer'.links # {} THEN {"Link"} ELSE {})
        <4> HIDE DEF status
        <4> QED
          BY <3>2, <3>5, LinkDeclared
      <3>7. request.method # "HEAD"
        BY <2>1, OperationMethods, Zenon
      <3>8. answer'.body = answer.body
        BY <1>3, <3>7
      <3> QED
        BY <1>3, <3>2, <3>6, <3>8, Zenon
    <2>2. AsDocumented(request, answer')
      BY <2>1, Zenon DEF AsDocumented
    <2> QED
      BY <1>1, <2>2, PartsNext, Zenon
  <1> QED
    BY <1>4, <1>5, <1>6, <1>7, <1>9, <1>10, <1>11 DEF AnswerInv

LEMMA InitAnswerInv == Init => AnswerInv
  <1> SUFFICES ASSUME Init PROVE AnswerInv
    OBVIOUS
  <1>1. /\ pc = "arriving" /\ handler = "none" /\ format = "none" /\ calls = <<>>
        /\ user = FALSE
    BY DEF Init
  <1>2. HandlerServed /\ FormatNegotiated /\ ChecksPassed /\ OwnCalls /\ AnswerReady
    BY <1>1 DEF HandlerServed, FormatNegotiated, ChecksPassed, OwnCalls, AnswerReady, Calling
  <1>3. CallsAfterChecks
    <2>1. ProfileCallsChecked
      BY InitIndInv DEF IndInv
    <2> QED
      BY <1>1, <2>1, NothingAsked, Parts, Zenon
  <1>4. ~Answered /\ pc # "sent"
    BY <1>1 DEF Answered
  <1>5. BestRepresentation /\ TruthfulAllow /\ AnswersAsDocumented
    BY <1>4, Parts, Zenon
  <1> QED
    BY <1>2, <1>3, <1>5 DEF AnswerInv

LEMMA NextAnswerInv == IndInv /\ AnswerInv /\ [Next]_vars => AnswerInv'
  <1> SUFFICES ASSUME IndInv, AnswerInv, [Next]_vars PROVE AnswerInv'
    OBVIOUS
  <1>1. IndInv'
    BY NextIndInv
  <1>2. CASE UNCHANGED vars
    BY <1>2, EffectAnswers
  <1>3. CASE Next
    BY <1>1, <1>3, ArrivingAnswers, DispatchAnswers, NegotiateAnswers, ExtractorAnswers,
       AuthenticateAnswers, VerdictAnswers, PlainAnswers, ProfileAnswers,
       EffectAnswers, GitHubAnswers, PanicAnswers, LeaveAnswers
       DEF Next
  <1> QED
    BY <1>2, <1>3

---------------------------------------------------------------------------
(* IndInv holds in every state, whatever the requests and the limit on     *)
(* their bodies are.                                                       *)
THEOREM RequestIndInv == Spec => []IndInv
  BY InitIndInv, NextIndInv, PTL DEF Spec

(* What an answer of the profile operations (http/v1/profile.rs) says of   *)
(* the store is true: a success is an effect, a 409 a profile that was     *)
(* found, a 404 that nothing was changed (but not why: map_firestore_error *)
(* gives it for a missing database too). AnswerTellsEffect for every       *)
(* request.                                                                *)
THEOREM AnswersTellEffects == Spec => []AnswerTellsEffect
  <1>1. IndInv => AnswerTellsEffect
    BY DEF IndInv
  <1> QED
    BY <1>1, RequestIndInv, PTL

(* The verifier and the store are called only after every check of the     *)
(* request passed, and a write carries one map by name or one JSON array   *)
(* by position (decode_request_body) with all that is required and nothing *)
(* refused: ProfileCallsChecked for every request, whatever its document,  *)
(* and whatever MAX_REQUEST_BODY_SIZE_BYTES is.                            *)
THEOREM ProfileCallsAreChecked == Spec => []ProfileCallsChecked
  <1>1. IndInv => ProfileCallsChecked
    BY DEF IndInv
  <1> QED
    BY <1>1, RequestIndInv, PTL

(* Negotiation (http/negotiation.rs) answers what RFC 9110 asks for: for   *)
(* every Accept field, however malformed, the one pass over its ranges     *)
(* gives every media type the weight of the reference definition, and the  *)
(* representation chosen is the best of those on offer.                    *)
THEOREM NegotiationIsBest ==
    ASSUME NEW accept \in AcceptFields
    PROVE  /\ \A allow_cbor \in BOOLEAN :
                  BestOf(accept, Candidates(allow_cbor), "json",
                         NegotiateSuccess(accept, allow_cbor))
           /\ ProblemBest(accept, NegotiateProblem(accept))
  BY SuccessNegotiated, ProblemNegotiated, Zenon

(* The three tables of the source that nothing but tests keeps together    *)
(* agree on every path: a method reaches at most one handler, a documented *)
(* operation is routed to its own handler, and portable_allow, where it    *)
(* names any methods, names exactly those that are routed.                 *)
THEOREM TablesAgree ==
    ASSUME NEW path \in Seq(STRING)
    PROVE  /\ \A m, g, h : Reaches(Routes, path, m, g) /\ Reaches(Routes, path, m, h) => g = h
           /\ \A op \in ApiDoc :
                  Matches(path, op.path) => Reaches(Routes, path, op.method, op.id)
           /\ PortableAllow(path) # {} =>
                  PortableAllow(path) = {route.method : route \in RoutesAt(path)}
  BY ReachesUnique, OperationReached, PortableServed, Zenon

(* AnswerInv holds in every state, whatever the requests and the limit on  *)
(* their bodies are: which handler, format and call belong to the request, *)
(* and what its answer is before the outer layers.                         *)
THEOREM RequestAnswerInv == Spec => [](IndInv /\ AnswerInv)
  <1>1. Init => IndInv /\ AnswerInv
    BY InitIndInv, InitAnswerInv
  <1>2. IndInv /\ AnswerInv /\ [Next]_vars => IndInv' /\ AnswerInv'
    BY NextIndInv, NextAnswerInv
  <1> QED
    BY <1>1, <1>2, PTL DEF Spec

(* The representation sent (ResponseFormat, problem responses) is the best *)
(* one of RFC 9110 and a 406 is only sent where all weigh nothing:         *)
(* BestRepresentation for every request.                                   *)
THEOREM RepresentationIsBest == Spec => []BestRepresentation
  <1>1. AnswerInv => BestRepresentation
    BY DEF AnswerInv
  <1> QED
    BY <1>1, RequestAnswerInv, PTL

(* A 405 names the methods that are routed (method_not_allowed_handler),   *)
(* a 404 means that none is, and a HEAD gets no body: TruthfulAllow for    *)
(* every request.                                                          *)
THEOREM AllowIsTruthful == Spec => []TruthfulAllow
  <1>1. AnswerInv => TruthfulAllow
    BY DEF AnswerInv
  <1> QED
    BY <1>1, RequestAnswerInv, PTL

(* Whatever answers a documented operation answers as its OpenAPI          *)
(* description declares (strengthen_operations), but for the status of one *)
(* answer: the 404 that map_firestore_error gives to a create.             *)
(* AnswersAsDocumented for every request.                                  *)
THEOREM AnswersAreDocumented == Spec => []AnswersAsDocumented
  <1>1. AnswerInv => AnswersAsDocumented
    BY DEF AnswerInv
  <1> QED
    BY <1>1, RequestAnswerInv, PTL

(* Nothing is asked of the verifier, the store or GitHub before every      *)
(* check of the request passed, negotiation first: CallsAfterChecks for    *)
(* every request.                                                          *)
THEOREM CallsComeAfterChecks == Spec => []CallsAfterChecks
  <1>1. AnswerInv => CallsAfterChecks
    BY DEF AnswerInv
  <1> QED
    BY <1>1, RequestAnswerInv, PTL
=============================================================================

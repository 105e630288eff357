--------------------------- MODULE MCHttpRequests ---------------------------
(***************************************************************************)
(* The requests TLC sends: a plain request of each kind, varied in the     *)
(* parts of it that are examined together.                                 *)
(***************************************************************************)
EXTENDS HttpRequests

Charset == [name |-> "charset", value |-> "utf-8"]
RangeOf(main, sub, params, qs) == [main |-> main, sub |-> sub, params |-> params, qs |-> qs]
Plain(sub, qs) == RangeOf("application", sub, <<>>, qs)

MemberOf(in, key, value) == [in |-> in, key |-> key, value |-> value]
NoBody == [empty |-> TRUE, syntax |-> "none", trailing |-> FALSE, root |-> "none",
           members |-> <<>>, items |-> <<>>]
Map(members) == [empty |-> FALSE, syntax |-> "json", trailing |-> FALSE, root |-> "map",
                 members |-> members, items |-> <<>>]
Array(items) == [Map(<<>>) EXCEPT !.root = "array", !.items = items]

Bearer == [text |-> TRUE, comma |-> FALSE, scheme |-> "bearer", token68 |-> TRUE]
Type(media, params) == [media |-> media, params |-> params]

Request(method, path) ==
    [method |-> method, path |-> path, accept |-> NoAccept, query |-> <<>>, lengths |-> <<>>,
     auth |-> <<Bearer>>, encodings |-> <<>>, types |-> <<Type("json", <<>>)>>,
     body |-> NoBody, arrival |-> "whole"]

Part(name, value) == [name |-> name, value |-> value]

---------------------------------------------------------------------------
(* Every method on every kind of path, with and without an acceptable      *)
(* representation, a query and a token.                                    *)
Paths ==
    {<<"health">>, <<"openapi.json">>, <<"llms.txt">>, <<"llms-full.txt">>,
     <<".well-known", "api-catalog">>, <<"api-docs">>, <<"api-docs", "">>, <<"missing">>,
     <<"v1", "hello">>, <<"v1", "items">>, <<"v1", "profile">>, <<"v1", "github">>,
     <<"api-docs", "swagger-ui.css">>, <<"api-docs", "", "index.html">>}
    \cup {<<"v1", "github", "owners", owner>> : owner \in {"octocat", ""}}
    \cup {<<"v1", "github", "owners", owner, last>> :
              owner \in {"octocat", ""}, last \in {"repos", "extra"}}
    \cup {<<"v1", "github", "repos", owner, repo>> :
              owner \in {"octocat", ""}, repo \in {"hello", ""}}
    \cup {<<"v1", "github", "repos", owner, "hello", last>> :
              owner \in {"octocat", "", "bad name", "%"},
              last \in {"activity", "languages", "tags", "extra"}}

Routed ==
    {[Request(method, path) EXCEPT !.accept = accept, !.query = query, !.auth = auth] :
        method \in Methods, path \in Paths,
        accept \in {NoAccept, <<Plain("xml", <<>>)>>, <<Plain("cbor", <<>>)>>},
        query \in {<<>>, <<Part("other", "good")>>}, auth \in {<<>>, <<Bearer>>}}

(* Every Accept field of at most three elements of these, over an          *)
(* operation, a JSON operation and documents.                              *)
Elements ==
    {RangeOf("*", "*", <<>>, <<>>), RangeOf("*", "*", <<>>, <<0>>),
     Plain("*", <<500>>), Plain("json", <<>>), Plain("json", <<0>>), Plain("json", <<300>>),
     RangeOf("application", "json", <<Charset>>, <<800>>),
     RangeOf("application", "json", <<Charset>>, <<0>>),
     RangeOf("application", "json", <<Charset, Charset>>, <<>>),
     Plain("cbor", <<>>), Plain("cbor", <<300>>), Plain("cbor", <<Unreadable>>),
     Plain("problem+json", <<400>>), RangeOf("*", "json", <<>>, <<>>), Plain("", <<>>)}
DocumentElements ==
    {RangeOf("text", "plain", <<>>, <<>>), RangeOf("text", "plain", <<Charset>>, <<0>>),
     RangeOf("text", "*", <<>>, <<200>>), RangeOf("*", "*", <<>>, <<>>),
     Plain("linkset+json", <<>>), Plain("json", <<>>)}
UpTo(S, n) == UNION {[1 .. k -> S] : k \in 0 .. n}

Negotiated ==
    {[Request("GET", path) EXCEPT !.accept = accept] :
        path \in {<<"health">>, <<"openapi.json">>}, accept \in UpTo(Elements, 2)}
    \cup {[Request("GET", <<"health">>) EXCEPT !.accept = accept, !.query = query] :
              query \in {<<>>, <<Part("other", "good")>>},
              accept \in [1 .. 3 -> Elements \ {Plain("", <<>>), Plain("problem+json", <<400>>)}]}
    \cup {[Request("GET", path) EXCEPT !.accept = accept] :
              path \in {<<"llms.txt">>, <<"llms-full.txt">>, <<".well-known", "api-catalog">>},
              accept \in UpTo(DocumentElements, 2)}

(* Queries of at most two parts over a list operation of each kind.        *)
Parts == {Part(name, value) : name \in {"limit", "cursor"}, value \in {"good", "bad", "%"}}
            \cup {Part("category", "good"), Part("category", "bad"),
                  Part("", "good"), Part("%", "good")}
Queried ==
    {[Request("GET", path) EXCEPT !.query = query] :
        path \in {<<"v1", "items">>, <<"v1", "hello">>,
                  <<"v1", "github", "owners", "octocat", "repos">>,
                  <<"v1", "github", "repos", "octocat", "hello", "activity">>,
                  <<"v1", "github", "repos", "octocat", "hello", "tags">>},
        query \in UpTo(Parts, 2)}

(* Documents, and what they are sent with.                                 *)
Good(keys) == [i \in 1 .. Len(keys) |-> MemberOf("", keys[i], "good")]
Created == Good(<<"firstName", "lastName", "contactEmail", "phoneNumber", "termsAccepted">>)
Bodies ==
    {NoBody, Map(<<>>), [Map(<<>>) EXCEPT !.root = "other"],
     Map(Good(<<"name">>)), Map(<<MemberOf("", "name", "bad")>>),
     Map(Good(<<"name", "name">>)), Map(Good(<<"firstName">>)),
     Map(Good(<<"firstName", "firstName">>)),
     Map(<<MemberOf("", "firstName", "null")>>), Map(<<MemberOf("", "marketingOptIn", "bad")>>),
     Map(<<MemberOf("", "contactEmail", "bad"), MemberOf("", "firstName", "good")>>),
     Map(<<MemberOf("", "firstName", "object"), MemberOf("firstName", "a", "good"),
           MemberOf("firstName", "a", "bad")>>),
     Map(<<MemberOf("", "other", "object"), MemberOf("other", "a", "good")>>),
     Map(Created), Map(Append(Created, MemberOf("", "marketingOptIn", "bad"))),
     Map(Append(Created, MemberOf("", "termsAccepted", "bad"))),
     Map([Created EXCEPT ![5].value = "bad"]), Map([Created EXCEPT ![2].value = "wrong"]),
     Array(<<>>), Array(<<"good">>), Array(<<"bad">>), Array(<<"good", "wrong">>),
     Array(<<"good", "good", "good", "good", "bad", "good">>),
     Array(<<"good", "good", "good", "good", "good">>),
     Array(<<"good", "good", "good", "good", "good", "good", "good">>),
     [Array(<<"good">>) EXCEPT !.syntax = "cbor"],
     [Array(<<"good", "object">>) EXCEPT
          !.members = <<MemberOf("2", "a", "good"), MemberOf("2", "a", "bad")>>],
     [Map(Created) EXCEPT !.trailing = TRUE], [Map(Created) EXCEPT !.syntax = "none"],
     [Map(Created) EXCEPT !.syntax = "cbor"], [Map(Good(<<"firstName">>)) EXCEPT !.syntax = "cbor"]}

Written ==
    {[Request(target[1], target[2]) EXCEPT
            !.body = body, !.types = types, !.encodings = encodings,
            !.lengths = size[1], !.arrival = size[2]] :
        target \in {<<"POST", <<"v1", "hello">>>>, <<"POST", <<"v1", "profile">>>>,
                    <<"PATCH", <<"v1", "profile">>>>},
        body \in Bodies,
        types \in {<<>>, <<Type("json", <<>>)>>, <<Type("json", <<"charset=utf-8">>)>>,
                   <<Type("cbor", <<>>)>>, <<Type("cbor", <<"charset=utf-8">>)>>,
                   <<Type("json", <<>>), Type("json", <<>>)>>, <<Type("text", <<>>)>>},
        encodings \in {<<>>, <<"identity">>, <<"gzip">>, <<"identity", "identity">>},
        size \in {<<<<>>, "whole">>, <<<<MaxBody>>, "whole">>, <<<<MaxBody + 1>>, "too_large">>,
                  <<<<>>, "too_large">>, <<<<MaxBody>>, "broken">>, <<<<Unreadable>>, "whole">>,
                  <<<<1, 1>>, "whole">>}}

(* Authorization lines.                                                    *)
Lines == {Bearer, [Bearer EXCEPT !.text = FALSE], [Bearer EXCEPT !.comma = TRUE],
          [Bearer EXCEPT !.scheme = "basic"], [Bearer EXCEPT !.token68 = FALSE]}
Authorized ==
    {[Request(method, <<"v1", "profile">>) EXCEPT
            !.auth = auth, !.body = Map(Good(<<"firstName">>)), !.accept = accept] :
        method \in {"GET", "PATCH", "DELETE"}, auth \in UpTo(Lines, 2),
        accept \in {NoAccept, <<Plain("cbor", <<>>)>>}}

MCRequests == Routed \cup Negotiated \cup Queried \cup Written \cup Authorized
=============================================================================

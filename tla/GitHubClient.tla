---------------------------- MODULE GitHubClient ----------------------------
(***************************************************************************)
(* HttpGitHubService behind the GitHub handlers: a request is checked, sent*)
(* to the provider, follows its redirects, reads the page and translates   *)
(* the links of the provider into cursors, under one deadline. The provider*)
(* may answer anything. Requests share nothing but the cursors a client    *)
(* carries from one to the next, so that one request at a time is modelled.*)
(***************************************************************************)
EXTENDS Integers, FiniteSets

CONSTANTS
    Ops,         \* the operations offered
    Names,       \* the owners or repositories a client may name
    Ids,         \* the numeric ids the provider may redirect to
    Limits,      \* the page sizes
    MaxPage,     \* SAFE_INTEGER_MAX
    Values,      \* the positions the provider gives out in an activity log
    TooLong,     \* those among them that no public cursor may hold
    MaxRedirects,\* MAX_REDIRECTS
    MaxBody,     \* MAX_GITHUB_RESPONSE_BODY_BYTES
    Chunks,      \* the sizes in which a body may arrive
    Own, Other,  \* spellings of an address: ours, and one that means the same
    NoCursor, Garbled, NoParam, Unreadable, NoUrl

Numbered == {"repos", "tags"}
Paged == Numbered \cup {"activity"}

ASSUME GitHubAssumption ==
    /\ Ops \subseteq Paged \cup {"owner", "repo", "languages"}
    /\ Ids \cap Names = {}
    /\ MaxPage \in Nat \ {0} /\ MaxRedirects \in Nat /\ MaxBody \in Nat
    /\ Chunks \subseteq Nat /\ TooLong \subseteq Values
    /\ 0 \notin Limits

(* Pages: 0 and MaxPage + 1 stand for every value that is no page number.  *)
Pages == 0 .. MaxPage + 1
Scope == {s \in [op : Ops, name : Names, limit : Limits \cup {0}] :
              s.op \in Paged <=> s.limit # 0}
Cursor == {c \in [scope : Scope, dir : {"next", "prev"}, value : Pages \cup Values] :
               IF c.scope.op \in Numbered THEN c.value \in Pages ELSE c.value \in Values}
Param == [name : {"page"}, value : Pages]
             \cup [name : {"after", "before"}, value : Values] \cup {NoParam, Unreadable}
Url == [home : BOOLEAN,                       \* same origin, no credentials, no fragment
        path : [op : Ops, res : Names \cup Ids],
        limit : Limits \cup {0},              \* the parameters that select no page
        param : Param, text : {Own, Other}]

ASSUME NoValueAssumption ==
    /\ NoCursor \notin Cursor /\ Garbled \notin Cursor /\ NoCursor # Garbled
    /\ NoUrl \notin Url /\ Own # Other
    /\ {NoParam, Unreadable} \cap [name : {"page", "after", "before"}, value : Pages \cup Values] = {}

VARIABLES
    pc,        \* idle, send or body
    scope,     \* the request: operation, resource and page size
    cursor,    \* the cursor it came with
    url,       \* the address to ask next
    visited,   \* the addresses asked so far
    redirects, \* how many redirects were followed
    body,      \* how much of the body was read
    answer,    \* the problem code, or ok
    links,     \* the cursors in the Link header of the answer
    walk       \* history: the pages asked by following next links from page to page

vars == <<pc, scope, cursor, url, visited, redirects, body, answer, links, walk>>

Answers == {"none", "ok", "invalid_request", "validation_failed", "github_not_found",
            "github_rate_limit", "github_upstream", "github_timeout"}
NoLinks == [next |-> NoCursor, prev |-> NoCursor]

---------------------------------------------------------------------------
(* The checks of the handlers on a cursor, repeated by the service: it must*)
(* belong to the request and hold a position of the provider.              *)
Accepts(s, c) ==
    c # NoCursor =>
        /\ c # Garbled /\ c.scope = s /\ s.op \in Paged
        /\ IF s.op \in Numbered
           THEN c.value \in 1 .. MaxPage /\ (c.dir = "next" => c.value # 1)
           ELSE c.value \notin TooLong

(* The address of a request. The first page of a numbered list is asked    *)
(* for without a page parameter.                                           *)
Page(c) == IF c = NoCursor THEN 1 ELSE c.value
ParamOf(s, c) ==
    IF c = NoCursor THEN NoParam
    ELSE IF s.op \notin Numbered
         THEN [name |-> IF c.dir = "next" THEN "after" ELSE "before", value |-> c.value]
    ELSE IF c.value = 1 THEN NoParam
    ELSE [name |-> "page", value |-> c.value]
OperationUrl(s, c) ==
    [home |-> TRUE, path |-> [op |-> s.op, res |-> s.name], limit |-> s.limit,
     param |-> ParamOf(s, c), text |-> Own]

(* Where redirects and links may lead: to the same operation on the same   *)
(* origin, under the name of the resource or an id, and from an id only to *)
(* that id.                                                                *)
TargetUnpinned(t) ==                                           \* mutant
    /\ t.home /\ t.path.op = scope.op
    /\ t.path.res \in Ids \cup {scope.name}
Target(t) ==
    /\ t.home /\ t.path.op = scope.op
    /\ t.path.res \in Ids \cup {scope.name}
    /\ url.path.res # scope.name => t.path = url.path

RedirectAllowed(t) ==
    Target(t) /\ t.limit = scope.limit /\ t.param = ParamOf(scope, cursor)

(* The links of the provider: a next link leads forward from a page that is*)
(* not empty, a prev link back from one that is not the first.             *)
LinkAllowedToAnyPage(rel, t, empty) ==                         \* mutant
    /\ Target(t) /\ t.limit = scope.limit
    /\ t.param \notin {NoParam, Unreadable}
    /\ rel = "next" => ~empty
    /\ \/ /\ scope.op \in Numbered
          /\ t.param.name = "page" /\ t.param.value \in 1 .. MaxPage
          /\ rel = "next" => t.param.value # 1
       \/ /\ scope.op = "activity"
          /\ rel = "prev" => cursor # NoCursor
          /\ t.param.name = (IF rel = "next" THEN "after" ELSE "before")
          /\ t.param # ParamOf(scope, cursor)
LinkAllowed(rel, t, empty) ==
    /\ Target(t) /\ t.limit = scope.limit
    /\ t.param \notin {NoParam, Unreadable}
    /\ rel = "next" => ~empty
    /\ \/ /\ scope.op \in Numbered
          /\ t.param.name = "page" /\ t.param.value \in 1 .. MaxPage
          /\ rel = "next" => t.param.value > Page(cursor)
          /\ rel = "prev" => t.param.value < Page(cursor)
       \/ /\ scope.op = "activity"
          /\ rel = "prev" => cursor # NoCursor
          /\ t.param.name = (IF rel = "next" THEN "after" ELSE "before")
          /\ t.param # ParamOf(scope, cursor)

LinkCursor(rel, t) == [scope |-> scope, dir |-> rel, value |-> t.param.value]
Cursors(rel, empty) ==
    {NoCursor} \cup {LinkCursor(rel, t) : t \in {t \in Url : LinkAllowed(rel, t, empty)}}

(* Cursors are given out only if a client can send them back.              *)
Fits(c) == c # NoCursor => c.value \notin TooLong

---------------------------------------------------------------------------
Init ==
    /\ pc = "idle"
    /\ scope \in Scope /\ cursor = NoCursor
    /\ url = NoUrl /\ visited = {} /\ redirects = 0 /\ body = 0
    /\ answer = "none" /\ links = NoLinks
    /\ walk = {}

Answer(code) ==
    /\ pc' = "idle" /\ answer' = code
    /\ url' = NoUrl /\ visited' = {} /\ redirects' = 0 /\ body' = 0
    /\ UNCHANGED <<scope, cursor, walk>>
Fail(code) == Answer(code) /\ UNCHANGED links

(* A client asks, with a link of the last answer or any other cursor.      *)
Walk(s, c) ==
    IF s.op \notin Numbered THEN {}
    ELSE IF s = scope /\ c # NoCursor /\ c = links.next THEN walk \cup {Page(c)}
    ELSE {Page(c)}
Request(s, c) ==
    /\ pc = "idle"
    /\ scope' = s /\ cursor' = c /\ links' = NoLinks
    /\ \/ /\ Accepts(s, c)
          /\ pc' = "send" /\ answer' = "none"
          /\ url' = OperationUrl(s, c) /\ visited' = {OperationUrl(s, c)}
          /\ walk' = Walk(s, c)
       \/ /\ ~Accepts(s, c)
          /\ answer' = "invalid_request" /\ walk' = {}
          /\ UNCHANGED <<pc, url, visited>>
    /\ UNCHANGED <<redirects, body>>

(* A path, a page size or a query outside the contract.                    *)
Malformed ==
    /\ pc = "idle"
    /\ answer' \in {"invalid_request", "validation_failed"}
    /\ cursor' = NoCursor /\ links' = NoLinks /\ walk' = {}
    /\ UNCHANGED <<pc, scope, url, visited, redirects, body>>

(* The provider redirects.                                                 *)
Follow(t) ==
    /\ url' = t /\ visited' = visited \cup {t} /\ redirects' = redirects + 1
    /\ UNCHANGED <<pc, scope, cursor, body, answer, links, walk>>
Redirected(t) ==
    /\ pc = "send"
    /\ LET allowed == /\ t # NoUrl /\ redirects < MaxRedirects
                      /\ RedirectAllowed(t) /\ t \notin visited
       IN  \/ allowed /\ Follow(t)
           \/ ~allowed /\ Fail("github_upstream")

(* Any other status, or no response at all; refused headers.               *)
Refused ==
    /\ pc = "send"
    /\ \E code \in {"github_not_found", "github_rate_limit", "github_upstream"} : Fail(code)

(* 200 with acceptable headers; the body follows in chunks of any size,    *)
(* whatever length was announced.                                          *)
Headers ==
    /\ pc = "send"
    /\ pc' = "body"
    /\ UNCHANGED <<scope, cursor, url, visited, redirects, body, answer, links, walk>>

Chunk(n) ==
    /\ pc = "body"
    /\ \/ body + n <= MaxBody /\ body' = body + n
             /\ UNCHANGED <<pc, scope, cursor, url, visited, redirects, answer, links, walk>>
       \/ body + n > MaxBody /\ Fail("github_upstream")

(* The page is complete. A page that cannot be read, or has a link that is *)
(* not allowed, is refused.                                                *)
PageRead ==
    /\ pc = "body"
    /\ \E empty \in BOOLEAN : \E n \in Cursors("next", empty), p \in Cursors("prev", empty) :
           \/ Fits(n) /\ Fits(p) /\ Answer("ok") /\ links' = [next |-> n, prev |-> p]
           \/ ~(Fits(n) /\ Fits(p)) /\ Fail("github_upstream")
PageRefused == pc = "body" /\ Fail("github_upstream")

DeadlineHeadersOnly == pc = "send" /\ Fail("github_timeout")   \* mutant
Deadline == pc # "idle" /\ Fail("github_timeout")

Next ==
    \/ \E s \in Scope, c \in Cursor \cup {NoCursor, Garbled} : Request(s, c)
    \/ Malformed
    \/ \E t \in Url \cup {NoUrl} : Redirected(t)
    \/ Refused \/ Headers
    \/ \E n \in Chunks : Chunk(n)
    \/ PageRead \/ PageRefused \/ Deadline

Spec == Init /\ [][Next]_vars

(* The timer fires; nothing is assumed of the provider.                    *)
FairSpec == Spec /\ WF_vars(Deadline)

---------------------------------------------------------------------------
TypeOK ==
    /\ pc \in {"idle", "send", "body"}
    /\ scope \in Scope /\ cursor \in Cursor \cup {NoCursor, Garbled}
    /\ url \in Url \cup {NoUrl} /\ visited \subseteq Url /\ IsFiniteSet(visited)
    /\ redirects \in Nat /\ body \in Nat
    /\ answer \in Answers
    /\ links \in [next : Cursor \cup {NoCursor}, prev : Cursor \cup {NoCursor}]
    /\ walk \subseteq Pages

(* The provider cannot keep a request going: it is asked at most once more *)
(* than there are redirects, at another address each time, and no more of  *)
(* its body is kept than the bound.                                        *)
WorkBounded ==
    /\ redirects <= MaxRedirects /\ body <= MaxBody
    /\ pc # "idle" => Cardinality(visited) = redirects + 1

(* Whatever the provider redirects to, a request stays what the client     *)
(* asked for: the operation, its resource or an id, the page and its size. *)
RequestKept ==
    \A u \in visited :
        /\ u.home /\ u.path.op = scope.op /\ u.path.res \in Ids \cup {scope.name}
        /\ u.limit = scope.limit /\ u.param = ParamOf(scope, cursor)

(* Once the provider has named an id, no other resource is read.           *)
IdentityPinned ==
    \A u \in visited : u.path.res \in Ids => url.path.res = u.path.res

(* Both: no chain of redirects turns a request into another one.           *)
RedirectsKept == RequestKept /\ IdentityPinned

(* Every link of an answer is accepted when it is followed.                *)
LinksAccepted ==
    \A rel \in {"next", "prev"} : Accepts(scope, links[rel])

(* A client that follows next links through a numbered list never comes to *)
(* a page again, whatever the provider links to.                           *)
NoPageTwice ==
    [][scope' = scope /\ cursor' # NoCursor /\ cursor' = links.next
           /\ scope.op \in Numbered
       => Page(cursor') \notin walk]_vars

(* The inductive invariant of the proofs: a request in flight was accepted  *)
(* and has the address it asks among those it visited; a next link leads    *)
(* beyond every page of the walk.                                           *)
InFlight ==
    IF pc = "idle" THEN visited = {} /\ redirects = 0 /\ body = 0
    ELSE Accepts(scope, cursor) /\ url \in visited /\ links = NoLinks
WalkBehind ==
    scope.op \in Numbered /\ walk # {} =>
        /\ Page(cursor) \in Pages
        /\ \A p \in walk : p <= Page(cursor)
        /\ links.next # NoCursor => links.next.value > Page(cursor)
IndInv ==
    /\ TypeOK
    /\ WorkBounded
    /\ RequestKept
    /\ IdentityPinned
    /\ LinksAccepted
    /\ InFlight
    /\ WalkBehind

(* Every request is answered, even if the provider never completes a body. *)
EventuallyAnswered == pc # "idle" ~> pc = "idle"

(* The problem README.md gives for an upstream cursor parameter that is not*)
(* valid, in a cursor that belongs to the request.                         *)
UpstreamCursorIs422 ==
    cursor \notin {NoCursor, Garbled} /\ cursor.scope = scope /\ ~Accepts(scope, cursor)
        => answer = "validation_failed"
=============================================================================

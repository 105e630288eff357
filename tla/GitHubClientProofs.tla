------------------------- MODULE GitHubClientProofs -------------------------
(***************************************************************************)
(* Proofs about GitHubClient for every set of resources, ids and positions,*)
(* every number of pages and redirects and every bound on a body.          *)
(***************************************************************************)
EXTENDS GitHubClient, FiniteSetTheorems, TLAPS

---------------------------------------------------------------------------
(* The address of an accepted request is an address.                       *)
LEMMA OperationUrlType ==
    ASSUME NEW s \in Scope, NEW c \in Cursor \cup {NoCursor, Garbled}, Accepts(s, c)
    PROVE  OperationUrl(s, c) \in Url
  <1>1. ParamOf(s, c) \in Param
    <2>1. CASE c = NoCursor
      BY <2>1 DEF ParamOf, Param
    <2>2. CASE c # NoCursor
      <3>1. c \in Cursor /\ c.scope = s
        BY <2>2 DEF Accepts
      <3>2. c.value \in (IF s.op \in Numbered THEN Pages ELSE Values)
        BY <3>1 DEF Cursor
      <3> QED
        BY <2>2, <3>2 DEF ParamOf, Param
    <2> QED
      BY <2>1, <2>2
  <1>2. s.op \in Ops /\ s.name \in Names /\ s.limit \in Limits \cup {0}
    BY DEF Scope
  <1> QED
    BY <1>1, <1>2 DEF OperationUrl, Url

(* A link that is allowed becomes a cursor of the same request that leads  *)
(* on and, if it fits, is accepted when it comes back.                     *)
LEMMA LinkCursorFacts ==
    ASSUME TypeOK, InFlight, pc # "idle",
           NEW rel \in {"next", "prev"}, NEW empty \in BOOLEAN,
           NEW c \in Cursors(rel, empty), c # NoCursor
    PROVE  /\ c \in Cursor
           /\ Fits(c) => Accepts(scope, c)
           /\ scope.op \in Numbered /\ rel = "next" => c.value > Page(cursor)
  <1>1. PICK t \in Url : LinkAllowed(rel, t, empty) /\ c = LinkCursor(rel, t)
    BY DEF Cursors
  <1>2. c.scope = scope /\ c.dir = rel /\ c.value = t.param.value
    BY <1>1 DEF LinkCursor
  <1>3. t.param \in [name : {"page"}, value : Pages]
                        \cup [name : {"after", "before"}, value : Values]
    BY <1>1 DEF LinkAllowed, Url, Param
  <1>4. CASE scope.op \in Numbered
    <2>1. t.param.value \in 1 .. MaxPage /\ t.param.value \in Pages
      BY <1>1, <1>4, GitHubAssumption DEF LinkAllowed, Pages, Numbered
    <2>2. rel = "next" => t.param.value > Page(cursor)
      BY <1>1, <1>4 DEF LinkAllowed, Numbered
    <2>3. c \in Cursor
      BY <1>1, <1>4, <2>1 DEF LinkCursor, Cursor, TypeOK
    <2>4. Page(cursor) \in 1 .. MaxPage
      BY <1>4, GitHubAssumption DEF InFlight, Accepts, Page
    <2>5. Accepts(scope, c)
      BY <1>2, <1>4, <2>1, <2>2, <2>3, <2>4, NoValueAssumption DEF Accepts, Paged
    <2> QED
      BY <1>2, <2>2, <2>3, <2>5
  <1>5. CASE scope.op \notin Numbered
    <2>1. scope.op = "activity" /\ t.param.name \in {"after", "before"}
      BY <1>1, <1>5 DEF LinkAllowed
    <2>2. t.param.value \in Values
      BY <1>3, <2>1
    <2>3. c \in Cursor
      BY <1>1, <1>5, <2>2 DEF LinkCursor, Cursor, TypeOK
    <2>4. Fits(c) => Accepts(scope, c)
      BY <1>2, <1>5, <2>1, <2>3, NoValueAssumption DEF Accepts, Fits, Paged
    <2> QED
      BY <1>5, <2>3, <2>4
  <1> QED
    BY <1>4, <1>5

(* Answering ends the request; nothing of it is left but its cursors.      *)
LEMMA AnswerStep ==
    ASSUME IndInv, NEW code \in Answers, Answer(code),
           links' \in [next : Cursor \cup {NoCursor}, prev : Cursor \cup {NoCursor}],
           \A rel \in {"next", "prev"} : Accepts(scope, links'[rel]),
           scope.op \in Numbered /\ walk # {} /\ links'.next # NoCursor =>
               links'.next.value > Page(cursor)
    PROVE  IndInv'
  <1>1. TypeOK'
    BY FS_EmptySet DEF IndInv, Answer, TypeOK
  <1>2. WorkBounded' /\ RequestKept' /\ IdentityPinned' /\ InFlight'
    BY GitHubAssumption DEF Answer, WorkBounded, RequestKept, IdentityPinned, InFlight
  <1>3. LinksAccepted'
    BY DEF Answer, LinksAccepted
  <1>4. WalkBehind'
    BY DEF IndInv, Answer, WalkBehind
  <1> QED
    BY <1>1, <1>2, <1>3, <1>4 DEF IndInv

LEMMA FailStep ==
    ASSUME IndInv, NEW code \in Answers, Fail(code)
    PROVE  IndInv'
  <1>1. links' \in [next : Cursor \cup {NoCursor}, prev : Cursor \cup {NoCursor}]
    BY DEF Fail, IndInv, TypeOK
  <1>2. \A rel \in {"next", "prev"} : Accepts(scope, links'[rel])
    BY DEF Fail, IndInv, LinksAccepted
  <1>3. scope.op \in Numbered /\ walk # {} /\ links'.next # NoCursor =>
            links'.next.value > Page(cursor)
    BY DEF Fail, IndInv, WalkBehind
  <1> QED
    BY <1>1, <1>2, <1>3, AnswerStep DEF Fail

---------------------------------------------------------------------------
LEMMA InitIndInv == Init => IndInv
  <1> SUFFICES ASSUME Init PROVE IndInv
    OBVIOUS
  <1>1. TypeOK
    BY FS_EmptySet DEF Init, TypeOK, NoLinks, Answers
  <1>2. WorkBounded /\ RequestKept /\ IdentityPinned /\ InFlight /\ WalkBehind
    BY GitHubAssumption DEF Init, WorkBounded, RequestKept, IdentityPinned, InFlight, WalkBehind
  <1>3. LinksAccepted
    BY DEF Init, NoLinks, LinksAccepted, Accepts
  <1> QED
    BY <1>1, <1>2, <1>3 DEF IndInv

(* A request that is accepted asks its own address; the walk goes on or    *)
(* begins anew.                                                            *)
LEMMA RequestStep ==
    ASSUME IndInv, NEW s \in Scope, NEW c \in Cursor \cup {NoCursor, Garbled}, Request(s, c)
    PROVE  IndInv'
  <1> DEFINE u == OperationUrl(s, c)
  <1>1. links' = NoLinks /\ scope' = s /\ cursor' = c /\ redirects' = redirects /\ body' = body
    BY DEF Request
  <1>2. LinksAccepted'
    BY <1>1 DEF LinksAccepted, NoLinks, Accepts
  <1>3. links' \in [next : Cursor \cup {NoCursor}, prev : Cursor \cup {NoCursor}]
    BY <1>1 DEF NoLinks
  <1>4. CASE ~Accepts(s, c)
    <2>1. answer' = "invalid_request" /\ walk' = {} /\ UNCHANGED <<pc, url, visited>> /\ pc = "idle"
      BY <1>4 DEF Request
    <2>2. visited = {}
      BY <2>1 DEF IndInv, InFlight
    <2> QED
      BY <1>1, <1>2, <1>3, <2>1, <2>2
         DEF IndInv, TypeOK, Answers, WorkBounded, RequestKept, IdentityPinned, InFlight, WalkBehind
  <1>5. CASE Accepts(s, c)
    <2>1. /\ pc' = "send" /\ answer' = "none" /\ pc = "idle"
          /\ url' = u /\ visited' = {u} /\ walk' = Walk(s, c)
      BY <1>5 DEF Request
    <2>2. u \in Url
      BY <1>5, OperationUrlType
    <2>3. redirects = 0 /\ body = 0
      BY <2>1 DEF IndInv, InFlight
    <2>4. IsFiniteSet({u}) /\ Cardinality({u}) = 1
      BY FS_Singleton
    <2>5. Walk(s, c) \subseteq Pages /\ WalkBehind'
      <3>1. CASE s.op \in Numbered
        <4>1. Page(c) \in 1 .. MaxPage
          BY <1>5, <3>1, GitHubAssumption DEF Accepts, Page
        <4>2. Page(c) \in Pages
          BY <4>1, GitHubAssumption DEF Pages
        <4>3. ASSUME NEW p \in walk, s = scope, c # NoCursor, c = links.next
              PROVE  p <= Page(c)
          <5>1. p <= Page(cursor) /\ Page(cursor) < Page(c) /\ Page(cursor) \in Pages
            BY <3>1, <4>3 DEF IndInv, WalkBehind, Page
          <5> QED
            BY <4>1, <4>3, <5>1, GitHubAssumption DEF IndInv, TypeOK, Pages
        <4>4. Walk(s, c) \subseteq Pages /\ \A p \in Walk(s, c) : p <= Page(c)
          BY <3>1, <4>1, <4>2, <4>3 DEF Walk, IndInv, TypeOK
        <4> QED
          BY <1>1, <2>1, <4>2, <4>4 DEF WalkBehind, NoLinks
      <3>2. CASE s.op \notin Numbered
        BY <1>1, <2>1, <3>2 DEF Walk, WalkBehind
      <3> QED
        BY <3>1, <3>2
    <2>6. TypeOK'
      BY <1>1, <1>3, <2>1, <2>2, <2>4, <2>5 DEF IndInv, TypeOK, Answers
    <2>7. WorkBounded'
      BY <1>1, <2>1, <2>3, <2>4, GitHubAssumption DEF WorkBounded
    <2>8. RequestKept' /\ IdentityPinned' /\ InFlight'
      BY <1>1, <1>5, <2>1 DEF RequestKept, IdentityPinned, InFlight, OperationUrl
    <2> QED
      BY <1>2, <2>5, <2>6, <2>7, <2>8 DEF IndInv
  <1> QED
    BY <1>4, <1>5

(* A redirect that is followed is a new address of the same request, and   *)
(* of the same id once there is one.                                       *)
LEMMA FollowStep ==
    ASSUME IndInv, pc # "idle", NEW t \in Url, Follow(t),
           redirects < MaxRedirects, RedirectAllowed(t), t \notin visited
    PROVE  IndInv'
  <1>1. /\ url' = t /\ visited' = visited \cup {t} /\ redirects' = redirects + 1
        /\ UNCHANGED <<pc, scope, cursor, body, answer, links, walk>>
    BY DEF Follow
  <1>2. TypeOK'
    BY <1>1, FS_AddElement DEF IndInv, TypeOK
  <1>3. WorkBounded'
    <2>1. Cardinality(visited \cup {t}) = Cardinality(visited) + 1
      BY FS_AddElement DEF IndInv, TypeOK
    <2> QED
      BY <1>1, <2>1, GitHubAssumption DEF IndInv, TypeOK, WorkBounded
  <1>4. RequestKept'
    BY <1>1 DEF IndInv, RequestKept, RedirectAllowed, Target, ParamOf
  <1>5. IdentityPinned'
    <2>1. ASSUME NEW v \in visited, v.path.res \in Ids PROVE t.path.res = v.path.res
      <3>1. url.path.res = v.path.res
        BY <2>1 DEF IndInv, IdentityPinned
      <3>2. scope.name \notin Ids
        BY GitHubAssumption DEF IndInv, TypeOK, Scope
      <3> QED
        BY <2>1, <3>1, <3>2 DEF RedirectAllowed, Target
    <2> QED
      BY <1>1, <2>1 DEF IdentityPinned
  <1>6. LinksAccepted' /\ InFlight' /\ WalkBehind'
    BY <1>1 DEF IndInv, LinksAccepted, InFlight, WalkBehind, Accepts, Page
  <1> QED
    BY <1>2, <1>3, <1>4, <1>5, <1>6 DEF IndInv

LEMMA PageReadStep ==
    ASSUME IndInv, PageRead
    PROVE  IndInv'
  <1>0. PICK empty \in BOOLEAN :
            \E n \in Cursors("next", empty), p \in Cursors("prev", empty) :
                \/ Fits(n) /\ Fits(p) /\ Answer("ok") /\ links' = [next |-> n, prev |-> p]
                \/ Fail("github_upstream")
    BY DEF PageRead
  <1>1. PICK n \in Cursors("next", empty), p \in Cursors("prev", empty) :
            \/ Fits(n) /\ Fits(p) /\ Answer("ok") /\ links' = [next |-> n, prev |-> p]
            \/ Fail("github_upstream")
    BY <1>0
  <1>2. TypeOK /\ InFlight /\ pc # "idle"
    BY DEF PageRead, IndInv
  <1>3. CASE Fits(n) /\ Fits(p) /\ Answer("ok") /\ links' = [next |-> n, prev |-> p]
    <2>1. n # NoCursor =>
              /\ n \in Cursor /\ Accepts(scope, n)
              /\ scope.op \in Numbered => n.value > Page(cursor)
      BY <1>2, <1>3, LinkCursorFacts
    <2>2. p # NoCursor => p \in Cursor /\ Accepts(scope, p)
      BY <1>2, <1>3, LinkCursorFacts
    <2>3. Accepts(scope, NoCursor)
      BY DEF Accepts
    <2>4. "ok" \in Answers
      BY DEF Answers
    <2>5. links' \in [next : Cursor \cup {NoCursor}, prev : Cursor \cup {NoCursor}]
      BY <1>3, <2>1, <2>2
    <2>6. \A rel \in {"next", "prev"} : Accepts(scope, links'[rel])
      BY <1>3, <2>1, <2>2, <2>3
    <2>7. scope.op \in Numbered /\ walk # {} /\ links'.next # NoCursor =>
              links'.next.value > Page(cursor)
      BY <1>3, <2>1
    <2> QED
      BY <1>3, <2>4, <2>5, <2>6, <2>7, AnswerStep
  <1>4. CASE Fail("github_upstream")
    BY <1>4, FailStep DEF Answers
  <1> QED
    BY <1>1, <1>3, <1>4

LEMMA NextIndInv == IndInv /\ [Next]_vars => IndInv'
  <1> SUFFICES ASSUME IndInv, [Next]_vars PROVE IndInv'
    OBVIOUS
  <1> USE DEF Answers
  <1>1. ASSUME NEW s \in Scope, NEW c \in Cursor \cup {NoCursor, Garbled}, Request(s, c)
        PROVE  IndInv'
    BY <1>1, RequestStep
  <1>2. CASE Malformed
    <2>1. visited = {} /\ redirects = 0 /\ body = 0
      BY <1>2 DEF Malformed, IndInv, InFlight
    <2>2. LinksAccepted'
      BY <1>2 DEF Malformed, LinksAccepted, NoLinks, Accepts
    <2> QED
      BY <1>2, <2>1, <2>2 DEF Malformed, NoLinks, IndInv, TypeOK, WorkBounded, RequestKept,
         IdentityPinned, InFlight, WalkBehind
  <1>3. ASSUME NEW t \in Url \cup {NoUrl}, Redirected(t) PROVE IndInv'
    <2>1. CASE Fail("github_upstream")
      BY <2>1, FailStep
    <2>2. CASE /\ t # NoUrl /\ redirects < MaxRedirects
               /\ RedirectAllowed(t) /\ t \notin visited /\ Follow(t)
      BY <1>3, <2>2, FollowStep DEF Redirected
    <2> QED
      BY <1>3, <2>1, <2>2 DEF Redirected
  <1>4. CASE Refused
    BY <1>4, FailStep DEF Refused
  <1>5. CASE Headers
    BY <1>5 DEF Headers, IndInv, TypeOK, WorkBounded, RequestKept, IdentityPinned,
       LinksAccepted, InFlight, WalkBehind, Accepts, ParamOf, Page
  <1>6. ASSUME NEW n \in Chunks, Chunk(n) PROVE IndInv'
    <2>1. CASE Fail("github_upstream")
      BY <2>1, FailStep
    <2>2. CASE /\ body + n <= MaxBody /\ body' = body + n
               /\ UNCHANGED <<pc, scope, cursor, url, visited, redirects, answer, links, walk>>
      <3>1. body' \in Nat
        BY <2>2, GitHubAssumption DEF IndInv, TypeOK
      <3>2. pc # "idle"
        BY <1>6 DEF Chunk
      <3> QED
        BY <2>2, <3>1, <3>2 DEF IndInv, TypeOK, WorkBounded, RequestKept, IdentityPinned,
           LinksAccepted, InFlight, WalkBehind, Accepts, ParamOf, Page
    <2> QED
      BY <1>6, <2>1, <2>2 DEF Chunk
  <1>7. CASE PageRead
    BY <1>7, PageReadStep
  <1>8. CASE PageRefused
    BY <1>8, FailStep DEF PageRefused
  <1>9. CASE Deadline
    BY <1>9, FailStep DEF Deadline
  <1>10. CASE UNCHANGED vars
    BY <1>10 DEF vars, IndInv, TypeOK, WorkBounded, RequestKept, IdentityPinned,
       LinksAccepted, InFlight, WalkBehind, Accepts, ParamOf, Page
  <1> QED
    BY <1>1, <1>2, <1>3, <1>4, <1>5, <1>6, <1>7, <1>8, <1>9, <1>10 DEF Next

---------------------------------------------------------------------------
(* The inductive invariant holds in every reachable state.                 *)
THEOREM Invariance == Spec => []IndInv
  BY InitIndInv, NextIndInv, PTL DEF Spec

(* Every variable keeps its type, and every answer is one of the contract. *)
THEOREM TypeCorrect == Spec => []TypeOK
  <1>1. IndInv => TypeOK
    BY DEF IndInv
  <1> QED
    BY Invariance, <1>1, PTL

(* send_terminal asks the provider at most MAX_REDIRECTS + 1 times, never  *)
(* twice at one address, and read_success_body keeps no more than its bound*)
THEOREM RequestsBounded == Spec => []WorkBounded
  <1>1. IndInv => WorkBounded
    BY DEF IndInv
  <1> QED
    BY Invariance, <1>1, PTL

(* validate_redirect keeps a request on its operation, resource and page,  *)
(* and on one id once the provider has named one.                          *)
THEOREM RedirectsKeepRequest == Spec => []RedirectsKept
  <1>1. IndInv => RedirectsKept
    BY DEF IndInv, RedirectsKept
  <1> QED
    BY Invariance, <1>1, PTL

(* Cursors given out by paged_response come back as valid requests.        *)
THEOREM LinksComeBack == Spec => []LinksAccepted
  <1>1. IndInv => LinksAccepted
    BY DEF IndInv
  <1> QED
    BY Invariance, <1>1, PTL

(* Numbered navigation ends: no page is asked for twice in a walk.         *)
THEOREM WalksAdvance == Spec => NoPageTwice
  <1> DEFINE New == scope' = scope /\ cursor' # NoCursor /\ cursor' = links.next
                        /\ scope.op \in Numbered
                    => Page(cursor') \notin walk
  <1>1. ASSUME IndInv PROVE New
    <2> SUFFICES ASSUME cursor' # NoCursor, cursor' = links.next, scope.op \in Numbered,
                        Page(cursor') \in walk
                 PROVE  FALSE
      OBVIOUS
    <2>1. /\ Page(cursor') <= Page(cursor) /\ Page(cursor') > Page(cursor)
          /\ Page(cursor) \in Pages
      BY <1>1 DEF IndInv, WalkBehind, Page
    <2>2. Page(cursor') \in Pages
      BY <1>1 DEF IndInv, TypeOK
    <2> QED
      BY <2>1, <2>2, GitHubAssumption DEF Pages
  <1>2. IndInv => [New]_vars
    BY <1>1
  <1> QED
    BY Invariance, <1>2, PTL DEF NoPageTwice
=============================================================================

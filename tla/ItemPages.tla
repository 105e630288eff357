----------------------------- MODULE ItemPages -----------------------------
(***************************************************************************)
(* The item list: paginate over the filtered catalogue, behind its handler,*)
(* and a client that follows links or sends any cursor. The server keeps   *)
(* nothing between requests; whether a walk reads every item once is       *)
(* decided by the cursors alone.                                           *)
(***************************************************************************)
EXTENDS Integers, FiniteSets, Sequences

CONSTANTS
    Size,        \* the number of items in the catalogue
    Categories,  \* ALLOWED_CATEGORIES
    CategoryOf,  \* the category of every item
    Limits,      \* the page sizes
    DefaultLimit,\* DEFAULT_LIMIT
    NoLimit, All,\* no limit, no category in the query
    Unknown,     \* an id that no item has
    NoCursor, Garbled, NoLink

(* Ids are distinct, so that an item is its place in the catalogue. Pages  *)
(* are shown in that order; a set of items says all about them.            *)
Items == 1 .. Size

ASSUME CatalogueAssumption ==
    /\ Size \in Nat /\ CategoryOf \in [Items -> Categories]
    /\ Limits \subseteq Nat \ {0} /\ DefaultLimit \in Limits
    /\ Unknown \notin Items /\ NoLimit \notin Limits /\ All \notin Categories

Query == [category : Categories \cup {All}, limit : Limits \cup {NoLimit}]
Scope == [category : Categories \cup {All}, limit : Limits]
Cursor == [scope : Scope, dir : {"next", "prev"}, value : Items \cup {Unknown}]
Link == [query : Query, cursor : Cursor]

ASSUME NoCursorAssumption ==
    NoCursor \notin Cursor /\ Garbled \notin Cursor /\ NoCursor # Garbled /\ NoLink \notin Link

VARIABLES
    answer,  \* the problem code, or ok
    scope,   \* the scope of the last request
    cursor,  \* its cursor
    page,    \* the items it showed
    links,   \* the links it gave
    walk     \* history: the pages read by following links from the first page; empty when lost

vars == <<answer, scope, cursor, page, links, walk>>

NoLinks == [next |-> NoLink, prev |-> NoLink]

---------------------------------------------------------------------------
Resolve(q) == [category |-> q.category,
               limit |-> IF q.limit = NoLimit THEN DefaultLimit ELSE q.limit]

Filtered(s) == {i \in Items : s.category \in {All, CategoryOf[i]}}
Total(s) == Cardinality(Filtered(s))
Index(s, i) == Cardinality({j \in Filtered(s) : j < i})

BelongsTo(c, s) == c.scope = s
Accepts(s, c) == c # NoCursor => c # Garbled /\ BelongsTo(c, s) /\ c.value \in Filtered(s)

StartAtAnchor(s, c) ==                                         \* mutant
    IF c = NoCursor THEN 0
    ELSE IF c.dir = "next" THEN Index(s, c.value)
    ELSE IF Index(s, c.value) < s.limit THEN 0 ELSE Index(s, c.value) - s.limit
StartOneEarly(s, c) ==                                         \* mutant
    IF c = NoCursor THEN 0
    ELSE IF c.dir = "next" THEN Index(s, c.value) + 1
    ELSE IF Index(s, c.value) <= s.limit THEN 0 ELSE Index(s, c.value) - s.limit - 1
Start(s, c) ==
    IF c = NoCursor THEN 0
    ELSE IF c.dir = "next" THEN Index(s, c.value) + 1
    ELSE IF Index(s, c.value) < s.limit THEN 0 ELSE Index(s, c.value) - s.limit

End(s, c) == IF Start(s, c) + s.limit < Total(s) THEN Start(s, c) + s.limit ELSE Total(s)

Slice(s, from, to) == {i \in Filtered(s) : from <= Index(s, i) /\ Index(s, i) < to}

First(p) == CHOOSE i \in p : \A j \in p : i <= j
Last(p) == CHOOSE i \in p : \A j \in p : j <= i

(* A link repeats the filter and the limit of the request.                 *)
LinkToAll(s, dir, i) ==                                        \* mutant
    [query |-> [category |-> All, limit |-> s.limit],
     cursor |-> [scope |-> s, dir |-> dir, value |-> i]]
LinkTo(s, dir, i) ==
    [query |-> s, cursor |-> [scope |-> s, dir |-> dir, value |-> i]]
LinksOf(s, c, p) ==
    [next |-> IF End(s, c) < Total(s) /\ p # {} THEN LinkTo(s, "next", Last(p)) ELSE NoLink,
     prev |-> IF Start(s, c) > 0 /\ p # {} THEN LinkTo(s, "prev", First(p)) ELSE NoLink]

---------------------------------------------------------------------------
Init ==
    /\ answer = "none"
    /\ scope \in Scope /\ cursor = NoCursor
    /\ page = {} /\ links = NoLinks /\ walk = <<>>

Fail(code) == answer' = code /\ page' = {} /\ links' = NoLinks /\ walk' = <<>>

(* A query that is not closed, a limit or a category outside the contract. *)
Malformed ==
    /\ \E code \in {"invalid_request", "validation_failed"} : Fail(code)
    /\ cursor' = NoCursor
    /\ UNCHANGED scope

Follows(rel, q, c) == links[rel] # NoLink /\ q = links[rel].query /\ c = links[rel].cursor

(* The walk of a client. Going back it drops the page it was on and reads  *)
(* the one before again.                                                   *)
Walk(q, c, p) ==
    IF c = NoCursor THEN <<p>>
    ELSE IF walk = <<>> THEN <<>>
    ELSE IF Follows("next", q, c) THEN Append(walk, p)
    ELSE IF Follows("prev", q, c) /\ Len(walk) > 1
         THEN Append(SubSeq(walk, 1, Len(walk) - 2), p)
    ELSE <<>>

(* A request whose query is well formed. A slice outside the list panics.  *)
List(q, c) ==
    LET s == Resolve(q)
        p == Slice(s, Start(s, c), End(s, c))
    IN  /\ scope' = s /\ cursor' = c
        /\ \/ /\ Accepts(s, c) /\ Start(s, c) <= End(s, c)
              /\ answer' = "ok" /\ page' = p /\ links' = LinksOf(s, c, p)
              /\ walk' = Walk(q, c, p)
           \/ ~Accepts(s, c) /\ Fail("invalid_request")
           \/ Accepts(s, c) /\ Start(s, c) > End(s, c) /\ Fail("internal_error")

Next ==
    \/ Malformed
    \/ \E q \in Query, c \in Cursor \cup {NoCursor, Garbled} : List(q, c)

Spec == Init /\ [][Next]_vars

---------------------------------------------------------------------------
(* No request makes the server panic: internal_error is no answer.         *)
TypeOK ==
    /\ answer \in {"none", "ok", "invalid_request", "validation_failed"}
    /\ scope \in Scope /\ cursor \in Cursor \cup {NoCursor, Garbled}
    /\ page \subseteq Items
    /\ links \in [next : Link \cup {NoLink}, prev : Link \cup {NoLink}]
    /\ walk \in Seq(SUBSET Items)

(* A client that follows links from the first page has read, whichever way *)
(* it turned on its way, every item up to the page it is on exactly once,  *)
(* in order, in full pages; without a next link it has read all of them.   *)
WalkReadsOnce ==
    /\ \A k, m \in DOMAIN walk : k < m =>
           \A i \in walk[k], j \in walk[m] : i < j
    /\ \A i \in Filtered(scope), k \in DOMAIN walk :
           (\E j \in walk[k] : i <= j) => \E m \in DOMAIN walk : i \in walk[m]
    /\ \A k \in DOMAIN walk : k < Len(walk) => Cardinality(walk[k]) = scope.limit
    /\ walk # <<>> /\ links.next = NoLink =>
           UNION {walk[k] : k \in DOMAIN walk} = Filtered(scope)

(* Going back shows the page the client came from, also when the last page *)
(* was a short one.                                                        *)
BackRetraces ==
    [][Len(walk) > 0 /\ cursor' # NoCursor /\ Follows("prev", scope', cursor')
       => Len(walk) > 1 /\ page' = walk[Len(walk) - 1]]_vars

(* A link of any page, also of one shown for a cursor the client made up,  *)
(* is accepted and leads to a page that adjoins or overlaps this one and   *)
(* goes beyond it: nothing between the two is left out.                    *)
Between(a, b) == {i \in Filtered(scope) : (\E j \in a : j <= i) /\ (\E j \in b : i <= j)}
LinksAdjoin ==
    [][/\ cursor' # NoCursor /\ Follows("next", scope', cursor') =>
             /\ page' # {} /\ \A i \in page, j \in page' : i < j
             /\ Between(page, page') \subseteq page \cup page'
       /\ cursor' # NoCursor /\ Follows("prev", scope', cursor') =>
             /\ \E j \in page' : \A i \in page : j < i
             /\ Between(page', page) \subseteq page \cup page'
      ]_vars

(* The inductive invariant of the proofs: the pages of a walk are cut from *)
(* the list at multiples of the limit; the links of a page, wherever it was*)
(* cut, hold its ends.                                                     *)
WalkAligned ==
    walk # <<>> =>
        /\ \A k \in DOMAIN walk :
               walk[k] = Slice(scope, (k - 1) * scope.limit, k * scope.limit)
        /\ page = walk[Len(walk)]
        /\ Len(walk) > 1 => (Len(walk) - 1) * scope.limit < Total(scope)
        /\ links.next = NoLink => Len(walk) * scope.limit >= Total(scope)
LinksOfPage ==
    links # NoLinks => \E from, to \in 0 .. Total(scope) :
        /\ from < to /\ page = Slice(scope, from, to)
        /\ links.next # NoLink => to < Total(scope) /\ links.next = LinkTo(scope, "next", Last(page))
        /\ links.prev # NoLink => from > 0 /\ links.prev = LinkTo(scope, "prev", First(page))
IndInv == TypeOK /\ WalkAligned /\ LinksOfPage
=============================================================================

-------------------------- MODULE ItemPagesProofs --------------------------
(***************************************************************************)
(* Proofs about ItemPages for every catalogue, every filter and every page *)
(* size.                                                                   *)
(***************************************************************************)
EXTENDS ItemPages, FiniteSetTheorems, FunctionTheorems, SequenceTheorems, TLAPS

---------------------------------------------------------------------------
(* Pages are cut from a list: the places of the filtered items are exactly *)
(* the numbers below its length, in the catalogue's order.                 *)
LEMMA ListFinite ==
    ASSUME NEW s, NEW T, T \subseteq Filtered(s)
    PROVE  IsFiniteSet(T) /\ Cardinality(T) \in Nat
  <1>1. IsFiniteSet(Items)
    BY FS_Interval, CatalogueAssumption DEF Items
  <1>2. T \in SUBSET Items
    BY DEF Filtered
  <1> QED
    BY <1>1, <1>2, FS_Subset, FS_CardinalityType

LEMMA IndexOrder ==
    ASSUME NEW s, NEW i \in Filtered(s), NEW j \in Filtered(s), i < j
    PROVE  Index(s, i) < Index(s, j)
  <1> DEFINE I == {m \in Filtered(s) : m < i}
             J == {m \in Filtered(s) : m < j}
  <1>1. IsFiniteSet(I) /\ IsFiniteSet(J) /\ Cardinality(I) \in Nat /\ Cardinality(J) \in Nat
    BY ListFinite
  <1>2. i \in Int /\ j \in Int /\ \A m \in Filtered(s) : m \in Int
    BY DEF Filtered, Items
  <1>3. I \cup {i} \subseteq J /\ i \notin I
    <2>1. \A m \in I : m \in J
      BY <1>2
    <2>2. i \in J /\ i \notin I
      BY <1>2
    <2> QED
      BY <2>1, <2>2
  <1>4. IsFiniteSet(I \cup {i}) /\ Cardinality(I \cup {i}) = Cardinality(I) + 1
    BY <1>1, <1>3, FS_AddElement
  <1>5. Cardinality(I \cup {i}) <= Cardinality(J)
    BY <1>1, <1>3, FS_Subset
  <1> QED
    BY <1>1, <1>4, <1>5 DEF Index

LEMMA IndexRange ==
    ASSUME NEW s, NEW i \in Filtered(s)
    PROVE  Index(s, i) \in 0 .. Total(s) - 1
  <1> DEFINE I == {m \in Filtered(s) : m < i}
  <1>1. IsFiniteSet(I) /\ Cardinality(I) \in Nat /\ Total(s) \in Nat
    BY ListFinite DEF Total
  <1>2. i \in Int
    BY DEF Filtered, Items
  <1>3. I \cup {i} \subseteq Filtered(s) /\ i \notin I
    BY <1>2
  <1>4. Cardinality(I \cup {i}) = Cardinality(I) + 1
    BY <1>1, <1>3, FS_AddElement
  <1>5. Cardinality(I \cup {i}) <= Total(s)
    BY <1>3, ListFinite, FS_Subset DEF Total
  <1> QED
    BY <1>1, <1>4, <1>5 DEF Index

LEMMA IndexInjective ==
    ASSUME NEW s, NEW i \in Filtered(s), NEW j \in Filtered(s)
    PROVE  /\ Index(s, i) = Index(s, j) => i = j
           /\ Index(s, i) < Index(s, j) <=> i < j
  <1>1. i \in Int /\ j \in Int
    BY DEF Filtered, Items
  <1>2. Index(s, i) \in Int /\ Index(s, j) \in Int
    BY IndexRange
  <1>3. i < j => Index(s, i) < Index(s, j)
    BY IndexOrder
  <1>4. j < i => Index(s, j) < Index(s, i)
    BY IndexOrder
  <1> QED
    BY <1>1, <1>2, <1>3, <1>4

LEMMA IndexOnto ==
    ASSUME NEW s, NEW n \in 0 .. Total(s) - 1
    PROVE  \E i \in Filtered(s) : Index(s, i) = n
  <1> DEFINE f == [i \in Filtered(s) |-> Index(s, i)]
             R == 0 .. Total(s) - 1
  <1>1. f \in [Filtered(s) -> R]
    BY IndexRange
  <1>2. f \in Injection(Filtered(s), R)
    <2>1. \A a, b \in Filtered(s) : f[a] = f[b] => a = b
      BY IndexInjective
    <2> HIDE DEF f
    <2> QED
      BY <1>1, <2>1, Fun_IsInj
  <1>3. Total(s) \in Nat
    BY ListFinite DEF Total
  <1>4. IsFiniteSet(R) /\ Cardinality(R) = Total(s)
    BY <1>3, FS_Interval
  <1>5. f \in Surjection(Filtered(s), R)
    <2> HIDE DEF f, R
    <2> QED
      BY <1>2, <1>4, FS_Injection DEF Total
  <1>6. \E i \in Filtered(s) : f[i] = n
    <2>1. n \in R
      OBVIOUS
    <2> HIDE DEF f, R
    <2> QED
      BY <1>5, <2>1, Fun_SurjectionProperties
  <1> QED
    BY <1>6

(* The ends of a page, and its size.                                       *)
LEMMA SliceEnds ==
    ASSUME NEW s, NEW a \in Nat, NEW b \in Nat, a < b, b <= Total(s)
    PROVE  /\ Slice(s, a, b) # {}
           /\ First(Slice(s, a, b)) \in Slice(s, a, b) /\ Index(s, First(Slice(s, a, b))) = a
           /\ Last(Slice(s, a, b)) \in Slice(s, a, b) /\ Index(s, Last(Slice(s, a, b))) = b - 1
  <1> DEFINE p == Slice(s, a, b)
  <1>0. Total(s) \in Nat
    BY ListFinite DEF Total
  <1>1. PICK i \in Filtered(s) : Index(s, i) = a
    BY <1>0, IndexOnto
  <1>2. PICK j \in Filtered(s) : Index(s, j) = b - 1
    BY <1>0, IndexOnto
  <1>3. i \in p /\ j \in p
    BY <1>1, <1>2 DEF Slice
  <1>4. \A m \in p : /\ m \in Filtered(s) /\ m \in Int
                     /\ Index(s, m) \in Int /\ a <= Index(s, m) /\ Index(s, m) <= b - 1
    BY <1>0, IndexRange DEF Slice, Filtered, Items
  <1>5. \A m \in p : i <= m /\ m <= j
    BY <1>1, <1>2, <1>3, <1>4, IndexInjective
  <1>6. First(p) = i
    <2>1. \A x \in p : (\A y \in p : x <= y) => x = i
      BY <1>3, <1>4, <1>5
    <2> HIDE DEF p
    <2> QED
      BY <1>3, <1>5, <2>1 DEF First
  <1>7. Last(p) = j
    <2>1. \A x \in p : (\A y \in p : y <= x) => x = j
      BY <1>3, <1>4, <1>5
    <2> HIDE DEF p
    <2> QED
      BY <1>3, <1>5, <2>1 DEF Last
  <1> QED
    BY <1>1, <1>2, <1>3, <1>6, <1>7

LEMMA SliceSize ==
    ASSUME NEW s, NEW a \in Nat, NEW b \in Nat, a <= b, b <= Total(s)
    PROVE  Cardinality(Slice(s, a, b)) = b - a
  <1> DEFINE p == Slice(s, a, b)
             f == [i \in p |-> Index(s, i)]
             R == a .. b - 1
  <1>0. Total(s) \in Nat
    BY ListFinite DEF Total
  <1>1. p \subseteq Filtered(s) /\ f \in [p -> R]
    BY <1>0, IndexRange DEF Slice
  <1>2. \A x, y \in p : f[x] = f[y] => x = y
    BY <1>1, IndexInjective
  <1>3. \A n \in R : \E x \in p : f[x] = n
    <2>1. SUFFICES ASSUME NEW n \in R PROVE \E x \in p : f[x] = n
      OBVIOUS
    <2>2. PICK x \in Filtered(s) : Index(s, x) = n
      BY <1>0, IndexOnto
    <2>3. x \in p
      BY <2>2 DEF Slice
    <2> QED
      BY <2>2, <2>3
  <1>4. f \in Bijection(p, R)
    <2> HIDE DEF f, p, R
    <2> QED
      BY <1>1, <1>2, <1>3, Fun_IsBij
  <1>5. ExistsBijection(p, R)
    <2> HIDE DEF f, p, R
    <2> QED
      BY <1>4, Fun_ExistsBij
  <1>6. IsFiniteSet(p)
    BY <1>1, ListFinite
  <1>7. Cardinality(R) = Cardinality(p)
    <2> HIDE DEF p, R
    <2> QED
      BY <1>5, <1>6, FS_Bijection
  <1>8. Cardinality(R) = b - a
    <2>1. a \in Int /\ b - 1 \in Int /\ (a > b - 1 => b - a = 0)
      OBVIOUS
    <2>2. Cardinality(a .. b - 1) = IF a > b - 1 THEN 0 ELSE b - 1 - a + 1
      BY <2>1, FS_Interval
    <2> QED
      BY <2>1, <2>2
  <1> QED
    BY <1>7, <1>8

(* Beyond the end of the list there is nothing to cut off.                 *)
LEMMA SliceClipped ==
    ASSUME NEW s, NEW a \in Nat, NEW b \in Nat, b >= Total(s)
    PROVE  Slice(s, a, b) = Slice(s, a, Total(s))
  <1>1. Total(s) \in Nat
    BY ListFinite DEF Total
  <1>2. \A i \in Filtered(s) : Index(s, i) \in Int /\ Index(s, i) < Total(s)
    BY <1>1, IndexRange
  <1> QED
    BY <1>1, <1>2 DEF Slice

---------------------------------------------------------------------------
(* A well-formed request shows a page cut from the list of its scope, never*)
(* one outside it, and gives links to go on from its ends.                 *)
LEMMA ScopeOfQuery ==
    ASSUME NEW q \in Query
    PROVE  /\ Resolve(q) \in Scope
           /\ q \in Scope => Resolve(q) = q
  BY CatalogueAssumption DEF Resolve, Query, Scope

LEMMA PageBounds ==
    ASSUME NEW s \in Scope, NEW c \in Cursor \cup {NoCursor, Garbled}, Accepts(s, c)
    PROVE  /\ Total(s) \in Nat /\ s.limit \in Nat \ {0}
           /\ Start(s, c) \in Nat /\ End(s, c) \in Nat
           /\ Start(s, c) <= End(s, c) /\ End(s, c) <= Total(s)
           /\ Start(s, c) = End(s, c) => Start(s, c) = Total(s)
           /\ End(s, c) < Total(s) => End(s, c) = Start(s, c) + s.limit
           /\ End(s, c) = Total(s) => Start(s, c) + s.limit >= Total(s)
  <1>1. Total(s) \in Nat
    BY ListFinite DEF Total
  <1>2. s.limit \in Nat /\ s.limit > 0
    <2>1. s.limit \in Limits
      BY DEF Scope
    <2>2. Limits \subseteq Nat \ {0}
      BY CatalogueAssumption
    <2>3. s.limit \in Nat /\ s.limit # 0
      BY <2>1, <2>2
    <2> QED
      BY <2>3
  <1>3. c # NoCursor => Index(s, c.value) \in 0 .. Total(s) - 1
    BY IndexRange DEF Accepts
  <1>4. Start(s, c) \in Nat /\ Start(s, c) <= Total(s)
    BY <1>1, <1>2, <1>3 DEF Start
  <1> QED
    BY <1>1, <1>2, <1>4 DEF End

LEMMA LinkTyped ==
    ASSUME NEW s \in Scope, NEW dir \in {"next", "prev"}, NEW i \in Items
    PROVE  LinkTo(s, dir, i) \in Link
  BY DEF LinkTo, Link, Cursor, Scope, Query

LEMMA PageLinks ==
    ASSUME NEW s \in Scope, NEW c \in Cursor \cup {NoCursor, Garbled}, Accepts(s, c),
           NEW p, p = Slice(s, Start(s, c), End(s, c))
    PROVE  /\ p \subseteq Items
           /\ LinksOf(s, c, p) \in [next : Link \cup {NoLink}, prev : Link \cup {NoLink}]
           /\ p # {} => Start(s, c) < End(s, c)
  <1>1. p \subseteq Items
    BY DEF Slice, Filtered
  <1>2. p # {} => Start(s, c) < End(s, c)
    <2>1. CASE Start(s, c) = End(s, c)
      <3>1. \A i \in p : Start(s, c) <= Index(s, i) /\ Index(s, i) < Start(s, c) /\ Index(s, i) \in Int
        BY <2>1, PageBounds, IndexRange DEF Slice
      <3> QED
        BY <3>1, PageBounds
    <2> QED
      BY <2>1, PageBounds
  <1>3. p # {} => First(p) \in Items /\ Last(p) \in Items
    <2>1. SUFFICES ASSUME p # {} PROVE First(p) \in p /\ Last(p) \in p
      BY <1>1
    <2> QED
      BY <2>1, <1>2, PageBounds, SliceEnds
  <1> QED
    BY <1>1, <1>2, <1>3, LinkTyped DEF LinksOf

(* Where a link leads that holds the end of a page.                        *)
LEMMA FollowNext ==
    ASSUME NEW s \in Scope, NEW a \in Nat, NEW b \in Nat, a < b, b < Total(s),
           NEW c, c = LinkTo(s, "next", Last(Slice(s, a, b))).cursor
    PROVE  c \in Cursor /\ Accepts(s, c) /\ Start(s, c) = b
  <1>1. Total(s) \in Nat
    BY ListFinite DEF Total
  <1>2. Last(Slice(s, a, b)) \in Filtered(s) /\ Index(s, Last(Slice(s, a, b))) = b - 1
    <2>1. Slice(s, a, b) \subseteq Filtered(s)
      BY DEF Slice
    <2> QED
      BY <1>1, <2>1, SliceEnds
  <1>3. c = [scope |-> s, dir |-> "next", value |-> Last(Slice(s, a, b))]
    BY DEF LinkTo
  <1>4. c \in Cursor
    BY <1>2, <1>3 DEF Cursor, Filtered
  <1> QED
    BY <1>2, <1>3, <1>4, NoCursorAssumption DEF Accepts, BelongsTo, Start

LEMMA FollowPrev ==
    ASSUME NEW s \in Scope, NEW a \in Nat, NEW b \in Nat, a < b, b <= Total(s),
           NEW c, c = LinkTo(s, "prev", First(Slice(s, a, b))).cursor
    PROVE  /\ c \in Cursor /\ Accepts(s, c)
           /\ Start(s, c) = IF a < s.limit THEN 0 ELSE a - s.limit
  <1>1. Total(s) \in Nat
    BY ListFinite DEF Total
  <1>2. First(Slice(s, a, b)) \in Filtered(s) /\ Index(s, First(Slice(s, a, b))) = a
    <2>1. Slice(s, a, b) \subseteq Filtered(s)
      BY DEF Slice
    <2> QED
      BY <1>1, <2>1, SliceEnds
  <1>3. c = [scope |-> s, dir |-> "prev", value |-> First(Slice(s, a, b))]
    BY DEF LinkTo
  <1>4. c \in Cursor
    BY <1>2, <1>3 DEF Cursor, Filtered
  <1> QED
    BY <1>2, <1>3, <1>4, NoCursorAssumption DEF Accepts, BelongsTo, Start

(* Following a link of the page shown.                                     *)
LEMMA Followed ==
    ASSUME IndInv, NEW q \in Query, NEW c \in Cursor \cup {NoCursor, Garbled},
           NEW rel \in {"next", "prev"}, Follows(rel, q, c)
    PROVE  /\ Resolve(q) = scope /\ c \in Cursor /\ Accepts(scope, c)
           /\ \E from, to \in 0 .. Total(scope) :
                  /\ from < to /\ page = Slice(scope, from, to)
                  /\ rel = "next" => to < Total(scope) /\ Start(scope, c) = to
                  /\ rel = "prev" =>
                        /\ from > 0
                        /\ Start(scope, c) = IF from < scope.limit THEN 0 ELSE from - scope.limit
  <1>1. links # NoLinks
    BY DEF Follows, NoLinks
  <1>2. PICK from \in 0 .. Total(scope), to \in 0 .. Total(scope) :
            /\ from < to /\ page = Slice(scope, from, to)
            /\ links.next # NoLink =>
                  to < Total(scope) /\ links.next = LinkTo(scope, "next", Last(page))
            /\ links.prev # NoLink => from > 0 /\ links.prev = LinkTo(scope, "prev", First(page))
    BY <1>1 DEF IndInv, LinksOfPage
  <1>3. scope \in Scope /\ Total(scope) \in Nat
    BY ListFinite DEF IndInv, TypeOK, Total
  <1>4. CASE rel = "next"
    <2>1. to < Total(scope) /\ links.next = LinkTo(scope, "next", Last(page))
      BY <1>2, <1>4 DEF Follows
    <2>2. q = scope /\ c = LinkTo(scope, "next", Last(page)).cursor
      BY <1>4, <2>1 DEF Follows, LinkTo
    <2>3. Resolve(q) = scope
      BY <1>3, <2>2, ScopeOfQuery
    <2>4. c \in Cursor /\ Accepts(scope, c) /\ Start(scope, c) = to
      BY <1>2, <1>3, <2>1, <2>2, FollowNext
    <2> QED
      BY <1>2, <1>4, <2>1, <2>3, <2>4
  <1>5. CASE rel = "prev"
    <2>1. from > 0 /\ links.prev = LinkTo(scope, "prev", First(page))
      BY <1>2, <1>5 DEF Follows
    <2>2. q = scope /\ c = LinkTo(scope, "prev", First(page)).cursor
      BY <1>5, <2>1 DEF Follows, LinkTo
    <2>3. Resolve(q) = scope
      BY <1>3, <2>2, ScopeOfQuery
    <2>4. /\ c \in Cursor /\ Accepts(scope, c)
          /\ Start(scope, c) = IF from < scope.limit THEN 0 ELSE from - scope.limit
      BY <1>2, <1>3, <2>1, <2>2, FollowPrev
    <2> QED
      BY <1>2, <1>5, <2>1, <2>3, <2>4
  <1> QED
    BY <1>4, <1>5

(* Arithmetic of the places where a walk is cut.                           *)
LEMMA Cuts ==
    ASSUME NEW l \in Nat \ {0}, NEW n \in Nat \ {0}
    PROVE  /\ n * l \in Nat /\ (n - 1) * l \in Nat
           /\ (n - 1) * l + l = n * l /\ n * l + l = (n + 1) * l
           /\ n = 1 => (n - 1) * l = 0
           /\ n > 1 => (n - 1) * l >= l /\ (n - 2) * l \in Nat /\ (n - 2) * l = (n - 1) * l - l
  <1>1. n - 1 \in Nat /\ (n > 1 => n - 2 \in Nat)
    OBVIOUS
  <1>2. (n - 1) * l \in Nat /\ n * l \in Nat /\ (n > 1 => (n - 2) * l \in Nat)
    BY <1>1
  <1>3. (n - 1) * l + l = n * l /\ n * l + l = (n + 1) * l
    OBVIOUS
  <1>4. (n - 2) * l = (n - 1) * l - l
    OBVIOUS
  <1> QED
    BY <1>2, <1>3, <1>4

LEMMA Positive ==
    ASSUME NEW n, n \in Nat \ {0}
    PROVE  n \in Nat /\ n >= 1 /\ (n = 1 \/ n > 1)
  <1>1. n \in Nat /\ n # 0
    OBVIOUS
  <1> QED
    BY <1>1

(* The page of the present position of a walk ends where the next begins.  *)
LEMMA WalkPosition ==
    ASSUME IndInv, walk # <<>>
    PROVE  LET n == Len(walk)
               l == scope.limit
           IN  /\ n \in Nat \ {0} /\ l \in Nat \ {0} /\ scope \in Scope
               /\ page = Slice(scope, (n - 1) * l, n * l)
               /\ (n - 1) * l < Total(scope) \/ n = 1
               /\ links.next = NoLink => n * l >= Total(scope)
  <1>1. walk \in Seq(SUBSET Items) /\ scope \in Scope
    BY DEF IndInv, TypeOK
  <1>2. Len(walk) \in Nat \ {0} /\ Len(walk) \in DOMAIN walk
    BY <1>1
  <1>3. scope.limit \in Nat \ {0}
    BY <1>1, CatalogueAssumption DEF Scope
  <1>4. \A k \in DOMAIN walk : walk[k] = Slice(scope, (k - 1) * scope.limit, k * scope.limit)
    BY DEF IndInv, WalkAligned
  <1>5. page = Slice(scope, (Len(walk) - 1) * scope.limit, Len(walk) * scope.limit)
    BY <1>2, <1>4 DEF IndInv, WalkAligned
  <1>6. Len(walk) = 1 \/ (Len(walk) - 1) * scope.limit < Total(scope)
    <2>1. Len(walk) > 1 => (Len(walk) - 1) * scope.limit < Total(scope)
      BY DEF IndInv, WalkAligned
    <2>2. Len(walk) = 1 \/ Len(walk) > 1
      BY <1>2, Positive
    <2> QED
      BY <2>1, <2>2
  <1>7. links.next = NoLink => Len(walk) * scope.limit >= Total(scope)
    BY DEF IndInv, WalkAligned
  <1> QED
    BY <1>1, <1>2, <1>3, <1>5, <1>6, <1>7

(* The ends of a nonempty page say where it was cut.                       *)
LEMMA CutUnique ==
    ASSUME NEW s, NEW a \in Nat, NEW b \in Nat, NEW x \in Nat, NEW y \in Nat,
           a < b, b <= Total(s), x < Total(s), Slice(s, a, b) = Slice(s, x, y)
    PROVE  x = a /\ (y < Total(s) => y = b) /\ (y >= Total(s) => b = Total(s))
  <1>0. Total(s) \in Nat
    BY ListFinite DEF Total
  <1> DEFINE t == IF y < Total(s) THEN y ELSE Total(s)
  <1>1. Slice(s, x, y) = Slice(s, x, t)
    BY <1>0, SliceClipped
  <1>2. x < t
    <2>1. Slice(s, a, b) # {}
      BY SliceEnds
    <2>2. PICK i \in Slice(s, x, t) : TRUE
      BY <1>1, <2>1
    <2>3. i \in Filtered(s) /\ x <= Index(s, i) /\ Index(s, i) < t
      BY <2>2 DEF Slice
    <2> QED
      BY <1>0, <2>3, IndexRange
  <1>3. t \in Nat /\ t <= Total(s)
    BY <1>0
  <1>4. Index(s, First(Slice(s, a, b))) = a /\ Index(s, Last(Slice(s, a, b))) = b - 1
    BY SliceEnds
  <1>5. Index(s, First(Slice(s, x, t))) = x /\ Index(s, Last(Slice(s, x, t))) = t - 1
    BY <1>2, <1>3, SliceEnds
  <1>6. a = x /\ b - 1 = t - 1
    BY <1>1, <1>4, <1>5
  <1> QED
    BY <1>0, <1>3, <1>6

---------------------------------------------------------------------------
(* The step of the walk: forward it grows by the page that begins where it *)
(* ended, backward it loses one page and shows the one before.             *)
LEMMA WalkOn ==
    ASSUME IndInv, NEW q \in Query, NEW c \in Cursor \cup {NoCursor, Garbled}, c # NoCursor,
           Accepts(Resolve(q), c), NEW w, NEW p,
           p = Slice(Resolve(q), Start(Resolve(q), c), End(Resolve(q), c)),
           w = Walk(q, c, p), w # <<>>
    PROVE  /\ Resolve(q) = scope
           /\ \E m \in Nat \ {0} :
                 /\ w \in Seq(SUBSET Items) /\ Len(w) = m /\ w[m] = p
                 /\ \A k \in 1 .. m : w[k] = Slice(scope, (k - 1) * scope.limit, k * scope.limit)
                 /\ (m - 1) * scope.limit = Start(scope, c)
                 /\ Start(scope, c) < Total(scope)
  <1> DEFINE n == Len(walk)
             l == scope.limit
             Cut(k) == Slice(scope, (k - 1) * l, k * l)
  <1>1. walk # <<>> /\ (Follows("next", q, c) \/ (Follows("prev", q, c) /\ n > 1))
    <2>1. Walk(q, c, p) # <<>> /\ c # NoCursor
      OBVIOUS
    <2>2. walk # <<>>
      BY <2>1 DEF Walk
    <2>3. Follows("next", q, c) \/ (Follows("prev", q, c) /\ n > 1)
      <3> DEFINE forward == Follows("next", q, c)
                 going == Follows("prev", q, c) /\ n > 1
                 retraced == Append(SubSeq(walk, 1, Len(walk) - 2), p)
      <3>1. SUFFICES ASSUME ~forward, ~going PROVE Walk(q, c, p) = <<>>
        BY <2>1
      <3>2. Walk(q, c, p) = IF going THEN retraced ELSE <<>>
        BY <2>1, <2>2, <3>1 DEF Walk
      <3> HIDE DEF going, retraced
      <3> QED
        BY <3>1, <3>2
    <2> QED
      BY <2>2, <2>3
  <1>2. Resolve(q) = scope /\ c \in Cursor /\ Accepts(scope, c)
    BY <1>1, Followed
  <1>3. /\ n \in Nat \ {0} /\ l \in Nat \ {0} /\ scope \in Scope
        /\ page = Cut(n) /\ ((n - 1) * l < Total(scope) \/ n = 1)
    BY <1>1, WalkPosition
  <1>11. n \in Nat /\ n >= 1 /\ l \in Nat /\ (n > 1 => n # 1)
    <2> HIDE DEF n, l
    <2> QED
      BY <1>3, Positive
  <1>4. Total(scope) \in Nat
    BY ListFinite DEF Total
  <1>5. \A k \in 1 .. n : walk[k] = Cut(k)
    BY <1>1, <1>3 DEF IndInv, TypeOK, WalkAligned
  <1>6. walk \in Seq(SUBSET Items)
    BY DEF IndInv, TypeOK
  <1>7. /\ n * l \in Nat /\ (n - 1) * l \in Nat
        /\ (n - 1) * l + l = n * l /\ n * l + l = (n + 1) * l
        /\ n = 1 => (n - 1) * l = 0
        /\ n > 1 => (n - 1) * l >= l /\ (n - 2) * l \in Nat /\ (n - 2) * l = (n - 1) * l - l
    BY <1>3, Cuts
  <1>8. p = Slice(scope, Start(scope, c), Start(scope, c) + l)
    <2>1. /\ p = Slice(scope, Start(scope, c), End(scope, c))
          /\ Start(scope, c) \in Nat
          /\ End(scope, c) <= Total(scope) /\ End(scope, c) \in Nat
          /\ End(scope, c) < Total(scope) => End(scope, c) = Start(scope, c) + l
          /\ End(scope, c) = Total(scope) => Start(scope, c) + l >= Total(scope)
      BY <1>2, <1>3, PageBounds
    <2>2. CASE End(scope, c) < Total(scope)
      BY <2>1, <2>2
    <2>3. CASE End(scope, c) = Total(scope)
      BY <1>3, <2>1, <2>3, SliceClipped
    <2> QED
      BY <1>4, <2>1, <2>2, <2>3
  <1>0. p \in SUBSET Items
    BY DEF Slice, Filtered
  <1>9. CASE Follows("next", q, c)
    <2>1. PICK from, to \in 0 .. Total(scope) :
             /\ from < to /\ page = Slice(scope, from, to)
             /\ to < Total(scope) /\ Start(scope, c) = to
      BY <1>9, Followed
    <2>2. (n - 1) * l < Total(scope)
      BY <1>3, <1>4, <1>7, <2>1
    <2>3. from \in Nat /\ to \in Nat
      BY <1>4
    <2>4. Slice(scope, from, to) = Slice(scope, (n - 1) * l, n * l)
      BY <1>3, <2>1
    <2>5. n * l = to
      BY <1>4, <1>7, <2>1, <2>2, <2>3, <2>4, CutUnique
    <2>6. p = Cut(n + 1)
      BY <1>3, <1>7, <1>8, <2>1, <2>5
    <2>7. w = Append(walk, p)
      BY <1>1, <1>9 DEF Walk
    <2>8. /\ w \in Seq(SUBSET Items) /\ Len(w) = n + 1 /\ w[n + 1] = p
          /\ \A k \in 1 .. n + 1 : w[k] = Cut(k)
      <3>1. /\ w \in Seq(SUBSET Items) /\ Len(w) = n + 1 /\ w[n + 1] = p
            /\ \A k \in 1 .. n : w[k] = walk[k]
        BY <1>0, <1>6, <2>7, AppendProperties
      <3>2. \A k \in 1 .. n + 1 : k \in 1 .. n \/ k = n + 1
        BY <1>3
      <3> HIDE DEF Cut
      <3> QED
        BY <1>5, <2>6, <3>1, <3>2
    <2>9. (n + 1 - 1) * l = Start(scope, c)
      BY <1>3, <2>1, <2>5
    <2>10. n + 1 \in Nat \ {0}
      BY <1>11
    <2> QED
      BY <1>2, <1>9, <2>1, <2>8, <2>9, <2>10
  <1>10. CASE ~Follows("next", q, c)
    <2>1. Follows("prev", q, c) /\ n > 1 /\ (n - 1) * l < Total(scope)
      <3>1. Follows("prev", q, c) /\ n > 1
        BY <1>1, <1>10
      <3> QED
        BY <1>3, <1>11, <3>1
    <2>2. PICK from, to \in 0 .. Total(scope) :
             /\ from < to /\ page = Slice(scope, from, to) /\ from > 0
             /\ Start(scope, c) = IF from < l THEN 0 ELSE from - l
      BY <2>1, Followed
    <2>3. from = (n - 1) * l
      <3>1. Slice(scope, from, to) = Slice(scope, (n - 1) * l, n * l)
        BY <1>3, <2>2
      <3>2. from \in Nat /\ to \in Nat /\ to <= Total(scope)
        BY <1>4
      <3> QED
        BY <1>3, <1>7, <2>1, <2>2, <3>1, <3>2, CutUnique
    <2>4. Start(scope, c) = (n - 2) * l
      BY <1>3, <1>7, <2>1, <2>2, <2>3
    <2>5. p = Cut(n - 1)
      <3>1. (n - 2) * l + l = (n - 1) * l
        BY <1>3, <1>7, <2>1
      <3>2. n - 1 - 1 = n - 2
        BY <1>3
      <3> QED
        BY <1>8, <2>4, <3>1, <3>2
    <2>6. w = Append(SubSeq(walk, 1, n - 2), p)
      BY <1>1, <1>10, <2>1 DEF Walk
    <2>7. /\ w \in Seq(SUBSET Items) /\ Len(w) = n - 1 /\ w[n - 1] = p
          /\ \A k \in 1 .. n - 1 : w[k] = Cut(k)
      <3> DEFINE v == SubSeq(walk, 1, n - 2)
      <3>1. v \in Seq(SUBSET Items) /\ Len(v) = n - 2 /\ \A k \in 1 .. n - 2 : v[k] = walk[k]
        <4>1. n - 2 \in Int /\ 1 \in Int /\ n - 2 >= 0 /\ \A k \in 1 .. n - 2 : k \in 1 .. Len(walk)
          BY <1>11, <2>1
        <4>2. \A k \in 1 .. n - 2 : walk[k] \in SUBSET Items
          BY <1>6, <4>1
        <4>3. /\ v \in Seq(SUBSET Items)
              /\ Len(v) = IF 1 <= n - 2 THEN n - 2 - 1 + 1 ELSE 0
              /\ \A k \in 1 .. n - 2 - 1 + 1 : v[k] = walk[1 + k - 1]
          BY <4>1, <4>2, SubSeqProperties
        <4>4. n - 2 - 1 + 1 = n - 2 /\ \A k \in 1 .. n - 2 : 1 + k - 1 = k
          BY <4>1
        <4> HIDE DEF v, n
        <4> QED
          BY <4>1, <4>3, <4>4
      <3>2. /\ w \in Seq(SUBSET Items) /\ Len(w) = n - 2 + 1 /\ w[n - 2 + 1] = p
            /\ \A k \in 1 .. n - 2 : w[k] = v[k]
        <4> HIDE DEF v
        <4> QED
          BY <1>0, <2>6, <3>1, AppendProperties DEF v
      <3>3. n - 2 + 1 = n - 1 /\ \A k \in 1 .. n - 1 : k \in 1 .. n - 2 \/ k = n - 1
        BY <1>3, <2>1
      <3> HIDE DEF Cut, v
      <3>4. \A k \in 1 .. n - 2 : w[k] = Cut(k)
        BY <1>3, <1>5, <3>1, <3>2
      <3> QED
        BY <2>5, <3>2, <3>3, <3>4
    <2>8. (n - 1 - 1) * l = Start(scope, c)
      BY <1>3, <2>4
    <2>9. Start(scope, c) < Total(scope)
      BY <1>3, <1>4, <1>7, <2>1, <2>4
    <2>10. n - 1 \in Nat \ {0}
      BY <1>11, <2>1
    <2> QED
      BY <1>2, <2>7, <2>8, <2>9, <2>10
  <1> QED
    BY <1>9, <1>10

---------------------------------------------------------------------------
(* A page that is refused leaves nothing to follow.                        *)
LEMMA FailInv ==
    ASSUME IndInv, NEW code, Fail(code), code \in {"invalid_request", "validation_failed"},
           scope' \in Scope, cursor' \in Cursor \cup {NoCursor, Garbled}
    PROVE  IndInv'
  <1>1. TypeOK'
    BY DEF Fail, TypeOK, NoLinks
  <1>2. WalkAligned' /\ LinksOfPage'
    BY DEF Fail, WalkAligned, LinksOfPage, NoLinks
  <1> QED
    BY <1>1, <1>2 DEF IndInv

(* An accepted request shows a page with links from its ends, and keeps the*)
(* walk aligned.                                                           *)
LEMMA ShownInv ==
    ASSUME IndInv, NEW q \in Query, NEW c \in Cursor \cup {NoCursor, Garbled},
           List(q, c), Accepts(Resolve(q), c)
    PROVE  IndInv'
  <1> DEFINE s == Resolve(q)
             a == Start(s, c)
             b == End(s, c)
             p == Slice(s, a, b)
  <1>1. /\ scope' = s /\ cursor' = c /\ answer' = "ok" /\ page' = p
        /\ links' = LinksOf(s, c, p) /\ walk' = Walk(q, c, p)
    BY PageBounds, ScopeOfQuery DEF List
  <1>2. s \in Scope
    BY ScopeOfQuery
  <1>3. /\ Total(s) \in Nat /\ s.limit \in Nat \ {0}
        /\ a \in Nat /\ b \in Nat /\ a <= b /\ b <= Total(s)
        /\ b < Total(s) => b = a + s.limit
        /\ b = Total(s) => a + s.limit >= Total(s)
    BY <1>2, PageBounds
  <1>4. /\ p \subseteq Items /\ (p # {} => a < b)
        /\ LinksOf(s, c, p) \in [next : Link \cup {NoLink}, prev : Link \cup {NoLink}]
    BY <1>2, PageLinks
  <1>5. a < b => p # {}
    BY <1>3, SliceEnds
  <1> HIDE DEF p, a, b, s
  <1>6. /\ links'.next = IF b < Total(s) /\ p # {} THEN LinkTo(s, "next", Last(p)) ELSE NoLink
        /\ links'.prev = IF a > 0 /\ p # {} THEN LinkTo(s, "prev", First(p)) ELSE NoLink
    BY <1>1 DEF LinksOf, a, b
  <1>7. LinksOfPage'
    <2>1. SUFFICES ASSUME links' # NoLinks
                   PROVE  /\ a < b /\ a \in 0 .. Total(s) /\ b \in 0 .. Total(s)
                          /\ p = Slice(s, a, b)
                          /\ links'.next # NoLink =>
                                b < Total(s) /\ links'.next = LinkTo(s, "next", Last(p))
                          /\ links'.prev # NoLink =>
                                a > 0 /\ links'.prev = LinkTo(s, "prev", First(p))
      BY <1>1 DEF LinksOfPage, Total, Filtered, Slice, Index, LinkTo, First, Last, NoLinks
    <2>2. p # {}
      BY <1>1, <2>1 DEF LinksOf, NoLinks
    <2> QED
      BY <1>3, <1>4, <1>6, <2>2 DEF p
  <1>8. CASE walk' = <<>>
    <2>1. TypeOK'
      BY <1>1, <1>2, <1>4, <1>8 DEF TypeOK
    <2> QED
      BY <1>7, <1>8, <2>1 DEF IndInv, WalkAligned
  <1>9. CASE walk' # <<>>
    <2>1. PICK m \in Nat \ {0} :
             /\ walk' \in Seq(SUBSET Items) /\ Len(walk') = m /\ walk'[m] = p
             /\ \A k \in 1 .. m : walk'[k] = Slice(s, (k - 1) * s.limit, k * s.limit)
             /\ (m - 1) * s.limit = a
             /\ a < Total(s) \/ m = 1
      <3>1. CASE c = NoCursor
        <4>1. walk' = <<p>> /\ a = 0
          BY <1>1, <3>1 DEF Walk, Start, a
        <4>2. p = Slice(s, 0, s.limit)
          <5>1. CASE b < Total(s)
            BY <1>3, <4>1, <5>1 DEF p
          <5>2. CASE b = Total(s)
            <6>1. s.limit \in Nat /\ s.limit >= Total(s)
              BY <1>3, <4>1, <5>2
            <6> QED
              BY <4>1, <5>2, <6>1, SliceClipped DEF p
          <5> QED
            BY <1>3, <5>1, <5>2
        <4>3. s.limit \in Nat
          BY <1>3
        <4>4. (1 - 1) * s.limit = 0 /\ 1 * s.limit = s.limit
          BY <4>3
        <4>5. /\ walk' \in Seq(SUBSET Items) /\ Len(walk') = 1 /\ walk'[1] = p
          BY <1>4, <4>1
        <4>6. \A k \in 1 .. 1 : k = 1
          OBVIOUS
        <4>7. 1 \in Nat \ {0}
          OBVIOUS
        <4> QED
          BY <4>1, <4>2, <4>4, <4>5, <4>6, <4>7
      <3>2. CASE c # NoCursor
        <4>1. p = Slice(Resolve(q), Start(Resolve(q), c), End(Resolve(q), c))
          BY DEF p, a, b, s
        <4>2. /\ s = scope
              /\ \E m \in Nat \ {0} :
                    /\ walk' \in Seq(SUBSET Items) /\ Len(walk') = m /\ walk'[m] = p
                    /\ \A k \in 1 .. m :
                          walk'[k] = Slice(scope, (k - 1) * scope.limit, k * scope.limit)
                    /\ (m - 1) * scope.limit = Start(scope, c)
                    /\ Start(scope, c) < Total(scope)
          BY <1>1, <1>9, <3>2, <4>1, WalkOn DEF s
        <4>3. Start(scope, c) = a
          BY <4>2 DEF a
        <4> QED
          BY <4>2, <4>3
      <3> QED
        BY <3>1, <3>2
    <2>2. TypeOK'
      BY <1>1, <1>2, <1>4, <2>1 DEF TypeOK
    <2>3. m * s.limit = a + s.limit
      <3>1. (m - 1) * s.limit + s.limit = m * s.limit
        BY <1>3, Cuts
      <3> QED
        BY <2>1, <3>1
    <2>4. links'.next = NoLink => m * s.limit >= Total(s)
      <3>1. SUFFICES ASSUME links'.next = NoLink PROVE a + s.limit >= Total(s)
        BY <2>3
      <3>2. LinkTo(s, "next", Last(p)) # NoLink \/ p = {}
        <4>1. p # {} => Last(p) \in Items
          <5>1. p # {} => Last(p) \in p
            BY <1>3, <1>4, SliceEnds DEF p
          <5> QED
            BY <1>4, <5>1
        <4> QED
          BY <1>2, <4>1, LinkTyped, NoCursorAssumption
      <3>3. b = Total(s) \/ p = {}
        BY <1>3, <1>6, <3>1, <3>2
      <3>4. CASE p = {}
        <4>1. a = b
          BY <1>3, <1>5, <3>4
        <4>2. s.limit \in Nat /\ s.limit >= 1
          BY <1>3, Positive
        <4> QED
          BY <1>3, <4>1, <4>2
      <3> QED
        BY <1>3, <3>3, <3>4
    <2>5. WalkAligned'
      <3>1. DOMAIN walk' = 1 .. m
        BY <2>1
      <3>2. \A k \in DOMAIN walk' :
                walk'[k] = Slice(scope', (k - 1) * scope'.limit, k * scope'.limit)
        BY <1>1, <2>1, <3>1
      <3>3. m > 1 => (m - 1) * s.limit < Total(s)
        BY <2>1
      <3>4. page' = walk'[Len(walk')]
        BY <1>1, <2>1
      <3>5. Total(scope') = Total(s) /\ Total(scope)' = Total(s)
        BY <1>1 DEF Total, Filtered
      <3>6. \A k \in DOMAIN walk' :
                walk'[k] = Slice(scope, (k - 1) * scope.limit, k * scope.limit)'
        BY <3>2 DEF Slice, Index, Filtered
      <3> QED
        BY <1>1, <2>1, <2>4, <3>3, <3>4, <3>5, <3>6 DEF WalkAligned
    <2> QED
      BY <1>7, <2>2, <2>5 DEF IndInv
  <1> QED
    BY <1>8, <1>9

(* The inductive invariant.                                                *)
THEOREM Invariance == Spec => []IndInv
  <1>1. Init => IndInv
    BY DEF Init, IndInv, TypeOK, WalkAligned, LinksOfPage, NoLinks
  <1>2. IndInv /\ [Next]_vars => IndInv'
    <2>1. SUFFICES ASSUME IndInv, [Next]_vars PROVE IndInv'
      OBVIOUS
    <2>2. CASE Malformed
      BY <2>1, <2>2, FailInv DEF Malformed, IndInv, TypeOK
    <2>3. ASSUME NEW q \in Query, NEW c \in Cursor \cup {NoCursor, Garbled}, List(q, c)
          PROVE  IndInv'
      <3>1. Resolve(q) \in Scope
        BY ScopeOfQuery
      <3>2. CASE Accepts(Resolve(q), c)
        BY <2>1, <2>3, <3>2, ShownInv
      <3>3. CASE ~Accepts(Resolve(q), c)
        <4>1. scope' = Resolve(q) /\ cursor' = c /\ Fail("invalid_request")
          BY <2>3, <3>3 DEF List
        <4> QED
          BY <2>1, <3>1, <4>1, FailInv
      <3> QED
        BY <3>2, <3>3
    <2>4. CASE UNCHANGED vars
      <3>1. TypeOK'
        BY <2>1, <2>4 DEF vars, IndInv, TypeOK
      <3>2. WalkAligned'
        BY <2>1, <2>4 DEF vars, IndInv, WalkAligned, Total, Filtered, Slice, Index
      <3>3. LinksOfPage'
        BY <2>1, <2>4 DEF vars, IndInv, LinksOfPage, Total, Filtered, Slice, Index,
                          LinkTo, First, Last, NoLinks
      <3> QED
        BY <3>1, <3>2, <3>3 DEF IndInv
    <2> QED
      BY <2>1, <2>2, <2>3, <2>4 DEF Next
  <1> QED
    BY <1>1, <1>2, PTL DEF Spec

(* No request panics, and what is shown and handed out has its type.       *)
THEOREM TypeCorrect == Spec => []TypeOK
  <1>1. IndInv => TypeOK
    BY DEF IndInv
  <1> QED
    BY <1>1, Invariance, PTL

---------------------------------------------------------------------------
(* Every place lies in one cut.                                            *)
LEMMA CutOrder ==
    ASSUME NEW l \in Nat \ {0}, NEW k \in Nat, NEW m \in Nat, k <= m
    PROVE  k * l \in Nat /\ m * l \in Nat /\ k * l <= m * l
  <1> DEFINE d == m - k
  <1>1. d \in Nat /\ m = k + d
    OBVIOUS
  <1> HIDE DEF d
  <1>2. d * l \in Nat /\ k * l \in Nat
    BY <1>1
  <1>3. (k + d) * l = k * l + d * l
    BY <1>1
  <1> QED
    BY <1>1, <1>2, <1>3

LEMMA CutOf ==
    ASSUME NEW l \in Nat \ {0}, NEW x \in Nat
    PROVE  \E k \in Nat \ {0} : (k - 1) * l <= x /\ x < k * l
  <1> DEFINE d == x \div l
  <1>1. d \in Nat /\ d * l <= x /\ x < d * l + l
    OBVIOUS
  <1> HIDE DEF d
  <1>2. d + 1 \in Nat \ {0} /\ (d + 1 - 1) * l = d * l /\ (d + 1) * l = d * l + l
    BY <1>1
  <1>3. d + 1 \in Nat \ {0}
    BY <1>2
  <1> WITNESS d + 1 \in Nat \ {0}
  <1> QED
    BY <1>1, <1>2

(* A walk reads a prefix of the list, each item once, and all of it when no*)
(* next link is left.                                                      *)
THEOREM WalksReadOnce == Spec => []WalkReadsOnce
  <1>1. ASSUME IndInv, walk # <<>> PROVE WalkReadsOnce
    <2> DEFINE n == Len(walk)
               l == scope.limit
               F == Filtered(scope)
    <2>1. /\ n \in Nat \ {0} /\ l \in Nat \ {0} /\ scope \in Scope
          /\ (n - 1) * l < Total(scope) \/ n = 1
          /\ links.next = NoLink => n * l >= Total(scope)
      BY <1>1, WalkPosition
    <2>2. DOMAIN walk = 1 .. n /\ n \in Nat /\ l \in Nat
      BY <1>1, <2>1 DEF IndInv, TypeOK
    <2>3. \A k \in 1 .. n : walk[k] = {i \in F : (k - 1) * l <= Index(scope, i) /\ Index(scope, i) < k * l}
      BY <1>1, <2>2 DEF IndInv, WalkAligned, Slice
    <2>4. Total(scope) \in Nat
      BY ListFinite DEF Total
    <2>5. \A i \in F : Index(scope, i) \in Nat /\ Index(scope, i) < Total(scope) /\ i \in Int
      BY <2>4, IndexRange DEF Filtered, Items
    <2> HIDE DEF n, l, F
    <2>6. ASSUME NEW i \in F, Index(scope, i) < n * l
          PROVE  \E m \in 1 .. n : i \in walk[m]
      <3>1. PICK m \in Nat \ {0} : (m - 1) * l <= Index(scope, i) /\ Index(scope, i) < m * l
        BY <2>1, <2>5, CutOf
      <3>2. m <= n
        <4>1. SUFFICES ASSUME n <= m - 1 PROVE FALSE
          BY <2>2, Positive
        <4>2. m - 1 \in Nat /\ n * l <= (m - 1) * l /\ n * l \in Nat /\ (m - 1) * l \in Nat
          BY <2>1, <2>2, <4>1, CutOrder, Positive
        <4> QED
          BY <2>5, <2>6, <3>1, <4>2
      <3>3. m \in 1 .. n
        BY <2>2, <3>2, Positive
      <3> QED
        BY <2>3, <3>1, <3>3
    <2>7. ASSUME NEW k \in 1 .. n, NEW m \in 1 .. n, k < m, NEW i \in walk[k], NEW j \in walk[m]
          PROVE  i < j
      <3>1. i \in F /\ j \in F /\ Index(scope, i) < k * l /\ (m - 1) * l <= Index(scope, j)
        BY <2>3
      <3>2. k \in Nat /\ m - 1 \in Nat /\ k <= m - 1
        BY <2>2, <2>7
      <3>3. k * l <= (m - 1) * l /\ k * l \in Nat /\ (m - 1) * l \in Nat
        BY <2>1, <3>2, CutOrder
      <3>4. Index(scope, i) < Index(scope, j)
        BY <2>5, <3>1, <3>3
      <3> QED
        BY <3>1, <3>4, IndexInjective DEF F
    <2>8. ASSUME NEW i \in F, NEW k \in 1 .. n, NEW j \in walk[k], i <= j
          PROVE  \E m \in 1 .. n : i \in walk[m]
      <3>1. j \in F /\ Index(scope, j) < k * l
        BY <2>3
      <3>2. k * l <= n * l /\ k * l \in Nat /\ n * l \in Nat
        BY <2>1, <2>2, CutOrder
      <3>3. Index(scope, i) <= Index(scope, j)
        <4>1. ~(Index(scope, j) < Index(scope, i))
          <5>1. ~(j < i)
            BY <2>5, <2>8, <3>1
          <5> QED
            BY <3>1, <5>1, IndexInjective DEF F
        <4> QED
          BY <2>5, <3>1, <4>1
      <3>4. Index(scope, i) < n * l
        BY <2>5, <3>1, <3>2, <3>3
      <3> QED
        BY <2>6, <3>4
    <2>9. ASSUME NEW k \in 1 .. n, k < n
          PROVE  Cardinality(walk[k]) = l
      <3>1. k \in Nat \ {0} /\ n - 1 \in Nat /\ k <= n - 1 /\ n # 1
        BY <2>2, <2>9
      <3>2. k * l <= (n - 1) * l /\ (n - 1) * l < Total(scope) /\ (n - 1) * l \in Nat
        BY <2>1, <3>1, CutOrder
      <3>3. /\ k * l \in Nat /\ (k - 1) * l \in Nat /\ (k - 1) * l + l = k * l
        BY <2>1, <3>1, Cuts
      <3>4. walk[k] = Slice(scope, (k - 1) * l, k * l)
        BY <2>3 DEF Slice, F
      <3>5. (k - 1) * l <= k * l /\ k * l <= Total(scope)
        BY <2>2, <2>4, <3>2, <3>3
      <3>6. Cardinality(walk[k]) = k * l - (k - 1) * l
        BY <3>3, <3>4, <3>5, SliceSize
      <3> QED
        BY <2>2, <3>3, <3>6
    <2>10. ASSUME links.next = NoLink
           PROVE  UNION {walk[k] : k \in 1 .. n} = F
      <3>1. \A i \in F : Index(scope, i) < n * l
        <4>1. n * l \in Nat
          BY <2>2
        <4> QED
          BY <2>1, <2>4, <2>5, <2>10, <4>1
      <3>2. \A i \in F : \E m \in 1 .. n : i \in walk[m]
        BY <2>6, <3>1
      <3>3. \A k \in 1 .. n : walk[k] \subseteq F
        BY <2>3
      <3> QED
        BY <3>2, <3>3
    <2> QED
      BY <2>2, <2>7, <2>8, <2>9, <2>10 DEF WalkReadsOnce, n, l, F
  <1>2. ASSUME IndInv, walk = <<>> PROVE WalkReadsOnce
    BY <1>2 DEF WalkReadsOnce
  <1>3. IndInv => WalkReadsOnce
    BY <1>1, <1>2
  <1> QED
    BY <1>3, Invariance, PTL

---------------------------------------------------------------------------
(* Whoever follows a link gets the page that begins where the link says.   *)
LEMMA LinkShown ==
    ASSUME IndInv, [Next]_vars, NEW rel \in {"next", "prev"},
           cursor' # NoCursor, Follows(rel, scope', cursor'), ~UNCHANGED vars
    PROVE  /\ scope' = scope /\ scope \in Scope
           /\ cursor' \in Cursor \cup {NoCursor, Garbled} /\ Accepts(scope, cursor')
           /\ page' = Slice(scope, Start(scope, cursor'), End(scope, cursor'))
  <1>1. ~Malformed
    BY DEF Malformed
  <1>2. PICK q \in Query, c \in Cursor \cup {NoCursor, Garbled} : List(q, c)
    BY <1>1 DEF Next
  <1>3. scope' = Resolve(q) /\ cursor' = c /\ Resolve(q) \in Scope
    BY <1>2, ScopeOfQuery DEF List
  <1>4. scope' \in Query /\ Resolve(scope') = scope'
    BY <1>3, ScopeOfQuery DEF Scope, Query
  <1>5. scope' = scope /\ Accepts(scope, c)
    BY <1>3, <1>4, Followed
  <1>6. page' = Slice(Resolve(q), Start(Resolve(q), c), End(Resolve(q), c))
    BY <1>2, <1>3, <1>5, PageBounds DEF List
  <1> QED
    BY <1>3, <1>5, <1>6

(* Going back from a page of a walk shows the page before it.              *)
THEOREM BackwardRetraces == Spec => BackRetraces
  <1>1. ASSUME IndInv, [Next]_vars, ~UNCHANGED vars, Len(walk) > 0, cursor' # NoCursor,
               Follows("prev", scope', cursor')
        PROVE  Len(walk) > 1 /\ page' = walk[Len(walk) - 1]
    <2> DEFINE n == Len(walk)
               l == scope.limit
               c == cursor'
    <2>1. /\ scope' = scope /\ c \in Cursor \cup {NoCursor, Garbled} /\ Accepts(scope, c)
          /\ page' = Slice(scope, Start(scope, c), End(scope, c)) /\ scope \in Scope
      BY <1>1, LinkShown
    <2>2. scope \in Query
      BY <2>1, CatalogueAssumption DEF Scope, Query
    <2>3. walk # <<>> /\ walk \in Seq(SUBSET Items)
      BY <1>1 DEF IndInv, TypeOK
    <2>4. /\ n \in Nat \ {0} /\ l \in Nat \ {0}
          /\ page = Slice(scope, (n - 1) * l, n * l)
          /\ (n - 1) * l < Total(scope) \/ n = 1
      BY <1>1, <2>3, WalkPosition
    <2>5. PICK from \in 0 .. Total(scope), to \in 0 .. Total(scope) :
             /\ from < to /\ page = Slice(scope, from, to) /\ from > 0
             /\ Start(scope, c) = IF from < l THEN 0 ELSE from - l
      BY <1>1, <2>1, <2>2, Followed
    <2>6. \A k \in DOMAIN walk : walk[k] = Slice(scope, (k - 1) * l, k * l)
      BY <1>1, <2>3 DEF IndInv, WalkAligned
    <2>7. DOMAIN walk = 1 .. n
      BY <2>3
    <2>8. Total(scope) \in Nat
      BY ListFinite DEF Total
    <2> HIDE DEF n, l
    <2>9. /\ n * l \in Nat /\ (n - 1) * l \in Nat
          /\ n = 1 => (n - 1) * l = 0
          /\ n > 1 => (n - 1) * l >= l /\ (n - 2) * l \in Nat /\ (n - 2) * l = (n - 1) * l - l
      BY <2>4, Cuts
    <2>10. (n - 1) * l < Total(scope)
      BY <2>4, <2>5, <2>8, <2>9
    <2>11. from = (n - 1) * l
      <3>1. Slice(scope, from, to) = Slice(scope, (n - 1) * l, n * l)
        BY <2>4, <2>5
      <3>2. from \in Nat /\ to \in Nat /\ to <= Total(scope)
        BY <2>8
      <3> QED
        BY <2>5, <2>9, <2>10, <3>1, <3>2, CutUnique
    <2>12. n > 1 /\ n \in Nat
      BY <2>4, <2>5, <2>9, <2>11, Positive
    <2>13. l \in Nat /\ Start(scope, c) = (n - 2) * l
      BY <2>4, <2>5, <2>9, <2>11, <2>12
    <2>14. End(scope, c) = (n - 1) * l
      BY <2>9, <2>10, <2>12, <2>13 DEF End, l
    <2>15. n - 1 \in DOMAIN walk /\ n - 1 - 1 = n - 2
      BY <2>7, <2>12
    <2>16. page' = walk[n - 1]
      BY <2>1, <2>6, <2>13, <2>14, <2>15
    <2> QED
      BY <2>12, <2>16 DEF n
  <1>2. IndInv /\ [Next]_vars =>
            [Len(walk) > 0 /\ cursor' # NoCursor /\ Follows("prev", scope', cursor')
             => Len(walk) > 1 /\ page' = walk[Len(walk) - 1]]_vars
    BY <1>1
  <1> QED
    BY <1>2, Invariance, PTL DEF Spec, BackRetraces

(* Links leave nothing out, forward or backward, from any page.            *)
THEOREM PagesAdjoin == Spec => LinksAdjoin
  <1> DEFINE NextAdjoins ==
                 /\ page' # {} /\ \A i \in page, j \in page' : i < j
                 /\ Between(page, page') \subseteq page \cup page'
             PrevAdjoins ==
                 /\ \E j \in page' : \A i \in page : j < i
                 /\ Between(page', page) \subseteq page \cup page'
  <1>1. ASSUME IndInv, [Next]_vars, ~UNCHANGED vars, cursor' # NoCursor,
               Follows("next", scope', cursor')
        PROVE  NextAdjoins
    <2> DEFINE a == Start(scope, cursor')
               b == End(scope, cursor')
    <2>1. /\ scope' = scope /\ cursor' \in Cursor \cup {NoCursor, Garbled} /\ scope \in Scope
          /\ Accepts(scope, cursor') /\ page' = Slice(scope, a, b)
      BY <1>1, LinkShown
    <2>2. scope \in Query
      BY <2>1, CatalogueAssumption DEF Scope, Query
    <2>3. PICK from \in 0 .. Total(scope), to \in 0 .. Total(scope) :
             page = Slice(scope, from, to) /\ from < to /\ to < Total(scope) /\ a = to
      BY <1>1, <2>1, <2>2, Followed
    <2>4. /\ Total(scope) \in Nat /\ a \in Nat /\ b \in Nat /\ b <= Total(scope)
          /\ a < b
      BY <2>1, <2>3, PageBounds
    <2> HIDE DEF a, b
    <2>5. page' # {}
      BY <2>1, <2>4, SliceEnds
    <2>6. \A i \in Filtered(scope) : Index(scope, i) \in Int /\ i \in Int
      BY IndexRange DEF Filtered, Items
    <2>7. ASSUME NEW i \in page, NEW j \in page' PROVE i < j
      <3>1. i \in Filtered(scope) /\ j \in Filtered(scope)
            /\ Index(scope, i) < to /\ to <= Index(scope, j)
        BY <2>1, <2>3 DEF Slice
      <3>2. Index(scope, i) < Index(scope, j)
        BY <2>4, <2>6, <3>1
      <3> QED
        BY <3>1, <3>2, IndexInjective
    <2>8. ASSUME NEW i \in Between(page, page') PROVE i \in page \cup page'
      <3>1. PICK j \in page, k \in page' : i \in Filtered(scope) /\ j <= i /\ i <= k
        BY DEF Between
      <3>2. /\ j \in Filtered(scope) /\ from <= Index(scope, j)
            /\ k \in Filtered(scope) /\ Index(scope, k) < b
        BY <2>1, <2>3 DEF Slice
      <3>3. ~(Index(scope, i) < Index(scope, j)) /\ ~(Index(scope, k) < Index(scope, i))
        BY <2>6, <3>1, <3>2, IndexInjective
      <3>4. from <= Index(scope, i) /\ Index(scope, i) < b
        BY <2>4, <2>6, <3>1, <3>2, <3>3
      <3> QED
        BY <2>1, <2>3, <2>4, <2>6, <3>1, <3>4 DEF Slice
    <2> QED
      BY <2>5, <2>7, <2>8
  <1>2. ASSUME IndInv, [Next]_vars, ~UNCHANGED vars, cursor' # NoCursor,
               Follows("prev", scope', cursor')
        PROVE  PrevAdjoins
    <2> DEFINE a == Start(scope, cursor')
               b == End(scope, cursor')
    <2>1. /\ scope' = scope /\ cursor' \in Cursor \cup {NoCursor, Garbled} /\ scope \in Scope
          /\ Accepts(scope, cursor') /\ page' = Slice(scope, a, b)
      BY <1>1, <1>2, LinkShown
    <2>2. scope \in Query
      BY <2>1, CatalogueAssumption DEF Scope, Query
    <2>3. PICK from \in 0 .. Total(scope), to \in 0 .. Total(scope) :
             /\ page = Slice(scope, from, to) /\ from < to /\ from > 0
             /\ a = IF from < scope.limit THEN 0 ELSE from - scope.limit
      BY <1>2, <2>1, <2>2, Followed
    <2>4. Total(scope) \in Nat /\ scope.limit \in Nat /\ scope.limit >= 1
      BY <2>1, PageBounds, Positive
    <2>5. a \in Nat /\ a < from /\ b \in Nat /\ from <= b /\ b <= Total(scope)
      BY <2>3, <2>4 DEF End
    <2> HIDE DEF a, b
    <2>6. \A i \in Filtered(scope) : Index(scope, i) \in Int /\ i \in Int
      BY IndexRange DEF Filtered, Items
    <2>7. \E j \in page' : \A i \in page : j < i
      <3>1. PICK j \in page' : Index(scope, j) = a
        <4>1. a < b
          BY <2>4, <2>5
        <4> QED
          BY <2>1, <2>5, <4>1, SliceEnds
      <3>2. j \in Filtered(scope)
        BY <2>1 DEF Slice
      <3>3. ASSUME NEW i \in page PROVE j < i
        <4>1. i \in Filtered(scope) /\ from <= Index(scope, i)
          BY <2>3 DEF Slice
        <4>2. Index(scope, j) < Index(scope, i)
          BY <2>4, <2>5, <2>6, <3>1, <4>1
        <4> QED
          BY <3>2, <4>1, <4>2, IndexInjective
      <3> QED
        BY <3>3
    <2>8. ASSUME NEW i \in Between(page', page) PROVE i \in page \cup page'
      <3>1. PICK j \in page', k \in page : i \in Filtered(scope) /\ j <= i /\ i <= k
        BY DEF Between
      <3>2. /\ j \in Filtered(scope) /\ a <= Index(scope, j)
            /\ k \in Filtered(scope) /\ Index(scope, k) < to
        BY <2>1, <2>3 DEF Slice
      <3>3. ~(Index(scope, i) < Index(scope, j)) /\ ~(Index(scope, k) < Index(scope, i))
        BY <2>6, <3>1, <3>2, IndexInjective
      <3>4. a <= Index(scope, i) /\ Index(scope, i) < to
        BY <2>4, <2>5, <2>6, <3>1, <3>2, <3>3
      <3> QED
        BY <2>1, <2>3, <2>4, <2>5, <2>6, <3>1, <3>4 DEF Slice
    <2> QED
      BY <2>7, <2>8
  <1>3. IndInv /\ [Next]_vars =>
            [/\ cursor' # NoCursor /\ Follows("next", scope', cursor') => NextAdjoins
             /\ cursor' # NoCursor /\ Follows("prev", scope', cursor') => PrevAdjoins]_vars
    BY <1>1, <1>2
  <1> QED
    BY <1>3, Invariance, PTL DEF Spec, LinksAdjoin
=============================================================================

-------------------------- MODULE HttpNegotiation --------------------------
(***************************************************************************)
(* Content negotiation (http/negotiation.rs): what an Accept field says of *)
(* the representations the API offers, and which one is sent.              *)
(*                                                                         *)
(* An Accept field is NoAccept, or the sequence of its comma separated     *)
(* elements over all its lines. An element keeps what the parser tells     *)
(* apart: the type and the subtype ("" stands for text that is no token,   *)
(* such as the rest of a line after an unclosed quote), the sequence of    *)
(* its media parameters, and the sequence of the readings of its q         *)
(* parameters in thousandths (Unreadable: no weight). The code compares a  *)
(* charset without case; here values are already folded.                   *)
(***************************************************************************)
EXTENDS Integers, Sequences

CONSTANT NoAccept       \* the request has no Accept field

Unreadable == -1
NotOffered == "none"    \* no representation is acceptable

Representations == {"json", "json_utf8", "cbor"}
Parameter == [name : STRING, value : STRING]
Readings == {Unreadable} \cup 0 .. 1000
Element == [main : STRING, sub : STRING, params : Seq(Parameter), qs : Seq(Readings)]

(* The three candidates in the order they are tried, with the JSON media   *)
(* type of a success or of a problem.                                      *)
MediaType(rep, json) ==
    CASE rep = "json"      -> [main |-> "application", sub |-> json, params |-> {}]
      [] rep = "json_utf8" -> [main |-> "application", sub |-> json,
                               params |-> {[name |-> "charset", value |-> "utf-8"]}]
      [] rep = "cbor"      -> [main |-> "application", sub |-> "cbor", params |-> {}]

Candidates(allow_cbor) ==
    IF allow_cbor THEN <<"json", "json_utf8", "cbor">> ELSE <<"json", "json_utf8">>

---------------------------------------------------------------------------
(* parse_range: an element is a range only if its type and subtype are     *)
(* tokens, a wildcard type has a wildcard subtype, no parameter name is    *)
(* repeated and its weight is readable.                                    *)
IsRange(e) ==
    /\ e.main # "" /\ e.sub # ""
    /\ e.main = "*" => e.sub = "*"
    /\ \A i, j \in DOMAIN e.params : e.params[i].name = e.params[j].name => i = j
    /\ e.qs = <<>> \/ (Len(e.qs) = 1 /\ e.qs[1] # Unreadable)

ParsedRange(e) ==
    [main |-> e.main, sub |-> e.sub,
     params |-> {e.params[i] : i \in DOMAIN e.params},
     quality |-> IF e.qs = <<>> THEN 1000 ELSE e.qs[1]]

(* accept_ranges: what does not parse is dropped, and an Accept field of   *)
(* nothing but that accepts nothing.                                       *)
AcceptRanges(accept) ==
    LET ranges[i \in 0 .. Len(accept)] ==
            IF i = 0 THEN <<>>
            ELSE IF IsRange(accept[i]) THEN Append(ranges[i - 1], ParsedRange(accept[i]))
            ELSE ranges[i - 1]
    IN  ranges[Len(accept)]

(* range_specificity and range_parameters_match: 2 for the media type      *)
(* itself, 1 for its type, 0 for anything; no match without every one of   *)
(* the range's parameters.                                                 *)
NoMatch == -1
RangeSpecificity(range, target) ==
    CASE range.main = target.main /\ range.sub = target.sub -> 2
      [] range.main = "*" /\ range.sub = "*"                -> 0
      [] range.main = target.main /\ range.sub = "*"        -> 1
      [] OTHER                                              -> NoMatch

RangeParametersMatch(range, target) == range.params \subseteq target.params

(* How well a range matches, as one number: the specificity first, the     *)
(* number of parameters (at most one can match) second.                    *)
Precedence(range, target) ==
    2 * RangeSpecificity(range, target)
      + (IF range.params = {} THEN 0 ELSE 1)

(* effective_quality: one pass over the ranges that keeps the best match,  *)
(* and of equals the heaviest; 0 where nothing matches.                    *)
EffectiveQualityLastWins(ranges, target) ==                        \* mutant
    LET matching == {i \in DOMAIN ranges :
                        /\ RangeSpecificity(ranges[i], target) # NoMatch
                        /\ RangeParametersMatch(ranges[i], target)}
    IN  IF matching = {} THEN 0
        ELSE ranges[CHOOSE i \in matching : \A j \in matching : j <= i].quality
EffectiveQuality(ranges, target) ==
    LET best[i \in 0 .. Len(ranges)] ==
            IF i = 0 THEN [precedence |-> NoMatch, quality |-> 0]
            ELSE LET range   == ranges[i]
                     current == [precedence |-> Precedence(range, target),
                                 quality |-> range.quality]
                 IN  IF \/ RangeSpecificity(range, target) = NoMatch
                        \/ ~RangeParametersMatch(range, target)
                        \/ current.precedence < best[i - 1].precedence
                     THEN best[i - 1]
                     ELSE IF \/ current.precedence > best[i - 1].precedence
                             \/ current.quality > best[i - 1].quality
                          THEN current
                          ELSE best[i - 1]
    IN  best[Len(ranges)].quality

(* choose_representation: the first candidate of the highest weight, none  *)
(* if every weight is 0.                                                   *)
ChooseRepresentation(ranges, allow_cbor, json) ==
    LET tried == Candidates(allow_cbor)
        selected[i \in 0 .. Len(tried)] ==
            IF i = 0 THEN [rep |-> NotOffered, quality |-> 0]
            ELSE LET quality == EffectiveQuality(ranges, MediaType(tried[i], json))
                 IN  IF quality > selected[i - 1].quality
                     THEN [rep |-> tried[i], quality |-> quality]
                     ELSE selected[i - 1]
    IN  selected[Len(tried)].rep

(* negotiate_success with its two callers, negotiate_api_representation    *)
(* and negotiate_json_representation.                                      *)
NegotiateSuccess(accept, allow_cbor) ==
    IF accept = NoAccept THEN "json"
    ELSE ChooseRepresentation(AcceptRanges(accept), allow_cbor, "json")

(* negotiate_problem_representation: JSON where nothing is acceptable.     *)
NegotiateProblem(accept) ==
    LET chosen == IF accept = NoAccept THEN "json"
                  ELSE ChooseRepresentation(AcceptRanges(accept), TRUE, "problem+json")
    IN  IF chosen = NotOffered THEN "json" ELSE chosen

(* accepts_document: a document has one representation.                    *)
AcceptsDocument(accept, target) ==
    accept = NoAccept \/ EffectiveQuality(AcceptRanges(accept), target) > 0

(* success_content_type and problem_content_type.                          *)
SuccessContentType(rep) ==
    CASE rep = "json"      -> "application/json"
      [] rep = "json_utf8" -> "application/json;charset=utf-8"
      [] rep = "cbor"      -> "application/cbor"
ProblemContentType(rep) ==
    CASE rep = "json"      -> "application/problem+json"
      [] rep = "json_utf8" -> "application/problem+json;charset=utf-8"
      [] rep = "cbor"      -> "application/cbor"

---------------------------------------------------------------------------
(* The reference definition of a weight (RFC 9110, 12.5.1): of the ranges  *)
(* that match, only those no other one is more specific than count, and    *)
(* of these the heaviest.                                                  *)
Weight(accept, target) ==
    IF accept = NoAccept THEN 1000
    ELSE LET matching == {r \in {ParsedRange(accept[i]) :
                                 i \in {j \in DOMAIN accept : IsRange(accept[j])}} :
                             /\ r.main \in {"*", target.main}
                             /\ r.sub \in {"*", target.sub}
                             /\ r.params \subseteq target.params}
             Wild(r)  == (IF r.main = "*" THEN 1 ELSE 0) + (IF r.sub = "*" THEN 1 ELSE 0)
             Over(r, s) == \/ Wild(r) < Wild(s)
                           \/ Wild(r) = Wild(s) /\ s.params = {} /\ r.params # {}
             top == {r \in matching : \A s \in matching : ~Over(s, r)}
             heaviest == {r \in top : \A s \in top : s.quality <= r.quality}
         IN  IF top = {} THEN 0 ELSE (CHOOSE r \in heaviest : TRUE).quality

(* rep is the right choice among offered: no other one weighs more, and    *)
(* an earlier one weighs less. None is right only if all of them weigh 0.  *)
BestOf(accept, offered, json, rep) ==
    LET W(r) == Weight(accept, MediaType(r, json))
    IN  IF rep = NotOffered
        THEN \A i \in DOMAIN offered : W(offered[i]) = 0
        ELSE \E k \in DOMAIN offered :
                 /\ offered[k] = rep
                 /\ W(rep) > 0
                 /\ \A i \in DOMAIN offered :
                        W(offered[i]) <= W(rep) /\ (i < k => W(offered[i]) < W(rep))
=============================================================================

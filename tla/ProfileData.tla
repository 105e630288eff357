---------------------------- MODULE ProfileData ----------------------------
(***************************************************************************)
(* The data of the profile service and its pure functions: what a stored   *)
(* document may hold, which documents the runtime accepts, and what the    *)
(* closure of each operation decides once it has read the document.        *)
(* Field values are members of a small set (the code compares whole        *)
(* profiles, never the text of a field), a canonical timestamp is its      *)
(* millisecond on the scale 0..MaxTime, whose last value stands for        *)
(* "9999-12-31T23:59:59.999Z".                                             *)
(***************************************************************************)
EXTENDS Integers

CONSTANTS
    Users,      \* verified user ids: one document "uid_<base64>" each
    Fields,     \* the mutable fields of a profile
    Vals,       \* the values a field can take
    MaxTime,    \* MAX_TIMESTAMP
    NoDoc,      \* the document does not exist
    Foreign     \* a document the strict reader does not accept

Times == 0 .. MaxTime
Content == [Fields -> Vals]
Patch == UNION {[S -> Vals] : S \in SUBSET Fields}
Profile == [content : Content, created : Times, updated : Times]
StoredDoc == {NoDoc, Foreign} \cup Profile

ASSUME DataAssumption ==
    /\ MaxTime \in Nat
    /\ NoDoc # Foreign
    /\ NoDoc \notin Profile
    /\ Foreign \notin Profile

Ops == {"create", "get", "update", "delete"}

(* A call of the service: a create carries every field, an update the      *)
(* fields it changes, get and delete nothing.                              *)
Call == [op : Ops, user : Users, arg : Patch]
WellFormed(c) == c \in Call /\ (c.op = "create" => c.arg \in Content)

Statuses == {"pending", "ok", "not_found", "already_exists",
             "unavailable", "internal"}
Answer == [status : Statuses, body : StoredDoc]
Ok(doc) == [status |-> "ok", body |-> doc]
Err(status) == [status |-> status, body |-> NoDoc]
Pending == Err("pending")

---------------------------------------------------------------------------
(* decode_stored_profile and validate_stored_profile: the exact canonical  *)
(* fields, the expected id and normalized values (all others are Foreign), *)
(* and created_at <= updated_at.                                           *)
Readable(doc) == doc \notin {NoDoc, Foreign} /\ doc.created <= doc.updated

(* next_timestamp: the clock where it has advanced past the previous       *)
(* value, one millisecond after it otherwise; nothing follows the maximum. *)
CanAdvance(previous, now) == now > previous \/ previous # MaxTime
NextTimestampNotStrict(previous, now) ==                       \* mutant
    IF now >= previous THEN now ELSE previous + 1
NextTimestamp(previous, now) == IF now > previous THEN now ELSE previous + 1

BuildProfile(content, now) ==
    [content |-> content, created |-> now, updated |-> now]

Merged(content, patch) ==
    [f \in Fields |-> IF f \in DOMAIN patch THEN patch[f] ELSE content[f]]

UpdatedProfile(current, patch, now) ==
    [content |-> Merged(current.content, patch),
     created |-> current.created,
     updated |-> NextTimestamp(current.updated, now)]

(* The closures of create, update and delete: the documents they read for  *)
(* which they stage a write, the document they write, ...                  *)
Changes(c, current) == Merged(current.content, c.arg) # current.content
Writes(c, now, old) ==
    \/ c.op = "create" /\ old = NoDoc
    \/ /\ c.op = "update" /\ Readable(old)
       /\ Changes(c, old) /\ CanAdvance(old.updated, now)
    \/ c.op = "delete" /\ Readable(old)

NewDoc(c, now, old) ==
    IF c.op = "create" THEN BuildProfile(c.arg, now)
    ELSE IF c.op = "update" THEN UpdatedProfile(old, c.arg, now)
    ELSE NoDoc

(* ... and the answer where the document settles it without a write: it    *)
(* exists already, does not exist, is not acceptable, is what a get or an  *)
(* update without a change returns, or has no later timestamp left.        *)
Settled(c, old) ==
    IF c.op = "create" THEN Err("already_exists")
    ELSE IF old = NoDoc THEN Err("not_found")
    ELSE IF Readable(old) /\ (c.op = "get" \/ (c.op = "update" /\ ~Changes(c, old)))
         THEN Ok(old)
    ELSE Err("internal")

(* What one atomic execution of a call does to the document of its user.   *)
Outcome(c, now, old) ==
    IF Writes(c, now, old)
    THEN [old |-> old, new |-> NewDoc(c, now, old), ans |-> Ok(NewDoc(c, now, old))]
    ELSE [old |-> old, new |-> old, ans |-> Settled(c, old)]
OutcomeType == [old : StoredDoc, new : StoredDoc, ans : Answer]

(* map_firestore_error, by the class of the error: "transient" for network *)
(* and retryable database errors, "conflict" for DataConflictError,        *)
(* "missing" for DataNotFoundError, "backend" for every other one.         *)
Errors == {"transient", "conflict", "missing", "backend"}
MapError(op, e) ==
    IF e = "transient" THEN Err("unavailable")
    ELSE IF e = "conflict" /\ op = "create" THEN Err("already_exists")
    ELSE IF e = "missing" \/ (e = "conflict" /\ op \in {"update", "delete"})
         THEN Err("not_found")
    ELSE Err("internal")
=============================================================================

-------------------------- MODULE ProfileContract --------------------------
(***************************************************************************)
(* What the profile service promises its callers, as the mock used by the  *)
(* HTTP tests implements it: every call takes effect in one atomic step on *)
(* the document of its user, and what it answers is the outcome of such a  *)
(* step of its own. "unavailable" promises nothing: the call may have      *)
(* taken effect, or may still. A call takes effect a second time only if   *)
(* the reply to a commit of its own was lost (doubt).                      *)
(***************************************************************************)
EXTENDS ProfileData, FiniteSets

CONSTANTS
    Requests,   \* the calls made by clients
    Calls,      \* what they may ask for
    NoCall,     \* a request not made yet
    InitDocs    \* the documents a user may have at the start

VARIABLES
    docs,       \* the stored document of each user
    call,       \* what each request asked for
    result,     \* the answer of each request
    acts,       \* the outcomes of the executions of each request
    doubt       \* the requests one of whose replies was lost

vars == <<docs, call, result, acts, doubt>>

Init ==
    /\ docs \in [Users -> InitDocs]
    /\ call = [r \in Requests |-> NoCall]
    /\ result = [r \in Requests |-> Pending]
    /\ acts = [r \in Requests |-> {}]
    /\ doubt = {}

Open(r) == call[r] # NoCall /\ result[r] = Pending

Invoke(r) ==
    /\ call[r] = NoCall
    /\ \E c \in Calls : call' = [call EXCEPT ![r] = c]
    /\ UNCHANGED <<docs, result, acts, doubt>>

Effective(r) == \E out \in acts[r] : out.new # out.old

(* The call executes: until it has changed the document, or again if a     *)
(* reply was lost; after an answer only where that answer was              *)
(* "unavailable" or a reply was lost.                                      *)
Execute(r) ==
    /\ call[r] # NoCall
    /\ \/ r \in doubt
       \/ ~Effective(r) /\ result[r] \in {Pending, Err("unavailable")}
    /\ \E now \in Times :
           LET out == Outcome(call[r], now, docs[call[r].user])
           IN  /\ docs' = [docs EXCEPT ![call[r].user] = out.new]
               /\ acts' = [acts EXCEPT ![r] = @ \cup {out}]
    /\ UNCHANGED <<call, result, doubt>>

(* It answers with the outcome of one of its executions, the one that      *)
(* changed the document if there is one and no reply was lost.             *)
AnswerOutcome(r) ==
    /\ Open(r)
    /\ \E out \in acts[r] :
           /\ out.new # out.old \/ ~Effective(r) \/ r \in doubt
           /\ result' = [result EXCEPT ![r] = out.ans]
    /\ UNCHANGED <<docs, call, acts, doubt>>

(* A plain read answers from the document it finds.                        *)
AnswerRead(r) ==
    /\ Open(r)
    /\ call[r].op = "get"
    /\ result' = [result EXCEPT ![r] = Settled(call[r], docs[call[r].user])]
    /\ UNCHANGED <<docs, call, acts, doubt>>

(* The call gives up. "internal" is only said of a call without effect,    *)
(* or of one whose reply was lost.                                         *)
Refuse(r) ==
    /\ Open(r)
    /\ \E status \in {"unavailable", "internal"} :
           /\ status = "internal" => ~Effective(r) \/ r \in doubt'
           /\ result' = [result EXCEPT ![r] = Err(status)]
    /\ doubt' \in {doubt, doubt \cup {r}}
    /\ UNCHANGED <<docs, call, acts>>

LoseReply(r) ==
    /\ Open(r)
    /\ doubt' = doubt \cup {r}
    /\ UNCHANGED <<docs, call, result, acts>>

Next ==
    \E r \in Requests :
        \/ Invoke(r) \/ Execute(r) \/ AnswerOutcome(r) \/ AnswerRead(r)
        \/ Refuse(r) \/ LoseReply(r)

Spec == Init /\ [][Next]_vars
=============================================================================

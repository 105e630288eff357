--------------------------- MODULE ProfileService ---------------------------
(***************************************************************************)
(* FirestoreProfileStore behind ProfileService: concurrent requests on the *)
(* documents of their users, the shared client that the first of them      *)
(* creates, the transactions that the Firestore library retries, the       *)
(* server that commits or aborts them, lost replies, the deadline of 30    *)
(* seconds around every operation, and the death of the process.           *)
(***************************************************************************)
EXTENDS ProfileData, FiniteSets

CONSTANTS
    Requests,    \* the calls made by clients, one at a time each
    Calls,       \* what they may ask for
    NoCall,      \* a request not made yet
    InitDocs,    \* the documents a user may have at the start
    NoTx,        \* an attempt not made yet
    MaxAttempts, \* bound on the transactions one run_transaction tries
    BeginErrors  \* the errors Firestore may answer before a commit

Attempts == 1 .. MaxAttempts

ASSUME ServiceAssumption ==
    /\ \A c \in Calls : WellFormed(c)
    /\ NoCall \notin Call
    /\ InitDocs \subseteq StoredDoc
    /\ \A d \in InitDocs \ {NoDoc, Foreign} : Readable(d)
    /\ MaxAttempts \in Nat \ {0}
    /\ BeginErrors \subseteq Errors

(* An attempt: what its closure decided, what became of it at the server,  *)
(* and whether the reply to its commit was lost. "stale": the document was *)
(* changed after the attempt read it.                                      *)
AttemptStates == {"sent", "stale", "applied", "refused", "aborted"}
Attempt == [out : OutcomeType, st : AttemptStates, lost : BOOLEAN]

ASSUME NoTxAssumption == NoTx \notin Attempt

VARIABLES
    docs,    \* the profiles collection, as the server holds it
    cell,    \* OnceCell<FirestoreDb>: "empty", "ready" or its initializer
    call,    \* the arguments of each request
    pc,      \* where the handler of each request is
    now,     \* the clock each request read, once
    att,     \* the current attempt of each request
    tx,      \* the attempts of each request
    result   \* the answer of each request

vars == <<docs, cell, call, pc, now, att, tx, result>>

PCs == {"idle", "client", "begin", "read", "commit", "done", "gone"}

Init ==
    /\ docs \in [Users -> InitDocs]
    /\ cell = "empty"
    /\ call = [r \in Requests |-> NoCall]
    /\ pc = [r \in Requests |-> "idle"]
    /\ now = [r \in Requests |-> 0]
    /\ att = [r \in Requests |-> 0]
    /\ tx = [r \in Requests |-> [k \in Attempts |-> NoTx]]
    /\ result = [r \in Requests |-> Pending]

Doc(r) == docs[call[r].user]
Tx(r) == tx[r][att[r]]
Goto(r, label) == pc' = [pc EXCEPT ![r] = label]
Finish(r, ans) == Goto(r, "done") /\ result' = [result EXCEPT ![r] = ans]

---------------------------------------------------------------------------
(* ProfileService::create, get, update and delete, under with_deadline.    *)
Invoke(r) ==
    /\ pc[r] = "idle"
    /\ \E c \in Calls : call' = [call EXCEPT ![r] = c]
    /\ Goto(r, "client")
    /\ UNCHANGED <<docs, cell, now, att, tx, result>>

(* db(): get_or_try_init lets one request build the client, the others     *)
(* wait; a failure or a cancelled initializer leaves the cell empty.       *)
InitClient(r) ==
    /\ pc[r] = "client" /\ cell = "empty"
    /\ cell' = r
    /\ UNCHANGED <<docs, call, pc, now, att, tx, result>>

ClientBuilt(r) ==
    /\ pc[r] = "client" /\ cell = r
    /\ cell' = "ready"
    /\ UNCHANGED <<docs, call, pc, now, att, tx, result>>

ClientFails(r, e) ==
    /\ pc[r] = "client" /\ cell = r
    /\ cell' = "empty"
    /\ Finish(r, MapError("initialize", e))
    /\ UNCHANGED <<docs, call, now, att, tx>>

(* The wall clock is read once, before run_transaction: every attempt uses *)
(* it, and it may be behind what an earlier request read.                  *)
ClientReady(r) ==
    /\ pc[r] = "client" /\ cell = "ready"
    /\ \E t \in IF call[r].op \in {"create", "update"} THEN Times ELSE {0} :
           now' = [now EXCEPT ![r] = t]
    /\ Goto(r, IF call[r].op = "get" THEN "read" ELSE "begin")
    /\ UNCHANGED <<docs, cell, call, att, tx, result>>

(* A get is one read outside of any transaction.                           *)
Get(r) ==
    /\ pc[r] = "read" /\ call[r].op = "get"
    /\ Finish(r, Settled(call[r], Doc(r)))
    /\ UNCHANGED <<docs, cell, call, now, att, tx>>

GetFails(r, e) ==
    /\ pc[r] = "read" /\ call[r].op = "get"
    /\ Finish(r, MapError("get", e))
    /\ UNCHANGED <<docs, cell, call, now, att, tx>>

(* run_transaction: a new transaction for every attempt.                   *)
BeginTransaction(r) ==
    /\ pc[r] = "begin"
    /\ att' = [att EXCEPT ![r] = @ + 1]
    /\ Goto(r, "read")
    /\ UNCHANGED <<docs, cell, call, now, tx, result>>

BeginFails(r, e) ==
    /\ pc[r] = "begin"
    /\ Finish(r, MapError(call[r].op, e))
    /\ UNCHANGED <<docs, cell, call, now, att, tx>>

(* The closure reads the document in the transaction and decides. With a   *)
(* write the commit is sent; without one nothing is left to commit.        *)
RunClosureOnFirstRead(r) ==                                    \* mutant
    /\ pc[r] = "read" /\ call[r].op # "get"
    /\ LET old == IF att[r] > 1 /\ tx[r][1] # NoTx THEN tx[r][1].out.old ELSE Doc(r)
           out == Outcome(call[r], now[r], old)
           st == IF Writes(call[r], now[r], old) THEN "sent" ELSE "applied"
       IN  tx' = [tx EXCEPT ![r][att[r]] = [out |-> out, st |-> st, lost |-> FALSE]]
    /\ Goto(r, "commit")
    /\ UNCHANGED <<docs, cell, call, now, att, result>>
RunClosure(r) ==
    /\ pc[r] = "read" /\ call[r].op # "get"
    /\ LET out == Outcome(call[r], now[r], Doc(r))
           st == IF Writes(call[r], now[r], Doc(r)) THEN "sent" ELSE "applied"
       IN  tx' = [tx EXCEPT ![r][att[r]] = [out |-> out, st |-> st, lost |-> FALSE]]
    /\ Goto(r, "commit")
    /\ UNCHANGED <<docs, cell, call, now, att, result>>

(* The library tries again, or has spent its budget.                       *)
RetryOrGiveUp(r) ==
    \/ att[r] < MaxAttempts /\ Goto(r, "begin") /\ UNCHANGED result
    \/ Finish(r, Err("unavailable"))

(* transaction_firestore_error: a transient error is retried, a permanent  *)
(* one ends the transaction as ErrorInTransaction, which is "unavailable". *)
ReadFails(r, e) ==
    /\ pc[r] = "read" /\ call[r].op # "get"
    /\ IF e = "transient" THEN RetryOrGiveUp(r) ELSE Finish(r, Err("unavailable"))
    /\ UNCHANGED <<docs, cell, call, now, att, tx>>

CommittedUnchecked(r) ==                                       \* mutant
    /\ pc[r] = "commit"
    /\ Tx(r).st \in {"applied", "refused", "aborted"}
    /\ Finish(r, Tx(r).out.ans)
    /\ UNCHANGED <<docs, cell, call, now, att, tx>>
Committed(r) ==
    /\ pc[r] = "commit"
    /\ Tx(r).st \in {"applied", "refused"}
    /\ Finish(r, Tx(r).out.ans)
    /\ UNCHANGED <<docs, cell, call, now, att, tx>>

(* The commit answers an error: the server aborted it, or its fate is not  *)
(* known and the reply is lost.                                            *)
CommitFails(r, e) ==
    /\ pc[r] = "commit"
    /\ tx' = [tx EXCEPT ![r][att[r]].lost =
                  @ \/ (Tx(r).st # "aborted" /\ Tx(r).out.new # Tx(r).out.old)]
    /\ IF e = "transient" THEN RetryOrGiveUp(r)
                          ELSE Finish(r, MapError(call[r].op, e))
    /\ UNCHANGED <<docs, cell, call, now, att>>

---------------------------------------------------------------------------
(* The server. A commit is applied only while what it read is current, and *)
(* makes every other commit on the document stale.                         *)
Overtaken(r, k) ==
    [q \in Requests |-> [j \in Attempts |->
        IF /\ tx[q][j] # NoTx /\ tx[q][j].st = "sent"
           /\ <<q, j>> # <<r, k>> /\ call[q].user = call[r].user
        THEN [tx[q][j] EXCEPT !.st = "stale"]
        ELSE IF <<q, j>> = <<r, k>> THEN [tx[q][j] EXCEPT !.st = "applied"]
        ELSE tx[q][j]]]

ServerCommits(r, k) ==
    /\ tx[r][k] # NoTx /\ tx[r][k].st = "sent"
    /\ docs' = [docs EXCEPT ![call[r].user] = tx[r][k].out.new]
    /\ tx' = Overtaken(r, k)
    /\ UNCHANGED <<cell, call, pc, now, att, result>>

(* FirestoreWritePrecondition: Exists(false) on a create, Exists(true) on  *)
(* an update or delete, against the document the server has.               *)
PreconditionError(r) ==
    {e \in {"conflict", "missing"} :
        IF call[r].op = "create" THEN e = "conflict" /\ Doc(r) # NoDoc
                                 ELSE e = "missing" /\ Doc(r) = NoDoc}

ServerRefuses(r, k) ==
    /\ tx[r][k] # NoTx /\ tx[r][k].st \in {"sent", "stale"}
    /\ \E e \in PreconditionError(r) :
           tx' = [tx EXCEPT ![r][k].st = "refused",
                            ![r][k].out = [old |-> Doc(r), new |-> Doc(r),
                                           ans |-> MapError(call[r].op, e)]]
    /\ UNCHANGED <<docs, cell, call, pc, now, att, result>>

ServerAborts(r, k) ==
    /\ tx[r][k] # NoTx /\ tx[r][k].st \in {"sent", "stale"}
    /\ tx' = [tx EXCEPT ![r][k].st = "aborted"]
    /\ UNCHANGED <<docs, cell, call, pc, now, att, result>>

---------------------------------------------------------------------------
(* with_deadline drops the future of the operation wherever it is.         *)
Running(r) == pc[r] \in {"client", "begin", "read", "commit"}

DeadlineKeepsCell(r) ==                                        \* mutant
    /\ Running(r)
    /\ Finish(r, Err("unavailable"))
    /\ UNCHANGED <<docs, cell, call, now, att, tx>>
DeadlinePerAttempt(r) ==                                       \* mutant
    /\ Running(r)
    /\ IF pc[r] = "commit" /\ att[r] < MaxAttempts
       THEN Goto(r, "begin") /\ UNCHANGED result
       ELSE Finish(r, Err("unavailable"))
    /\ cell' = IF cell = r THEN "empty" ELSE cell
    /\ UNCHANGED <<docs, call, now, att, tx>>
DeadlineAfterClient(r) ==                                      \* mutant
    /\ Running(r) /\ pc[r] # "client"
    /\ Finish(r, Err("unavailable"))
    /\ UNCHANGED <<docs, cell, call, now, att, tx>>
Deadline(r) ==
    /\ Running(r)
    /\ Finish(r, Err("unavailable"))
    /\ cell' = IF cell = r THEN "empty" ELSE cell
    /\ UNCHANGED <<docs, call, now, att, tx>>

(* The process dies: its requests get no answer, its client is gone, and   *)
(* what it has sent may still be committed.                                *)
Crash ==
    /\ \E r \in Requests : Running(r)
    /\ pc' = [r \in Requests |-> IF Running(r) THEN "gone" ELSE pc[r]]
    /\ cell' = "empty"
    /\ UNCHANGED <<docs, call, now, att, tx, result>>

Handler(r) ==
    \/ Invoke(r) \/ InitClient(r) \/ ClientBuilt(r) \/ ClientReady(r)
    \/ Get(r) \/ BeginTransaction(r) \/ RunClosure(r) \/ Committed(r)
    \/ Deadline(r)
    \/ \E e \in {"transient", "backend"} :
           ClientFails(r, e) \/ ReadFails(r, e) \/ CommitFails(r, e)
    \/ \E e \in BeginErrors : BeginFails(r, e) \/ GetFails(r, e)

Server ==
    \E r \in Requests, k \in Attempts :
        ServerCommits(r, k) \/ ServerRefuses(r, k) \/ ServerAborts(r, k)

Next == Crash \/ Server \/ \E r \in Requests : Handler(r)

Spec == Init /\ [][Next]_vars
FairSpec == Spec /\ \A r \in Requests : WF_vars(Deadline(r))

---------------------------------------------------------------------------
(* The types of the variables; no write leaves the range of timestamps.    *)
TypeOK ==
    /\ docs \in [Users -> StoredDoc]
    /\ cell \in {"empty", "ready"} \cup Requests
    /\ call \in [Requests -> Calls \cup {NoCall}]
    /\ pc \in [Requests -> PCs]
    /\ now \in [Requests -> Times]
    /\ att \in [Requests -> 0 .. MaxAttempts]
    /\ tx \in [Requests -> [Attempts -> Attempt \cup {NoTx}]]
    /\ result \in [Requests -> Answer]

Made(r, k) == tx[r][k] # NoTx
Changed(out) == out.new # out.old
InFlight(r, k) == Made(r, k) /\ tx[r][k].st = "sent"
Took(r, k) == Made(r, k) /\ tx[r][k].st = "applied" /\ Changed(tx[r][k].out)
Doubt == {r \in Requests : \E k \in Attempts : Made(r, k) /\ tx[r][k].lost}
Acts == [r \in Requests |->
    {tx[r][k].out : k \in {j \in Attempts :
                           Made(r, j) /\ tx[r][j].st \in {"applied", "refused"}}}]

(* How a request advances: what it has reached bounds its attempts, and    *)
(* only a transaction that is being committed awaits an answer.            *)
Progress(r) ==
    /\ pc[r] # "idle" => call[r] \in Calls
    /\ pc[r] \in {"idle", "client"} => att[r] = 0
    /\ pc[r] = "begin" => call[r].op # "get" /\ att[r] < MaxAttempts
    /\ pc[r] = "read" =>
           IF call[r].op = "get" THEN att[r] = 0
                                 ELSE att[r] \in Attempts /\ ~Made(r, att[r])
    /\ pc[r] = "commit" => call[r].op # "get" /\ att[r] \in Attempts /\ Made(r, att[r])
    /\ \A k \in Attempts : Made(r, k) => k <= att[r] /\ pc[r] \notin {"idle", "client"}

(* What is in flight at the server: a write decided on the document the    *)
(* server still has, so that its effect is that of the whole call.         *)
Current(r, k) ==
    InFlight(r, k) =>
        /\ tx[r][k].out = Outcome(call[r], now[r], Doc(r))
        /\ Writes(call[r], now[r], Doc(r))

(* While no reply was lost, an attempt that was given up for another one   *)
(* has not changed the document and never will.                            *)
GivenUp(r, k) == k < att[r] \/ (k = att[r] /\ pc[r] = "begin")
NothingLeftBehind(r) ==
    r \notin Doubt => \A k \in Attempts :
        GivenUp(r, k) => ~InFlight(r, k) /\ ~Took(r, k)

(* An answer other than "unavailable" of a call none of whose replies was  *)
(* lost is final: nothing of the call is still in flight, and an attempt   *)
(* that changed the document is the one it answers with.                   *)
Final(r) ==
    pc[r] = "done" /\ r \notin Doubt /\ result[r] # Err("unavailable") =>
        \A k \in Attempts :
            /\ ~InFlight(r, k)
            /\ Took(r, k) => result[r] = tx[r][k].out.ans

(* What a success of a create, an update or a delete stands for: an        *)
(* attempt that was applied, whose document is the one answered, and which *)
(* changed it or was an update that found every field as it asked.         *)
Performed(r, k) ==
    /\ Made(r, k) /\ tx[r][k].st = "applied"
    /\ result[r] = Ok(tx[r][k].out.new)
    /\ \/ Changed(tx[r][k].out)
       \/ call[r].op = "update" /\ ~Changes(call[r], tx[r][k].out.old)

(* Definite answers tell what became of the call. A success is never made  *)
(* up: an attempt behind it was applied. And where no reply was lost, an   *)
(* answer other than "unavailable" is final, nothing of the call can still *)
(* land, and if it changed the document, the answer is the success that    *)
(* reports this very document.                                             *)
DefiniteAnswersAreFinal ==
    \A r \in Requests :
        /\ Final(r)
        /\ pc[r] = "done" /\ call[r].op # "get" =>
               /\ result[r].status = "ok" => \E k \in Attempts : Performed(r, k)
               /\ r \notin Doubt /\ result[r] # Err("unavailable") =>
                      \A k \in Attempts :
                          Took(r, k) => result[r] = Ok(tx[r][k].out.new)

IndInv ==
    /\ TypeOK
    /\ \A u \in Users : docs[u] \in {NoDoc, Foreign} \/ Readable(docs[u])
    /\ \A r \in Requests :
           /\ Progress(r)
           /\ \A k \in Attempts : Current(r, k)
           /\ NothingLeftBehind(r)
           /\ Final(r)

(* The service keeps the contract of the mock: every call executes         *)
(* atomically on the current document (two concurrent updates never lose   *)
(* one another's fields), answers with an outcome of its own, and changes  *)
(* the document twice only if the reply to a commit was lost.              *)
Contract == INSTANCE ProfileContract WITH acts <- Acts, doubt <- Doubt
ContractSpec == Contract!Spec

(* Without a lost reply a call changes the document at most once, however  *)
(* often its transaction was retried.                                      *)
AtMostOnce ==
    \A r \in Requests \ Doubt : \A j, k \in Attempts :
        Took(r, j) /\ Took(r, k) => j = k

(* While a profile exists its creation time is fixed and its update time   *)
(* strictly increases, whatever the clocks of the requests read; a document *)
(* in a shape the strict reader does not accept is left to the migration,  *)
(* no operation writes or deletes it.                                      *)
DocumentsEvolve ==
    [][\A u \in Users :
           /\ {docs[u], docs'[u]} \cap {NoDoc, Foreign} = {} /\ docs'[u] # docs[u] =>
                  /\ docs'[u].created = docs[u].created
                  /\ docs'[u].updated > docs[u].updated
           /\ docs[u] = Foreign => docs'[u] = Foreign]_vars

(* Every document the service stores passes its own strict reader: no      *)
(* sequence of clocks leaves one that every later request answers with 500.*)
StoredDocsReadable ==
    \A u \in Users : docs[u] \in {NoDoc, Foreign} \/ Readable(docs[u])

(* The request that holds the cell of the client is one that still builds  *)
(* it: no dead initializer makes the later requests wait.                  *)
InitializerAlive ==
    \A r \in Requests : cell = r => pc[r] = "client"

(* Every call is answered, unless the process dies.                        *)
EventuallyAnswered ==
    \A r \in Requests : Running(r) ~> pc[r] \in {"done", "gone"}

(* The statuses the OpenAPI contract documents for createProfile: no 404.  *)
CreateStatusDocumented ==
    \A r \in Requests :
        pc[r] = "done" /\ call[r].op = "create" => result[r].status # "not_found"
=============================================================================

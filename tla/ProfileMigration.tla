-------------------------- MODULE ProfileMigration --------------------------
(***************************************************************************)
(* run_profile_migration: runs of the command that audits the profiles     *)
(* collection and, after a preflight, converts every retired document in a *)
(* transaction of its own, pinned to the version the audit saw, and then   *)
(* audits again. Writers of both shapes may still be active, two runs may  *)
(* overlap, commits may land after their run gave up on them, and a run    *)
(* may be killed and started again.                                        *)
(***************************************************************************)
EXTENDS Integers, FiniteSets

CONSTANTS
    Users,       \* document ids, in their order
    Vals,        \* the values of the other fields of a profile
    Ticks,       \* the instants a timestamp may name, in half milliseconds
    Runs,        \* runs of the command, reused run after run
    NoDoc,       \* the document does not exist
    Orphan,      \* an earlier run, which is over
    InitBodies,  \* what a user may have stored at the start
    WriterBodies,\* what writers may store
    MaxWrites,   \* bound on the writes of the writers
    MaxAttempts  \* bound on the transactions one run_transaction tries

Shapes == {"legacy", "canonical", "other"}
Body == [shape : Shapes, id : Users, val : Vals, created : Ticks, updated : Ticks]
Doc == [body : Body, version : Nat]     \* version: Firestore's update_time

ASSUME MigrationAssumption ==
    /\ Users \subseteq Nat
    /\ Ticks \subseteq Nat /\ \A t \in Ticks : 2 * (t \div 2) \in Ticks
    /\ InitBodies \subseteq Body \cup {NoDoc}
    /\ WriterBodies \subseteq Body \cup {NoDoc}
    /\ NoDoc \notin Doc /\ NoDoc \notin Body
    /\ Orphan \notin Runs
    /\ MaxWrites \in Nat /\ MaxAttempts \in Nat \ {0}

VARIABLES
    docs,     \* the profiles collection
    version,  \* history: the last update_time given out
    writes,   \* history: how many writes the writers made
    inflight, \* commits under way to the server
    applied,  \* history: the commits of the present runs the server applied
    pc,       \* where each run is
    mode,     \* ProfileMigrationMode
    records,  \* what its first scan read
    todo,     \* the targets it has not migrated yet
    att,      \* the transactions tried for the present target
    migrated, \* report.migrated
    result,   \* how it ended
    lost,     \* history: the reply to a commit it sent was lost
    verified  \* history: the value of writes at its second scan

server == <<docs, version, writes, inflight, applied>>
run == <<pc, mode, records, todo, att, migrated, result, lost, verified>>
vars == <<server, run>>

PCs == {"idle", "init", "audit", "transaction", "commit", "verify", "done"}
Modes == {"audit", "apply"}
Results == {"none", "ok", "project_confirmation", "initialize", "read",
            "blocked_preflight", "concurrent_change", "write", "verification", "killed"}
Commit == [run : Runs \cup {Orphan}, user : Users, version : Nat, body : Body]

---------------------------------------------------------------------------
(* classify_document and the conversion of a retired profile: timestamps   *)
(* are cut to whole milliseconds, after their order was checked.           *)
Truncate(t) == 2 * (t \div 2)

ToCanonicalKeepingPrecision(b) ==                              \* mutant
    [shape |-> "canonical", id |-> b.id, val |-> b.val,
     created |-> b.created, updated |-> b.updated]
ToCanonical(b) ==
    [shape |-> "canonical", id |-> b.id, val |-> b.val,
     created |-> Truncate(b.created), updated |-> Truncate(b.updated)]

Class(u, doc) ==
    LET b == doc.body
        ordered == b.id = u /\ b.created <= b.updated
    IN  IF b.shape = "legacy" /\ ordered THEN "legacy"
        ELSE IF /\ b.shape = "canonical" /\ ordered
                /\ Truncate(b.created) = b.created /\ Truncate(b.updated) = b.updated
             THEN "current"
        ELSE "blocked"

Classified(scan, class) == {u \in Users : scan[u] # NoDoc /\ Class(u, scan[u]) = class}

Init ==
    /\ docs \in [Users -> {NoDoc} \cup [body : InitBodies \ {NoDoc}, version : {0}]]
    /\ version = 0 /\ writes = 0
    /\ inflight = {} /\ applied = {}
    /\ pc = [r \in Runs |-> "idle"]
    /\ mode = [r \in Runs |-> "audit"]
    /\ records = [r \in Runs |-> [u \in Users |-> NoDoc]]
    /\ todo = [r \in Runs |-> {}]
    /\ att = [r \in Runs |-> 0]
    /\ migrated = [r \in Runs |-> 0]
    /\ result = [r \in Runs |-> "none"]
    /\ lost = [r \in Runs |-> FALSE]
    /\ verified = [r \in Runs |-> 0]

Running(r) == pc[r] \notin {"idle", "done"}
Goto(r, label) == pc' = [pc EXCEPT ![r] = label]
Finish(r, res) ==
    /\ Goto(r, "done")
    /\ result' = [result EXCEPT ![r] = res]
    /\ todo' = [todo EXCEPT ![r] = {}]
    /\ att' = [att EXCEPT ![r] = 0]

---------------------------------------------------------------------------
(* A run begins. Applying takes the confirmation of the project; what an   *)
(* earlier run left under way is not its own.                              *)
Start(r) ==
    /\ ~Running(r)
    /\ \E m \in Modes : mode' = [mode EXCEPT ![r] = m]
    /\ \/ Goto(r, "init") /\ result' = [result EXCEPT ![r] = "none"] /\ UNCHANGED <<todo, att>>
       \/ mode'[r] = "apply" /\ Finish(r, "project_confirmation")
    /\ inflight' =
           {p \in inflight : p.run # r}
               \cup {[p EXCEPT !.run = Orphan] : p \in {q \in inflight : q.run = r}}
    /\ applied' = {p \in applied : p.run # r}
    /\ records' = [records EXCEPT ![r] = [u \in Users |-> NoDoc]]
    /\ migrated' = [migrated EXCEPT ![r] = 0]
    /\ lost' = [lost EXCEPT ![r] = FALSE]
    /\ verified' = [verified EXCEPT ![r] = 0]
    /\ UNCHANGED <<docs, version, writes>>

InitClient(r) ==
    /\ pc[r] = "init"
    /\ Goto(r, "audit")
    /\ UNCHANGED <<server, mode, records, todo, att, migrated, result, lost, verified>>

(* The next target, or the verification once there is none left.           *)
Proceed(r, targets) ==
    /\ todo' = [todo EXCEPT ![r] = targets]
    /\ att' = [att EXCEPT ![r] = 0]
    /\ Goto(r, IF targets = {} THEN "verify" ELSE "transaction")
    /\ UNCHANGED result

(* The first scan, a query that reads one snapshot. An audit ends with its *)
(* report, an apply goes on with what it read unless a record is blocked.  *)
AuditIgnoringBlocked(r) ==                                     \* mutant
    /\ pc[r] = "audit"
    /\ IF mode[r] = "audit" THEN Finish(r, "ok") /\ UNCHANGED records
       ELSE /\ records' = [records EXCEPT ![r] = docs]
            /\ Proceed(r, Classified(docs, "legacy"))
    /\ UNCHANGED <<server, mode, migrated, lost, verified>>
Audit(r) ==
    /\ pc[r] = "audit"
    /\ IF mode[r] = "audit" THEN Finish(r, "ok") /\ UNCHANGED records
       ELSE IF Classified(docs, "blocked") # {}
       THEN Finish(r, "blocked_preflight") /\ UNCHANGED records
       ELSE /\ records' = [records EXCEPT ![r] = docs]
            /\ Proceed(r, Classified(docs, "legacy"))
    /\ UNCHANGED <<server, mode, migrated, lost, verified>>

(* The targets are taken in the order of their ids.                        *)
Target(r, u) == u \in todo[r] /\ \A v \in todo[r] : u <= v
CommitOf(r, u) ==
    [run |-> r, user |-> u, version |-> records[r][u].version,
     body |-> ToCanonical(records[r][u].body)]

(* The closure of migrate_one: the target is read again and must still     *)
(* have the version of the audit; the write is pinned to that version.     *)
Decision(u, doc, pinned) ==
    IF doc = NoDoc \/ doc.version # pinned THEN "changed"
    ELSE IF Class(u, doc) = "legacy" THEN "migrate"
    ELSE IF Class(u, doc) = "current" THEN "current"
    ELSE "changed"

Migrate(r, u) ==
    /\ pc[r] = "transaction" /\ Target(r, u)
    /\ LET decision == Decision(u, docs[u], records[r][u].version)
       IN  /\ decision = "changed" =>
                  Finish(r, "concurrent_change") /\ UNCHANGED inflight
           /\ decision = "current" => Proceed(r, todo[r] \ {u}) /\ UNCHANGED inflight
           /\ decision = "migrate" =>
                  /\ Goto(r, "commit")
                  /\ inflight' = inflight \cup
                         {[run |-> r, user |-> u, version |-> docs[u].version,
                           body |-> ToCanonical(docs[u].body)]}
                  /\ att' = [att EXCEPT ![r] = @ + 1]
                  /\ UNCHANGED <<todo, result>>
    /\ UNCHANGED <<docs, version, writes, applied, mode, records, migrated, lost, verified>>

CommittedUnanswered(r, u) ==                                   \* mutant
    /\ pc[r] = "commit" /\ Target(r, u)
    /\ migrated' = [migrated EXCEPT ![r] = @ + 1]
    /\ Proceed(r, todo[r] \ {u})
    /\ UNCHANGED <<server, mode, records, lost, verified>>
Committed(r, u) ==
    /\ pc[r] = "commit" /\ Target(r, u)
    /\ CommitOf(r, u) \in applied
    /\ migrated' = [migrated EXCEPT ![r] = @ + 1]
    /\ Proceed(r, todo[r] \ {u})
    /\ UNCHANGED <<server, mode, records, lost, verified>>

(* The transaction fails before its commit is sent, or the commit does:    *)
(* refused by the server, or with its fate unknown. A transient error is   *)
(* retried while the budget of the library lasts.                          *)
TransactionFails(r, u) ==
    /\ pc[r] \in {"transaction", "commit"} /\ Target(r, u)
    /\ lost' = [lost EXCEPT ![r] =
                   @ \/ (pc[r] = "commit" /\ CommitOf(r, u) \in inflight \cup applied)]
    /\ LET tried == IF pc[r] = "commit" THEN att[r] ELSE att[r] + 1
       IN  \/ /\ tried < MaxAttempts
              /\ att' = [att EXCEPT ![r] = tried]
              /\ Goto(r, "transaction")
              /\ UNCHANGED <<todo, result>>
           \/ Finish(r, "write")
    /\ UNCHANGED <<server, mode, records, migrated, verified>>

(* The second scan: an apply ends well if it finds current records only.   *)
VerifyNothing(r) ==                                            \* mutant
    /\ pc[r] = "verify"
    /\ verified' = [verified EXCEPT ![r] = writes]
    /\ Finish(r, "ok")
    /\ UNCHANGED <<server, mode, records, migrated, lost>>
Verify(r) ==
    /\ pc[r] = "verify"
    /\ verified' = [verified EXCEPT ![r] = writes]
    /\ Finish(r, IF Classified(docs, "legacy") \cup Classified(docs, "blocked") = {}
                 THEN "ok" ELSE "verification")
    /\ UNCHANGED <<server, mode, records, migrated, lost>>

(* A scan or the initialization fails, or a phase exceeds its deadline:    *)
(* the error is named after the phase. The process may also be killed.     *)
PhaseErrorAsChange(r) ==                                       \* mutant
    IF pc[r] = "init" THEN "initialize"
    ELSE IF pc[r] = "audit" THEN "read"
    ELSE IF pc[r] = "verify" THEN "verification"
    ELSE "concurrent_change"
PhaseError(r) ==
    IF pc[r] = "init" THEN "initialize"
    ELSE IF pc[r] = "audit" THEN "read"
    ELSE IF pc[r] = "verify" THEN "verification"
    ELSE "write"

PhaseFailsBeforeCommit(r) ==                                   \* mutant
    /\ Running(r) /\ pc[r] # "commit"
    /\ \E res \in {PhaseError(r), "killed"} : Finish(r, res)
    /\ UNCHANGED <<server, mode, records, migrated, lost, verified>>
PhaseFails(r) ==
    /\ Running(r)
    /\ \E res \in {PhaseError(r), "killed"} : Finish(r, res)
    /\ UNCHANGED <<server, mode, records, migrated, lost, verified>>

---------------------------------------------------------------------------
(* The server applies a commit while the document has the version the      *)
(* commit is pinned to, and may refuse or drop it at any time.             *)
ServerCommits(p) ==
    /\ docs[p.user] # NoDoc /\ docs[p.user].version = p.version
    /\ version' = version + 1
    /\ docs' = [docs EXCEPT ![p.user] = [body |-> p.body, version |-> version + 1]]
    /\ inflight' = inflight \ {p}
    /\ applied' = IF p.run = Orphan THEN applied ELSE applied \cup {p}
    /\ UNCHANGED <<writes, run>>

ServerDrops(p) ==
    /\ inflight' = inflight \ {p}
    /\ UNCHANGED <<docs, version, writes, applied, run>>

(* A writer, the old runtime or the new one, stores or deletes a document. *)
Write(u) ==
    /\ writes < MaxWrites
    /\ writes' = writes + 1
    /\ version' = version + 1
    /\ \E b \in WriterBodies :
           docs' = [docs EXCEPT ![u] = IF b = NoDoc THEN NoDoc
                                       ELSE [body |-> b, version |-> version + 1]]
    /\ UNCHANGED <<inflight, applied, run>>

Step(r) ==
    \/ Start(r) \/ InitClient(r) \/ Audit(r) \/ Verify(r) \/ PhaseFails(r)
    \/ \E u \in Users : Migrate(r, u) \/ Committed(r, u) \/ TransactionFails(r, u)

Server == \E p \in inflight : ServerCommits(p) \/ ServerDrops(p)

Next == Server \/ (\E u \in Users : Write(u)) \/ (\E r \in Runs : Step(r))

Spec == Init /\ [][Next]_vars

(* The timers end every phase that hangs; the operator runs the command    *)
(* again whenever it ended, as its errors ask for; and Firestore does not  *)
(* fail forever.                                                           *)
Rerun(r) == Start(r) /\ mode'[r] = "apply" /\ pc'[r] = "init"
FairSpec ==
    /\ Spec
    /\ \A r \in Runs : WF_vars(PhaseFails(r))
    /\ \A r \in Runs :
           /\ SF_vars(Rerun(r))
           /\ SF_vars(mode[r] = "apply" /\ InitClient(r))
           /\ SF_vars(mode[r] = "apply" /\ Audit(r))
           /\ SF_vars(\E u \in Users : Migrate(r, u))
           /\ SF_vars(\E u \in Users : Committed(r, u))
           /\ SF_vars(Verify(r))
    /\ SF_vars(\E p \in inflight : ServerCommits(p))

---------------------------------------------------------------------------
TypeOK ==
    /\ docs \in [Users -> Doc \cup {NoDoc}]
    /\ version \in Nat /\ writes \in 0 .. MaxWrites
    /\ inflight \subseteq Commit /\ applied \subseteq Commit
    /\ pc \in [Runs -> PCs]
    /\ mode \in [Runs -> Modes]
    /\ records \in [Runs -> [Users -> Doc \cup {NoDoc}]]
    /\ todo \in [Runs -> SUBSET Users]
    /\ att \in [Runs -> 0 .. MaxAttempts]
    /\ \A r \in Runs : pc[r] = "transaction" => att[r] < MaxAttempts
    /\ migrated \in [Runs -> Nat]
    /\ result \in [Runs -> Results]
    /\ lost \in [Runs -> BOOLEAN]
    /\ verified \in [Runs -> 0 .. MaxWrites]

Mine(r) == {p \in applied : p.run = r}

(* A migration changes a document only from a retired profile to the       *)
(* canonical profile with the same content: no write of anyone else is     *)
(* lost or undone, even by a commit that lands after its run is over.      *)
OnlyLegacyConverted ==
    [][\A u \in Users :
           writes' = writes /\ docs'[u] # docs[u] =>
               /\ docs[u] # NoDoc /\ docs'[u] # NoDoc
               /\ Class(u, docs[u]) = "legacy" /\ Class(u, docs'[u]) = "current"
               /\ docs'[u].body = ToCanonical(docs[u].body)]_vars

(* Nothing is written before the whole preflight passed, nothing by an     *)
(* audit, and nothing but what the preflight saw.                          *)
PreflightFirst ==
    \A p \in inflight \cup applied : p.run # Orphan =>
        /\ mode[p.run] = "apply"
        /\ Classified(records[p.run], "blocked") = {}
        /\ p.user \in Classified(records[p.run], "legacy")
        /\ p.version = records[p.run][p.user].version

(* What a run works on: the targets its preflight selected.                *)
TargetsAudited ==
    \A r \in Runs :
        /\ pc[r] \in {"transaction", "commit", "verify"} =>
               mode[r] = "apply" /\ Classified(records[r], "blocked") = {}
        /\ pc[r] \in {"transaction", "commit"} =>
               todo[r] \subseteq Classified(records[r], "legacy")

(* A run begins with nothing of its own under way and ends with a result.  *)
RunsFresh ==
    \A r \in Runs :
        /\ Running(r) => result[r] = "none"
        /\ pc[r] \in {"init", "audit"} => \A p \in inflight \cup applied : p.run # r
        /\ verified[r] <= writes

(* A version of a document is only ever one document, and a commit pinned  *)
(* to it converts that document.                                           *)
VersionsIdentify ==
    /\ \A u \in Users : docs[u] # NoDoc => docs[u].version <= version
    /\ \A r \in Runs, u \in Users : records[r][u] # NoDoc =>
           /\ records[r][u].version <= version
           /\ docs[u] # NoDoc /\ docs[u].version = records[r][u].version =>
                  docs[u] = records[r][u]
    /\ \A p \in inflight :
           /\ p.version <= version
           /\ docs[p.user] # NoDoc /\ docs[p.user].version = p.version =>
                  /\ Class(p.user, docs[p.user]) = "legacy"
                  /\ p.body = ToCanonical(docs[p.user].body)

(* After a successful apply, and until a writer writes again, every        *)
(* document is current, whatever commits of other runs still land.         *)
SuccessIsComplete ==
    \A r \in Runs :
        result[r] = "ok" /\ mode[r] = "apply" /\ verified[r] = writes =>
            \A u \in Users : docs[u] # NoDoc => Class(u, docs[u]) = "current"

(* The inductive invariant of the proofs.                                  *)
IndInv ==
    /\ TypeOK
    /\ PreflightFirst
    /\ TargetsAudited
    /\ RunsFresh
    /\ VersionsIdentify
    /\ SuccessIsComplete

(* The report counts what the run converted; it can be short only of       *)
(* commits whose reply was lost or not awaited.                            *)
CountIsHonest ==
    \A r \in Runs :
        /\ migrated[r] <= Cardinality(Mine(r))
        /\ pc[r] = "done" /\ ~lost[r] /\ result[r] \notin {"write", "killed"} =>
               migrated[r] = Cardinality(Mine(r))

(* Repeated runs convert every retired document, whatever ended the earlier*)
(* ones, once the writers are done, unless a blocked one has to be repaired.*)
RerunsConverge ==
    \/ <>[](\A u \in Users : docs[u] # NoDoc => Class(u, docs[u]) = "current")
    \/ <>[](Classified(docs, "blocked") # {})

(* A run that reports a concurrent change, and lost no reply, met one: a   *)
(* target that is no longer what the audit saw and that it did not convert.*)
ConcurrentChangeIsReal ==
    \A r \in Runs :
        result[r] = "concurrent_change" /\ ~lost[r] =>
            \E u \in Classified(records[r], "legacy") :
                docs[u] # records[r][u] /\ \A p \in Mine(r) : p.user # u
=============================================================================

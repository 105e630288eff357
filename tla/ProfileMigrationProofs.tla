----------------------- MODULE ProfileMigrationProofs -----------------------
(***************************************************************************)
(* Proofs about ProfileMigration for every collection, every set of runs   *)
(* and every number of concurrent writes.                                  *)
(***************************************************************************)
EXTENDS ProfileMigration, FiniteSetTheorems, TLAPS

---------------------------------------------------------------------------
(* The conversion.                                                         *)

LEMMA TruncateFacts ==
    ASSUME NEW t \in Ticks, NEW s \in Ticks
    PROVE  /\ Truncate(t) \in Ticks
           /\ Truncate(Truncate(t)) = Truncate(t)
           /\ s <= t => Truncate(s) <= Truncate(t)
  BY MigrationAssumption DEF Truncate

(* A retired profile becomes one that the runtime reads.                   *)
LEMMA ConversionCurrent ==
    ASSUME NEW u \in Users, NEW doc \in Doc, Class(u, doc) = "legacy", NEW n
    PROVE  /\ ToCanonical(doc.body) \in Body
           /\ Class(u, [body |-> ToCanonical(doc.body), version |-> n]) = "current"
  <1> DEFINE b == doc.body
             c == ToCanonical(b)
  <1>1. b \in Body
    BY DEF Doc
  <1>2. b.shape = "legacy" /\ b.id = u /\ b.created <= b.updated
    BY DEF Class
  <1>3. b.created \in Ticks /\ b.updated \in Ticks /\ b.id \in Users /\ b.val \in Vals
    BY <1>1 DEF Body
  <1>4. c = [shape |-> "canonical", id |-> b.id, val |-> b.val,
             created |-> Truncate(b.created), updated |-> Truncate(b.updated)]
    BY DEF ToCanonical
  <1>5. c \in Body
    BY <1>3, <1>4, TruncateFacts DEF Body, Shapes
  <1>6. /\ c.shape = "canonical" /\ c.id = u /\ c.created <= c.updated
        /\ Truncate(c.created) = c.created /\ Truncate(c.updated) = c.updated
    BY <1>2, <1>3, <1>4, TruncateFacts
  <1> HIDE DEF c
  <1>7. Class(u, [body |-> c, version |-> n]) = "current"
    BY <1>6 DEF Class
  <1> QED
    BY <1>5, <1>7 DEF c

LEMMA InitIndInv == Init => IndInv
  <1> SUFFICES ASSUME Init PROVE IndInv
    OBVIOUS
  <1> DEFINE First == [body : InitBodies \ {NoDoc}, version : {0}]
  <1>0. \A d \in First : d \in Doc /\ d.version = 0
    BY MigrationAssumption DEF Doc
  <1> HIDE DEF First
  <1>1. \A u \in Users : docs[u] # NoDoc => docs[u] \in Doc /\ docs[u].version = 0
    <2>1. docs \in [Users -> {NoDoc} \cup First]
      BY DEF Init, First
    <2> QED
      BY <1>0, <2>1
  <1>2. TypeOK
    <2>1. docs \in [Users -> Doc \cup {NoDoc}]
      BY <1>1 DEF Init
    <2> QED
      BY <2>1, MigrationAssumption DEF Init, TypeOK, PCs, Modes, Results
  <1>3. PreflightFirst /\ TargetsAudited /\ RunsFresh /\ SuccessIsComplete
    BY DEF Init, PreflightFirst, TargetsAudited, RunsFresh, Running, SuccessIsComplete
  <1>4. VersionsIdentify
    BY <1>1 DEF Init, VersionsIdentify
  <1> QED
    BY <1>2, <1>3, <1>4 DEF IndInv

---------------------------------------------------------------------------
(* The types.                                                              *)
LEMMA TypeStep ==
    ASSUME TypeOK, [Next]_vars
    PROVE  TypeOK'
  <1> USE MigrationAssumption DEF PCs, Modes, Results
  <1>1. ASSUME NEW r \in Runs, Start(r) PROVE TypeOK'
    <2>1. inflight' \subseteq Commit
      <3>1. \A p \in inflight : [p EXCEPT !.run = Orphan] \in Commit
        BY DEF TypeOK, Commit
      <3> QED
        BY <1>1, <3>1 DEF Start, TypeOK
    <2>2. mode' \in [Runs -> Modes]
      BY <1>1 DEF Start, TypeOK
    <2>4. /\ pc' \in [Runs -> PCs] /\ result' \in [Runs -> Results]
          /\ todo' \in [Runs -> SUBSET Users] /\ att' \in [Runs -> 0 .. MaxAttempts]
          /\ pc'[r] # "transaction"
          /\ \A q \in Runs \ {r} : pc'[q] = pc[q] /\ att'[q] = att[q]
      <3>1. CASE /\ Goto(r, "init") /\ result' = [result EXCEPT ![r] = "none"]
                 /\ UNCHANGED <<todo, att>>
        BY <3>1 DEF Goto, TypeOK
      <3>2. CASE Finish(r, "project_confirmation")
        BY <3>2 DEF Finish, Goto, TypeOK
      <3> QED
        BY <1>1, <3>1, <3>2 DEF Start
    <2>5. \A q \in Runs : pc'[q] = "transaction" => att'[q] < MaxAttempts
      BY <1>1, <2>4 DEF Start, TypeOK
    <2>3. /\ applied' \subseteq Commit
          /\ records' \in [Runs -> [Users -> Doc \cup {NoDoc}]]
          /\ migrated' \in [Runs -> Nat] /\ lost' \in [Runs -> BOOLEAN]
          /\ verified' \in [Runs -> 0 .. MaxWrites]
      BY <1>1 DEF Start, TypeOK
    <2> QED
      BY <1>1, <2>1, <2>2, <2>3, <2>4, <2>5 DEF Start, TypeOK
  <1>2. ASSUME NEW r \in Runs, InitClient(r) PROVE TypeOK'
    BY <1>2 DEF InitClient, Goto, TypeOK, server
  <1>3. ASSUME NEW r \in Runs, Audit(r) PROVE TypeOK'
    <2>1. Classified(docs, "legacy") \subseteq Users
      BY DEF Classified
    <2>2. ASSUME NEW res \in {"ok", "blocked_preflight"}, Finish(r, res), UNCHANGED records
          PROVE  TypeOK'
      BY <1>3, <2>2 DEF Audit, Finish, Goto, TypeOK, server
    <2>3. CASE Proceed(r, Classified(docs, "legacy"))
      BY <1>3, <2>1, <2>3 DEF Audit, Proceed, Goto, TypeOK, server
    <2> QED
      BY <1>3, <2>2, <2>3 DEF Audit
  <1>4. ASSUME NEW r \in Runs, NEW u \in Users, Migrate(r, u) PROVE TypeOK'
    <2> DEFINE d == Decision(u, docs[u], records[r][u].version)
    <2>1. CASE d = "changed"
      <3>1. Finish(r, "concurrent_change") /\ UNCHANGED inflight
        BY <1>4, <2>1 DEF Migrate
      <3> QED
        BY <1>4, <3>1 DEF Migrate, Finish, Goto, TypeOK
    <2>2. CASE d = "current"
      <3>1. Proceed(r, todo[r] \ {u}) /\ UNCHANGED inflight
        BY <1>4, <2>2 DEF Migrate
      <3> QED
        BY <1>4, <3>1 DEF Migrate, Proceed, Goto, TypeOK
    <2>3. CASE d = "migrate"
      <3> DEFINE p == [run |-> r, user |-> u, version |-> docs[u].version,
                       body |-> ToCanonical(docs[u].body)]
      <3>1. docs[u] \in Doc /\ Class(u, docs[u]) = "legacy"
        BY <2>3 DEF Decision, TypeOK
      <3>2. ToCanonical(docs[u].body) \in Body
        BY <3>1, ConversionCurrent
      <3>3. p \in Commit
        BY <3>1, <3>2 DEF Commit, Doc
      <3>4. inflight' = inflight \cup {p} /\ Goto(r, "commit")
            /\ att' = [att EXCEPT ![r] = @ + 1] /\ UNCHANGED <<todo, result>>
        BY <1>4, <2>3 DEF Migrate
      <3>5. att[r] + 1 \in 0 .. MaxAttempts
        BY <1>4 DEF Migrate, TypeOK
      <3> HIDE DEF p
      <3> QED
        BY <1>4, <3>3, <3>4, <3>5 DEF Migrate, Goto, TypeOK
    <2>4. d \in {"changed", "current", "migrate"}
      BY DEF Decision
    <2> QED
      BY <2>1, <2>2, <2>3, <2>4
  <1>5. ASSUME NEW r \in Runs, NEW u \in Users, Committed(r, u) PROVE TypeOK'
    BY <1>5 DEF Committed, Proceed, Goto, TypeOK, server
  <1>6. ASSUME NEW r \in Runs, NEW u \in Users, TransactionFails(r, u) PROVE TypeOK'
    <2> DEFINE tried == IF pc[r] = "commit" THEN att[r] ELSE att[r] + 1
    <2>1. CASE /\ tried < MaxAttempts /\ att' = [att EXCEPT ![r] = tried]
               /\ Goto(r, "transaction") /\ UNCHANGED <<todo, result>>
      <3>1. tried \in 0 .. MaxAttempts
        BY <2>1 DEF TypeOK
      <3> HIDE DEF tried
      <3>2. att' \in [Runs -> 0 .. MaxAttempts] /\ pc' \in [Runs -> PCs]
        BY <2>1, <3>1 DEF Goto, TypeOK
      <3>3. \A q \in Runs : pc'[q] = "transaction" => att'[q] < MaxAttempts
        BY <2>1, <3>1 DEF Goto, TypeOK
      <3> QED
        BY <1>6, <2>1, <3>2, <3>3 DEF TransactionFails, TypeOK, server
    <2>2. CASE Finish(r, "write")
      BY <1>6, <2>2 DEF TransactionFails, Finish, Goto, TypeOK, server
    <2> QED
      BY <1>6, <2>1, <2>2 DEF TransactionFails
  <1>7. ASSUME NEW r \in Runs, Verify(r) PROVE TypeOK'
    BY <1>7 DEF Verify, Finish, Goto, TypeOK, server
  <1>8. ASSUME NEW r \in Runs, PhaseFails(r) PROVE TypeOK'
    BY <1>8 DEF PhaseFails, PhaseError, Finish, Goto, TypeOK, server
  <1>9. ASSUME NEW p \in inflight, ServerCommits(p) PROVE TypeOK'
    <2>1. [body |-> p.body, version |-> version + 1] \in Doc /\ p.user \in Users
      BY DEF TypeOK, Commit, Doc
    <2> QED
      BY <1>9, <2>1 DEF ServerCommits, TypeOK, run
  <1>10. ASSUME NEW p \in inflight, ServerDrops(p) PROVE TypeOK'
    BY <1>10 DEF ServerDrops, TypeOK, run
  <1>11. ASSUME NEW u \in Users, Write(u) PROVE TypeOK'
    <2>1. \A b \in WriterBodies \ {NoDoc} : [body |-> b, version |-> version + 1] \in Doc
      BY DEF TypeOK, Doc
    <2> QED
      BY <1>11, <2>1 DEF Write, TypeOK, run
  <1>12. CASE UNCHANGED vars
    BY <1>12 DEF vars, server, run, TypeOK
  <1> QED
    BY <1>1, <1>2, <1>3, <1>4, <1>5, <1>6, <1>7, <1>8, <1>9, <1>10, <1>11, <1>12
       DEF Next, Server, Step

---------------------------------------------------------------------------
(* Commits and documents.                                                  *)

(* A commit under way that could still be applied converts a retired       *)
(* document into the current one.                                          *)
LEMMA CommitConverts ==
    ASSUME TypeOK, VersionsIdentify, NEW p \in inflight, ServerCommits(p)
    PROVE  /\ p.user \in Users /\ docs[p.user] \in Doc
           /\ Class(p.user, docs[p.user]) = "legacy"
           /\ Class(p.user, docs'[p.user]) = "current"
           /\ docs'[p.user] # NoDoc /\ docs'[p.user].version = version + 1
           /\ docs'[p.user].body = ToCanonical(docs[p.user].body)
           /\ \A u \in Users \ {p.user} : docs'[u] = docs[u]
  <1>1. p.user \in Users /\ docs[p.user] # NoDoc /\ docs[p.user].version = p.version
    BY DEF TypeOK, Commit, ServerCommits
  <1>2. docs[p.user] \in Doc
    BY <1>1 DEF TypeOK
  <1>3. Class(p.user, docs[p.user]) = "legacy" /\ p.body = ToCanonical(docs[p.user].body)
    BY <1>1 DEF VersionsIdentify
  <1>4. /\ docs'[p.user] = [body |-> p.body, version |-> version + 1]
        /\ \A u \in Users \ {p.user} : docs'[u] = docs[u]
    BY <1>1 DEF ServerCommits, TypeOK
  <1>5. docs'[p.user] # NoDoc
    BY <1>4, MigrationAssumption DEF TypeOK, Commit, Doc
  <1>6. Class(p.user, docs'[p.user]) = "current"
    BY <1>1, <1>2, <1>3, <1>4, ConversionCurrent
  <1> QED
    BY <1>1, <1>2, <1>3, <1>4, <1>5, <1>6

(* Every document has one of the three classes.                            *)
LEMMA Classes ==
    ASSUME NEW scan, Classified(scan, "legacy") \cup Classified(scan, "blocked") = {}
    PROVE  \A u \in Users : scan[u] # NoDoc => Class(u, scan[u]) = "current"
  BY DEF Classified, Class
---------------------------------------------------------------------------
(* What a run works on.                                                    *)
LEMMA StartDisowns ==
    ASSUME TypeOK, NEW r \in Runs, Start(r)
    PROVE  /\ \A p \in inflight' : p.run # Orphan => p \in inflight /\ p.run # r
           /\ \A p \in applied' : p \in applied /\ p.run # r
  <1>1. \A p \in inflight : [p EXCEPT !.run = Orphan].run = Orphan
    BY DEF TypeOK, Commit
  <1> QED
    BY <1>1 DEF Start

LEMMA FreshStep ==
    ASSUME TypeOK, TypeOK', RunsFresh, [Next]_vars
    PROVE  RunsFresh'
  <1> USE DEF RunsFresh, Running, TypeOK
  <1>1. ASSUME NEW r \in Runs, Start(r) PROVE RunsFresh'
    <2>1. /\ Running(r)' => result'[r] = "none"
          /\ \A q \in Runs \ {r} : pc'[q] = pc[q] /\ result'[q] = result[q]
      BY <1>1 DEF Start, Finish, Goto
    <2>2. \A p \in inflight' \cup applied' :
              /\ p.run # r
              /\ \/ p \in inflight \cup applied
                 \/ p.run = Orphan
      BY <1>1, StartDisowns, MigrationAssumption
    <2>3. \A q \in Runs : verified'[q] <= writes'
      BY <1>1 DEF Start
    <2> QED
      BY <2>1, <2>2, <2>3, MigrationAssumption
  <1>2. ASSUME NEW r \in Runs, InitClient(r) PROVE RunsFresh'
    BY <1>2 DEF InitClient, Goto, server
  <1>3. ASSUME NEW r \in Runs, Audit(r) PROVE RunsFresh'
    <2>1. /\ pc'[r] \in {"done", "verify", "transaction"}
          /\ pc'[r] # "done" => result' = result
          /\ \A q \in Runs \ {r} : pc'[q] = pc[q] /\ result'[q] = result[q]
      BY <1>3 DEF Audit, Finish, Goto, Proceed
    <2>2. UNCHANGED <<server, verified>>
      BY <1>3 DEF Audit
    <2> QED
      BY <1>3, <2>1, <2>2 DEF Audit, server
  <1>4. ASSUME NEW r \in Runs, NEW u \in Users, Migrate(r, u) PROVE RunsFresh'
    <2> DEFINE p == [run |-> r, user |-> u, version |-> docs[u].version,
                     body |-> ToCanonical(docs[u].body)]
    <2>1. \A q \in inflight' : q \in inflight \/ q.run = r
      <3>1. inflight' = inflight \/ inflight' = inflight \cup {p}
        BY <1>4 DEF Migrate, Decision, Proceed
      <3>2. p.run = r
        OBVIOUS
      <3> QED
        BY <3>1, <3>2
    <2>2. /\ pc'[r] \in {"done", "verify", "transaction", "commit"}
          /\ pc'[r] # "done" => result' = result
          /\ \A q \in Runs \ {r} : pc'[q] = pc[q] /\ result'[q] = result[q]
      BY <1>4 DEF Migrate, Decision, Proceed, Finish, Goto
    <2> QED
      BY <1>4, <2>1, <2>2 DEF Migrate
  <1>5. ASSUME NEW r \in Runs, NEW u \in Users, Committed(r, u) PROVE RunsFresh'
    BY <1>5 DEF Committed, Proceed, Goto, server
  <1>6. ASSUME NEW r \in Runs, NEW u \in Users, TransactionFails(r, u) PROVE RunsFresh'
    BY <1>6 DEF TransactionFails, Finish, Goto, server
  <1>7. ASSUME NEW r \in Runs, Verify(r) PROVE RunsFresh'
    BY <1>7 DEF Verify, Finish, Goto, server
  <1>8. ASSUME NEW r \in Runs, PhaseFails(r) PROVE RunsFresh'
    BY <1>8 DEF PhaseFails, Finish, Goto, server
  <1>9. ASSUME NEW p \in inflight, ServerCommits(p) PROVE RunsFresh'
    BY <1>9 DEF ServerCommits, run
  <1>10. ASSUME NEW p \in inflight, ServerDrops(p) PROVE RunsFresh'
    BY <1>10 DEF ServerDrops, run
  <1>11. ASSUME NEW u \in Users, Write(u) PROVE RunsFresh'
    BY <1>11 DEF Write, run
  <1>12. CASE UNCHANGED vars
    BY <1>12 DEF vars, server, run
  <1> QED
    BY <1>1, <1>2, <1>3, <1>4, <1>5, <1>6, <1>7, <1>8, <1>9, <1>10, <1>11, <1>12
       DEF Next, Server, Step

LEMMA TargetsStep ==
    ASSUME TypeOK, TargetsAudited, [Next]_vars
    PROVE  TargetsAudited'
  <1> USE DEF TargetsAudited, TypeOK, Modes
  <1>1. ASSUME NEW r \in Runs, Start(r) PROVE TargetsAudited'
    <2>1. /\ pc'[r] \in {"init", "done"}
          /\ \A q \in Runs \ {r} :
                 /\ pc'[q] = pc[q] /\ mode'[q] = mode[q]
                 /\ records'[q] = records[q] /\ todo'[q] = todo[q]
      BY <1>1 DEF Start, Finish, Goto
    <2> QED
      BY <2>1 DEF Classified
  <1>2. ASSUME NEW r \in Runs, InitClient(r) PROVE TargetsAudited'
    BY <1>2 DEF InitClient, Goto
  <1>3. ASSUME NEW r \in Runs, Audit(r) PROVE TargetsAudited'
    <2>1. ASSUME NEW res \in {"ok", "blocked_preflight"}, Finish(r, res), UNCHANGED records
          PROVE  TargetsAudited'
      BY <1>3, <2>1 DEF Audit, Finish, Goto, Classified
    <2>2. CASE /\ mode[r] # "audit" /\ Classified(docs, "blocked") = {}
               /\ Proceed(r, Classified(docs, "legacy"))
      <3>1. /\ records'[r] = docs /\ mode'[r] = "apply"
            /\ todo'[r] = Classified(docs, "legacy")
            /\ \A q \in Runs \ {r} :
                 /\ pc'[q] = pc[q] /\ mode'[q] = mode[q]
                 /\ records'[q] = records[q] /\ todo'[q] = todo[q]
        BY <1>3, <2>2 DEF Audit, Proceed, Goto
      <3> QED
        BY <2>2, <3>1 DEF Classified
    <2> QED
      BY <1>3, <2>1, <2>2 DEF Audit
  <1>4. ASSUME NEW r \in Runs, NEW u \in Users, Migrate(r, u) PROVE TargetsAudited'
    BY <1>4 DEF Migrate, Decision, Proceed, Finish, Goto, Classified
  <1>5. ASSUME NEW r \in Runs, NEW u \in Users, Committed(r, u) PROVE TargetsAudited'
    BY <1>5 DEF Committed, Proceed, Goto, Classified
  <1>6. ASSUME NEW r \in Runs, NEW u \in Users, TransactionFails(r, u) PROVE TargetsAudited'
    BY <1>6 DEF TransactionFails, Finish, Goto, Classified
  <1>7. ASSUME NEW r \in Runs, Verify(r) PROVE TargetsAudited'
    BY <1>7 DEF Verify, Finish, Goto, Classified
  <1>8. ASSUME NEW r \in Runs, PhaseFails(r) PROVE TargetsAudited'
    BY <1>8 DEF PhaseFails, Finish, Goto, Classified
  <1>9. CASE UNCHANGED run
    BY <1>9 DEF run, Classified
  <1> QED
    BY <1>1, <1>2, <1>3, <1>4, <1>5, <1>6, <1>7, <1>8, <1>9
       DEF Next, Server, Step, ServerCommits, ServerDrops, Write, vars

---------------------------------------------------------------------------
(* Versions.                                                               *)
LEMMA VersionsStep ==
    ASSUME TypeOK, VersionsIdentify, [Next]_vars
    PROVE  VersionsIdentify'
  <1> DEFINE Pinned(p) ==
          /\ p.version <= version
          /\ docs[p.user] # NoDoc /\ docs[p.user].version = p.version =>
                 /\ Class(p.user, docs[p.user]) = "legacy"
                 /\ p.body = ToCanonical(docs[p.user].body)
  (* Steps that leave the collection alone and add only commits of what it holds. *)
  <1>1. ASSUME UNCHANGED <<docs, version>>,
               \A r \in Runs : records'[r] \in {records[r], docs, [u \in Users |-> NoDoc]},
               \A p \in inflight' : Pinned(p)
        PROVE  VersionsIdentify'
    <2>1. \A u \in Users : docs'[u] # NoDoc => docs'[u].version <= version'
      BY <1>1 DEF VersionsIdentify
    <2>2. ASSUME NEW r \in Runs, NEW u \in Users, records'[r][u] # NoDoc
          PROVE  /\ records'[r][u].version <= version'
                 /\ docs'[u] # NoDoc /\ docs'[u].version = records'[r][u].version =>
                        docs'[u] = records'[r][u]
      <3>1. records'[r][u] = records[r][u] \/ records'[r][u] = docs[u]
        BY <1>1, <2>2
      <3> QED
        BY <1>1, <2>1, <2>2, <3>1 DEF VersionsIdentify
    <2>3. \A p \in inflight' : Pinned(p)'
      BY <1>1
    <2> QED
      BY <2>1, <2>2, <2>3 DEF VersionsIdentify
  <1>2. \A p \in inflight : Pinned(p)
    BY DEF VersionsIdentify
  (* Steps that write: what was pinned or recorded before is older.          *)
  <1>9. ASSUME \A u \in Users : docs'[u] # docs[u] /\ docs'[u] # NoDoc => docs'[u].version = version + 1,
               version' = version + 1, version \in Nat,
               inflight' \subseteq inflight, records' = records
        PROVE  VersionsIdentify'
    <2>1. \A u \in Users : docs'[u] # NoDoc => docs'[u].version <= version'
      BY <1>9 DEF VersionsIdentify, TypeOK, Doc
    <2>2. ASSUME NEW r \in Runs, NEW u \in Users, records[r][u] # NoDoc
          PROVE  /\ records[r][u].version <= version'
                 /\ docs'[u] # NoDoc /\ docs'[u].version = records[r][u].version =>
                        docs'[u] = records[r][u]
      <3>1. records[r][u].version \in Nat /\ records[r][u].version <= version
        BY <2>2 DEF VersionsIdentify, TypeOK, Doc
      <3> QED
        BY <1>9, <2>2, <3>1 DEF VersionsIdentify
    <2>3. ASSUME NEW p \in inflight PROVE Pinned(p)'
      <3>1. p.version \in Nat /\ p.version <= version /\ p.user \in Users
        BY DEF VersionsIdentify, TypeOK, Commit
      <3> QED
        BY <1>2, <1>9, <3>1
    <2> QED
      BY <1>9, <2>1, <2>2, <2>3 DEF VersionsIdentify
  <1>3. ASSUME NEW r \in Runs, Start(r) PROVE VersionsIdentify'
    <2>1. \A p \in inflight : Pinned([p EXCEPT !.run = Orphan])
      <3> SUFFICES ASSUME NEW p \in inflight PROVE Pinned([p EXCEPT !.run = Orphan])
        OBVIOUS
      <3> DEFINE o == [p EXCEPT !.run = Orphan]
      <3>1. o.user = p.user /\ o.version = p.version /\ o.body = p.body
        BY DEF TypeOK, Commit
      <3>2. Pinned(p)
        BY <1>2
      <3> HIDE DEF o
      <3> QED
        BY <3>1, <3>2 DEF o
    <2>2. \A p \in inflight' : Pinned(p)
      <3>1. \A p \in inflight' : p \in inflight \/ \E q \in inflight : p = [q EXCEPT !.run = Orphan]
        BY <1>3 DEF Start
      <3> HIDE DEF Pinned
      <3> QED
        BY <1>2, <2>1, <3>1
    <2>3. /\ UNCHANGED <<docs, version>>
          /\ \A q \in Runs : records'[q] \in {records[q], docs, [u \in Users |-> NoDoc]}
      BY <1>3 DEF Start, TypeOK
    <2> QED
      BY <1>1, <2>2, <2>3
  <1>4. ASSUME NEW r \in Runs, Audit(r) PROVE VersionsIdentify'
    BY <1>1, <1>2, <1>4 DEF Audit, server, TypeOK
  <1>5. ASSUME NEW r \in Runs, NEW u \in Users, Migrate(r, u) PROVE VersionsIdentify'
    <2> DEFINE c == [run |-> r, user |-> u, version |-> docs[u].version,
                     body |-> ToCanonical(docs[u].body)]
               d == Decision(u, docs[u], records[r][u].version)
    <2>1. UNCHANGED <<docs, version, records>>
      BY <1>5 DEF Migrate
    <2>2. CASE d # "migrate"
      <3>1. inflight' = inflight
        BY <1>5, <2>2 DEF Migrate, Decision
      <3> QED
        BY <1>1, <1>2, <2>1, <3>1
    <2>3. CASE d = "migrate"
      <3>1. inflight' = inflight \cup {c}
        BY <1>5, <2>3 DEF Migrate
      <3>2. docs[u] # NoDoc /\ Class(u, docs[u]) = "legacy"
        BY <2>3 DEF Decision
      <3>3. docs[u].version <= version
        BY <3>2 DEF VersionsIdentify
      <3>4. Pinned(c)
        BY <3>2, <3>3
      <3> HIDE DEF Pinned, c
      <3> QED
        BY <1>1, <1>2, <2>1, <3>1, <3>4
    <2> QED
      BY <2>2, <2>3
  <1>6. ASSUME NEW p \in inflight, ServerCommits(p) PROVE VersionsIdentify'
    <2>1. /\ \A u \in Users : docs'[u] # docs[u] /\ docs'[u] # NoDoc => docs'[u].version = version + 1
          /\ version' = version + 1 /\ version \in Nat
          /\ inflight' \subseteq inflight /\ records' = records
      BY <1>6, CommitConverts DEF ServerCommits, run, TypeOK
    <2> QED
      BY <1>9, <2>1
  <1>7. ASSUME NEW u \in Users, Write(u) PROVE VersionsIdentify'
    <2>1. /\ \A v \in Users : docs'[v] # docs[v] /\ docs'[v] # NoDoc => docs'[v].version = version + 1
          /\ version' = version + 1 /\ version \in Nat
          /\ inflight' \subseteq inflight /\ records' = records
      BY <1>7 DEF Write, run, TypeOK
    <2> QED
      BY <1>9, <2>1
  <1>8. ASSUME UNCHANGED <<docs, version, records>>, inflight' \subseteq inflight
        PROVE  VersionsIdentify'
    BY <1>1, <1>2, <1>8
  <1> HIDE DEF Pinned
  <1> QED
    BY <1>3, <1>4, <1>5, <1>6, <1>7, <1>8
       DEF Next, Server, Step, InitClient, Verify, PhaseFails, Committed, TransactionFails,
           ServerDrops, vars, server, run

---------------------------------------------------------------------------
(* The two invariants about what is written.                               *)
LEMMA PreflightStep ==
    ASSUME TypeOK, TargetsAudited, RunsFresh, PreflightFirst, [Next]_vars
    PROVE  PreflightFirst'
  <1> DEFINE Passed(p) ==
          /\ mode[p.run] = "apply"
          /\ Classified(records[p.run], "blocked") = {}
          /\ p.user \in Classified(records[p.run], "legacy")
          /\ p.version = records[p.run][p.user].version
  <1>1. ASSUME UNCHANGED <<mode, records>>,
               \A p \in inflight' \cup applied' :
                   p \in inflight \cup applied \/ p.run = Orphan \/ Passed(p)
        PROVE  PreflightFirst'
    BY <1>1 DEF PreflightFirst, Classified
  <1>2. ASSUME NEW r \in Runs,
               \A q \in Runs \ {r} : mode'[q] = mode[q] /\ records'[q] = records[q],
               \A p \in inflight' \cup applied' :
                   p.run # Orphan => p \in inflight \cup applied /\ p.run # r
        PROVE  PreflightFirst'
    <2>1. ASSUME NEW p \in inflight' \cup applied', p.run # Orphan
          PROVE  Passed(p)'
      <3>1. p \in inflight \cup applied /\ p.run \in Runs \ {r}
        BY <1>2, <2>1 DEF TypeOK, Commit
      <3>2. Passed(p)
        BY <2>1, <3>1 DEF PreflightFirst
      <3> QED
        BY <1>2, <3>1, <3>2 DEF Classified
    <2> QED
      BY <2>1 DEF PreflightFirst
  <1>3. ASSUME NEW r \in Runs, Start(r) PROVE PreflightFirst'
    <2>4. \A q \in Runs \ {r} : mode'[q] = mode[q] /\ records'[q] = records[q]
      BY <1>3 DEF Start, TypeOK
    <2> QED
      BY <1>2, <1>3, <2>4, StartDisowns
  <1>4. ASSUME NEW r \in Runs, Audit(r) PROVE PreflightFirst'
    <2>1. \A q \in Runs \ {r} : mode'[q] = mode[q] /\ records'[q] = records[q]
      BY <1>4 DEF Audit, TypeOK
    <2>2. inflight' = inflight /\ applied' = applied
      BY <1>4 DEF Audit, server
    <2>3. \A p \in inflight \cup applied : p.run # r
      BY <1>4 DEF Audit, RunsFresh
    <2> QED
      BY <1>2, <2>1, <2>2, <2>3
  <1>5. ASSUME NEW r \in Runs, NEW u \in Users, Migrate(r, u) PROVE PreflightFirst'
    <2> DEFINE c == [run |-> r, user |-> u, version |-> docs[u].version,
                     body |-> ToCanonical(docs[u].body)]
               d == Decision(u, docs[u], records[r][u].version)
    <2>1. UNCHANGED <<mode, records, applied>>
      BY <1>5 DEF Migrate
    <2>2. CASE d # "migrate"
      <3>1. inflight' = inflight
        BY <1>5, <2>2 DEF Migrate, Decision
      <3> QED
        BY <1>1, <2>1, <3>1
    <2>3. CASE d = "migrate"
      <3>1. inflight' = inflight \cup {c}
        BY <1>5, <2>3 DEF Migrate
      <3>2. docs[u].version = records[r][u].version
        BY <2>3 DEF Decision
      <3>3. /\ mode[r] = "apply" /\ Classified(records[r], "blocked") = {}
            /\ u \in Classified(records[r], "legacy")
        BY <1>5 DEF Migrate, Target, TargetsAudited
      <3>4. Passed(c)
        BY <3>2, <3>3
      <3> HIDE DEF Passed, c
      <3> QED
        BY <1>1, <2>1, <3>1, <3>4
    <2> QED
      BY <2>2, <2>3
  <1>6. ASSUME UNCHANGED <<mode, records>>,
               inflight' \cup applied' \subseteq inflight \cup applied
        PROVE  PreflightFirst'
    BY <1>1, <1>6
  <1>7. ASSUME NEW p \in inflight, ServerCommits(p) PROVE PreflightFirst'
    BY <1>6, <1>7 DEF ServerCommits, run
  <1> HIDE DEF Passed
  <1> QED
    BY <1>3, <1>4, <1>5, <1>6, <1>7
       DEF Next, Server, Step, InitClient, Verify, PhaseFails, Committed, TransactionFails,
           ServerDrops, Write, vars, server, run

LEMMA SuccessStep ==
    ASSUME TypeOK, TypeOK', RunsFresh, VersionsIdentify, SuccessIsComplete, [Next]_vars
    PROVE  SuccessIsComplete'
  <1> DEFINE AllCurrent == \A u \in Users : docs[u] # NoDoc => Class(u, docs[u]) = "current"
             Succeeded(r) == result[r] = "ok" /\ mode[r] = "apply" /\ verified[r] = writes
  <1>1. ASSUME AllCurrent => AllCurrent',
               \A r \in Runs : Succeeded(r)' => Succeeded(r) \/ AllCurrent
        PROVE  SuccessIsComplete'
    BY <1>1 DEF SuccessIsComplete
  <1>2. ASSUME UNCHANGED docs PROVE AllCurrent => AllCurrent'
    BY <1>2
  (* Only the steps that end a run change a result.                          *)
  <1>3. ASSUME UNCHANGED <<docs, writes>>, NEW r \in Runs,
               \A q \in Runs \ {r} :
                   result'[q] = result[q] /\ mode'[q] = mode[q] /\ verified'[q] = verified[q],
               Succeeded(r)' => Succeeded(r) \/ AllCurrent
        PROVE  SuccessIsComplete'
    BY <1>1, <1>2, <1>3
  <1>4. ASSUME NEW r \in Runs, Start(r) PROVE SuccessIsComplete'
    <2>1. result'[r] \in {"none", "project_confirmation"}
      BY <1>4 DEF Start, Finish, TypeOK
    <2>2. \A q \in Runs \ {r} :
              result'[q] = result[q] /\ mode'[q] = mode[q] /\ verified'[q] = verified[q]
      BY <1>4 DEF Start, Finish, TypeOK
    <2>3. UNCHANGED <<docs, writes>>
      BY <1>4 DEF Start
    <2> QED
      BY <1>3, <2>1, <2>2, <2>3
  <1>5. ASSUME NEW r \in Runs, Audit(r) PROVE SuccessIsComplete'
    <2>1. \/ result'[r] = "ok" /\ mode[r] = "audit"
          \/ result'[r] = "blocked_preflight"
          \/ result'[r] = result[r]
      BY <1>5 DEF Audit, Finish, Proceed, TypeOK
    <2>2. result[r] = "none" /\ mode' = mode
      BY <1>5 DEF Audit, RunsFresh, Running
    <2>3. \A q \in Runs \ {r} : result'[q] = result[q] /\ verified'[q] = verified[q]
      BY <1>5 DEF Audit, Finish, Proceed, TypeOK
    <2>4. UNCHANGED <<docs, writes>>
      BY <1>5 DEF Audit, server
    <2> QED
      BY <1>3, <2>1, <2>2, <2>3, <2>4
  <1>6. ASSUME NEW r \in Runs, Verify(r) PROVE SuccessIsComplete'
    <2>1. Succeeded(r)' => AllCurrent
      <3>1. result'[r] = "ok" => Classified(docs, "legacy") \cup Classified(docs, "blocked") = {}
        BY <1>6 DEF Verify, Finish, TypeOK
      <3> QED
        BY <3>1, Classes
    <2>2. /\ \A q \in Runs \ {r} : result'[q] = result[q] /\ verified'[q] = verified[q]
          /\ mode' = mode /\ UNCHANGED <<docs, writes>>
      BY <1>6 DEF Verify, Finish, TypeOK, server
    <2> QED
      BY <1>3, <2>1, <2>2
  <1>7. ASSUME NEW r \in Runs, NEW res \in Results \ {"ok"},
               result' = [result EXCEPT ![r] = res], UNCHANGED <<docs, writes, mode, verified>>
        PROVE  SuccessIsComplete'
    BY <1>3, <1>7 DEF TypeOK
  <1>8. ASSUME UNCHANGED <<docs, writes, mode, verified, result>> PROVE SuccessIsComplete'
    BY <1>1, <1>2, <1>8
  <1>9. ASSUME NEW r \in Runs, InitClient(r) PROVE SuccessIsComplete'
    BY <1>8, <1>9 DEF InitClient, server
  <1>10. ASSUME NEW r \in Runs, NEW u \in Users, Migrate(r, u) PROVE SuccessIsComplete'
    <2>1. result' = result \/ result' = [result EXCEPT ![r] = "concurrent_change"]
      BY <1>10 DEF Migrate, Decision, Finish, Proceed
    <2>2. UNCHANGED <<docs, writes, mode, verified>>
      BY <1>10 DEF Migrate
    <2>3. "concurrent_change" \in Results \ {"ok"}
      BY DEF Results
    <2> QED
      BY <1>7, <1>8, <2>1, <2>2, <2>3
  <1>11. ASSUME NEW r \in Runs, NEW u \in Users, Committed(r, u) PROVE SuccessIsComplete'
    BY <1>8, <1>11 DEF Committed, Proceed, server
  <1>12. ASSUME NEW r \in Runs, NEW u \in Users, TransactionFails(r, u) PROVE SuccessIsComplete'
    <2>1. result' = result \/ result' = [result EXCEPT ![r] = "write"]
      BY <1>12 DEF TransactionFails, Finish
    <2>2. UNCHANGED <<docs, writes, mode, verified>>
      BY <1>12 DEF TransactionFails, server
    <2>3. "write" \in Results \ {"ok"}
      BY DEF Results
    <2> QED
      BY <1>7, <1>8, <2>1, <2>2, <2>3
  <1>13. ASSUME NEW r \in Runs, PhaseFails(r) PROVE SuccessIsComplete'
    <2>1. PICK res \in {PhaseError(r), "killed"} : result' = [result EXCEPT ![r] = res]
      BY <1>13 DEF PhaseFails, Finish
    <2>2. res \in Results \ {"ok"}
      BY <2>1 DEF PhaseError, Results
    <2>3. UNCHANGED <<docs, writes, mode, verified>>
      BY <1>13 DEF PhaseFails, server
    <2> QED
      BY <1>7, <2>1, <2>2, <2>3
  <1>14. ASSUME NEW p \in inflight, ServerCommits(p) PROVE SuccessIsComplete'
    <2>1. AllCurrent => AllCurrent'
      BY <1>14, CommitConverts
    <2>2. UNCHANGED <<writes, mode, verified, result>>
      BY <1>14 DEF ServerCommits, run
    <2> QED
      BY <1>1, <2>1, <2>2
  <1>15. ASSUME NEW p \in inflight, ServerDrops(p) PROVE SuccessIsComplete'
    BY <1>8, <1>15 DEF ServerDrops, run
  (* A write invalidates every success so far.                               *)
  <1>16. ASSUME NEW u \in Users, Write(u) PROVE SuccessIsComplete'
    <2>1. \A r \in Runs : verified'[r] # writes'
      BY <1>16 DEF Write, run, RunsFresh, TypeOK
    <2> QED
      BY <2>1 DEF SuccessIsComplete
  <1>17. CASE UNCHANGED vars
    BY <1>8, <1>17 DEF vars, server, run
  <1> QED
    BY <1>4, <1>5, <1>6, <1>9, <1>10, <1>11, <1>12, <1>13, <1>14, <1>15, <1>16, <1>17
       DEF Next, Server, Step

---------------------------------------------------------------------------
(* What a run reports. A run is clean while it lost no reply and nothing   *)
(* ended it that leaves a commit behind: then all it has under way is the  *)
(* commit it waits for, and it counted all the others.                     *)
Own(r) == {p \in inflight : p.run = r}
Settled(r) == {p \in Mine(r) : p.user \notin todo[r]}
AtCommit(r, u) == pc[r] = "commit" /\ Target(r, u)
Clean(r) ==
    /\ ~lost[r]
    /\ Running(r) \/ (pc[r] = "done" /\ result[r] \notin {"write", "killed"})
Unsettled(r) ==
    /\ \A p \in Own(r) : AtCommit(r, p.user) /\ p \notin applied
    /\ \A p \in Mine(r) : p.user \in todo[r] => AtCommit(r, p.user)

Reported(r) ==
    /\ pc[r] = "idle" => result[r] = "none"
    /\ IsFiniteSet(Mine(r)) /\ migrated[r] <= Cardinality(Settled(r))
    /\ \A p \in Own(r) \cup Mine(r) : p = CommitOf(r, p.user)
    /\ Clean(r) => migrated[r] = Cardinality(Settled(r)) /\ Unsettled(r)

LEMMA InitReported ==
    ASSUME Init, NEW r \in Runs
    PROVE  Reported(r)
  <1>1. Mine(r) = {} /\ Own(r) = {} /\ Settled(r) = {}
    BY DEF Init, Mine, Own, Settled
  <1>2. pc[r] = "idle" /\ result[r] = "none" /\ migrated[r] = 0
    BY DEF Init
  <1> QED
    BY <1>1, <1>2, FS_EmptySet DEF Reported, Clean, Running

(* The step of another run leaves what this one has as it is.              *)
Same(q) ==
    /\ pc'[q] = pc[q] /\ todo'[q] = todo[q] /\ records'[q] = records[q]
    /\ migrated'[q] = migrated[q] /\ result'[q] = result[q] /\ lost'[q] = lost[q]

LEMMA OthersKeep ==
    ASSUME TypeOK, NEW q \in Runs, NEW r \in Runs, r # q, Step(r)
    PROVE  Same(q) /\ Own(q)' = Own(q) /\ Mine(q)' = Mine(q)
  <1> USE DEF TypeOK, Same, Goto, Finish, Proceed
  <1>1. CASE Start(r)
    <2>1. Own(q)' = Own(q)
      <3>1. \A p \in inflight' : p.run = q => p \in inflight
        BY <1>1, StartDisowns, MigrationAssumption
      <3>2. \A p \in inflight : p.run = q => p \in inflight'
        BY <1>1 DEF Start
      <3> QED
        BY <3>1, <3>2 DEF Own
    <2>2. Mine(q)' = Mine(q)
      BY <1>1 DEF Start, Mine
    <2> QED
      BY <1>1, <2>1, <2>2 DEF Start
  <1>2. ASSUME NEW u \in Users, Migrate(r, u)
        PROVE  Same(q) /\ Own(q)' = Own(q) /\ Mine(q)' = Mine(q)
    <2> DEFINE c == [run |-> r, user |-> u, version |-> docs[u].version,
                     body |-> ToCanonical(docs[u].body)]
    <2>1. inflight' = inflight \/ inflight' = inflight \cup {c}
      BY <1>2 DEF Migrate, Decision
    <2>2. c.run = r
      OBVIOUS
    <2>3. Own(q)' = Own(q)
      BY <2>1, <2>2 DEF Own
    <2>4. Same(q)
      BY <1>2 DEF Migrate, Decision
    <2> QED
      BY <1>2, <2>3, <2>4 DEF Migrate, Mine
  <1>3. CASE InitClient(r) \/ Audit(r) \/ Verify(r) \/ PhaseFails(r)
    BY <1>3 DEF InitClient, Audit, Verify, PhaseFails, server, Own, Mine
  <1>4. ASSUME NEW u \in Users, Committed(r, u) \/ TransactionFails(r, u)
        PROVE  Same(q) /\ Own(q)' = Own(q) /\ Mine(q)' = Mine(q)
    BY <1>4 DEF Committed, TransactionFails, server, Own, Mine
  <1> QED
    BY <1>1, <1>2, <1>3, <1>4 DEF Step

LEMMA ReportedKept ==
    ASSUME NEW q \in Runs, Reported(q), Same(q),
           Own(q)' = Own(q), Mine(q)' = Mine(q)
    PROVE  Reported(q)'
  <1>1. /\ Settled(q)' = Settled(q) /\ (Clean(q)' <=> Clean(q))
        /\ \A u : AtCommit(q, u)' <=> AtCommit(q, u)
        /\ \A u : CommitOf(q, u)' = CommitOf(q, u)
    BY DEF Same, Settled, Clean, Running, AtCommit, Target, CommitOf
  <1>2. \A p \in Own(q) : p \in applied' <=> p \in applied
    BY DEF Own, Mine
  <1>3. Unsettled(q)' <=> Unsettled(q)
    BY <1>1, <1>2 DEF Unsettled, Same
  <1> QED
    BY <1>1, <1>3 DEF Reported, Same

(* The steps of a run itself: it starts with nothing of its own, ...       *)
LEMMA StartReported ==
    ASSUME TypeOK, NEW q \in Runs, Start(q)
    PROVE  Reported(q)'
  <1>1. Own(q)' = {} /\ Mine(q)' = {} /\ Settled(q)' = {}
    BY StartDisowns, MigrationAssumption DEF Own, Mine, Settled
  <1>2. pc'[q] # "idle" /\ migrated'[q] = 0
    BY DEF Start, Goto, Finish, TypeOK
  <1> QED
    BY <1>1, <1>2, FS_EmptySet DEF Reported, Unsettled

(* ... the scans write nothing, and select targets while it has none, ...  *)
LEMMA ScanReported ==
    ASSUME TypeOK, RunsFresh, NEW q \in Runs, Reported(q), InitClient(q) \/ Audit(q)
    PROVE  Reported(q)'
  <1>1. Own(q) = {} /\ Mine(q) = {} /\ UNCHANGED <<inflight, applied, migrated, lost>>
    BY DEF InitClient, Audit, RunsFresh, Own, Mine, server
  <1>2. Own(q)' = {} /\ Mine(q)' = {} /\ Settled(q)' = {} /\ Settled(q) = {}
    BY <1>1 DEF Own, Mine, Settled
  <1>3. migrated[q] = 0
    BY <1>1, <1>2, FS_EmptySet DEF Reported, TypeOK
  <1>4. pc'[q] # "idle"
    BY DEF InitClient, Audit, Goto, Finish, Proceed, TypeOK
  <1> QED
    BY <1>1, <1>2, <1>3, <1>4, FS_EmptySet DEF Reported, Unsettled

(* ... it ends with nothing left to do, which is a clean end unless a      *)
(* commit may be under way, ...                                            *)
LEMMA FinishReported ==
    ASSUME TypeOK, NEW q \in Runs, Reported(q), Running(q), NEW res, Finish(q, res),
           pc[q] = "commit" \/ lost[q] => res \in {"write", "killed"} \/ lost'[q],
           UNCHANGED <<inflight, applied, records, migrated>>
    PROVE  Reported(q)'
  <1>1. pc'[q] = "done" /\ todo'[q] = {} /\ result'[q] = res
    BY DEF Finish, Goto, TypeOK
  <1>2. Own(q)' = Own(q) /\ Mine(q)' = Mine(q) /\ Settled(q)' = Mine(q)
    BY <1>1 DEF Own, Mine, Settled
  <1>3. \A u : CommitOf(q, u)' = CommitOf(q, u)
    BY DEF CommitOf
  <1>4. /\ IsFiniteSet(Mine(q)) /\ Settled(q) \subseteq Mine(q)
        /\ Cardinality(Settled(q)) <= Cardinality(Mine(q))
        /\ Cardinality(Settled(q)) \in Nat /\ Cardinality(Mine(q)) \in Nat
    BY FS_Subset, FS_CardinalityType DEF Reported, Settled
  <1>5. migrated[q] \in Nat /\ migrated[q] <= Cardinality(Mine(q))
    BY <1>4 DEF Reported, TypeOK
  <1>6. ASSUME Clean(q)'
        PROVE  migrated[q] = Cardinality(Mine(q)) /\ Unsettled(q)'
    <2>1. pc[q] # "commit" /\ Clean(q)
      BY <1>1, <1>6 DEF Clean, Running
    <2>2. Own(q) = {} /\ Settled(q) = Mine(q)
      BY <2>1 DEF Reported, Unsettled, AtCommit, Settled
    <2> QED
      BY <1>1, <1>2, <2>1, <2>2 DEF Reported, Unsettled
  <1> QED
    BY <1>1, <1>2, <1>3, <1>4, <1>5, <1>6 DEF Reported

(* ... a transaction sends one commit, drops its target, or ends the run, ...*)
LEMMA MigrateReported ==
    ASSUME TypeOK, TargetsAudited, VersionsIdentify, NEW q \in Runs, Reported(q),
           NEW u \in Users, Migrate(q, u)
    PROVE  Reported(q)'
  <1> DEFINE c == [run |-> q, user |-> u, version |-> docs[u].version,
                   body |-> ToCanonical(docs[u].body)]
             d == Decision(u, docs[u], records[q][u].version)
  <1>1. /\ pc[q] = "transaction" /\ Target(q, u) /\ u \in todo[q]
        /\ UNCHANGED <<applied, records, migrated, lost>>
    BY DEF Migrate, Target
  <1>2. \A v : CommitOf(q, v)' = CommitOf(q, v)
    BY <1>1 DEF CommitOf
  <1>3. Mine(q)' = Mine(q)
    BY <1>1 DEF Mine
  <1>4. d \in {"changed", "current", "migrate"}
    BY DEF Decision
  <1>5. CASE d = "changed"
    BY <1>1, <1>5, FinishReported DEF Migrate, Running
  <1>6. CASE d = "current"
    <2>1. /\ todo'[q] = todo[q] \ {u} /\ pc'[q] \in {"verify", "transaction"}
          /\ UNCHANGED <<inflight, result>>
      BY <1>6 DEF Migrate, Proceed, Goto, TypeOK
    <2>2. Own(q)' = Own(q)
      BY <2>1 DEF Own
    <2>3. /\ IsFiniteSet(Mine(q)) /\ Settled(q) \subseteq Settled(q)'
          /\ Settled(q)' \subseteq Mine(q)
      BY <1>3, <2>1 DEF Reported, Settled
    <2>4. /\ Cardinality(Settled(q)) <= Cardinality(Settled(q)')
          /\ Cardinality(Settled(q)) \in Nat /\ Cardinality(Settled(q)') \in Nat
      BY <2>3, FS_Subset, FS_CardinalityType
    <2>5. migrated[q] <= Cardinality(Settled(q)')
      BY <2>4 DEF Reported, TypeOK
    <2>6. ASSUME Clean(q)'
          PROVE  migrated[q] = Cardinality(Settled(q)') /\ Unsettled(q)'
      <3>1. Clean(q)
        BY <1>1, <2>6 DEF Clean, Running
      <3>2. Own(q) = {} /\ \A p \in Mine(q) : p.user \notin todo[q]
        BY <1>1, <3>1 DEF Reported, Unsettled, AtCommit
      <3>3. Settled(q)' = Settled(q)
        BY <1>3, <2>1, <3>2 DEF Settled
      <3> QED
        BY <1>3, <2>1, <2>2, <3>1, <3>2, <3>3 DEF Reported, Unsettled
    <2> QED
      BY <1>1, <1>2, <1>3, <2>1, <2>2, <2>3, <2>5, <2>6 DEF Reported
  <1>7. CASE d = "migrate"
    <2>1. /\ inflight' = inflight \cup {c} /\ pc'[q] = "commit"
          /\ UNCHANGED <<todo, result>>
      BY <1>7 DEF Migrate, Goto, TypeOK
    <2>2. c = CommitOf(q, u) /\ c.run = q /\ c.user = u
      <3>1. docs[u] # NoDoc /\ docs[u].version = records[q][u].version
        BY <1>7 DEF Decision
      <3>2. records[q][u] # NoDoc
        BY <1>1 DEF TargetsAudited, Classified
      <3>3. docs[u] = records[q][u]
        BY <3>1, <3>2 DEF VersionsIdentify
      <3> QED
        BY <3>3 DEF CommitOf
    <2> HIDE DEF c
    <2>3. Own(q)' = Own(q) \cup {c}
      BY <2>1, <2>2 DEF Own
    <2>4. Settled(q)' = Settled(q)
      BY <1>3, <2>1 DEF Settled
    <2>5. ASSUME Clean(q)'
          PROVE  Clean(q) /\ Unsettled(q)'
      <3>1. Clean(q)
        BY <1>1, <2>5 DEF Clean, Running
      <3>2. Own(q) = {} /\ \A p \in Mine(q) : p.user \notin todo[q]
        BY <1>1, <3>1 DEF Reported, Unsettled, AtCommit
      <3>3. c \notin applied
        BY <1>1, <2>2, <3>2 DEF Mine
      <3>4. AtCommit(q, u)'
        BY <1>1, <2>1 DEF AtCommit, Target
      <3> QED
        BY <1>1, <1>3, <2>1, <2>2, <2>3, <3>1, <3>2, <3>3, <3>4 DEF Unsettled
    <2> QED
      BY <1>1, <1>2, <1>3, <2>1, <2>2, <2>3, <2>4, <2>5 DEF Reported
  <1> QED
    BY <1>4, <1>5, <1>6, <1>7

LEMMA OneTarget ==
    ASSUME TypeOK, NEW q \in Runs, NEW u, NEW v, Target(q, u), Target(q, v)
    PROVE  u = v
  <1>1. u \in Nat /\ v \in Nat /\ u <= v /\ v <= u
    BY MigrationAssumption DEF Target, TypeOK
  <1> QED
    BY <1>1

(* ... a commit that is answered is counted and settles its target, ...    *)
LEMMA CommittedReported ==
    ASSUME TypeOK, NEW q \in Runs, Reported(q), NEW u \in Users, Committed(q, u)
    PROVE  Reported(q)'
  <1> DEFINE c == CommitOf(q, u)
  <1>1. /\ AtCommit(q, u) /\ c \in applied /\ u \in todo[q]
        /\ UNCHANGED <<inflight, applied, records, lost, result>>
        /\ migrated'[q] = migrated[q] + 1 /\ todo'[q] = todo[q] \ {u}
        /\ pc'[q] \in {"verify", "transaction"} /\ pc[q] = "commit"
    BY DEF Committed, AtCommit, Target, Proceed, Goto, TypeOK, server
  <1>2. c.run = q /\ c.user = u /\ c \in Mine(q)
    BY <1>1 DEF CommitOf, Mine
  <1>3. \A v : CommitOf(q, v)' = CommitOf(q, v)
    BY <1>1 DEF CommitOf
  <1>4. \A p \in Own(q) \cup Mine(q) : p.user = u => p = c
    BY DEF Reported
  <1>5. Own(q)' = Own(q) /\ Mine(q)' = Mine(q)
    BY <1>1 DEF Own, Mine
  <1> HIDE DEF c
  <1>6. Settled(q)' = Settled(q) \cup {c} /\ c \notin Settled(q)
    BY <1>1, <1>2, <1>4, <1>5 DEF Settled
  <1>7. IsFiniteSet(Settled(q)) /\ Cardinality(Settled(q)) \in Nat
    <2>1. Settled(q) \subseteq Mine(q) /\ IsFiniteSet(Mine(q))
      BY DEF Settled, Reported
    <2> QED
      BY <2>1, FS_Subset, FS_CardinalityType
  <1>8. Cardinality(Settled(q)') = Cardinality(Settled(q)) + 1
    BY <1>6, <1>7, FS_AddElement
  <1>9. migrated'[q] <= Cardinality(Settled(q)')
    BY <1>1, <1>7, <1>8 DEF Reported, TypeOK
  <1>10. ASSUME Clean(q)'
         PROVE  migrated'[q] = Cardinality(Settled(q)') /\ Unsettled(q)'
    <2>1. Clean(q)
      BY <1>1, <1>10 DEF Clean, Running
    <2>2. Own(q) = {}
      <3>1. ASSUME NEW p \in Own(q) PROVE FALSE
        <4>1. AtCommit(q, p.user) /\ p \notin applied
          BY <2>1, <3>1 DEF Reported, Unsettled
        <4>2. p.user = u
          BY <1>1, <4>1, OneTarget DEF AtCommit
        <4> QED
          BY <1>1, <1>4, <4>1, <4>2 DEF c
      <3> QED
        BY <3>1
    <2>3. \A p \in Mine(q) : p.user \notin todo'[q]
      <3>1. ASSUME NEW p \in Mine(q), p.user \in todo[q] \ {u} PROVE FALSE
        <4>1. AtCommit(q, p.user)
          BY <2>1, <3>1 DEF Reported, Unsettled
        <4> QED
          BY <1>1, <3>1, <4>1, OneTarget DEF AtCommit
      <3> QED
        BY <1>1, <3>1
    <2>4. migrated[q] = Cardinality(Settled(q))
      BY <2>1 DEF Reported
    <2> QED
      BY <1>1, <1>5, <1>8, <2>2, <2>3, <2>4 DEF Unsettled
  <1> QED
    BY <1>1, <1>3, <1>5, <1>9, <1>10 DEF Reported

(* ... and a transaction that fails leaves no commit behind, or has lost   *)
(* the reply to one, or ends the run.                                      *)
LEMMA FailureReported ==
    ASSUME TypeOK, NEW q \in Runs, Reported(q), NEW u \in Users, TransactionFails(q, u)
    PROVE  Reported(q)'
  <1>1. /\ pc[q] \in {"transaction", "commit"} /\ Target(q, u)
        /\ UNCHANGED <<inflight, applied, records, migrated>>
        /\ lost'[q] = (lost[q] \/ (pc[q] = "commit" /\ CommitOf(q, u) \in inflight \cup applied))
    BY DEF TransactionFails, server, TypeOK
  <1>2. CASE Finish(q, "write")
    BY <1>1, <1>2, FinishReported DEF Running
  <1>3. CASE Goto(q, "transaction") /\ UNCHANGED <<todo, result>>
    <2>1. pc'[q] = "transaction" /\ UNCHANGED <<todo, result>>
      BY <1>3 DEF Goto, TypeOK
    <2>2. Own(q)' = Own(q) /\ Mine(q)' = Mine(q) /\ Settled(q)' = Settled(q)
      BY <1>1, <2>1 DEF Own, Mine, Settled
    <2>3. \A v : CommitOf(q, v)' = CommitOf(q, v)
      BY <1>1 DEF CommitOf
    <2>4. ASSUME Clean(q)'
          PROVE  Clean(q) /\ Unsettled(q)'
      <3>1. ~lost'[q] /\ ~lost[q]
        BY <1>1, <2>4 DEF Clean, TypeOK
      <3>2. Clean(q)
        BY <1>1, <3>1 DEF Clean, Running
      <3>3. \A p \in Own(q) \cup Mine(q) : ~AtCommit(q, p.user)
        <4> SUFFICES ASSUME NEW p \in Own(q) \cup Mine(q), AtCommit(q, p.user)
                     PROVE  FALSE
          OBVIOUS
        <4>1. p.user = u /\ pc[q] = "commit"
          BY <1>1, OneTarget DEF AtCommit
        <4>2. p = CommitOf(q, u) /\ p \in inflight \cup applied
          BY <4>1 DEF Reported, Own, Mine
        <4> QED
          BY <1>1, <3>1, <4>1, <4>2
      <3>4. Own(q) = {} /\ \A p \in Mine(q) : p.user \notin todo[q]
        BY <3>2, <3>3 DEF Reported, Unsettled
      <3> QED
        BY <2>1, <2>2, <3>2, <3>4 DEF Unsettled
    <2> QED
      BY <1>1, <2>1, <2>2, <2>3, <2>4 DEF Reported
  <1> QED
    BY <1>2, <1>3 DEF TransactionFails

(* The server settles a commit that a clean run waits for, and no other.   *)
LEMMA ServerReported ==
    ASSUME TypeOK, NEW q \in Runs, Reported(q), NEW p \in inflight,
           ServerCommits(p) \/ ServerDrops(p)
    PROVE  Reported(q)'
  <1>1. /\ Same(q) /\ records' = records /\ inflight' = inflight \ {p}
        /\ pc' = pc /\ todo' = todo
    BY DEF ServerCommits, ServerDrops, run, Same
  <1>2. Own(q)' = Own(q) \ {p}
    BY <1>1 DEF Own
  <1>3. \A v : CommitOf(q, v)' = CommitOf(q, v) /\ (AtCommit(q, v)' <=> AtCommit(q, v))
    BY <1>1 DEF CommitOf, AtCommit, Target
  <1>4. Clean(q)' <=> Clean(q)
    BY <1>1 DEF Clean, Running, Same
  <1>5. CASE p.run # q \/ applied' = applied
    <2>1. /\ Mine(q)' = Mine(q)
          /\ \A r \in Own(q) \ {p} : r \in applied' <=> r \in applied
      BY <1>5 DEF ServerCommits, ServerDrops, Mine, Own
    <2>2. Settled(q)' = Settled(q)
      BY <1>1, <2>1 DEF Settled
    <2>3. Unsettled(q) => Unsettled(q)'
      BY <1>1, <1>2, <1>3, <2>1 DEF Unsettled
    <2> QED
      BY <1>1, <1>2, <1>3, <1>4, <2>1, <2>2, <2>3 DEF Reported, Same
  <1>6. CASE p.run = q /\ applied' = applied \cup {p}
    <2>1. Mine(q)' = Mine(q) \cup {p} /\ p \in Own(q)
      BY <1>6 DEF Mine, Own
    <2>2. /\ Settled(q) \subseteq Settled(q)' /\ Settled(q)' \subseteq Mine(q)'
          /\ IsFiniteSet(Mine(q)')
      BY <1>1, <2>1, FS_AddElement DEF Settled, Reported
    <2>3. /\ Cardinality(Settled(q)) <= Cardinality(Settled(q)')
          /\ Cardinality(Settled(q)) \in Nat /\ Cardinality(Settled(q)') \in Nat
      BY <2>2, FS_Subset, FS_CardinalityType
    <2>4. migrated'[q] <= Cardinality(Settled(q)')
      BY <1>1, <2>3 DEF Reported, TypeOK, Same
    <2>5. ASSUME Clean(q)
          PROVE  Settled(q)' = Settled(q) /\ Unsettled(q)'
      <3>1. AtCommit(q, p.user)
        BY <2>1, <2>5 DEF Reported, Unsettled
      <3>2. p.user \in todo[q]
        BY <3>1 DEF AtCommit, Target
      <3>3. Settled(q)' = Settled(q)
        BY <1>1, <2>1, <3>2 DEF Settled
      <3>4. \A r \in Own(q) \ {p} : r \in applied' <=> r \in applied
        BY <1>6
      <3> QED
        BY <1>1, <1>2, <1>3, <2>1, <2>5, <3>1, <3>3, <3>4 DEF Reported, Unsettled
    <2> QED
      BY <1>1, <1>2, <1>3, <1>4, <2>1, <2>2, <2>4, <2>5 DEF Reported, Same
  <1> QED
    BY <1>5, <1>6 DEF ServerCommits, ServerDrops

LEMMA ReportedStep ==
    ASSUME IndInv, [Next]_vars, NEW q \in Runs, Reported(q)
    PROVE  Reported(q)'
  <1>0. TypeOK /\ RunsFresh /\ TargetsAudited /\ VersionsIdentify
    BY DEF IndInv
  <1>1. ASSUME NEW r \in Runs, r # q, Step(r) PROVE Reported(q)'
    BY <1>0, <1>1, OthersKeep, ReportedKept
  <1>2. CASE Start(q) \/ InitClient(q) \/ Audit(q)
    BY <1>0, <1>2, StartReported, ScanReported
  <1>3. CASE Verify(q)
    BY <1>0, <1>3, FinishReported DEF Verify, Running, server
  <1>4. CASE PhaseFails(q)
    <2>1. PICK res \in {PhaseError(q), "killed"} : Finish(q, res)
      BY <1>4 DEF PhaseFails
    <2>2. pc[q] = "commit" => res \in {"write", "killed"}
      BY <2>1 DEF PhaseError
    <2> QED
      BY <1>0, <1>4, <2>1, <2>2, FinishReported DEF PhaseFails, server
  <1>5. ASSUME NEW u \in Users, Migrate(q, u) \/ Committed(q, u) \/ TransactionFails(q, u)
        PROVE  Reported(q)'
    BY <1>0, <1>5, MigrateReported, CommittedReported, FailureReported
  <1>6. CASE Server
    BY <1>0, <1>6, ServerReported DEF Server
  <1>7. CASE (\E u \in Users : Write(u)) \/ UNCHANGED vars
    <2>1. UNCHANGED <<inflight, applied, run>>
      BY <1>7 DEF Write, vars, server
    <2>2. Same(q) /\ Own(q)' = Own(q) /\ Mine(q)' = Mine(q)
      BY <2>1 DEF run, Same, Own, Mine
    <2> QED
      BY <2>2, ReportedKept
  <1> QED
    BY <1>1, <1>2, <1>3, <1>4, <1>5, <1>6, <1>7 DEF Next, Step

---------------------------------------------------------------------------
(* A reported change: where it is found, and that it stays.                *)
ChangeAt(q, u) ==
    /\ u \in Classified(records[q], "legacy")
    /\ docs[u] # records[q][u] /\ \A p \in Mine(q) : p.user # u
RealChange(q) ==
    result[q] = "concurrent_change" /\ ~lost[q] => \E u \in Users : ChangeAt(q, u)

(* No write brings back the document that a run has read.                  *)
LEMMA ChangeStays ==
    ASSUME TypeOK, VersionsIdentify, [Next]_vars, NEW q \in Runs, NEW u \in Users,
           records[q][u] # NoDoc, docs[u] # records[q][u]
    PROVE  docs'[u] # records[q][u]
  <1>1. /\ records[q][u].version \in Nat /\ records[q][u].version <= version
        /\ version \in Nat
    BY DEF TypeOK, VersionsIdentify, Doc
  <1>2. docs'[u] = docs[u] \/ docs'[u] = NoDoc \/ docs'[u].version = version + 1
    <2>1. ASSUME NEW p \in inflight, ServerCommits(p)
          PROVE  docs'[u] = docs[u] \/ docs'[u].version = version + 1
      BY <2>1 DEF ServerCommits, TypeOK
    <2>2. ASSUME NEW v \in Users, Write(v)
          PROVE  docs'[u] = docs[u] \/ docs'[u] = NoDoc \/ docs'[u].version = version + 1
      BY <2>2 DEF Write, TypeOK
    <2>3. ASSUME NEW r \in Runs, Step(r)
          PROVE  docs' = docs
      BY <2>3 DEF Step, Start, InitClient, Audit, Verify, PhaseFails, Committed,
                  TransactionFails, Migrate, server
    <2>4. CASE (\E p \in inflight : ServerDrops(p)) \/ UNCHANGED vars
      BY <2>4 DEF ServerDrops, vars, server
    <2> QED
      BY <2>1, <2>2, <2>3, <2>4 DEF Next, Server
  <1> QED
    BY <1>1, <1>2

(* The closure reports a change of its target, which a clean run has not   *)
(* converted itself.                                                       *)
LEMMA ChangeFound ==
    ASSUME TypeOK, TargetsAudited, VersionsIdentify, NEW q \in Runs, Reported(q),
           NEW u \in Users, Migrate(q, u), result'[q] = "concurrent_change", result[q] = "none",
           ~lost'[q]
    PROVE  ChangeAt(q, u)'
  <1>1. /\ pc[q] = "transaction" /\ u \in todo[q]
        /\ UNCHANGED <<docs, applied, records, lost>>
    BY DEF Migrate, Target
  <1>2. u \in Classified(records[q], "legacy")
    BY <1>1 DEF TargetsAudited
  <1>3. Decision(u, docs[u], records[q][u].version) = "changed"
    BY DEF Migrate, Decision, Proceed
  <1>4. docs[u] # records[q][u]
    BY <1>2, <1>3 DEF Decision, Classified
  <1>5. Clean(q)
    BY <1>1 DEF Clean, Running
  <1>6. \A p \in Mine(q) : p.user # u
    BY <1>1, <1>5 DEF Reported, Unsettled, AtCommit
  <1> QED
    BY <1>1, <1>2, <1>4, <1>6 DEF ChangeAt, Classified, Mine

LEMMA ChangeStep ==
    ASSUME IndInv, [Next]_vars, NEW q \in Runs, Reported(q), RealChange(q)
    PROVE  RealChange(q)'
  <1> SUFFICES ASSUME result'[q] = "concurrent_change", ~lost'[q]
               PROVE  \E u \in Users : ChangeAt(q, u)'
    BY DEF RealChange
  <1>0. TypeOK /\ RunsFresh /\ TargetsAudited /\ VersionsIdentify
    BY DEF IndInv
  <1>1. ASSUME result[q] = result'[q], lost[q] = lost'[q], records'[q] = records[q],
               Mine(q)' = Mine(q)
        PROVE  \E u \in Users : ChangeAt(q, u)'
    <2>1. PICK u \in Users : ChangeAt(q, u)
      BY <1>1 DEF RealChange
    <2>2. docs'[u] # records[q][u]
      BY <1>0, <2>1, ChangeStays DEF ChangeAt, Classified
    <2>3. ChangeAt(q, u)'
      BY <1>1, <2>1, <2>2 DEF ChangeAt, Classified
    <2> QED
      BY <2>3
  <1>2. ASSUME NEW r \in Runs, r # q, Step(r) PROVE \E u \in Users : ChangeAt(q, u)'
    BY <1>0, <1>1, <1>2, OthersKeep DEF Same
  <1>3. CASE Start(q)
    BY <1>0, <1>3 DEF Start, Finish, TypeOK
  <1>4. CASE InitClient(q) \/ Audit(q) \/ Verify(q) \/ PhaseFails(q)
    <2>1. result[q] = "none"
      BY <1>0, <1>4 DEF InitClient, Audit, Verify, PhaseFails, RunsFresh, Running
    <2> QED
      BY <1>0, <1>4, <2>1
      DEF InitClient, Audit, Verify, PhaseFails, PhaseError, Finish, Proceed, TypeOK
  <1>5. ASSUME NEW u \in Users, Migrate(q, u)
        PROVE  ChangeAt(q, u)'
    <2>1. result[q] = "none"
      BY <1>0, <1>5 DEF Migrate, RunsFresh, Running
    <2> QED
      BY <1>0, <1>5, <2>1, ChangeFound
  <1>6. ASSUME NEW u \in Users, Committed(q, u) \/ TransactionFails(q, u)
        PROVE  FALSE
    <2>1. result[q] = "none"
      BY <1>0, <1>6 DEF Committed, TransactionFails, RunsFresh, Running
    <2> QED
      BY <1>0, <1>6, <2>1 DEF Committed, TransactionFails, Proceed, Finish, TypeOK
  <1>7. ASSUME NEW p \in inflight, ServerCommits(p) \/ ServerDrops(p)
        PROVE  \E u \in Users : ChangeAt(q, u)'
    <2>1. UNCHANGED <<result, lost, records>>
      BY <1>7 DEF ServerCommits, ServerDrops, run
    <2>2. pc[q] = "done" /\ Clean(q)
      BY <1>0, <2>1 DEF RunsFresh, Running, Reported, Clean
    <2>3. p.run # q
      BY <2>2 DEF Reported, Unsettled, AtCommit, Own
    <2>4. Mine(q)' = Mine(q)
      BY <1>7, <2>3 DEF ServerCommits, ServerDrops, Mine
    <2> QED
      BY <1>1, <2>1, <2>4
  <1>8. CASE (\E u \in Users : Write(u)) \/ UNCHANGED vars
    <2>1. UNCHANGED <<applied, result, lost, records>>
      BY <1>8 DEF Write, vars, server, run
    <2> QED
      BY <1>1, <2>1 DEF Mine
  <1> QED
    BY <1>2, <1>3, <1>4, <1>5, <1>6, <1>7, <1>8 DEF Next, Server, Step

---------------------------------------------------------------------------
(* The inductive invariant holds in every reachable state.                 *)
THEOREM Invariance == Spec => []IndInv
  <1>1. IndInv /\ [Next]_vars => IndInv'
    BY TypeStep, PreflightStep, TargetsStep, FreshStep, VersionsStep, SuccessStep DEF IndInv
  <1> QED
    BY InitIndInv, <1>1, PTL DEF Spec

(* Every variable keeps its type; in particular every commit under way     *)
(* carries a profile, and no transaction is tried beyond its budget.       *)
THEOREM TypeCorrect == Spec => []TypeOK
  <1>1. IndInv => TypeOK
    BY DEF IndInv
  <1> QED
    BY Invariance, <1>1, PTL

(* run_profile_migration writes only what its complete preflight selected. *)
THEOREM PreflightIsFirst == Spec => []PreflightFirst
  <1>1. IndInv => PreflightFirst
    BY DEF IndInv
  <1> QED
    BY Invariance, <1>1, PTL

(* An apply that succeeded leaves no retired profile behind, and no commit *)
(* that lands late brings one back.                                        *)
THEOREM SuccessMeansComplete == Spec => []SuccessIsComplete
  <1>1. IndInv => SuccessIsComplete
    BY DEF IndInv
  <1> QED
    BY Invariance, <1>1, PTL

(* The update_time precondition of migrate_one: nothing but the conversion *)
(* of a retired profile ever changes the collection.                       *)
THEOREM OnlyConversions == Spec => OnlyLegacyConverted
  <1> DEFINE Converted(u) ==
          /\ docs[u] # NoDoc /\ docs'[u] # NoDoc
          /\ Class(u, docs[u]) = "legacy" /\ Class(u, docs'[u]) = "current"
          /\ docs'[u].body = ToCanonical(docs[u].body)
  <1>1. ASSUME IndInv, [Next]_vars, NEW u \in Users, writes' = writes, docs'[u] # docs[u]
        PROVE  Converted(u)
    <2>1. TypeOK /\ VersionsIdentify
      BY <1>1 DEF IndInv
    <2>2. ASSUME NEW p \in inflight, ServerCommits(p) PROVE Converted(u)
      <3>1. docs[p.user] # NoDoc
        BY <2>2 DEF ServerCommits
      <3> QED
        BY <1>1, <2>1, <2>2, <3>1, CommitConverts
    <2>3. \A v \in Users : ~ Write(v)
      BY <1>1, <2>1 DEF Write, TypeOK
    <2>4. \A r \in Runs : ~ Step(r)
      <3>1. \A r \in Runs : Step(r) => docs' = docs
        <4> SUFFICES ASSUME NEW r \in Runs, Step(r) PROVE docs' = docs
          OBVIOUS
        <4>1. CASE Start(r) \/ InitClient(r)
          BY <4>1, Zenon DEF Start, InitClient, server
        <4>2. CASE Audit(r) \/ Verify(r) \/ PhaseFails(r)
          BY <4>2, Zenon DEF Audit, Verify, PhaseFails, server
        <4>3. ASSUME NEW v \in Users, Migrate(r, v) \/ Committed(r, v) \/ TransactionFails(r, v)
              PROVE  docs' = docs
          <5>1. CASE Migrate(r, v)
            BY <5>1, SMT DEF Migrate
          <5>2. CASE Committed(r, v)
            BY <5>2, SMT DEF Committed, server
          <5>3. CASE TransactionFails(r, v)
            BY <5>3, SMT DEF TransactionFails, server
          <5> QED
            BY <4>3, <5>1, <5>2, <5>3
        <4> QED
          BY <4>1, <4>2, <4>3, Zenon DEF Step
      <3> QED
        BY <1>1, <3>1
    <2>5. \A p \in inflight : ~ ServerDrops(p)
      BY <1>1 DEF ServerDrops
    <2> QED
      BY <1>1, <2>2, <2>3, <2>4, <2>5 DEF Next, Server, vars, server
  <1>2. IndInv /\ [Next]_vars =>
           [\A u \in Users : writes' = writes /\ docs'[u] # docs[u] => Converted(u)]_vars
    BY <1>1
  <1> QED
    BY Invariance, <1>2, PTL DEF Spec, OnlyLegacyConverted

(* The counts of the report and the changes it blames are invariants of    *)
(* every run, on top of the inductive invariant.                           *)
LEMMA ReportInvariance == Spec => [](\A q \in Runs : Reported(q) /\ RealChange(q))
  <1> DEFINE Reports == \A q \in Runs : Reported(q) /\ RealChange(q)
  <1>1. Init => Reports
    <2>1. ASSUME Init, NEW q \in Runs PROVE RealChange(q)
      BY <2>1 DEF Init, RealChange
    <2> QED
      BY <2>1, InitReported
  <1>2. IndInv /\ Reports /\ [Next]_vars => Reports'
    BY ReportedStep, ChangeStep
  <1> HIDE DEF Reports
  <1>3. Spec => []Reports
    BY <1>1, <1>2, Invariance, PTL DEF Spec
  <1> QED
    BY <1>3 DEF Reports

(* The report of a run counts what the run converted: never more, and      *)
(* exactly that unless a commit of its own was left without an answer.     *)
THEOREM ReportsAreHonest == Spec => []CountIsHonest
  <1>1. ASSUME IndInv, \A q \in Runs : Reported(q) /\ RealChange(q)
        PROVE  CountIsHonest
    <2> SUFFICES ASSUME NEW r \in Runs
                 PROVE  /\ migrated[r] <= Cardinality(Mine(r))
                        /\ /\ pc[r] = "done" /\ ~lost[r] /\ result[r] \notin {"write", "killed"}
                           => migrated[r] = Cardinality(Mine(r))
      BY DEF CountIsHonest
    <2>1. Reported(r) /\ migrated[r] \in Nat
      BY <1>1 DEF IndInv, TypeOK
    <2>2. /\ Cardinality(Settled(r)) <= Cardinality(Mine(r))
          /\ Cardinality(Settled(r)) \in Nat /\ Cardinality(Mine(r)) \in Nat
      <3>1. Settled(r) \subseteq Mine(r) /\ IsFiniteSet(Mine(r))
        BY <2>1 DEF Settled, Reported
      <3> QED
        BY <3>1, FS_Subset, FS_CardinalityType
    <2>3. migrated[r] <= Cardinality(Mine(r))
      BY <2>1, <2>2 DEF Reported
    <2>4. ASSUME pc[r] = "done", ~lost[r], result[r] \notin {"write", "killed"}
          PROVE  migrated[r] = Cardinality(Mine(r))
      <3>1. Clean(r)
        BY <2>4 DEF Clean
      <3>2. Settled(r) = Mine(r)
        BY <2>1, <2>4, <3>1 DEF Reported, Unsettled, AtCommit, Settled
      <3> QED
        BY <2>1, <3>1, <3>2 DEF Reported
    <2> QED
      BY <2>3, <2>4
  <1>2. IndInv /\ (\A q \in Runs : Reported(q) /\ RealChange(q)) => CountIsHonest
    BY <1>1
  <1> QED
    BY <1>2, Invariance, ReportInvariance, PTL

(* A run that blames a concurrent change met one that still stands, on a   *)
(* target it has not converted itself, unless it lost a reply.             *)
THEOREM ReportedChangesAreReal == Spec => []ConcurrentChangeIsReal
  <1>1. (\A q \in Runs : Reported(q) /\ RealChange(q)) => ConcurrentChangeIsReal
    BY DEF ConcurrentChangeIsReal, RealChange, ChangeAt
  <1> QED
    BY <1>1, ReportInvariance, PTL
=============================================================================

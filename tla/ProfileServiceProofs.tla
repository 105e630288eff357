------------------------ MODULE ProfileServiceProofs ------------------------
(***************************************************************************)
(* Proofs about ProfileService for every set of requests, users and calls, *)
(* every bound on the attempts and every timestamp range.                  *)
(***************************************************************************)
EXTENDS ProfileService, TLAPS

---------------------------------------------------------------------------
(* The pure functions.                                                     *)

(* next_timestamp stays in range and strictly follows the previous value.  *)
LEMMA NextTimestampFollows ==
    ASSUME NEW previous \in Times, NEW t \in Times, CanAdvance(previous, t)
    PROVE  /\ NextTimestamp(previous, t) \in Times
           /\ NextTimestamp(previous, t) > previous
  BY DataAssumption DEF Times, CanAdvance, NextTimestamp

(* A patch applied to a content gives a content.                           *)
LEMMA MergedContent ==
    ASSUME NEW content \in Content, NEW patch \in Patch
    PROVE  Merged(content, patch) \in Content
  <1>1. PICK S \in SUBSET Fields : patch \in [S -> Vals]
    BY DEF Patch
  <1>2. \A f \in Fields : (IF f \in DOMAIN patch THEN patch[f] ELSE content[f]) \in Vals
    BY <1>1 DEF Content
  <1> QED
    BY <1>2 DEF Merged, Content

(* The strict reader accepts profiles only.                                *)
LEMMA ReadableProfile ==
    ASSUME NEW doc \in StoredDoc, Readable(doc)
    PROVE  doc \in Profile
  BY DEF Readable, StoredDoc

(* What a closure writes: a document that differs from the one it read,    *)
(* that the strict reader accepts, and that follows it in time.            *)
LEMMA WriteEffect ==
    ASSUME NEW c, WellFormed(c), NEW t \in Times, NEW old \in StoredDoc,
           Writes(c, t, old)
    PROVE  /\ NewDoc(c, t, old) \in Profile \cup {NoDoc}
           /\ NewDoc(c, t, old) # old
           /\ old # Foreign
           /\ NewDoc(c, t, old) # NoDoc => Readable(NewDoc(c, t, old))
           /\ old # NoDoc /\ NewDoc(c, t, old) # NoDoc =>
                  /\ NewDoc(c, t, old).created = old.created
                  /\ NewDoc(c, t, old).updated > old.updated
  <1>1. CASE c.op = "create" /\ old = NoDoc
    <2>1. NewDoc(c, t, old) = [content |-> c.arg, created |-> t, updated |-> t]
      BY <1>1 DEF NewDoc, BuildProfile
    <2>2. NewDoc(c, t, old) \in Profile
      BY <1>1, <2>1 DEF WellFormed, Profile
    <2>3. t <= t
      BY DataAssumption DEF Times
    <2> QED
      BY <1>1, <2>1, <2>2, <2>3, DataAssumption DEF Readable
  <1>2. CASE /\ c.op = "update" /\ Readable(old)
             /\ Changes(c, old) /\ CanAdvance(old.updated, t)
    <2> DEFINE content == Merged(old.content, c.arg)
               updated == NextTimestamp(old.updated, t)
    <2>1. old \in Profile
      BY <1>2, ReadableProfile
    <2>2. NewDoc(c, t, old) =
              [content |-> content, created |-> old.created, updated |-> updated]
      BY <1>2, <2>1 DEF NewDoc, UpdatedProfile, Profile
    <2>3. content \in Content
      BY <1>2, <2>1, MergedContent DEF WellFormed, Call, Profile
    <2>4. updated \in Times /\ updated > old.updated
      BY <1>2, <2>1, NextTimestampFollows DEF Profile
    <2>5. NewDoc(c, t, old) \in Profile
      BY <2>1, <2>2, <2>3, <2>4 DEF Profile
    <2>6. old.created <= updated
      BY <1>2, <2>1, <2>4, DataAssumption DEF Readable, Profile, Times
    <2>7. NewDoc(c, t, old).content # old.content
      BY <1>2, <2>2 DEF Changes
    <2> QED
      BY <2>1, <2>2, <2>4, <2>5, <2>6, <2>7, DataAssumption DEF Readable
  <1>3. CASE c.op = "delete" /\ Readable(old)
    <2>1. NewDoc(c, t, old) = NoDoc
      BY <1>3 DEF NewDoc
    <2> QED
      BY <1>3, <2>1, ReadableProfile, DataAssumption DEF Readable
  <1> QED
    BY <1>1, <1>2, <1>3 DEF Writes

LEMMA SettledTyped ==
    ASSUME NEW c, NEW old \in StoredDoc
    PROVE  Settled(c, old) \in Answer
  <1>1. \A s \in Statuses : Err(s) \in Answer
    BY DEF Err, Answer, StoredDoc
  <1>2. Ok(old) \in Answer
    BY DEF Ok, Answer, Statuses
  <1> QED
    BY <1>1, <1>2 DEF Settled, Statuses

LEMMA OutcomeTyped ==
    ASSUME NEW c, WellFormed(c), NEW t \in Times, NEW old \in StoredDoc
    PROVE  Outcome(c, t, old) \in OutcomeType
  <1>1. CASE Writes(c, t, old)
    <2>1. NewDoc(c, t, old) \in StoredDoc
      BY <1>1, WriteEffect DEF StoredDoc
    <2>2. Ok(NewDoc(c, t, old)) \in Answer
      BY <2>1 DEF Ok, Answer, Statuses
    <2> QED
      BY <1>1, <2>1, <2>2 DEF Outcome, OutcomeType
  <1>2. CASE ~Writes(c, t, old)
    BY <1>2, SettledTyped DEF Outcome, OutcomeType
  <1> QED
    BY <1>1, <1>2

LEMMA MapErrorTyped ==
    ASSUME NEW op, NEW e
    PROVE  MapError(op, e) \in Answer
  <1>1. \A s \in Statuses : Err(s) \in Answer
    BY DEF Err, Answer, StoredDoc
  <1> QED
    BY <1>1 DEF MapError, Statuses

---------------------------------------------------------------------------
(* What the actions do to the attempts, pointwise.                         *)

Put(r, k, a) == tx' = [tx EXCEPT ![r] = [tx[r] EXCEPT ![k] = a]]

(* Storing an attempt changes that attempt and no other.                   *)
LEMMA PutEffect ==
    ASSUME TypeOK, NEW r \in Requests, NEW k \in Attempts, NEW a \in Attempt,
           Put(r, k, a)
    PROVE  /\ tx' \in [Requests -> [Attempts -> Attempt \cup {NoTx}]]
           /\ tx'[r][k] = a /\ Made(r, k)'
           /\ \A q \in Requests, j \in Attempts :
                  (q # r \/ j # k) => tx'[q][j] = tx[q][j]
  BY NoTxAssumption DEF TypeOK, Put, Made

(* A request past the choice of its arguments has well-formed ones.        *)
LEMMA Running0 ==
    ASSUME IndInv, NEW r \in Requests, pc[r] # "idle"
    PROVE  /\ call[r] \in Calls /\ WellFormed(call[r])
           /\ call[r].user \in Users /\ Doc(r) \in StoredDoc
  BY ServiceAssumption DEF IndInv, TypeOK, Progress, Doc, WellFormed, Call

LEMMA MadeAttempt ==
    ASSUME IndInv, NEW r \in Requests, NEW k \in Attempts, Made(r, k)
    PROVE  /\ tx[r][k] \in Attempt /\ tx[r][k].out \in OutcomeType
           /\ pc[r] # "idle" /\ pc[r] # "client" /\ k <= att[r]
  BY DEF IndInv, TypeOK, Progress, Made, Attempt

LEMMA RunClosureEffect ==
    ASSUME IndInv, NEW r \in Requests, RunClosure(r)
    PROVE  /\ att[r] \in Attempts
           /\ \E a \in Attempt :
                 /\ Put(r, att[r], a)
                 /\ a.out = Outcome(call[r], now[r], Doc(r))
                 /\ a.st = (IF Writes(call[r], now[r], Doc(r)) THEN "sent" ELSE "applied")
                 /\ a.lost = FALSE
  <1> DEFINE out == Outcome(call[r], now[r], Doc(r))
             st == IF Writes(call[r], now[r], Doc(r)) THEN "sent" ELSE "applied"
             a == [out |-> out, st |-> st, lost |-> FALSE]
  <1>1. now[r] \in Times /\ WellFormed(call[r]) /\ Doc(r) \in StoredDoc
    BY Running0 DEF RunClosure, IndInv, TypeOK
  <1>2. out \in OutcomeType
    BY <1>1, OutcomeTyped
  <1>3. a \in Attempt
    BY <1>2 DEF Attempt, AttemptStates
  <1>4. Put(r, att[r], a)
    BY DEF RunClosure, Put
  <1>5. att[r] \in Attempts
    BY DEF RunClosure, IndInv, Progress
  <1> QED
    BY <1>3, <1>4, <1>5

LEMMA CommitFailsEffect ==
    ASSUME IndInv, NEW r \in Requests, NEW e, CommitFails(r, e)
    PROVE  /\ att[r] \in Attempts /\ Made(r, att[r])
           /\ \E a \in Attempt :
                 /\ Put(r, att[r], a)
                 /\ a.out = Tx(r).out /\ a.st = Tx(r).st
                 /\ ~a.lost => ~Tx(r).lost /\ (Tx(r).st = "aborted" \/ Tx(r).out.new = Tx(r).out.old)
  <1> DEFINE lost == Tx(r).lost \/ (Tx(r).st # "aborted" /\ Tx(r).out.new # Tx(r).out.old)
             a == [Tx(r) EXCEPT !.lost = lost]
  <1>1. att[r] \in Attempts /\ Made(r, att[r]) /\ Tx(r) \in Attempt
    BY DEF CommitFails, Tx, IndInv, TypeOK, Progress, Made
  <1>2. a \in Attempt /\ a.out = Tx(r).out /\ a.st = Tx(r).st /\ a.lost = lost
    BY <1>1 DEF Attempt
  <1>3. Put(r, att[r], a)
    BY DEF CommitFails, Tx, Put
  <1> QED
    BY <1>1, <1>2, <1>3

LEMMA ServerRefusesEffect ==
    ASSUME IndInv, NEW r \in Requests, NEW k \in Attempts, ServerRefuses(r, k)
    PROVE  \E a \in Attempt :
              /\ Put(r, k, a)
              /\ a.st = "refused" /\ a.lost = tx[r][k].lost
              /\ a.out.new = a.out.old
  <1>1. PICK e \in PreconditionError(r) :
            tx' = [tx EXCEPT ![r][k].st = "refused",
                             ![r][k].out = [old |-> Doc(r), new |-> Doc(r),
                                            ans |-> MapError(call[r].op, e)]]
    BY DEF ServerRefuses
  <1> DEFINE out == [old |-> Doc(r), new |-> Doc(r), ans |-> MapError(call[r].op, e)]
             a == [tx[r][k] EXCEPT !.st = "refused", !.out = out]
  <1>2. Doc(r) \in StoredDoc /\ tx[r][k] \in Attempt
    BY Running0, MadeAttempt DEF ServerRefuses, Made
  <1>3. out \in OutcomeType /\ out.new = out.old
    BY <1>2, MapErrorTyped DEF OutcomeType
  <1>4. a \in Attempt /\ a.st = "refused" /\ a.lost = tx[r][k].lost /\ a.out = out
    <2> HIDE DEF out
    <2> QED
      BY <1>2, <1>3 DEF Attempt, AttemptStates
  <1>5. Put(r, k, a)
    BY <1>1 DEF IndInv, TypeOK, Put
  <1> HIDE DEF out, a
  <1> QED
    BY <1>3, <1>4, <1>5

LEMMA ServerAbortsEffect ==
    ASSUME IndInv, NEW r \in Requests, NEW k \in Attempts, ServerAborts(r, k)
    PROVE  \E a \in Attempt :
              /\ Put(r, k, a)
              /\ a.st = "aborted" /\ a.lost = tx[r][k].lost
              /\ a.out = tx[r][k].out
  <1> DEFINE a == [tx[r][k] EXCEPT !.st = "aborted"]
  <1>1. a \in Attempt /\ a.st = "aborted" /\ a.lost = tx[r][k].lost /\ a.out = tx[r][k].out
    BY MadeAttempt DEF ServerAborts, Made, Attempt, AttemptStates
  <1>2. Put(r, k, a)
    BY DEF ServerAborts, Put
  <1> QED
    BY <1>1, <1>2

(* A commit applies one attempt and leaves none in flight on its document. *)
LEMMA ServerCommitsEffect ==
    ASSUME IndInv, NEW r \in Requests, NEW k \in Attempts, ServerCommits(r, k)
    PROVE  /\ tx' \in [Requests -> [Attempts -> Attempt \cup {NoTx}]]
           /\ tx'[r][k].st = "applied"
           /\ \A q \in Requests, j \in Attempts :
                 /\ Made(q, j)' <=> Made(q, j)
                 /\ Made(q, j) => /\ tx'[q][j].out = tx[q][j].out
                                  /\ tx'[q][j].lost = tx[q][j].lost
                 /\ (q # r \/ j # k) /\ Made(q, j) =>
                       \/ tx'[q][j].st = tx[q][j].st
                       \/ tx[q][j].st = "sent" /\ tx'[q][j].st = "stale"
                 /\ InFlight(q, j)' => InFlight(q, j) /\ call[q].user # call[r].user
  <1> DEFINE With(q, j, s) == [tx[q][j] EXCEPT !.st = s]
  <1>1. ASSUME NEW q \in Requests, NEW j \in Attempts, Made(q, j), NEW s \in AttemptStates
        PROVE  /\ With(q, j, s) \in Attempt /\ With(q, j, s) # NoTx
               /\ With(q, j, s).out = tx[q][j].out
               /\ With(q, j, s).lost = tx[q][j].lost
               /\ With(q, j, s).st = s
    BY <1>1, MadeAttempt, NoTxAssumption DEF Attempt
  <1>2. Made(r, k)
    BY DEF ServerCommits, Made
  <1>3. ASSUME NEW q \in Requests, NEW j \in Attempts
        PROVE  tx'[q][j] =
                 IF /\ Made(q, j) /\ tx[q][j].st = "sent"
                    /\ (q # r \/ j # k) /\ call[q].user = call[r].user
                 THEN With(q, j, "stale")
                 ELSE IF q = r /\ j = k THEN With(q, j, "applied")
                 ELSE tx[q][j]
    BY DEF ServerCommits, Overtaken, Made
  <1> HIDE DEF With
  <1>4. "stale" \in AttemptStates /\ "applied" \in AttemptStates
    BY DEF AttemptStates
  <1>5. ASSUME NEW q \in Requests, NEW j \in Attempts
        PROVE  /\ tx'[q][j] \in Attempt \cup {NoTx}
               /\ Made(q, j)' <=> Made(q, j)
               /\ Made(q, j) => /\ tx'[q][j].out = tx[q][j].out
                                /\ tx'[q][j].lost = tx[q][j].lost
               /\ (q # r \/ j # k) /\ Made(q, j) =>
                     \/ tx'[q][j].st = tx[q][j].st
                     \/ tx[q][j].st = "sent" /\ tx'[q][j].st = "stale"
               /\ InFlight(q, j)' => InFlight(q, j) /\ call[q].user # call[r].user
    <2>1. CASE q = r /\ j = k
      BY <1>1, <1>2, <1>3, <1>4, <2>1 DEF Made, InFlight
    <2>2. CASE /\ Made(q, j) /\ tx[q][j].st = "sent"
               /\ (q # r \/ j # k) /\ call[q].user = call[r].user
      BY <1>1, <1>3, <1>4, <2>2 DEF Made, InFlight
    <2>3. CASE ~(q = r /\ j = k) /\ ~(/\ Made(q, j) /\ tx[q][j].st = "sent"
                                      /\ (q # r \/ j # k) /\ call[q].user = call[r].user)
      <3>1. tx'[q][j] = tx[q][j]
        BY <1>3, <2>3
      <3>2. tx[q][j] \in Attempt \cup {NoTx}
        BY DEF IndInv, TypeOK
      <3> QED
        BY <2>3, <3>1, <3>2 DEF Made, InFlight
    <2> QED
      BY <2>1, <2>2, <2>3
  <1>6. tx' = [q \in Requests |-> [j \in Attempts |-> tx'[q][j]]]
    BY DEF ServerCommits, Overtaken
  <1>7. tx'[r][k].st = "applied"
    BY <1>1, <1>2, <1>3, <1>4
  <1>8. tx' \in [Requests -> [Attempts -> Attempt \cup {NoTx}]]
    BY <1>5, <1>6
  <1> QED
    BY <1>5, <1>7, <1>8

---------------------------------------------------------------------------
(* The inductive invariant: initially, and part by part over a step.       *)

LEMMA InitIndInv == Init => IndInv
  <1> SUFFICES ASSUME Init PROVE IndInv
    OBVIOUS
  <1>1. TypeOK
    <2>1. Pending \in Answer
      BY DEF Pending, Err, Answer, Statuses, StoredDoc
    <2>2. 0 \in Times
      BY DataAssumption DEF Times
    <2>3. 0 \in 0 .. MaxAttempts
      BY ServiceAssumption
    <2> QED
      BY <2>1, <2>2, <2>3, ServiceAssumption DEF Init, TypeOK, PCs
  <1>2. \A u \in Users : docs[u] \in {NoDoc, Foreign} \/ Readable(docs[u])
    BY ServiceAssumption DEF Init
  <1>3. \A r \in Requests, k \in Attempts : ~Made(r, k)
    BY DEF Init, Made
  <1>4. \A r \in Requests : Progress(r)
    BY <1>3 DEF Init, Progress
  <1> QED
    BY <1>1, <1>2, <1>3, <1>4
    DEF IndInv, Current, InFlight, NothingLeftBehind, Took, Init, Final

LEMMA TypeStep ==
    ASSUME IndInv, [Next]_vars
    PROVE  TypeOK'
  <1> USE DEF TypeOK, Goto, Finish
  <1>0. TypeOK
    BY DEF IndInv
  <1>b. \A s \in Statuses : Err(s) \in Answer
    BY DEF Err, Answer, StoredDoc
  <1>c. Err("unavailable") \in Answer
    BY <1>b DEF Statuses
  <1>1. ASSUME NEW r \in Requests, Invoke(r) PROVE TypeOK'
    BY <1>0, <1>1 DEF Invoke, PCs
  <1>2. ASSUME NEW r \in Requests, InitClient(r) PROVE TypeOK'
    BY <1>0, <1>2 DEF InitClient
  <1>3. ASSUME NEW r \in Requests, ClientBuilt(r) PROVE TypeOK'
    BY <1>0, <1>3 DEF ClientBuilt
  <1>4. ASSUME NEW r \in Requests, NEW e, ClientFails(r, e) PROVE TypeOK'
    BY <1>0, <1>4, MapErrorTyped DEF ClientFails, PCs
  <1>5. ASSUME NEW r \in Requests, ClientReady(r) PROVE TypeOK'
    <2>1. 0 \in Times
      BY DataAssumption DEF Times
    <2> QED
      BY <1>0, <1>5, <2>1 DEF ClientReady, PCs
  <1>6. ASSUME NEW r \in Requests, Get(r) PROVE TypeOK'
    <2>1. Settled(call[r], Doc(r)) \in Answer
      BY <1>6, Running0, SettledTyped DEF Get
    <2> QED
      BY <1>0, <1>6, <2>1 DEF Get, PCs
  <1>7. ASSUME NEW r \in Requests, NEW e, GetFails(r, e) PROVE TypeOK'
    BY <1>0, <1>7, MapErrorTyped DEF GetFails, PCs
  <1>8. ASSUME NEW r \in Requests, BeginTransaction(r) PROVE TypeOK'
    <2>1. att[r] + 1 \in 0 .. MaxAttempts
      BY <1>0, <1>8, ServiceAssumption DEF BeginTransaction, IndInv, Progress
    <2> QED
      BY <1>0, <1>8, <2>1 DEF BeginTransaction, PCs
  <1>9. ASSUME NEW r \in Requests, NEW e, BeginFails(r, e) PROVE TypeOK'
    BY <1>0, <1>9, MapErrorTyped DEF BeginFails, PCs
  <1>10. ASSUME NEW r \in Requests, RunClosure(r) PROVE TypeOK'
    <2>1. tx' \in [Requests -> [Attempts -> Attempt \cup {NoTx}]]
      BY <1>0, <1>10, RunClosureEffect, PutEffect
    <2> QED
      BY <1>0, <1>10, <2>1 DEF RunClosure, PCs
  <1>11. ASSUME NEW r \in Requests, NEW e, ReadFails(r, e) PROVE TypeOK'
    BY <1>0, <1>c, <1>11 DEF ReadFails, RetryOrGiveUp, PCs
  <1>12. ASSUME NEW r \in Requests, Committed(r) PROVE TypeOK'
    <2>1. Tx(r) \in Attempt
      BY <1>0, <1>12 DEF Committed, Tx, IndInv, Progress, Made
    <2>2. Tx(r).out.ans \in Answer
      BY <2>1 DEF Attempt, OutcomeType
    <2> QED
      BY <1>0, <1>12, <2>2 DEF Committed, PCs
  <1>13. ASSUME NEW r \in Requests, NEW e, CommitFails(r, e) PROVE TypeOK'
    <2>1. tx' \in [Requests -> [Attempts -> Attempt \cup {NoTx}]]
      BY <1>0, <1>13, CommitFailsEffect, PutEffect
    <2>2. MapError(call[r].op, e) \in Answer
      BY MapErrorTyped
    <2>3. pc' \in [Requests -> PCs] /\ result' \in [Requests -> Answer]
      BY <1>0, <1>c, <1>13, <2>2 DEF CommitFails, RetryOrGiveUp, PCs
    <2> QED
      BY <1>0, <1>13, <2>1, <2>3 DEF CommitFails
  <1>14. ASSUME NEW r \in Requests, Deadline(r) PROVE TypeOK'
    BY <1>0, <1>c, <1>14 DEF Deadline, PCs
  <1>15. CASE Crash
    BY <1>0, <1>15 DEF Crash, PCs
  <1>16. ASSUME NEW r \in Requests, NEW k \in Attempts, ServerCommits(r, k) PROVE TypeOK'
    <2>1. tx' \in [Requests -> [Attempts -> Attempt \cup {NoTx}]]
      BY <1>16, ServerCommitsEffect
    <2>2. tx[r][k].out.new \in StoredDoc
      BY <1>16, MadeAttempt DEF ServerCommits, Made, OutcomeType
    <2> QED
      BY <1>0, <1>16, <2>1, <2>2 DEF ServerCommits
  <1>17. ASSUME NEW r \in Requests, NEW k \in Attempts, ServerRefuses(r, k) PROVE TypeOK'
    <2>1. tx' \in [Requests -> [Attempts -> Attempt \cup {NoTx}]]
      BY <1>0, <1>17, ServerRefusesEffect, PutEffect
    <2> QED
      BY <1>0, <1>17, <2>1 DEF ServerRefuses
  <1>18. ASSUME NEW r \in Requests, NEW k \in Attempts, ServerAborts(r, k) PROVE TypeOK'
    <2>1. tx' \in [Requests -> [Attempts -> Attempt \cup {NoTx}]]
      BY <1>0, <1>18, ServerAbortsEffect, PutEffect
    <2> QED
      BY <1>0, <1>18, <2>1 DEF ServerAborts
  <1>19. CASE UNCHANGED vars
    BY <1>0, <1>19 DEF vars
  <1> QED
    BY <1>1, <1>2, <1>3, <1>4, <1>5, <1>6, <1>7, <1>8, <1>9, <1>10, <1>11,
       <1>12, <1>13, <1>14, <1>15, <1>16, <1>17, <1>18, <1>19
    DEF Next, Handler, Server

(* Only a commit at the server changes a document, and it changes it as    *)
(* the closure of its call decided from the document that is still there.  *)
LEMMA CommitChangesDoc ==
    ASSUME IndInv, NEW r \in Requests, NEW k \in Attempts, ServerCommits(r, k)
    PROVE  /\ docs' = [docs EXCEPT ![call[r].user] = NewDoc(call[r], now[r], Doc(r))]
           /\ call[r].user \in Users /\ Doc(r) \in StoredDoc
           /\ WellFormed(call[r]) /\ now[r] \in Times
           /\ Writes(call[r], now[r], Doc(r))
  <1>1. Made(r, k) /\ InFlight(r, k)
    BY DEF ServerCommits, Made, InFlight
  <1>2. /\ tx[r][k].out = Outcome(call[r], now[r], Doc(r))
        /\ Writes(call[r], now[r], Doc(r))
    BY <1>1 DEF IndInv, Current
  <1>3. tx[r][k].out.new = NewDoc(call[r], now[r], Doc(r))
    BY <1>2 DEF Outcome
  <1> QED
    BY <1>1, <1>2, <1>3, MadeAttempt, Running0 DEF ServerCommits, IndInv, TypeOK

LEMMA OnlyCommitsChangeDocs ==
    ASSUME [Next]_vars
    PROVE  \/ docs' = docs
           \/ \E r \in Requests, k \in Attempts : ServerCommits(r, k)
  BY DEF Next, Handler, Server, vars, Crash, Invoke, InitClient, ClientBuilt,
         ClientFails, ClientReady, Get, GetFails, BeginTransaction, BeginFails,
         RunClosure, ReadFails, Committed, CommitFails, Deadline,
         ServerRefuses, ServerAborts

LEMMA ReadableStep ==
    ASSUME IndInv, [Next]_vars, NEW u \in Users
    PROVE  (docs[u] \in {NoDoc, Foreign} \/ Readable(docs[u]))'
  <1>1. CASE docs' = docs
    BY <1>1 DEF IndInv
  <1>2. ASSUME NEW r \in Requests, NEW k \in Attempts, ServerCommits(r, k)
        PROVE  (docs[u] \in {NoDoc, Foreign} \/ Readable(docs[u]))'
    BY <1>2, CommitChangesDoc, WriteEffect DEF IndInv, TypeOK
  <1> QED
    BY <1>1, <1>2, OnlyCommitsChangeDocs

LEMMA ProgressStep ==
    ASSUME IndInv, [Next]_vars, NEW q \in Requests
    PROVE  Progress(q)'
  <1> USE DEF Progress, Made, Goto, Finish
  <1>a. TypeOK
    BY DEF IndInv
  <1>0. TypeOK /\ Progress(q)
    BY DEF IndInv
  <1>1. ASSUME NEW r \in Requests, Invoke(r) PROVE Progress(q)'
    BY <1>0, <1>1 DEF Invoke, TypeOK
  <1>2. ASSUME NEW r \in Requests, InitClient(r) PROVE Progress(q)'
    BY <1>0, <1>2 DEF InitClient, TypeOK
  <1>3. ASSUME NEW r \in Requests, ClientBuilt(r) PROVE Progress(q)'
    BY <1>0, <1>3 DEF ClientBuilt, TypeOK
  <1>4. ASSUME NEW r \in Requests, NEW e, ClientFails(r, e) PROVE Progress(q)'
    BY <1>0, <1>4 DEF ClientFails, TypeOK
  <1>5. ASSUME NEW r \in Requests, ClientReady(r) PROVE Progress(q)'
    BY <1>0, <1>5, ServiceAssumption DEF ClientReady, TypeOK
  <1>6. ASSUME NEW r \in Requests, Get(r) PROVE Progress(q)'
    BY <1>0, <1>6 DEF Get, TypeOK
  <1>7. ASSUME NEW r \in Requests, NEW e, GetFails(r, e) PROVE Progress(q)'
    BY <1>0, <1>7 DEF GetFails, TypeOK
  <1>8. ASSUME NEW r \in Requests, BeginTransaction(r) PROVE Progress(q)'
    <2>1. att[r] \in 0 .. MaxAttempts /\ att[r] < MaxAttempts /\ Progress(r)
      BY <1>8 DEF BeginTransaction, IndInv, TypeOK
    <2>2. att[r] + 1 \in Attempts
      BY <2>1, ServiceAssumption DEF Attempts
    <2>3. ~Made(r, att[r] + 1)
      BY <2>1, <2>2
    <2>4. \A m \in Attempts : m <= att[r] => m <= att[r] + 1
      BY <2>1, ServiceAssumption DEF Attempts
    <2> QED
      BY <1>0, <1>8, <2>1, <2>2, <2>3, <2>4 DEF BeginTransaction, TypeOK
  <1>9. ASSUME NEW r \in Requests, NEW e, BeginFails(r, e) PROVE Progress(q)'
    BY <1>0, <1>9 DEF BeginFails, TypeOK
  <1>10. ASSUME NEW r \in Requests, RunClosure(r) PROVE Progress(q)'
    <2>1. Progress(r) /\ att[r] \in Attempts /\ att[r] <= att[r]
      BY <1>10, ServiceAssumption DEF IndInv, RunClosure, Attempts
    <2>2. att[r] \in Attempts /\ \E a \in Attempt : Put(r, att[r], a)
      BY <1>10, RunClosureEffect
    <2>3. /\ tx'[r][att[r]] # NoTx
          /\ \A p \in Requests, m \in Attempts :
                (p # r \/ m # att[r]) => tx'[p][m] = tx[p][m]
      BY <1>a, <2>2, PutEffect
    <2>4. CASE q = r
      <3>1. \A m \in Attempts : Made(q, m)' => m = att[r] \/ Made(q, m)
        BY <2>3, <2>4
      <3>2. Made(q, att[q])' /\ UNCHANGED <<call, att>> /\ pc'[q] = "commit"
        BY <1>0, <1>10, <2>3, <2>4 DEF RunClosure, TypeOK
      <3>3. call[q].op # "get" /\ pc[q] = "read"
        BY <1>10, <2>4 DEF RunClosure
      <3> HIDE DEF Made
      <3> QED
        BY <1>0, <2>1, <2>4, <3>1, <3>2, <3>3
    <2>5. CASE q # r
      <3>1. \A m \in Attempts : Made(q, m)' <=> Made(q, m)
        BY <2>3, <2>5
      <3> HIDE DEF Made
      <3> QED
        BY <1>0, <1>10, <2>5, <3>1 DEF RunClosure, TypeOK
    <2> QED
      BY <2>4, <2>5
  <1>11. ASSUME NEW r \in Requests, NEW e, ReadFails(r, e) PROVE Progress(q)'
    BY <1>0, <1>11 DEF ReadFails, RetryOrGiveUp, TypeOK
  <1>12. ASSUME NEW r \in Requests, Committed(r) PROVE Progress(q)'
    BY <1>0, <1>12 DEF Committed, TypeOK
  <1>13. ASSUME NEW r \in Requests, NEW e, CommitFails(r, e) PROVE Progress(q)'
    <2>1. Progress(r) /\ att[r] \in Attempts
      BY <1>13 DEF IndInv, CommitFails
    <2>2. PICK a \in Attempt : Put(r, att[r], a)
      BY <1>13, CommitFailsEffect
    <2>3. \A p \in Requests, m \in Attempts : Made(p, m)' <=> Made(p, m)
      BY <1>a, <1>13, <2>1, <2>2, PutEffect DEF CommitFails
    <2> HIDE DEF Made
    <2> QED
      BY <1>0, <1>13, <2>1, <2>3 DEF CommitFails, RetryOrGiveUp, TypeOK
  <1>14. ASSUME NEW r \in Requests, Deadline(r) PROVE Progress(q)'
    BY <1>0, <1>14 DEF Deadline, Running, TypeOK
  <1>15. CASE Crash
    BY <1>0, <1>15 DEF Crash, Running, TypeOK
  <1>16. ASSUME NEW r \in Requests, NEW k \in Attempts, ServerCommits(r, k) PROVE Progress(q)'
    <2>1. \A m \in Attempts : Made(q, m)' <=> Made(q, m)
      BY <1>16, ServerCommitsEffect
    <2>2. UNCHANGED <<pc, att, call>>
      BY <1>16 DEF ServerCommits
    <2> HIDE DEF Made
    <2> QED
      BY <1>0, <2>1, <2>2
  <1>17. ASSUME NEW r \in Requests, NEW k \in Attempts, ServerRefuses(r, k) PROVE Progress(q)'
    <2>1. PICK a \in Attempt : Put(r, k, a)
      BY <1>17, ServerRefusesEffect
    <2>2. Made(r, k)
      BY <1>17 DEF ServerRefuses
    <2>3. \A m \in Attempts : Made(q, m)' <=> Made(q, m)
      BY <1>a, <2>1, <2>2, PutEffect
    <2> HIDE DEF Made
    <2> QED
      BY <1>0, <1>17, <2>3 DEF ServerRefuses
  <1>18. ASSUME NEW r \in Requests, NEW k \in Attempts, ServerAborts(r, k) PROVE Progress(q)'
    <2>1. PICK a \in Attempt : Put(r, k, a)
      BY <1>18, ServerAbortsEffect
    <2>2. Made(r, k)
      BY <1>18 DEF ServerAborts
    <2>3. \A m \in Attempts : Made(q, m)' <=> Made(q, m)
      BY <1>a, <2>1, <2>2, PutEffect
    <2> HIDE DEF Made
    <2> QED
      BY <1>0, <1>18, <2>3 DEF ServerAborts
  <1>19. CASE UNCHANGED vars
    BY <1>0, <1>19 DEF vars, TypeOK
  <1> QED
    BY <1>1, <1>2, <1>3, <1>4, <1>5, <1>6, <1>7, <1>8, <1>9, <1>10,
       <1>11, <1>12, <1>13, <1>14, <1>15, <1>16, <1>17, <1>18, <1>19
    DEF Next, Handler, Server

(* Which steps change attempts at all.                                     *)
LEMMA TxStep ==
    ASSUME [Next]_vars
    PROVE  \/ tx' = tx
           \/ \E r \in Requests : RunClosure(r)
           \/ \E r \in Requests : \E e \in {"transient", "backend"} : CommitFails(r, e)
           \/ \E r \in Requests, k \in Attempts :
                 ServerCommits(r, k) \/ ServerRefuses(r, k) \/ ServerAborts(r, k)
  BY DEF Next, Handler, Server, vars, Crash, Invoke, InitClient, ClientBuilt,
         ClientFails, ClientReady, Get, GetFails, BeginTransaction, BeginFails,
         ReadFails, Committed, Deadline

(* An attempt comes in flight only when its closure has run, and takes     *)
(* effect only when the server commits it.                                 *)
Settles(q, j) ==
    /\ InFlight(q, j)' => InFlight(q, j) /\ tx'[q][j].out = tx[q][j].out
    /\ Took(q, j)' => Took(q, j) /\ tx'[q][j].out = tx[q][j].out

LEMMA AttemptStep ==
    ASSUME IndInv, [Next]_vars, NEW q \in Requests, NEW j \in Attempts
    PROVE  \/ Settles(q, j)
           \/ RunClosure(q) /\ j = att[q]
           \/ ServerCommits(q, j)
  <1> USE DEF Settles, InFlight, Took
  <1>0. TypeOK
    BY DEF IndInv
  <1>1. CASE tx' = tx
    BY <1>1 DEF Made
  <1>2. ASSUME NEW r \in Requests, RunClosure(r), ~(q = r /\ j = att[r])
        PROVE  Settles(q, j)
    <2>1. att[r] \in Attempts /\ \E a \in Attempt : Put(r, att[r], a)
      BY <1>2, RunClosureEffect
    <2>2. tx'[q][j] = tx[q][j]
      BY <1>0, <1>2, <2>1, PutEffect
    <2> QED
      BY <2>2 DEF Made
  <1>3. ASSUME NEW r \in Requests, NEW e, CommitFails(r, e)
        PROVE  Settles(q, j)
    <2>1. PICK a \in Attempt : Put(r, att[r], a) /\ a.out = Tx(r).out /\ a.st = Tx(r).st
      BY <1>3, CommitFailsEffect
    <2>2. att[r] \in Attempts /\ Made(r, att[r])
      BY <1>3, CommitFailsEffect
    <2>3. CASE q = r /\ j = att[r]
      <3>1. tx'[q][j] = a
        BY <1>0, <2>1, <2>2, <2>3, PutEffect
      <3> QED
        BY <2>1, <2>2, <2>3, <3>1 DEF Made, Tx, Changed
    <2>4. CASE ~(q = r /\ j = att[r])
      <3>1. tx'[q][j] = tx[q][j]
        BY <1>0, <2>1, <2>2, <2>4, PutEffect
      <3> QED
        BY <3>1 DEF Made
    <2> QED
      BY <2>3, <2>4
  <1>4. ASSUME NEW r \in Requests, NEW k \in Attempts, ServerCommits(r, k),
               ~(q = r /\ j = k)
        PROVE  Settles(q, j)
    <2>1. /\ Made(q, j)' <=> Made(q, j)
          /\ Made(q, j) => tx'[q][j].out = tx[q][j].out
          /\ Made(q, j) => tx'[q][j].st = tx[q][j].st \/ tx'[q][j].st = "stale"
      BY <1>4, ServerCommitsEffect
    <2> QED
      BY <2>1 DEF Changed
  <1>5. ASSUME NEW r \in Requests, NEW k \in Attempts,
               ServerRefuses(r, k) \/ ServerAborts(r, k)
        PROVE  Settles(q, j)
    <2>1. PICK a \in Attempt : Put(r, k, a) /\ a.st \in {"refused", "aborted"}
      BY <1>5, ServerRefusesEffect, ServerAbortsEffect
    <2>2. CASE q = r /\ j = k
      <3>1. tx'[q][j] = a
        BY <1>0, <2>1, <2>2, PutEffect
      <3> QED
        BY <2>1, <3>1
    <2>3. CASE ~(q = r /\ j = k)
      <3>1. tx'[q][j] = tx[q][j]
        BY <1>0, <2>1, <2>3, PutEffect
      <3> QED
        BY <3>1 DEF Made
    <2> QED
      BY <2>2, <2>3
  <1> QED
    BY <1>1, <1>2, <1>3, <1>4, <1>5, TxStep

(* A lost reply is never forgotten.                                        *)
LEMMA DoubtStays ==
    ASSUME IndInv, [Next]_vars, NEW q \in Requests, NEW j \in Attempts,
           Made(q, j), tx[q][j].lost
    PROVE  Made(q, j)' /\ tx'[q][j].lost
  <1>0. TypeOK
    BY DEF IndInv
  <1>1. CASE tx' = tx
    BY <1>1 DEF Made
  <1>2. ASSUME NEW r \in Requests, RunClosure(r)
        PROVE  tx'[q][j] = tx[q][j]
    <2>1. att[r] \in Attempts /\ \E a \in Attempt : Put(r, att[r], a)
      BY <1>2, RunClosureEffect
    <2>2. ~Made(r, att[r])
      BY <1>2 DEF RunClosure, IndInv, Progress
    <2> QED
      BY <1>0, <2>1, <2>2, PutEffect
  <1>3. ASSUME NEW r \in Requests, NEW e, CommitFails(r, e)
        PROVE  Made(q, j)' /\ tx'[q][j].lost
    <2>1. PICK a \in Attempt : Put(r, att[r], a) /\ (~a.lost => ~Tx(r).lost)
      BY <1>3, CommitFailsEffect
    <2>2. att[r] \in Attempts
      BY <1>3, CommitFailsEffect
    <2>3. tx'[q][j] = tx[q][j] \/ (q = r /\ j = att[r] /\ tx'[q][j] = a)
      BY <1>0, <2>1, <2>2, PutEffect
    <2> QED
      BY <2>1, <2>3, NoTxAssumption DEF Made, Tx
  <1>4. ASSUME NEW r \in Requests, NEW k \in Attempts, ServerCommits(r, k)
        PROVE  Made(q, j)' /\ tx'[q][j].lost
    BY <1>4, ServerCommitsEffect
  <1>5. ASSUME NEW r \in Requests, NEW k \in Attempts,
               ServerRefuses(r, k) \/ ServerAborts(r, k)
        PROVE  Made(q, j)' /\ tx'[q][j].lost
    <2>1. PICK a \in Attempt : Put(r, k, a) /\ a.lost = tx[r][k].lost
      BY <1>5, ServerRefusesEffect, ServerAbortsEffect
    <2>2. tx'[q][j] = tx[q][j] \/ (q = r /\ j = k /\ tx'[q][j] = a)
      BY <1>0, <2>1, PutEffect
    <2> QED
      BY <2>1, <2>2, NoTxAssumption DEF Made
  <1> QED
    BY <1>1, <1>2, <1>3, <1>4, <1>5, TxStep DEF Made

LEMMA DoubtGrows ==
    ASSUME IndInv, [Next]_vars, NEW q \in Requests, (q \notin Doubt)'
    PROVE  q \notin Doubt
  BY DoubtStays DEF Doubt

(* Once a request has the client, its arguments and its clock are fixed.   *)
LEMMA ArgumentsStay ==
    ASSUME IndInv, [Next]_vars, NEW q \in Requests, pc[q] \notin {"idle", "client"}
    PROVE  call'[q] = call[q] /\ now'[q] = now[q]
  BY DEF IndInv, TypeOK, Next, Handler, Server, vars, Crash, Invoke, InitClient,
         ClientBuilt, ClientFails, ClientReady, Get, GetFails, BeginTransaction,
         BeginFails, RunClosure, ReadFails, Committed, CommitFails, Deadline,
         ServerCommits, ServerRefuses, ServerAborts

LEMMA CurrentStep ==
    ASSUME IndInv, [Next]_vars, NEW q \in Requests, NEW j \in Attempts
    PROVE  Current(q, j)'
  <1> SUFFICES ASSUME InFlight(q, j)'
               PROVE  /\ tx'[q][j].out = Outcome(call'[q], now'[q], docs'[call'[q].user])
                      /\ Writes(call'[q], now'[q], docs'[call'[q].user])
    BY DEF Current, Doc
  <1>1. CASE Settles(q, j)
    <2>1. InFlight(q, j) /\ tx'[q][j].out = tx[q][j].out
      BY <1>1 DEF Settles
    <2>2. call'[q] = call[q] /\ now'[q] = now[q]
      BY <2>1, MadeAttempt, ArgumentsStay DEF InFlight
    <2>3. /\ tx[q][j].out = Outcome(call[q], now[q], Doc(q))
          /\ Writes(call[q], now[q], Doc(q))
      BY <2>1 DEF IndInv, Current
    <2>4. docs'[call[q].user] = Doc(q)
      <3>1. CASE docs' = docs
        BY <3>1 DEF Doc
      <3>2. ASSUME NEW r \in Requests, NEW k \in Attempts, ServerCommits(r, k)
            PROVE  docs'[call[q].user] = Doc(q)
        <4>1. call[q].user # call[r].user
          BY <3>2, ServerCommitsEffect
        <4> QED
          BY <3>2, <4>1 DEF ServerCommits, Doc, IndInv, TypeOK
      <3> QED
        BY <3>1, <3>2, OnlyCommitsChangeDocs
    <2> QED
      BY <2>1, <2>2, <2>3, <2>4
  <1>2. CASE RunClosure(q) /\ j = att[q]
    <2>1. PICK a \in Attempt :
              /\ Put(q, j, a)
              /\ a.out = Outcome(call[q], now[q], Doc(q))
              /\ a.st = (IF Writes(call[q], now[q], Doc(q)) THEN "sent" ELSE "applied")
      BY <1>2, RunClosureEffect
    <2>2. tx'[q][j] = a
      BY <2>1, PutEffect DEF IndInv
    <2>3. Writes(call[q], now[q], Doc(q))
      BY <2>1, <2>2 DEF InFlight
    <2>4. UNCHANGED <<docs, call, now>>
      BY <1>2 DEF RunClosure
    <2> QED
      BY <2>1, <2>2, <2>3, <2>4 DEF Doc
  <1>3. CASE ServerCommits(q, j)
    BY <1>3, ServerCommitsEffect DEF InFlight
  <1> QED
    BY <1>1, <1>2, <1>3, AttemptStep

(* A failed commit whose reply was not lost has not changed the document.  *)
LEMMA FailedCommitIsOver ==
    ASSUME IndInv, [Next]_vars, NEW q \in Requests, NEW e, CommitFails(q, e),
           (q \notin Doubt)', NEW j \in Attempts, j = att[q]
    PROVE  ~InFlight(q, j)' /\ ~Took(q, j)'
  <1>1. PICK a \in Attempt :
            /\ Put(q, j, a) /\ a.out = Tx(q).out /\ a.st = Tx(q).st
            /\ ~a.lost => (Tx(q).st = "aborted" \/ Tx(q).out.new = Tx(q).out.old)
    BY CommitFailsEffect
  <1>2. tx'[q][j] = a /\ Made(q, j)'
    BY <1>1, PutEffect DEF IndInv
  <1>3. ~a.lost
    BY <1>2 DEF Doubt
  <1>4. Tx(q).st = "sent" => Tx(q).out.new # Tx(q).out.old
    <2> SUFFICES ASSUME Tx(q).st = "sent" PROVE Tx(q).out.new # Tx(q).out.old
      OBVIOUS
    <2>1. Made(q, j)
      BY CommitFailsEffect
    <2>2. /\ Tx(q).out = Outcome(call[q], now[q], Doc(q))
          /\ Writes(call[q], now[q], Doc(q))
      BY <2>1 DEF IndInv, Current, InFlight, Tx
    <2>3. WellFormed(call[q]) /\ Doc(q) \in StoredDoc /\ now[q] \in Times
      BY <2>1, MadeAttempt, Running0 DEF IndInv, TypeOK
    <2>4. NewDoc(call[q], now[q], Doc(q)) # Doc(q)
      BY <2>2, <2>3, WriteEffect
    <2> QED
      BY <2>2, <2>4 DEF Outcome
  <1> QED
    BY <1>1, <1>2, <1>3, <1>4 DEF InFlight, Took, Changed

LEMMA GivenUpStep ==
    ASSUME IndInv, [Next]_vars, NEW q \in Requests, NEW j \in Attempts, GivenUp(q, j)'
    PROVE  \/ GivenUp(q, j) /\ ~(RunClosure(q) /\ j = att[q])
           \/ j = att[q] /\ \E e \in {"transient", "backend"} : CommitFails(q, e)
           \/ j = att[q] /\ \E e \in {"transient", "backend"} : ReadFails(q, e)
  <1>0. TypeOK /\ att[q] \in 0 .. MaxAttempts /\ MaxAttempts \in Nat
    BY ServiceAssumption DEF IndInv, TypeOK
  <1>1. CASE BeginTransaction(q)
    BY <1>0, <1>1 DEF BeginTransaction, RunClosure, GivenUp, Goto, TypeOK, Attempts
  <1>2. CASE att'[q] = att[q] /\ (pc'[q] = pc[q] \/ pc'[q] # "begin")
    <2>1. GivenUp(q, j)
      BY <1>0, <1>2 DEF GivenUp
    <2>2. RunClosure(q) /\ j = att[q] => ~GivenUp(q, j)
      BY <1>0 DEF RunClosure, GivenUp
    <2> QED
      BY <2>1, <2>2
  <1>3. ASSUME NEW e \in {"transient", "backend"}, CommitFails(q, e), att'[q] = att[q],
               j # att[q]
        PROVE  GivenUp(q, j) /\ ~(RunClosure(q) /\ j = att[q])
    BY <1>0, <1>3 DEF GivenUp
  <1>4. ASSUME NEW e \in {"transient", "backend"}, ReadFails(q, e), att'[q] = att[q],
               j # att[q]
        PROVE  GivenUp(q, j) /\ ~(RunClosure(q) /\ j = att[q])
    BY <1>0, <1>4 DEF GivenUp
  <1>5. CASE ClientReady(q)
    <2>1. att[q] = 0 /\ att' = att
      BY <1>5 DEF ClientReady, IndInv, Progress
    <2> QED
      BY <2>1 DEF GivenUp, Attempts
  <1>6. ASSUME ~BeginTransaction(q), ~ClientReady(q),
               \A e \in {"transient", "backend"} : ~CommitFails(q, e) /\ ~ReadFails(q, e)
        PROVE  att'[q] = att[q] /\ (pc'[q] = pc[q] \/ pc'[q] # "begin")
    <2> USE DEF TypeOK, Goto, Finish
    <2>1. ASSUME NEW r \in Requests, Handler(r), r # q
          PROVE  att'[q] = att[q] /\ pc'[q] = pc[q]
      BY <1>0, <2>1
      DEF Handler, Invoke, InitClient, ClientBuilt, ClientFails, ClientReady, Get,
          GetFails, BeginTransaction, BeginFails, RunClosure, ReadFails, Committed,
          CommitFails, RetryOrGiveUp, Deadline
    <2>2. CASE Handler(q)
      BY <1>0, <1>6, <2>2
      DEF Handler, Invoke, InitClient, ClientBuilt, ClientFails, Get,
          GetFails, BeginFails, RunClosure, Committed, Deadline
    <2>3. CASE Server
      BY <2>3 DEF Server, ServerCommits, ServerRefuses, ServerAborts
    <2>4. CASE Crash
      BY <1>0, <2>4 DEF Crash
    <2> QED
      BY <2>1, <2>2, <2>3, <2>4 DEF Next, vars
  <1> QED
    BY <1>1, <1>2, <1>3, <1>4, <1>5, <1>6 DEF CommitFails, ReadFails

LEMMA LeftBehindStep ==
    ASSUME IndInv, [Next]_vars, NEW q \in Requests
    PROVE  NothingLeftBehind(q)'
  <1> SUFFICES ASSUME (q \notin Doubt)', NEW j \in Attempts, GivenUp(q, j)'
               PROVE  ~InFlight(q, j)' /\ ~Took(q, j)'
    BY DEF NothingLeftBehind
  <1>0. q \notin Doubt
    BY DoubtGrows
  <1>1. CASE GivenUp(q, j) /\ ~(RunClosure(q) /\ j = att[q])
    <2>1. ~InFlight(q, j) /\ ~Took(q, j)
      BY <1>0, <1>1 DEF IndInv, NothingLeftBehind
    <2>2. ~ServerCommits(q, j)
      BY <2>1 DEF ServerCommits, InFlight, Made
    <2> QED
      BY <1>1, <2>1, <2>2, AttemptStep DEF Settles
  <1>2. ASSUME NEW e, CommitFails(q, e), j = att[q]
        PROVE  ~InFlight(q, j)' /\ ~Took(q, j)'
    BY <1>2, FailedCommitIsOver
  <1>3. ASSUME NEW e, ReadFails(q, e), j = att[q]
        PROVE  ~InFlight(q, j)' /\ ~Took(q, j)'
    BY <1>3 DEF ReadFails, IndInv, Progress, Made, InFlight, Took
  <1> QED
    BY <1>1, <1>2, <1>3, GivenUpStep

(* Which steps end a request.                                              *)
LEMMA FinishStep ==
    ASSUME IndInv, [Next]_vars, NEW q \in Requests, pc'[q] = "done"
    PROVE  \/ pc[q] = "done" /\ result'[q] = result[q] /\ ~RunClosure(q)
           \/ \E e : ClientFails(q, e) \/ GetFails(q, e) \/ BeginFails(q, e)
                      \/ ReadFails(q, e) \/ CommitFails(q, e)
           \/ Get(q) \/ Committed(q) \/ Deadline(q)
  <1> USE DEF TypeOK, Goto, Finish
  <1>0. TypeOK
    BY DEF IndInv
  <1>1. ASSUME NEW r \in Requests, Handler(r), r # q
        PROVE  pc[q] = "done" /\ result'[q] = result[q]
    BY <1>0, <1>1
    DEF Handler, Invoke, InitClient, ClientBuilt, ClientFails, ClientReady, Get,
        GetFails, BeginTransaction, BeginFails, RunClosure, ReadFails, Committed,
        CommitFails, RetryOrGiveUp, Deadline
  <1>2. ASSUME Invoke(q) \/ InitClient(q) \/ ClientBuilt(q) \/ ClientReady(q)
                 \/ BeginTransaction(q) \/ RunClosure(q)
        PROVE  FALSE
    BY <1>0, <1>2 DEF Invoke, InitClient, ClientBuilt, ClientReady,
        BeginTransaction, RunClosure
  <1>3. CASE Server
    BY <1>3 DEF Server, ServerCommits, ServerRefuses, ServerAborts, RunClosure
  <1>4. CASE Crash
    BY <1>0, <1>4 DEF Crash, RunClosure
  <1>5. CASE UNCHANGED vars
    BY <1>5 DEF vars, RunClosure
  <1>6. ASSUME pc[q] = "done"
        PROVE  ~RunClosure(q)
    BY <1>6 DEF RunClosure
  <1> QED
    BY <1>1, <1>2, <1>3, <1>4, <1>5, <1>6 DEF Next, Handler

LEMMA FinalStep ==
    ASSUME IndInv, [Next]_vars, NEW q \in Requests
    PROVE  Final(q)'
  <1> SUFFICES ASSUME pc'[q] = "done", (q \notin Doubt)',
                      result'[q] # Err("unavailable"), NEW j \in Attempts
               PROVE  /\ ~InFlight(q, j)'
                      /\ Took(q, j)' => result'[q] = tx'[q][j].out.ans
    BY DEF Final
  <1> DEFINE Goal == /\ ~InFlight(q, j)'
                     /\ Took(q, j)' => result'[q] = tx'[q][j].out.ans
  <1>0. q \notin Doubt /\ TypeOK
    BY DoubtGrows DEF IndInv
  <1>1. ASSUME GivenUp(q, j), ~RunClosure(q)
        PROVE  Goal
    <2>1. ~InFlight(q, j) /\ ~Took(q, j)
      BY <1>0, <1>1 DEF IndInv, NothingLeftBehind
    <2>2. ~ServerCommits(q, j)
      BY <2>1 DEF ServerCommits, InFlight, Made
    <2> QED
      BY <1>1, <2>1, <2>2, AttemptStep DEF Settles
  <1>2. ASSUME ~Made(q, j), tx' = tx
        PROVE  Goal
    BY <1>2 DEF InFlight, Took, Made
  <1>3. ASSUME j > att[q]
        PROVE  ~Made(q, j)
    <2>1. att[q] \in 0 .. MaxAttempts /\ j \in 1 .. MaxAttempts /\ MaxAttempts \in Nat
      BY <1>0, ServiceAssumption DEF TypeOK, Attempts
    <2> QED
      BY <1>3, <2>1, MadeAttempt
  <1>4. j < att[q] \/ j = att[q] \/ j > att[q]
    BY <1>0, ServiceAssumption DEF TypeOK, Attempts
  <1>5. CASE pc[q] = "done" /\ result'[q] = result[q] /\ ~RunClosure(q)
    <2>1. ~InFlight(q, j) /\ (Took(q, j) => result[q] = tx[q][j].out.ans)
      BY <1>0, <1>5 DEF IndInv, Final
    <2>2. ~ServerCommits(q, j)
      BY <2>1 DEF ServerCommits, InFlight, Made
    <2> QED
      BY <1>5, <2>1, <2>2, AttemptStep DEF Settles
  <1>6. ASSUME NEW e, ClientFails(q, e) \/ GetFails(q, e) \/ Get(q)
        PROVE  Goal
    <2>1. att[q] = 0 /\ tx' = tx
      BY <1>6 DEF ClientFails, GetFails, Get, IndInv, Progress
    <2>2. j > att[q]
      BY <2>1, ServiceAssumption DEF Attempts
    <2> QED
      BY <1>2, <1>3, <2>1, <2>2
  <1>7. ASSUME NEW e, BeginFails(q, e)
        PROVE  Goal
    BY <1>1, <1>2, <1>3, <1>4, <1>7 DEF BeginFails, GivenUp, RunClosure
  <1>8. ASSUME NEW e, ReadFails(q, e)
        PROVE  FALSE
    BY <1>0, <1>8 DEF ReadFails, RetryOrGiveUp, Finish, Goto, TypeOK
  <1>9. ASSUME Deadline(q)
        PROVE  FALSE
    BY <1>0, <1>9 DEF Deadline, Finish, TypeOK
  <1>10. CASE Committed(q)
    <2>1. CASE j = att[q]
      BY <1>0, <1>10, <2>1
      DEF Committed, Finish, Tx, TypeOK, InFlight, Took, Made
    <2> QED
      BY <1>1, <1>2, <1>3, <1>4, <1>10, <2>1 DEF Committed, GivenUp, RunClosure
  <1>11. ASSUME NEW e, CommitFails(q, e)
         PROVE  Goal
    <2>1. CASE j = att[q]
      BY <1>11, <2>1, FailedCommitIsOver
    <2>2. CASE j < att[q]
      BY <1>1, <1>11, <2>2 DEF CommitFails, GivenUp, RunClosure
    <2>3. CASE j > att[q]
      <3>1. ~Made(q, j)
        BY <1>3, <2>3
      <3>2. PICK a \in Attempt : Put(q, att[q], a)
        BY <1>11, CommitFailsEffect
      <3>3. att[q] \in Attempts /\ j # att[q]
        BY <1>11, <3>1, CommitFailsEffect
      <3>4. tx'[q][j] = tx[q][j]
        BY <1>0, <3>2, <3>3, PutEffect
      <3> QED
        BY <3>1, <3>4 DEF InFlight, Took, Made
    <2> QED
      BY <1>4, <2>1, <2>2, <2>3
  <1> QED
    BY <1>5, <1>6, <1>7, <1>8, <1>9, <1>10, <1>11, FinishStep

---------------------------------------------------------------------------
(* What the answers tell: every attempt that was not refused is a whole    *)
(* execution of the call on the document it read, a refused one answers no *)
(* success, and a success is the answer of an attempt that was applied.    *)
Decided(r, k) ==
    Made(r, k) =>
        IF tx[r][k].st = "refused"
        THEN ~Changed(tx[r][k].out) /\ tx[r][k].out.ans.status # "ok"
        ELSE tx[r][k].out = Outcome(call[r], now[r], tx[r][k].out.old)
Reported(r) ==
    pc[r] = "done" /\ call[r].op # "get" /\ result[r].status = "ok" =>
        \E k \in Attempts :
            Made(r, k) /\ tx[r][k].st = "applied" /\ result[r] = tx[r][k].out.ans
Told(r) == Reported(r) /\ \A k \in Attempts : Decided(r, k)

(* No error of the database is answered as a success.                      *)
LEMMA ErrorsAreNotOk ==
    /\ \A op, e : MapError(op, e).status # "ok"
    /\ Err("unavailable").status # "ok"
  BY DEF MapError, Err

LEMMA RefusedIsNotOk ==
    ASSUME IndInv, NEW r \in Requests, NEW k \in Attempts, ServerRefuses(r, k)
    PROVE  ~Changed(tx'[r][k].out) /\ tx'[r][k].out.ans.status # "ok"
  <1>1. PICK e \in PreconditionError(r) :
            tx' = [tx EXCEPT ![r][k].st = "refused",
                             ![r][k].out = [old |-> Doc(r), new |-> Doc(r),
                                            ans |-> MapError(call[r].op, e)]]
    BY DEF ServerRefuses
  <1>2. tx[r][k] \in Attempt
    BY MadeAttempt DEF ServerRefuses, Made
  <1> DEFINE out == [old |-> Doc(r), new |-> Doc(r), ans |-> MapError(call[r].op, e)]
  <1>3. tx'[r][k].out = out
    <2> HIDE DEF out
    <2> QED
      BY <1>1, <1>2 DEF IndInv, TypeOK, Attempt, out
  <1> QED
    BY <1>3, ErrorsAreNotOk DEF Changed

(* An attempt keeps what it decided, until the server refuses it.          *)
LEMMA OutcomeStep ==
    ASSUME IndInv, [Next]_vars, NEW q \in Requests, NEW j \in Attempts, Made(q, j)'
    PROVE  \/ RunClosure(q) /\ j = att[q]
           \/ ServerRefuses(q, j) /\ tx'[q][j].st = "refused"
           \/ /\ Made(q, j) /\ tx'[q][j].out = tx[q][j].out
              /\ tx'[q][j].st = "refused" <=> tx[q][j].st = "refused"
              /\ tx[q][j].st = "applied" => tx'[q][j].st = "applied"
  <1>0. TypeOK
    BY DEF IndInv
  <1>1. CASE tx' = tx
    BY <1>1 DEF Made
  <1>2. ASSUME NEW r \in Requests, RunClosure(r), ~(q = r /\ j = att[r])
        PROVE  tx'[q][j] = tx[q][j]
    <2>1. att[r] \in Attempts /\ \E a \in Attempt : Put(r, att[r], a)
      BY <1>2, RunClosureEffect
    <2> QED
      BY <1>0, <1>2, <2>1, PutEffect
  <1>3. ASSUME NEW r \in Requests, NEW e, CommitFails(r, e)
        PROVE  Made(q, j) /\ tx'[q][j].out = tx[q][j].out /\ tx'[q][j].st = tx[q][j].st
    <2>1. PICK a \in Attempt : Put(r, att[r], a) /\ a.out = Tx(r).out /\ a.st = Tx(r).st
      BY <1>3, CommitFailsEffect
    <2>2. att[r] \in Attempts /\ Made(r, att[r])
      BY <1>3, CommitFailsEffect
    <2>3. tx'[q][j] = tx[q][j] \/ (q = r /\ j = att[r] /\ tx'[q][j] = a)
      BY <1>0, <2>1, <2>2, PutEffect
    <2> QED
      BY <2>1, <2>2, <2>3 DEF Made, Tx
  <1>4. ASSUME NEW r \in Requests, NEW k \in Attempts, ServerCommits(r, k)
        PROVE  /\ Made(q, j) /\ tx'[q][j].out = tx[q][j].out
               /\ tx'[q][j].st = "refused" <=> tx[q][j].st = "refused"
               /\ tx[q][j].st = "applied" => tx'[q][j].st = "applied"
    <2>1. CASE q = r /\ j = k
      <3>1. Made(r, k) /\ tx[r][k].st = "sent"
        BY <1>4 DEF ServerCommits, Made
      <3>2. tx'[r][k].st = "applied" /\ tx'[r][k].out = tx[r][k].out
        BY <1>4, <3>1, ServerCommitsEffect
      <3> QED
        BY <2>1, <3>1, <3>2
    <2>2. CASE ~(q = r /\ j = k)
      BY <1>4, <2>2, ServerCommitsEffect
    <2> QED
      BY <2>1, <2>2
  <1>5. ASSUME NEW r \in Requests, NEW k \in Attempts,
               ServerRefuses(r, k) \/ ServerAborts(r, k)
        PROVE  \/ tx'[q][j] = tx[q][j]
               \/ ServerRefuses(q, j) /\ tx'[q][j].st = "refused"
               \/ /\ Made(q, j) /\ tx'[q][j].out = tx[q][j].out
                  /\ tx'[q][j].st = "aborted" /\ tx[q][j].st \in {"sent", "stale"}
    <2>1. PICK a \in Attempt :
              /\ Put(r, k, a)
              /\ \/ ServerRefuses(r, k) /\ a.st = "refused"
                 \/ ServerAborts(r, k) /\ a.st = "aborted" /\ a.out = tx[r][k].out
      BY <1>5, ServerRefusesEffect, ServerAbortsEffect
    <2>2. tx'[q][j] = tx[q][j] \/ (q = r /\ j = k /\ tx'[q][j] = a)
      BY <1>0, <2>1, PutEffect
    <2> QED
      BY <2>1, <2>2 DEF ServerAborts, Made
  <1> QED
    BY <1>1, <1>2, <1>3, <1>4, <1>5, TxStep DEF Made

LEMMA DecidedStep ==
    ASSUME IndInv, [Next]_vars, NEW q \in Requests, NEW j \in Attempts, Decided(q, j)
    PROVE  Decided(q, j)'
  <1> SUFFICES ASSUME Made(q, j)'
               PROVE  Decided(q, j)'
    BY DEF Decided
  <1>1. CASE RunClosure(q) /\ j = att[q]
    <2>1. /\ tx'[q][j].out = Outcome(call[q], now[q], Doc(q))
          /\ tx'[q][j].st # "refused"
      <3>1. PICK a \in Attempt :
                /\ Put(q, j, a)
                /\ a.out = Outcome(call[q], now[q], Doc(q))
                /\ a.st \in {"sent", "applied"}
        BY <1>1, RunClosureEffect
      <3>2. tx'[q][j] = a
        BY <3>1, PutEffect DEF IndInv
      <3> QED
        BY <3>1, <3>2
    <2>2. call' = call /\ now' = now
      BY <1>1 DEF RunClosure
    <2>3. Outcome(call[q], now[q], Doc(q)).old = Doc(q)
      BY DEF Outcome
    <2> QED
      BY <2>1, <2>2, <2>3 DEF Decided
  <1>2. CASE ServerRefuses(q, j) /\ tx'[q][j].st = "refused"
    BY <1>2, RefusedIsNotOk DEF Decided, Changed
  <1>3. CASE /\ Made(q, j) /\ tx'[q][j].out = tx[q][j].out
             /\ tx'[q][j].st = "refused" <=> tx[q][j].st = "refused"
    <2>1. call'[q] = call[q] /\ now'[q] = now[q]
      BY <1>3, MadeAttempt, ArgumentsStay
    <2> QED
      BY <1>3, <2>1 DEF Decided, Changed
  <1> QED
    BY <1>1, <1>2, <1>3, OutcomeStep

(* The attempt behind a success stays applied, with its outcome.           *)
LEMMA AppliedStays ==
    ASSUME IndInv, [Next]_vars, NEW q \in Requests, NEW j \in Attempts,
           Made(q, j), tx[q][j].st = "applied"
    PROVE  Made(q, j)' /\ tx'[q][j].st = "applied" /\ tx'[q][j].out = tx[q][j].out
  <1>1. ~(RunClosure(q) /\ j = att[q]) /\ ~ServerRefuses(q, j)
    BY DEF RunClosure, ServerRefuses, IndInv, Progress
  <1>2. Made(q, j)'
    <2>1. TypeOK
      BY DEF IndInv
    <2>2. CASE tx' = tx
      BY <2>2 DEF Made
    <2>3. ASSUME NEW r \in Requests, NEW k \in Attempts, ServerCommits(r, k)
          PROVE  Made(q, j)'
      BY <2>3, ServerCommitsEffect
    <2>4. ASSUME NEW r \in Requests, NEW k \in Attempts, NEW a \in Attempt, Put(r, k, a)
          PROVE  Made(q, j)'
      <3>1. tx'[q][j] = tx[q][j] \/ tx'[q][j] = a
        BY <2>1, <2>4, PutEffect
      <3> QED
        BY <3>1, NoTxAssumption DEF Made
    <2>5. \A r \in Requests, k \in Attempts :
              ServerRefuses(r, k) \/ ServerAborts(r, k) => \E a \in Attempt : Put(r, k, a)
      BY ServerRefusesEffect, ServerAbortsEffect
    <2>6. \A r \in Requests : RunClosure(r) \/ (\E e : CommitFails(r, e)) =>
              \E k \in Attempts : \E a \in Attempt : Put(r, k, a)
      BY RunClosureEffect, CommitFailsEffect
    <2> QED
      BY <2>2, <2>3, <2>4, <2>5, <2>6, TxStep
  <1> QED
    BY <1>1, <1>2, OutcomeStep

LEMMA ReportedStep ==
    ASSUME IndInv, [Next]_vars, NEW q \in Requests, Told(q)
    PROVE  Reported(q)'
  <1> SUFFICES ASSUME pc'[q] = "done", call'[q].op # "get", result'[q].status = "ok"
               PROVE  \E k \in Attempts :
                          /\ Made(q, k)' /\ tx'[q][k].st = "applied"
                          /\ result'[q] = tx'[q][k].out.ans
    BY DEF Reported
  <1>0. TypeOK
    BY DEF IndInv
  <1>1. CASE pc[q] = "done" /\ result'[q] = result[q]
    <2>1. call'[q] = call[q]
      BY <1>1, ArgumentsStay
    <2>2. PICK k \in Attempts :
              Made(q, k) /\ tx[q][k].st = "applied" /\ result[q] = tx[q][k].out.ans
      BY <1>1, <2>1 DEF Told, Reported
    <2> QED
      BY <1>1, <2>2, AppliedStays
  <1>2. ASSUME NEW e, \/ ClientFails(q, e) \/ GetFails(q, e) \/ BeginFails(q, e)
                      \/ ReadFails(q, e) \/ CommitFails(q, e)
        PROVE  FALSE
    <2>1. \/ result' = [result EXCEPT ![q] = Err("unavailable")]
          \/ \E op : result' = [result EXCEPT ![q] = MapError(op, e)]
          \/ pc' = [pc EXCEPT ![q] = "begin"]
      BY <1>2 DEF ClientFails, GetFails, BeginFails, ReadFails, CommitFails,
                  RetryOrGiveUp, Finish, Goto
    <2> QED
      BY <1>0, <2>1, ErrorsAreNotOk DEF TypeOK
  <1>3. ASSUME Get(q)
        PROVE  FALSE
    BY <1>3 DEF Get
  <1>4. ASSUME Deadline(q)
        PROVE  FALSE
    BY <1>0, <1>4, ErrorsAreNotOk DEF Deadline, Finish, TypeOK
  <1>5. CASE Committed(q)
    <2>1. /\ att[q] \in Attempts /\ Made(q, att[q])
          /\ Tx(q).st \in {"applied", "refused"}
      BY <1>5 DEF Committed, IndInv, Progress
    <2>2. result'[q] = Tx(q).out.ans /\ tx' = tx
      BY <1>0, <1>5 DEF Committed, Finish, TypeOK
    <2>3. Tx(q).st # "refused"
      BY <2>1, <2>2 DEF Told, Decided, Tx
    <2> QED
      BY <2>1, <2>2, <2>3 DEF Tx, Made
  <1> QED
    BY <1>1, <1>2, <1>3, <1>4, <1>5, FinishStep

LEMMA ToldStep ==
    ASSUME IndInv, [Next]_vars, NEW q \in Requests, Told(q)
    PROVE  Told(q)'
  <1>1. \A j \in Attempts : Decided(q, j)'
    BY DecidedStep DEF Told
  <1> QED
    BY <1>1, ReportedStep DEF Told

(* What an attempt that was applied has decided: the document it answers   *)
(* with is the one it leaves.                                              *)
LEMMA AppliedOutcome ==
    ASSUME IndInv, NEW r \in Requests, NEW k \in Attempts, Made(r, k),
           tx[r][k].st = "applied", Decided(r, k)
    PROVE  /\ Changed(tx[r][k].out) => tx[r][k].out.ans = Ok(tx[r][k].out.new)
           /\ tx[r][k].out.ans.status = "ok" /\ call[r].op # "get" =>
                  /\ tx[r][k].out.ans = Ok(tx[r][k].out.new)
                  /\ \/ Changed(tx[r][k].out)
                     \/ call[r].op = "update" /\ ~Changes(call[r], tx[r][k].out.old)
  <1> DEFINE old == tx[r][k].out.old
  <1>1. tx[r][k].out = Outcome(call[r], now[r], old) /\ old \in StoredDoc
    BY MadeAttempt DEF Decided, OutcomeType
  <1>2. now[r] \in Times /\ WellFormed(call[r])
    BY MadeAttempt, Running0 DEF IndInv, TypeOK
  <1> HIDE DEF old
  <1>3. CASE Writes(call[r], now[r], old)
    <2>1. NewDoc(call[r], now[r], old) # old
      BY <1>1, <1>2, <1>3, WriteEffect
    <2> QED
      BY <1>1, <1>3, <2>1 DEF Outcome, Changed
  <1>4. CASE ~Writes(call[r], now[r], old)
    <2>1. /\ tx[r][k].out.new = old /\ tx[r][k].out.old = old
          /\ tx[r][k].out.ans = Settled(call[r], old)
      BY <1>1, <1>4 DEF Outcome
    <2>2. Settled(call[r], old).status = "ok" /\ call[r].op # "get" =>
              /\ Settled(call[r], old) = Ok(old)
              /\ call[r].op = "update" /\ ~Changes(call[r], old)
      BY DEF Settled, Err, Ok
    <2> QED
      BY <2>1, <2>2 DEF Changed
  <1> QED
    BY <1>3, <1>4

---------------------------------------------------------------------------
(* The client: only the request that builds it holds its cell.             *)

(* InitializerAlive over a step: a request leaves "client" with the cell   *)
(* released, whether it built the client, failed, or was dropped.          *)
LEMMA InitializerStep ==
    ASSUME TypeOK, InitializerAlive, [Next]_vars, {"empty", "ready"} \cap Requests = {}
    PROVE  InitializerAlive'
  <1> USE DEF TypeOK, InitializerAlive, Goto, Finish
  <1>1. ASSUME NEW r \in Requests, Handler(r)
        PROVE  InitializerAlive'
    <2>1. CASE \/ Invoke(r) \/ Get(r) \/ BeginTransaction(r) \/ RunClosure(r)
               \/ Committed(r)
      BY <2>1 DEF Invoke, Get, BeginTransaction, RunClosure, Committed
    <2>2. CASE InitClient(r) \/ ClientBuilt(r) \/ ClientReady(r)
      BY <2>2 DEF InitClient, ClientBuilt, ClientReady
    <2>3. CASE Deadline(r)
      BY <2>3 DEF Deadline
    <2>4. ASSUME NEW e, ClientFails(r, e)
          PROVE  InitializerAlive'
      BY <2>4 DEF ClientFails
    <2>5. ASSUME NEW e, \/ ReadFails(r, e) \/ CommitFails(r, e)
                        \/ BeginFails(r, e) \/ GetFails(r, e)
          PROVE  InitializerAlive'
      BY <2>5 DEF ReadFails, CommitFails, BeginFails, GetFails, RetryOrGiveUp
    <2> QED
      BY <1>1, <2>1, <2>2, <2>3, <2>4, <2>5 DEF Handler
  <1>2. CASE Server
    BY <1>2 DEF Server, ServerCommits, ServerRefuses, ServerAborts
  <1>3. CASE Crash
    BY <1>3 DEF Crash
  <1>4. CASE UNCHANGED vars
    BY <1>4 DEF vars
  <1> QED
    BY <1>1, <1>2, <1>3, <1>4 DEF Next

---------------------------------------------------------------------------
(* What the refinement needs besides the inductive invariant: a request    *)
(* has an answer only when it is done; a refused attempt changes nothing;  *)
(* and an attempt that another commit made stale, which the server may     *)
(* still refuse, is given up, or outlived by an answer, only if a reply    *)
(* was lost or the answer promises nothing.                                *)
Refused(r, k) == Made(r, k) /\ tx[r][k].st = "refused"
Stale(r, k) == Made(r, k) /\ tx[r][k].st = "stale"
Hanging(r, k) == InFlight(r, k) \/ Stale(r, k)

Traced(r) ==
    /\ pc[r] = "idle" => call[r] = NoCall
    /\ pc[r] # "done" => result[r] = Pending
    /\ \A k \in Attempts :
           /\ Refused(r, k) => ~Changed(tx[r][k].out)
           /\ Stale(r, k) => Changed(tx[r][k].out)
           /\ Stale(r, k) /\ r \notin Doubt =>
                  /\ ~GivenUp(r, k)
                  /\ pc[r] = "done" => result[r] = Err("unavailable")

(* An attempt in flight is a write, and a write changes the document.      *)
LEMMA InFlightChanges ==
    ASSUME IndInv, NEW q \in Requests, NEW j \in Attempts, InFlight(q, j)
    PROVE  Changed(tx[q][j].out)
  <1>1. /\ tx[q][j].out = Outcome(call[q], now[q], Doc(q))
        /\ Writes(call[q], now[q], Doc(q))
    BY DEF IndInv, Current
  <1>2. WellFormed(call[q]) /\ Doc(q) \in StoredDoc /\ now[q] \in Times
    BY MadeAttempt, Running0 DEF InFlight, IndInv, TypeOK
  <1>3. NewDoc(call[q], now[q], Doc(q)) # Doc(q)
    BY <1>1, <1>2, WriteEffect
  <1> QED
    BY <1>1, <1>3 DEF Outcome, Changed

(* What one step makes of an attempt that is, or becomes, hanging or       *)
(* refused.                                                                *)
Kept(q, j) == /\ Made(q, j) /\ Made(q, j)'
              /\ tx'[q][j].st = tx[q][j].st /\ tx'[q][j].out = tx[q][j].out

LEMMA StateStep ==
    ASSUME IndInv, [Next]_vars, NEW q \in Requests, NEW j \in Attempts, Made(q, j)'
    PROVE  \/ Kept(q, j)
           \/ InFlight(q, j) /\ tx'[q][j].st = "stale" /\ tx'[q][j].out = tx[q][j].out
           \/ tx'[q][j].st \notin {"stale", "refused"}
           \/ tx'[q][j].st = "refused" /\ ~Changed(tx'[q][j].out)
  <1> USE DEF Kept
  <1>0. TypeOK
    BY DEF IndInv
  <1>1. CASE tx' = tx
    BY <1>1 DEF Made
  <1>2. ASSUME NEW r \in Requests, RunClosure(r)
        PROVE  Kept(q, j) \/ tx'[q][j].st \notin {"stale", "refused"}
    <2>1. PICK a \in Attempt : Put(r, att[r], a) /\ a.st \in {"sent", "applied"}
      BY <1>2, RunClosureEffect
    <2>2. att[r] \in Attempts
      BY <1>2, RunClosureEffect
    <2>3. tx'[q][j] = tx[q][j] \/ tx'[q][j] = a
      BY <1>0, <2>1, <2>2, PutEffect
    <2> QED
      BY <2>1, <2>3 DEF Made
  <1>3. ASSUME NEW r \in Requests, NEW e, CommitFails(r, e)
        PROVE  Kept(q, j)
    <2>1. PICK a \in Attempt : Put(r, att[r], a) /\ a.out = Tx(r).out /\ a.st = Tx(r).st
      BY <1>3, CommitFailsEffect
    <2>2. att[r] \in Attempts /\ Made(r, att[r])
      BY <1>3, CommitFailsEffect
    <2>3. tx'[q][j] = tx[q][j] \/ (q = r /\ j = att[r] /\ tx'[q][j] = a)
      BY <1>0, <2>1, <2>2, PutEffect
    <2> QED
      BY <2>1, <2>2, <2>3 DEF Made, Tx
  <1>4. ASSUME NEW r \in Requests, NEW k \in Attempts, ServerCommits(r, k)
        PROVE  \/ Kept(q, j) \/ tx'[q][j].st = "applied"
               \/ /\ InFlight(q, j) /\ tx'[q][j].st = "stale"
                  /\ tx'[q][j].out = tx[q][j].out
    BY <1>4, ServerCommitsEffect DEF InFlight
  <1>5. ASSUME NEW r \in Requests, NEW k \in Attempts,
               ServerRefuses(r, k) \/ ServerAborts(r, k)
        PROVE  \/ Kept(q, j) \/ tx'[q][j].st = "aborted"
               \/ tx'[q][j].st = "refused" /\ ~Changed(tx'[q][j].out)
    <2>1. PICK a \in Attempt :
              Put(r, k, a) /\ ((a.st = "refused" /\ ~Changed(a.out)) \/ a.st = "aborted")
      <3>1. CASE ServerRefuses(r, k)
        BY <3>1, ServerRefusesEffect DEF Changed
      <3>2. CASE ServerAborts(r, k)
        BY <3>2, ServerAbortsEffect
      <3> QED
        BY <1>5, <3>1, <3>2
    <2>2. tx'[q][j] = tx[q][j] \/ (q = r /\ j = k /\ tx'[q][j] = a)
      BY <1>0, <2>1, PutEffect
    <2> QED
      BY <2>1, <2>2 DEF Made
  <1> QED
    BY <1>1, <1>2, <1>3, <1>4, <1>5, TxStep

(* A request has arguments once it was made, and an answer once it is done.*)
LEMMA AnswersStep ==
    ASSUME TypeOK, [Next]_vars, NEW q \in Requests,
           pc[q] = "idle" => call[q] = NoCall, pc[q] # "done" => result[q] = Pending
    PROVE  /\ pc'[q] = "idle" => call'[q] = NoCall
           /\ pc'[q] # "done" => result'[q] = Pending
  <1> USE DEF TypeOK, Goto, Finish
  <1> DEFINE Goal == /\ pc'[q] = "idle" => call'[q] = NoCall
                     /\ pc'[q] # "done" => result'[q] = Pending
  <1>1. ASSUME NEW r \in Requests, Handler(r)
        PROVE  Goal
    <2>1. CASE \/ Invoke(r) \/ Get(r) \/ BeginTransaction(r) \/ RunClosure(r)
               \/ Committed(r)
      BY <2>1 DEF Invoke, Get, BeginTransaction, RunClosure, Committed
    <2>2. CASE InitClient(r) \/ ClientBuilt(r) \/ ClientReady(r) \/ Deadline(r)
      BY <2>2 DEF InitClient, ClientBuilt, ClientReady, Deadline
    <2>3. ASSUME NEW e, ClientFails(r, e) \/ BeginFails(r, e) \/ GetFails(r, e)
          PROVE  Goal
      BY <2>3 DEF ClientFails, BeginFails, GetFails
    <2>4. ASSUME NEW e, ReadFails(r, e)
          PROVE  Goal
      BY <2>4 DEF ReadFails, RetryOrGiveUp
    <2>5. ASSUME NEW e, CommitFails(r, e)
          PROVE  Goal
      BY <2>5 DEF CommitFails, RetryOrGiveUp
    <2> QED
      BY <1>1, <2>1, <2>2, <2>3, <2>4, <2>5 DEF Handler
  <1>2. CASE Server
    BY <1>2 DEF Server, ServerCommits, ServerRefuses, ServerAborts
  <1>3. CASE Crash
    BY <1>3 DEF Crash, Running
  <1>4. CASE UNCHANGED vars
    BY <1>4 DEF vars
  <1> QED
    BY <1>1, <1>2, <1>3, <1>4 DEF Next

(* A commit that changes the document and whose failure loses no reply was *)
(* already aborted.                                                        *)
LEMMA FailedCommitNotHanging ==
    ASSUME IndInv, [Next]_vars, NEW q \in Requests, NEW e, CommitFails(q, e),
           (q \notin Doubt)', NEW j \in Attempts, j = att[q], Changed(tx[q][j].out)
    PROVE  ~Hanging(q, j)
  <1>1. PICK a \in Attempt :
            Put(q, j, a) /\ (~a.lost => (Tx(q).st = "aborted" \/ Tx(q).out.new = Tx(q).out.old))
    BY CommitFailsEffect
  <1>2. tx'[q][j] = a /\ Made(q, j)'
    BY <1>1, PutEffect DEF IndInv
  <1>3. ~a.lost
    BY <1>2 DEF Doubt
  <1> QED
    BY <1>1, <1>3 DEF Hanging, InFlight, Stale, Changed, Tx

LEMMA TracedStep ==
    ASSUME IndInv, [Next]_vars, NEW q \in Requests, Traced(q)
    PROVE  Traced(q)'
  <1>1. /\ pc'[q] = "idle" => call'[q] = NoCall
        /\ pc'[q] # "done" => result'[q] = Pending
    BY AnswersStep DEF IndInv, Traced
  <1>2. ASSUME NEW j \in Attempts
        PROVE  /\ Refused(q, j)' => ~Changed(tx'[q][j].out)
               /\ Stale(q, j)' => Hanging(q, j) /\ tx'[q][j].out = tx[q][j].out
    BY StateStep DEF Traced, Refused, Stale, Hanging, Kept, Changed
  <1>3. ASSUME NEW j \in Attempts, Hanging(q, j)
        PROVE  Changed(tx[q][j].out)
    BY <1>3, InFlightChanges DEF Hanging, Traced
  <1>4. ASSUME NEW j \in Attempts, Stale(q, j)', (q \notin Doubt)'
        PROVE  ~GivenUp(q, j)' /\ (pc'[q] = "done" => result'[q] = Err("unavailable"))
    <2>1. Hanging(q, j) /\ Changed(tx[q][j].out) /\ Made(q, j)
      BY <1>2, <1>3, <1>4 DEF Hanging, InFlight, Stale
    <2>2. q \notin Doubt
      BY <1>4, DoubtGrows
    <2>3. ~GivenUp(q, j) /\ (pc[q] = "done" => result[q] = Err("unavailable"))
      BY <2>1, <2>2 DEF Hanging, IndInv, NothingLeftBehind, Final, Traced
    <2>4. j = att[q]
      BY <2>1, <2>3, MadeAttempt, ServiceAssumption
      DEF GivenUp, IndInv, TypeOK, Attempts
    <2>5. ASSUME NEW e, CommitFails(q, e)
          PROVE  FALSE
      BY <1>4, <2>1, <2>4, <2>5, FailedCommitNotHanging
    <2>6. ASSUME NEW e, ReadFails(q, e)
          PROVE  FALSE
      BY <2>1, <2>4, <2>6 DEF ReadFails, IndInv, Progress
    <2>7. ~GivenUp(q, j)'
      BY <2>3, <2>5, <2>6, GivenUpStep
    <2>8. ASSUME pc'[q] = "done"
          PROVE  result'[q] = Err("unavailable")
      <3>1. ASSUME NEW e, ClientFails(q, e) \/ GetFails(q, e) \/ Get(q) \/ BeginFails(q, e)
            PROVE  FALSE
        <4>1. pc[q] # "client" /\ att[q] \in Attempts
          BY <2>1, <2>4, MadeAttempt
        <4>2. att[q] # 0 /\ pc[q] # "begin"
          BY <2>3, <2>4, <4>1, ServiceAssumption DEF Attempts, GivenUp
        <4> QED
          BY <3>1, <4>1, <4>2
          DEF ClientFails, GetFails, Get, BeginFails, IndInv, Progress
      <3>2. ~Committed(q)
        BY <2>1, <2>4 DEF Committed, Tx, Hanging, InFlight, Stale
      <3>3. ASSUME Deadline(q)
            PROVE  result'[q] = Err("unavailable")
        BY <3>3 DEF Deadline, Finish, IndInv, TypeOK
      <3> QED
        BY <2>3, <2>5, <2>6, <2>8, <3>1, <3>2, <3>3, FinishStep
    <2> QED
      BY <2>7, <2>8
  <1> QED
    BY <1>1, <1>2, <1>3, <1>4 DEF Traced, Changed

---------------------------------------------------------------------------
(* The refinement: the data of the contract is that of the service, ...    *)
LEMMA SameOutcome ==
    ASSUME NEW c, NEW t, NEW old
    PROVE  Contract!Outcome(c, t, old) = Outcome(c, t, old)
  BY DEF Contract!Outcome, Contract!Writes, Contract!NewDoc, Contract!Settled,
         Contract!BuildProfile, Contract!UpdatedProfile, Contract!Merged,
         Contract!NextTimestamp, Contract!Changes, Contract!CanAdvance,
         Contract!Readable, Contract!Ok, Contract!Err,
         Outcome, Writes, NewDoc, Settled, BuildProfile, UpdatedProfile, Merged,
         NextTimestamp, Changes, CanAdvance, Readable, Ok, Err

LEMMA SameData ==
    /\ Contract!Pending = Pending /\ Contract!Times = Times
    /\ \A c, old : Contract!Settled(c, old) = Settled(c, old)
    /\ \A s : Contract!Err(s) = Err(s)
  BY DEF Contract!Pending, Contract!Times, Contract!Settled, Contract!Err,
         Contract!Merged, Contract!Changes, Contract!Readable, Contract!Ok,
         Pending, Times, Settled, Err, Merged, Changes, Readable, Ok

(* ... the executions of a request change when one of its attempts settles,*)
(* and only then, ...                                                      *)
Settled0(r, k) == Made(r, k) /\ tx[r][k].st \in {"applied", "refused"}

LEMMA ActsSame ==
    ASSUME \A q \in Requests, j \in Attempts :
               /\ Settled0(q, j)' <=> Settled0(q, j)
               /\ Settled0(q, j) => tx'[q][j].out = tx[q][j].out
    PROVE  Acts' = Acts
  <1>1. ASSUME NEW q \in Requests
        PROVE  {tx'[q][k].out : k \in {j \in Attempts : Settled0(q, j)'}}
                 = {tx[q][k].out : k \in {j \in Attempts : Settled0(q, j)}}
    OBVIOUS
  <1> QED
    BY <1>1 DEF Acts, Settled0, Made

LEMMA ActsGrow ==
    ASSUME NEW r \in Requests, NEW k \in Attempts, ~Settled0(r, k), Settled0(r, k)',
           \A q \in Requests, j \in Attempts : (q # r \/ j # k) =>
               /\ Settled0(q, j)' <=> Settled0(q, j)
               /\ Settled0(q, j) => tx'[q][j].out = tx[q][j].out
    PROVE  Acts' = [Acts EXCEPT ![r] = @ \cup {tx'[r][k].out}]
  <1> DEFINE A(q) == {tx[q][i].out : i \in {j \in Attempts : Settled0(q, j)}}
             B(q) == {tx'[q][i].out : i \in {j \in Attempts : Settled0(q, j)'}}
  <1>1. B(r) = A(r) \cup {tx'[r][k].out}
    OBVIOUS
  <1>2. \A q \in Requests : q # r => B(q) = A(q)
    OBVIOUS
  <1>3. Acts = [q \in Requests |-> A(q)]
    BY DEF Acts, Settled0, Made
  <1>4. Acts' = [q \in Requests |-> B(q)]
    BY DEF Acts, Settled0, Made
  <1> HIDE DEF A, B
  <1> QED
    BY <1>1, <1>2, <1>3, <1>4

(* ... it is in doubt from the first reply lost, ...                       *)
LEMMA DoubtSame ==
    ASSUME \A q \in Requests, j \in Attempts :
               /\ Made(q, j) => Made(q, j)' /\ tx'[q][j].lost = tx[q][j].lost
               /\ Made(q, j)' => Made(q, j) \/ ~tx'[q][j].lost
    PROVE  Doubt' = Doubt
  BY DEF Doubt

(* ... and it has had an effect when an attempt of its own took effect.    *)
LEMMA EffectiveTook ==
    ASSUME NEW r \in Requests, Traced(r)
    PROVE  Contract!Effective(r) <=> \E k \in Attempts : Took(r, k)
  <1>1. Acts[r] = {tx[r][k].out : k \in {j \in Attempts : Settled0(r, j)}}
    BY DEF Acts, Settled0, Made
  <1>2. \A k \in Attempts :
           Took(r, k) <=> Settled0(r, k) /\ tx[r][k].out.new # tx[r][k].out.old
    BY DEF Traced, Refused, Took, Changed, Settled0
  <1> QED
    BY <1>1, <1>2 DEF Contract!Effective

LEMMA NoEffectYet ==
    ASSUME IndInv, NEW r \in Requests, Traced(r), r \notin Doubt,
           \A k \in Attempts : k = att[r] => ~Took(r, k)
    PROVE  ~Contract!Effective(r)
  <1> SUFFICES ASSUME NEW k \in Attempts, Took(r, k) PROVE FALSE
    BY EffectiveTook
  <1>1. k <= att[r] /\ ~GivenUp(r, k)
    BY MadeAttempt DEF Took, IndInv, NothingLeftBehind
  <1>2. k = att[r]
    BY <1>1, ServiceAssumption DEF GivenUp, IndInv, TypeOK, Attempts
  <1> QED
    BY <1>2

(* A commit the server may still settle is one the contract may execute.   *)
LEMMA HangingMayExecute ==
    ASSUME IndInv, NEW r \in Requests, Traced(r), NEW k \in Attempts, Hanging(r, k)
    PROVE  /\ call[r] # NoCall /\ call[r] \in Calls
           /\ \/ r \in Doubt
              \/ /\ ~Contract!Effective(r)
                 /\ result[r] \in {Pending, Err("unavailable")}
  <1>1. Made(r, k)
    BY DEF Hanging, InFlight, Stale
  <1>2. call[r] # NoCall /\ call[r] \in Calls
    BY <1>1, MadeAttempt, Running0, ServiceAssumption DEF WellFormed
  <1>3. ASSUME r \notin Doubt
        PROVE  /\ ~Contract!Effective(r)
               /\ result[r] \in {Pending, Err("unavailable")}
    <2>1. ~GivenUp(r, k) /\ (pc[r] = "done" => result[r] = Err("unavailable"))
      BY <1>3 DEF Hanging, IndInv, NothingLeftBehind, Final, Traced
    <2>2. k = att[r]
      BY <1>1, <2>1, MadeAttempt, ServiceAssumption
      DEF GivenUp, IndInv, TypeOK, Attempts
    <2>3. ~Took(r, k)
      BY DEF Hanging, InFlight, Stale, Took
    <2>4. result[r] \in {Pending, Err("unavailable")}
      BY <2>1 DEF Traced
    <2> QED
      BY <1>3, <2>2, <2>3, <2>4, NoEffectYet
  <1> QED
    BY <1>2, <1>3

(* An action of the service as the contract sees it.                       *)
AbstractStep == Contract!Next \/ UNCHANGED <<docs, call, result, Acts, Doubt>>

(* A step that leaves the attempts alone leaves the executions alone.      *)
LEMMA SameAttempts ==
    ASSUME tx' = tx
    PROVE  UNCHANGED <<Acts, Doubt>>
  <1>1. \A q \in Requests, j \in Attempts :
           /\ (Settled0(q, j)' <=> Settled0(q, j))
           /\ (Made(q, j)' <=> Made(q, j)) /\ tx'[q][j] = tx[q][j]
    BY DEF Settled0, Made
  <1> QED
    BY <1>1, ActsSame, DoubtSame

(* The contract executes a call: the server commits, refuses, or the       *)
(* closure settles it without a write.                                     *)
LEMMA ExecuteMaps ==
    ASSUME NEW r \in Requests, NEW k \in Attempts, NEW t \in Times,
           call[r] # NoCall,
           \/ r \in Doubt
           \/ ~Contract!Effective(r) /\ result[r] \in {Pending, Err("unavailable")},
           ~Settled0(r, k), Settled0(r, k)',
           tx'[r][k].out = Outcome(call[r], t, Doc(r)),
           docs' = [docs EXCEPT ![call[r].user] = Outcome(call[r], t, Doc(r)).new],
           \A q \in Requests, j \in Attempts : (q # r \/ j # k) =>
               /\ Settled0(q, j)' <=> Settled0(q, j)
               /\ Settled0(q, j) => tx'[q][j].out = tx[q][j].out,
           Doubt' = Doubt, UNCHANGED <<call, result>>
    PROVE  AbstractStep
  <1>1. Acts' = [Acts EXCEPT ![r] = @ \cup {Outcome(call[r], t, Doc(r))}]
    BY ActsGrow
  <1>2. Contract!Outcome(call[r], t, docs[call[r].user]) = Outcome(call[r], t, Doc(r))
    BY SameOutcome DEF Doc
  <1>3. Contract!Execute(r)
    BY <1>1, <1>2, SameData DEF Contract!Execute
  <1> QED
    BY <1>3 DEF AbstractStep, Contract!Next

LEMMA ServerCommitsMaps ==
    ASSUME IndInv, NEW r \in Requests, Traced(r), NEW k \in Attempts, ServerCommits(r, k)
    PROVE  AbstractStep
  <1>1. InFlight(r, k) /\ ~Settled0(r, k)
    BY DEF ServerCommits, InFlight, Made, Settled0
  <1>2. /\ tx[r][k].out = Outcome(call[r], now[r], Doc(r)) /\ now[r] \in Times
        /\ tx'[r][k].out = tx[r][k].out /\ Settled0(r, k)'
    BY <1>1, ServerCommitsEffect DEF IndInv, TypeOK, Current, InFlight, Settled0
  <1>3. \A q \in Requests, j \in Attempts : (q # r \/ j # k) =>
            /\ Settled0(q, j)' <=> Settled0(q, j)
            /\ Settled0(q, j) => tx'[q][j].out = tx[q][j].out
    BY ServerCommitsEffect DEF Settled0
  <1>4. Doubt' = Doubt
    BY ServerCommitsEffect, DoubtSame
  <1>5. /\ docs' = [docs EXCEPT ![call[r].user] = Outcome(call[r], now[r], Doc(r)).new]
        /\ UNCHANGED <<call, result>>
    BY <1>2 DEF ServerCommits
  <1>6. /\ call[r] # NoCall
        /\ \/ r \in Doubt
           \/ ~Contract!Effective(r) /\ result[r] \in {Pending, Err("unavailable")}
    BY <1>1, HangingMayExecute DEF Hanging
  <1> QED
    BY <1>1, <1>2, <1>3, <1>4, <1>5, <1>6, ExecuteMaps

(* A refusal is the outcome of the call on the document the server has.    *)
LEMMA RefusalIsOutcome ==
    ASSUME NEW r \in Requests, NEW e \in PreconditionError(r), NEW t
    PROVE  Outcome(call[r], t, Doc(r))
             = [old |-> Doc(r), new |-> Doc(r), ans |-> MapError(call[r].op, e)]
  <1>1. CASE call[r].op = "create"
    BY <1>1 DEF PreconditionError, Outcome, Writes, Settled, MapError
  <1>2. CASE call[r].op # "create"
    BY <1>2 DEF PreconditionError, Outcome, Writes, Settled, MapError, Readable
  <1> QED
    BY <1>1, <1>2

LEMMA ServerRefusesMaps ==
    ASSUME IndInv, NEW r \in Requests, Traced(r), NEW k \in Attempts, ServerRefuses(r, k)
    PROVE  AbstractStep
  <1>0. TypeOK
    BY DEF IndInv
  <1>1. Hanging(r, k) /\ Made(r, k) /\ ~Settled0(r, k)
    BY DEF ServerRefuses, Hanging, InFlight, Stale, Made, Settled0
  <1>2. PICK e \in PreconditionError(r) :
            tx' = [tx EXCEPT ![r][k].st = "refused",
                             ![r][k].out = [old |-> Doc(r), new |-> Doc(r),
                                            ans |-> MapError(call[r].op, e)]]
    BY DEF ServerRefuses
  <1> DEFINE out == Outcome(call[r], now[r], Doc(r))
  <1>3. out = [old |-> Doc(r), new |-> Doc(r), ans |-> MapError(call[r].op, e)]
    BY RefusalIsOutcome
  <1>4. out.new = Doc(r)
    BY <1>3
  <1>5. tx[r][k] \in Attempt
    BY <1>1, MadeAttempt
  <1> HIDE DEF out
  <1>6. tx'[r][k] = [tx[r][k] EXCEPT !.st = "refused", !.out = out]
    BY <1>0, <1>2, <1>3 DEF TypeOK
  <1>7. tx'[r][k].st = "refused" /\ tx'[r][k].out = out /\ tx'[r][k].lost = tx[r][k].lost
    BY <1>5, <1>6 DEF Attempt
  <1>8. PICK a \in Attempt : Put(r, k, a)
    BY ServerRefusesEffect
  <1>9. /\ Made(r, k)'
        /\ \A q \in Requests, j \in Attempts : (q # r \/ j # k) => tx'[q][j] = tx[q][j]
    BY <1>0, <1>8, PutEffect
  <1>10. Doubt' = Doubt
    <2>1. ASSUME NEW q \in Requests, NEW j \in Attempts
          PROVE  (Made(q, j)' <=> Made(q, j)) /\ tx'[q][j].lost = tx[q][j].lost
      BY <1>1, <1>7, <1>9 DEF Made
    <2> QED
      BY <2>1, DoubtSame
  <1>11. Settled0(r, k)'
    BY <1>7, <1>9 DEF Settled0
  <1>15. \A q \in Requests, j \in Attempts : (q # r \/ j # k) =>
            /\ Settled0(q, j)' <=> Settled0(q, j)
            /\ Settled0(q, j) => tx'[q][j].out = tx[q][j].out
    BY <1>9 DEF Settled0, Made
  <1>12. UNCHANGED <<docs, call, result>> /\ docs' = [docs EXCEPT ![call[r].user] = out.new]
    BY <1>0, <1>4 DEF ServerRefuses, TypeOK, Doc
  <1>13. /\ call[r] # NoCall
         /\ \/ r \in Doubt
            \/ ~Contract!Effective(r) /\ result[r] \in {Pending, Err("unavailable")}
    BY <1>1, HangingMayExecute
  <1>14. /\ now[r] \in Times
         /\ tx'[r][k].out = Outcome(call[r], now[r], Doc(r))
         /\ docs' = [docs EXCEPT ![call[r].user] = Outcome(call[r], now[r], Doc(r)).new]
    BY <1>0, <1>7, <1>12 DEF out, TypeOK
  <1>16. UNCHANGED <<call, result>>
    BY <1>12
  <1> QED
    BY <1>1, <1>10, <1>11, <1>13, <1>14, <1>15, <1>16, ExecuteMaps

LEMMA ServerAbortsMaps ==
    ASSUME IndInv, NEW r \in Requests, NEW k \in Attempts, ServerAborts(r, k)
    PROVE  AbstractStep
  <1>0. TypeOK
    BY DEF IndInv
  <1>1. Made(r, k) /\ ~Settled0(r, k)
    BY DEF ServerAborts, Made, Settled0
  <1>2. PICK a \in Attempt : Put(r, k, a) /\ a.st = "aborted" /\ a.lost = tx[r][k].lost
    BY ServerAbortsEffect
  <1>3. /\ tx'[r][k] = a /\ Made(r, k)'
        /\ \A q \in Requests, j \in Attempts : (q # r \/ j # k) => tx'[q][j] = tx[q][j]
    BY <1>0, <1>2, PutEffect
  <1>4. ASSUME NEW q \in Requests, NEW j \in Attempts
        PROVE  /\ Settled0(q, j)' <=> Settled0(q, j)
               /\ Settled0(q, j) => tx'[q][j].out = tx[q][j].out
               /\ Made(q, j)' <=> Made(q, j)
               /\ tx'[q][j].lost = tx[q][j].lost
    BY <1>1, <1>2, <1>3 DEF Settled0, Made
  <1>5. Acts' = Acts
    BY <1>4, ActsSame
  <1>6. Doubt' = Doubt
    BY <1>4, DoubtSame
  <1> QED
    BY <1>5, <1>6 DEF ServerAborts, AbstractStep

(* A closure that stages no write settles the call at its read; one that   *)
(* does sends a commit, which nobody sees yet.                             *)
LEMMA RunClosureMaps ==
    ASSUME IndInv, NEW r \in Requests, Traced(r), RunClosure(r)
    PROVE  AbstractStep
  <1>0. TypeOK
    BY DEF IndInv
  <1>a. PICK k \in Attempts : k = att[r]
    BY RunClosureEffect
  <1>1. ~Made(r, k) /\ pc[r] = "read" /\ call[r].op # "get"
    BY <1>a DEF RunClosure, IndInv, Progress
  <1>2. PICK a \in Attempt :
            /\ Put(r, k, a) /\ a.out = Outcome(call[r], now[r], Doc(r))
            /\ a.st = (IF Writes(call[r], now[r], Doc(r)) THEN "sent" ELSE "applied")
            /\ a.lost = FALSE
    BY <1>a, RunClosureEffect
  <1>3. /\ tx'[r][k] = a /\ Made(r, k)'
        /\ \A q \in Requests, j \in Attempts : (q # r \/ j # k) => tx'[q][j] = tx[q][j]
    BY <1>0, <1>1, <1>2, PutEffect
  <1>4. ASSUME NEW q \in Requests, NEW j \in Attempts, q # r \/ j # k
        PROVE  /\ Settled0(q, j)' <=> Settled0(q, j)
               /\ Settled0(q, j) => tx'[q][j].out = tx[q][j].out
               /\ Made(q, j)' <=> Made(q, j)
               /\ tx'[q][j].lost = tx[q][j].lost
    BY <1>3, <1>4 DEF Settled0, Made
  <1>5. Doubt' = Doubt
    <2>1. ASSUME NEW q \in Requests, NEW j \in Attempts
          PROVE  /\ Made(q, j) => Made(q, j)' /\ tx'[q][j].lost = tx[q][j].lost
                 /\ Made(q, j)' => Made(q, j) \/ ~tx'[q][j].lost
      BY <1>1, <1>2, <1>3, <1>4
    <2> QED
      BY <2>1, DoubtSame
  <1>6. UNCHANGED <<docs, call, result>>
    BY DEF RunClosure
  <1>7. ~Settled0(r, k)
    BY <1>1 DEF Settled0
  <1>8. CASE Writes(call[r], now[r], Doc(r))
    <2>1. ~Settled0(r, k)'
      BY <1>2, <1>3, <1>8 DEF Settled0
    <2>2. \A q \in Requests, j \in Attempts :
              /\ Settled0(q, j)' <=> Settled0(q, j)
              /\ Settled0(q, j) => tx'[q][j].out = tx[q][j].out
      BY <1>4, <1>7, <2>1
    <2> QED
      BY <1>5, <1>6, <2>2, ActsSame DEF AbstractStep
  <1>9. CASE ~Writes(call[r], now[r], Doc(r))
    <2>1. Settled0(r, k)'
      BY <1>2, <1>3, <1>9 DEF Settled0
    <2>2. /\ tx'[r][k].out = Outcome(call[r], now[r], Doc(r)) /\ now[r] \in Times
          /\ Outcome(call[r], now[r], Doc(r)).new = Doc(r)
      BY <1>0, <1>2, <1>3, <1>9 DEF TypeOK, Outcome
    <2>3. docs' = [docs EXCEPT ![call[r].user] = Outcome(call[r], now[r], Doc(r)).new]
      BY <1>0, <1>6, <2>2 DEF TypeOK, Doc
    <2>4. call[r] # NoCall
      BY <1>1, Running0, ServiceAssumption DEF WellFormed
    <2>5. r \in Doubt \/ (~Contract!Effective(r) /\ result[r] \in {Pending, Err("unavailable")})
      <3>1. \A j \in Attempts : j = att[r] => ~Took(r, j)
        BY <1>a, <1>1 DEF Took
      <3>2. result[r] = Pending
        BY <1>1 DEF Traced
      <3> QED
        BY <3>1, <3>2, NoEffectYet
    <2>6. \A q \in Requests, j \in Attempts : (q # r \/ j # k) =>
              /\ Settled0(q, j)' <=> Settled0(q, j)
              /\ Settled0(q, j) => tx'[q][j].out = tx[q][j].out
      BY <1>4
    <2>7. UNCHANGED <<call, result>>
      BY <1>6
    <2> QED
      BY <1>5, <1>7, <2>1, <2>2, <2>3, <2>4, <2>5, <2>6, <2>7, ExecuteMaps
  <1> QED
    BY <1>8, <1>9

LEMMA InvokeMaps ==
    ASSUME IndInv, NEW r \in Requests, Traced(r), Invoke(r)
    PROVE  AbstractStep
  <1>1. call[r] = NoCall
    BY DEF Invoke, Traced
  <1>2. UNCHANGED <<Acts, Doubt>>
    BY SameAttempts DEF Invoke
  <1>3. Contract!Invoke(r)
    BY <1>1, <1>2 DEF Invoke, Contract!Invoke
  <1> QED
    BY <1>3 DEF AbstractStep, Contract!Next

(* A request that is at work is open for the contract.                     *)
LEMMA RunningIsOpen ==
    ASSUME IndInv, NEW r \in Requests, Traced(r), Running(r)
    PROVE  call[r] # NoCall /\ result[r] = Pending /\ Contract!Open(r)
  <1>1. call[r] # NoCall /\ result[r] = Pending
    BY Running0, ServiceAssumption DEF Running, Traced, WellFormed
  <1> QED
    BY <1>1, SameData DEF Contract!Open

(* A read outside of a transaction.                                        *)
LEMMA GetMaps ==
    ASSUME IndInv, NEW r \in Requests, Traced(r), Get(r)
    PROVE  AbstractStep
  <1>1. Contract!Open(r)
    BY RunningIsOpen DEF Get, Running
  <1>2. UNCHANGED <<Acts, Doubt>>
    BY SameAttempts DEF Get
  <1>3. Contract!AnswerRead(r)
    BY <1>1, <1>2, SameData DEF Get, Finish, Doc, Contract!AnswerRead
  <1> QED
    BY <1>3 DEF AbstractStep, Contract!Next

(* The answer of a transaction is the outcome of its last attempt; if that *)
(* one changed nothing, none did, or a reply was lost.                     *)
LEMMA CommittedMaps ==
    ASSUME IndInv, NEW r \in Requests, Traced(r), Committed(r)
    PROVE  AbstractStep
  <1>1. Contract!Open(r)
    BY RunningIsOpen DEF Committed, Running
  <1>2. UNCHANGED <<Acts, Doubt>>
    BY SameAttempts DEF Committed
  <1>3. att[r] \in Attempts /\ Settled0(r, att[r])
    BY DEF Committed, IndInv, Progress, Settled0, Tx
  <1>4. Acts[r] = {tx[r][k].out : k \in {j \in Attempts : Settled0(r, j)}}
    BY DEF Acts, Settled0, Made
  <1>5. Tx(r).out \in Acts[r]
    BY <1>3, <1>4 DEF Tx
  <1>6. Tx(r).out.new # Tx(r).out.old \/ ~Contract!Effective(r) \/ r \in Doubt
    <2> SUFFICES ASSUME Tx(r).out.new = Tx(r).out.old, r \notin Doubt
                 PROVE  ~Contract!Effective(r)
      OBVIOUS
    <2>1. \A k \in Attempts : k = att[r] => ~Took(r, k)
      BY DEF Took, Changed, Tx
    <2> QED
      BY <2>1, NoEffectYet
  <1>7. result' = [result EXCEPT ![r] = Tx(r).out.ans] /\ UNCHANGED <<docs, call>>
    BY DEF Committed, Finish
  <1>8. Contract!AnswerOutcome(r)
    BY <1>1, <1>2, <1>5, <1>6, <1>7 DEF Contract!AnswerOutcome
  <1> QED
    BY <1>8 DEF AbstractStep, Contract!Next

(* A call gives up.                                                        *)
LEMMA RefuseMaps ==
    ASSUME NEW r \in Requests, Contract!Open(r),
           NEW status \in {"unavailable", "internal"},
           status = "internal" => ~Contract!Effective(r) \/ r \in Doubt',
           result' = [result EXCEPT ![r] = Err(status)],
           Doubt' \in {Doubt, Doubt \cup {r}}, UNCHANGED <<docs, call, Acts>>
    PROVE  AbstractStep
  <1>1. Contract!Refuse(r)
    BY SameData DEF Contract!Refuse
  <1> QED
    BY <1>1 DEF AbstractStep, Contract!Next

LEMMA Statuses0 ==
    ASSUME NEW op, NEW e \in {"transient", "backend"}
    PROVE  MapError(op, e) = Err(IF e = "transient" THEN "unavailable" ELSE "internal")
  BY DEF MapError

(* A failure before any commit of this attempt: what earlier attempts      *)
(* left behind changed the document only if a reply was lost.              *)
LEMMA FailureMaps ==
    ASSUME IndInv, NEW r \in Requests, Traced(r), Running(r),
           NEW e \in {"transient", "backend"}, NEW op,
           e = "backend" => \A k \in Attempts : k = att[r] => ~Took(r, k),
           Finish(r, MapError(op, e)), tx' = tx, UNCHANGED <<docs, call>>
    PROVE  AbstractStep
  <1> DEFINE status == IF e = "transient" THEN "unavailable" ELSE "internal"
  <1>1. Contract!Open(r) /\ UNCHANGED <<Acts, Doubt>>
    BY RunningIsOpen, SameAttempts
  <1>2. status = "internal" => ~Contract!Effective(r) \/ r \in Doubt'
    BY <1>1, NoEffectYet
  <1>3. result' = [result EXCEPT ![r] = Err(status)] /\ status \in {"unavailable", "internal"}
    BY Statuses0 DEF Finish
  <1> HIDE DEF status
  <1>4. Doubt' \in {Doubt, Doubt \cup {r}} /\ Acts' = Acts
    BY <1>1
  <1> QED
    BY <1>1, <1>2, <1>3, <1>4, RefuseMaps

(* A commit that fails: the contract loses the reply, or gives the call up.*)
LEMMA CommitFailsMaps ==
    ASSUME IndInv, [Next]_vars, NEW r \in Requests, Traced(r),
           NEW e \in {"transient", "backend"}, CommitFails(r, e)
    PROVE  AbstractStep
  <1>0. TypeOK
    BY DEF IndInv
  <1>a. PICK k \in Attempts : k = att[r] /\ Made(r, k)
    BY CommitFailsEffect
  <1>1. PICK a \in Attempt : Put(r, k, a) /\ a.out = tx[r][k].out /\ a.st = tx[r][k].st
    BY <1>a, CommitFailsEffect DEF Tx
  <1>2. /\ tx'[r][k] = a /\ Made(r, k)'
        /\ \A q \in Requests, j \in Attempts : (q # r \/ j # k) => tx'[q][j] = tx[q][j]
    BY <1>0, <1>1, PutEffect
  <1>3. ASSUME NEW q \in Requests, NEW j \in Attempts
        PROVE  /\ Settled0(q, j)' <=> Settled0(q, j)
               /\ Settled0(q, j) => tx'[q][j].out = tx[q][j].out
               /\ q # r => tx'[q][j] = tx[q][j]
    BY <1>a, <1>1, <1>2 DEF Settled0, Made
  <1>4. Acts' = Acts
    BY <1>3, ActsSame
  <1>5. Doubt' \in {Doubt, Doubt \cup {r}}
    <2>1. \A q \in Requests : q # r => ((q \in Doubt)' <=> q \in Doubt)
      BY <1>3 DEF Doubt, Made
    <2>2. r \in Doubt => r \in Doubt'
      BY DoubtGrows
    <2>3. Doubt \subseteq Requests /\ Doubt' \subseteq Requests
      BY DEF Doubt
    <2> QED
      BY <2>1, <2>2, <2>3
  <1>6. Contract!Open(r) /\ UNCHANGED <<docs, call>>
    BY RunningIsOpen DEF CommitFails, Running
  <1>7. CASE UNCHANGED result
    <2>1. Doubt' = Doubt \/ Contract!LoseReply(r)
      BY <1>4, <1>5, <1>6, <1>7 DEF Contract!LoseReply
    <2> QED
      BY <1>4, <1>6, <1>7, <2>1 DEF AbstractStep, Contract!Next
  <1>8. ASSUME NEW status \in {"unavailable", "internal"}, e = "transient" => status = "unavailable",
               result' = [result EXCEPT ![r] = Err(status)]
        PROVE  AbstractStep
    <2>1. ~Contract!Effective(r) \/ r \in Doubt'
      <3> SUFFICES ASSUME (r \notin Doubt)'
                   PROVE  ~Contract!Effective(r)
        OBVIOUS
      <3>1. ~Took(r, k)' /\ r \notin Doubt
        BY <1>a, DoubtGrows, FailedCommitIsOver
      <3>2. ~Took(r, k)
        BY <1>1, <1>2, <3>1 DEF Took, Changed
      <3> QED
        BY <1>a, <3>1, <3>2, NoEffectYet
    <2> QED
      BY <1>4, <1>5, <1>6, <1>8, <2>1, RefuseMaps
  <1>9. \/ UNCHANGED result
        \/ \E status \in {"unavailable", "internal"} :
               /\ e = "transient" => status = "unavailable"
               /\ result' = [result EXCEPT ![r] = Err(status)]
    BY Statuses0 DEF CommitFails, RetryOrGiveUp, Finish
  <1> QED
    BY <1>7, <1>8, <1>9

(* The failures Firestore answers before a commit, where they are the      *)
(* transient and the backend errors only.                                  *)
LEMMA EarlyFailureMaps ==
    ASSUME IndInv, NEW r \in Requests, Traced(r), NEW e \in {"transient", "backend"},
           ClientFails(r, e) \/ ReadFails(r, e) \/ BeginFails(r, e) \/ GetFails(r, e)
    PROVE  AbstractStep
  <1>1. Running(r) /\ tx' = tx /\ UNCHANGED <<docs, call>>
    BY DEF Running, ClientFails, ReadFails, BeginFails, GetFails
  <1>2. CASE ClientFails(r, e) \/ GetFails(r, e)
    <2>1. \A k \in Attempts : k # att[r]
      BY <1>2, ServiceAssumption DEF ClientFails, GetFails, IndInv, Progress, Attempts
    <2>2. \E op : Finish(r, MapError(op, e))
      BY <1>2 DEF ClientFails, GetFails
    <2> QED
      BY <1>1, <2>1, <2>2, FailureMaps
  <1>3. CASE BeginFails(r, e)
    <2>1. r \notin Doubt => \A k \in Attempts : k = att[r] => ~Took(r, k)
      BY <1>3 DEF BeginFails, IndInv, NothingLeftBehind, GivenUp
    <2>2. \E op : Finish(r, MapError(op, e))
      BY <1>3 DEF BeginFails
    <2>3. CASE r \notin Doubt
      BY <1>1, <2>1, <2>2, <2>3, FailureMaps
    <2>4. CASE r \in Doubt
      <3> DEFINE status == IF e = "transient" THEN "unavailable" ELSE "internal"
      <3>1. Contract!Open(r) /\ UNCHANGED <<Acts, Doubt>>
        BY <1>1, RunningIsOpen, SameAttempts
      <3>2. result' = [result EXCEPT ![r] = Err(status)] /\ status \in {"unavailable", "internal"}
        BY <2>2, Statuses0 DEF Finish
      <3> HIDE DEF status
      <3>3. r \in Doubt' /\ Doubt' \in {Doubt, Doubt \cup {r}} /\ Acts' = Acts
        BY <2>4, <3>1
      <3> QED
        BY <1>1, <3>1, <3>2, <3>3, RefuseMaps
    <2> QED
      BY <2>3, <2>4
  <1>4. CASE ReadFails(r, e)
    <2>1. CASE UNCHANGED result
      BY <1>1, <2>1, SameAttempts DEF AbstractStep
    <2>2. CASE Finish(r, Err("unavailable"))
      <3>1. Contract!Open(r) /\ UNCHANGED <<Acts, Doubt>>
        BY <1>1, RunningIsOpen, SameAttempts
      <3>2. result' = [result EXCEPT ![r] = Err("unavailable")]
        BY <2>2 DEF Finish
      <3>3. Doubt' \in {Doubt, Doubt \cup {r}} /\ Acts' = Acts
        BY <3>1
      <3> QED
        BY <1>1, <3>1, <3>2, <3>3, RefuseMaps
    <2> QED
      BY <1>4, <2>1, <2>2 DEF ReadFails, RetryOrGiveUp
  <1> QED
    BY <1>2, <1>3, <1>4

(* The deadline gives the call up and promises nothing.                    *)
LEMMA DeadlineMaps ==
    ASSUME IndInv, NEW r \in Requests, Traced(r), Deadline(r)
    PROVE  AbstractStep
  <1>1. Contract!Open(r) /\ UNCHANGED <<Acts, Doubt>> /\ UNCHANGED <<docs, call>>
    BY RunningIsOpen, SameAttempts DEF Deadline
  <1>2. result' = [result EXCEPT ![r] = Err("unavailable")]
    BY DEF Deadline, Finish
  <1>3. Doubt' \in {Doubt, Doubt \cup {r}} /\ Acts' = Acts
    BY <1>1
  <1> QED
    BY <1>1, <1>2, <1>3, RefuseMaps

(* Every step of the service is a step of the contract, or none of its.    *)
LEMMA StepMaps ==
    ASSUME IndInv, \A r \in Requests : Traced(r), [Next]_vars,
           BeginErrors \subseteq {"transient", "backend"}
    PROVE  AbstractStep
  <1>1. ASSUME NEW r \in Requests, Handler(r)
        PROVE  AbstractStep
    <2>1. CASE InitClient(r) \/ ClientBuilt(r) \/ ClientReady(r) \/ BeginTransaction(r)
      <3>1. tx' = tx /\ UNCHANGED <<docs, call, result>>
        BY <2>1 DEF InitClient, ClientBuilt, ClientReady, BeginTransaction
      <3> QED
        BY <3>1, SameAttempts DEF AbstractStep
    <2>2. ASSUME NEW e \in {"transient", "backend"},
                 ClientFails(r, e) \/ ReadFails(r, e) \/ CommitFails(r, e)
          PROVE  AbstractStep
      BY <2>2, EarlyFailureMaps, CommitFailsMaps
    <2>3. ASSUME NEW e \in BeginErrors, BeginFails(r, e) \/ GetFails(r, e)
          PROVE  AbstractStep
      BY <2>3, EarlyFailureMaps
    <2>4. CASE \/ Invoke(r) \/ Get(r) \/ RunClosure(r) \/ Committed(r) \/ Deadline(r)
      BY <2>4, InvokeMaps, GetMaps, RunClosureMaps, CommittedMaps, DeadlineMaps
    <2> QED
      BY <1>1, <2>1, <2>2, <2>3, <2>4 DEF Handler
  <1>2. CASE Server
    BY <1>2, ServerCommitsMaps, ServerRefusesMaps, ServerAbortsMaps DEF Server
  <1>3. CASE Crash \/ UNCHANGED vars
    <2>1. tx' = tx /\ UNCHANGED <<docs, call, result>>
      BY <1>3 DEF Crash, vars
    <2> QED
      BY <2>1, SameAttempts DEF AbstractStep
  <1> QED
    BY <1>1, <1>2, <1>3 DEF Next

---------------------------------------------------------------------------
(* The theorems.                                                           *)

(* The inductive invariant holds in every reachable state: types, readable *)
(* documents, and what the attempts of every request may still do.         *)
THEOREM Invariance == Spec => []IndInv
  <1>1. IndInv /\ [Next]_vars => IndInv'
    <2> SUFFICES ASSUME IndInv, [Next]_vars PROVE IndInv'
      OBVIOUS
    <2>1. TypeOK'
      BY TypeStep
    <2>2. \A u \in Users : (docs[u] \in {NoDoc, Foreign} \/ Readable(docs[u]))'
      BY ReadableStep
    <2>3. \A q \in Requests : Progress(q)'
      BY ProgressStep
    <2>4. \A q \in Requests, j \in Attempts : Current(q, j)'
      BY CurrentStep
    <2>5. \A q \in Requests : NothingLeftBehind(q)'
      BY LeftBehindStep
    <2>6. \A q \in Requests : Final(q)'
      BY FinalStep
    <2> QED
      BY <2>1, <2>2, <2>3, <2>4, <2>5, <2>6 DEF IndInv
  <1> QED
    BY <1>1, InitIndInv, PTL DEF Spec

(* The state has its types: in particular no write of the service leaves   *)
(* the range of timestamps, whatever the clocks read.                      *)
THEOREM TypeCorrect == Spec => []TypeOK
  <1>1. IndInv => TypeOK
    BY DEF IndInv
  <1> QED
    BY <1>1, Invariance, PTL

(* Definite answers tell what became of the call: behind every success of  *)
(* a create, an update or a delete an attempt was applied, with the        *)
(* document answered; and where no reply was lost, nothing of a call       *)
(* answered otherwise than "unavailable" is still in flight, and whatever  *)
(* changed the document is what the answer reports.                        *)
THEOREM DefiniteAnswers == Spec => []DefiniteAnswersAreFinal
  <1> DEFINE AllTold == \A r \in Requests : Told(r)
  <1>1. Init => AllTold
    BY DEF Init, Told, Reported, Decided, Made
  <1>2. IndInv /\ AllTold /\ [Next]_vars => AllTold'
    BY ToldStep
  <1>3. ASSUME IndInv, AllTold PROVE DefiniteAnswersAreFinal
    <2>1. ASSUME NEW r \in Requests
          PROVE  Final(r) /\ Reported(r) /\ \A k \in Attempts : Decided(r, k)
      BY <1>3 DEF IndInv, Told
    <2>2. ASSUME NEW r \in Requests, pc[r] = "done", call[r].op # "get",
                 result[r].status = "ok"
          PROVE  \E k \in Attempts : Performed(r, k)
      <3>1. PICK k \in Attempts :
                Made(r, k) /\ tx[r][k].st = "applied" /\ result[r] = tx[r][k].out.ans
        BY <2>1, <2>2 DEF Reported
      <3>2. Performed(r, k)
        BY <1>3, <2>1, <2>2, <3>1, AppliedOutcome DEF Performed
      <3> QED
        BY <3>2
    <2>3. ASSUME NEW r \in Requests, pc[r] = "done", r \notin Doubt,
                 result[r] # Err("unavailable"), NEW k \in Attempts, Took(r, k)
          PROVE  result[r] = Ok(tx[r][k].out.new)
      <3>1. result[r] = tx[r][k].out.ans
        BY <2>1, <2>3 DEF Final
      <3>2. tx[r][k].out.ans = Ok(tx[r][k].out.new)
        BY <1>3, <2>1, <2>3, AppliedOutcome DEF Took
      <3> QED
        BY <3>1, <3>2
    <2> QED
      BY <2>1, <2>2, <2>3 DEF DefiniteAnswersAreFinal
  <1>4. IndInv /\ AllTold => DefiniteAnswersAreFinal
    BY <1>3
  <1> HIDE DEF AllTold
  <1> QED
    BY <1>1, <1>2, <1>4, Invariance, PTL DEF Spec

(* Without a lost reply no call changes its document twice.                *)
THEOREM ExactlyOnce == Spec => []AtMostOnce
  <1>1. ASSUME IndInv PROVE AtMostOnce
    <2> SUFFICES ASSUME NEW r \in Requests, r \notin Doubt,
                        NEW j \in Attempts, NEW k \in Attempts, Took(r, j), Took(r, k)
                 PROVE  j = k
      BY DEF AtMostOnce
    <2>1. ~(j < att[r]) /\ ~(k < att[r])
      BY <1>1 DEF IndInv, NothingLeftBehind, GivenUp
    <2>2. j <= att[r] /\ k <= att[r]
      BY <1>1, MadeAttempt DEF Took
    <2>3. att[r] \in 0 .. MaxAttempts /\ j \in Nat /\ k \in Nat
      BY <1>1, ServiceAssumption DEF IndInv, TypeOK, Attempts
    <2> QED
      BY <2>1, <2>2, <2>3, ServiceAssumption
  <1>2. IndInv => AtMostOnce
    BY <1>1
  <1> QED
    BY <1>2, Invariance, PTL

(* Every document the service stores passes its own strict reader.         *)
THEOREM StoredReadable == Spec => []StoredDocsReadable
  <1>1. IndInv => StoredDocsReadable
    BY DEF IndInv, StoredDocsReadable
  <1> QED
    BY <1>1, Invariance, PTL

(* A profile keeps its creation time and its update time only grows, and   *)
(* documents in a foreign shape are never written nor deleted.             *)
THEOREM DocumentHistory == Spec => DocumentsEvolve
  <1> DEFINE Advance(u) ==
                 {docs[u], docs'[u]} \cap {NoDoc, Foreign} = {} /\ docs'[u] # docs[u] =>
                     /\ docs'[u].created = docs[u].created
                     /\ docs'[u].updated > docs[u].updated
             Keep(u) == docs[u] = Foreign => docs'[u] = Foreign
  <1>1. ASSUME IndInv, [Next]_vars, NEW u \in Users
        PROVE  Advance(u) /\ Keep(u)
    <2>1. CASE docs' = docs
      BY <2>1
    <2>2. ASSUME NEW r \in Requests, NEW k \in Attempts, ServerCommits(r, k)
          PROVE  Advance(u) /\ Keep(u)
      <3> DEFINE old == Doc(r)
                 new == NewDoc(call[r], now[r], Doc(r))
      <3>1. /\ docs' = [docs EXCEPT ![call[r].user] = new]
            /\ docs[call[r].user] = old
        BY <1>1, <2>2, CommitChangesDoc DEF Doc
      <3>2. /\ old # Foreign
            /\ old # NoDoc /\ new # NoDoc =>
                   new.created = old.created /\ new.updated > old.updated
        BY <1>1, <2>2, CommitChangesDoc, WriteEffect
      <3> HIDE DEF old, new
      <3> QED
        BY <1>1, <3>1, <3>2 DEF IndInv, TypeOK
    <2> QED
      BY <1>1, <2>1, <2>2, OnlyCommitsChangeDocs
  <1>2. IndInv /\ [Next]_vars =>
           [\A u \in Users :
               /\ {docs[u], docs'[u]} \cap {NoDoc, Foreign} = {} /\ docs'[u] # docs[u] =>
                      /\ docs'[u].created = docs[u].created
                      /\ docs'[u].updated > docs[u].updated
               /\ docs[u] = Foreign => docs'[u] = Foreign]_vars
    BY <1>1
  <1> QED
    BY <1>2, Invariance, PTL DEF Spec, DocumentsEvolve

(* The request that holds the cell of the client is building it: one that  *)
(* failed, or that its deadline dropped, makes no later request wait. The  *)
(* assumption keeps the names of the requests apart from the states of the *)
(* cell.                                                                   *)
THEOREM NoDeadInitializer ==
    ASSUME {"empty", "ready"} \cap Requests = {}
    PROVE  Spec => []InitializerAlive
  <1>1. Init => InitializerAlive
    BY DEF Init, InitializerAlive
  <1>2. IndInv /\ InitializerAlive /\ [Next]_vars => InitializerAlive'
    BY InitializerStep DEF IndInv
  <1> QED
    BY <1>1, <1>2, Invariance, PTL DEF Spec

(* The service implements its contract: every step of a request, of the    *)
(* server or of the deadline is one step of ProfileContract or changes     *)
(* nothing its callers see. The assumption leaves out an AlreadyExists or  *)
(* NotFound answered before any commit, which no closure explains.         *)
THEOREM ServiceRefinesContract ==
    ASSUME BeginErrors \subseteq {"transient", "backend"}
    PROVE  Spec => ContractSpec
  <1> DEFINE AllTraced == \A r \in Requests : Traced(r)
  <1>1. Init => Contract!Init
    BY SameData DEF Init, Contract!Init, Acts, Doubt, Made
  <1>2. Init => AllTraced
    BY DEF Init, Traced, Refused, Stale, Made
  <1>3. IndInv /\ AllTraced /\ [Next]_vars => AllTraced'
    BY TracedStep
  <1>4. IndInv /\ AllTraced /\ [Next]_vars => [Contract!Next]_(Contract!vars)
    BY StepMaps DEF AbstractStep, Contract!vars
  <1> HIDE DEF AllTraced
  <1> QED
    BY <1>1, <1>2, <1>3, <1>4, Invariance, PTL DEF Spec, ContractSpec, Contract!Spec
=============================================================================

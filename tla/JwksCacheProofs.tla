--------------------------- MODULE JwksCacheProofs ---------------------------
(***************************************************************************)
(* Proofs about JwksCache for every set of requests and keys, every max-age*)
(* bound, cooldown and deadline.                                           *)
(***************************************************************************)
EXTENDS JwksCache, TLAPS

(* The requests other than r keep their local state.                       *)
Others(r) ==
    \A q \in Requests \ {r} :
        /\ pc'[q] = pc[q] /\ kid'[q] = kid[q] /\ started'[q] = started[q]
        /\ now'[q] = now[q] /\ got'[q] = got[q]

(* What the two ways of leaving a step do.                                 *)
LEMMA FinishEffect ==
    ASSUME TypeOK, NEW r \in Requests, NEW res \in Results, Finish(r, res)
    PROVE  /\ pc' \in [Requests -> PCs] /\ kid' \in [Requests -> Keys \cup {NoKey}]
           /\ started' \in [Requests -> 0 .. MaxClock]
           /\ now' \in [Requests -> 0 .. MaxClock]
           /\ got' \in [Requests -> [keys : SUBSET Keys, ttl : Nat]]
           /\ answer' \in [result : Results, kid : Keys \cup {NoKey},
                           started : 0 .. MaxClock]
           /\ pc'[r] = "idle" /\ now'[r] = 0 /\ started'[r] = 0
           /\ answer' = [result |-> res, kid |-> kid[r], started |-> started[r]]
           /\ Others(r)
  <1>1. 0 \in 0 .. MaxClock /\ NoReply \in [keys : SUBSET Keys, ttl : Nat]
    BY CacheAssumption DEF NoReply
  <1>2. "idle" \in PCs
    BY DEF PCs
  <1>3. started[r] \in 0 .. MaxClock /\ kid[r] \in Keys \cup {NoKey}
    BY DEF TypeOK
  <1> QED
    BY <1>1, <1>2, <1>3 DEF Finish, Goto, TypeOK, Others

LEMMA KeyOrRetryTyped ==
    ASSUME NEW k, NEW t
    PROVE  KeyOrRetry(k, t) \in Results
  BY DEF KeyOrRetry, Results

LEMMA NoAnswerTyped ==
    NoAnswer \in [result : Results, kid : Keys \cup {NoKey}, started : 0 .. MaxClock]
  BY CacheAssumption DEF NoAnswer, Results

LEMMA InitIndInv == Init => IndInv
  <1> SUFFICES ASSUME Init PROVE IndInv
    OBVIOUS
  <1>1. TypeOK
    BY CacheAssumption, NoAnswerTyped
       DEF Init, TypeOK, PCs, NoReply, NoFailure, Never
  <1>2. RefreshIsExclusive
    BY CacheAssumption DEF Init, RefreshIsExclusive, Refreshing
  <1>3. Timely
    BY CacheAssumption DEF Init, Timely, Running, Never
  <1>4. RepliesRecent /\ CacheRecent
    BY DEF Init, RepliesRecent, CacheRecent
  <1>5. FailureKept
    BY DEF Init, FailureKept, NoFailure, Never
  <1> QED
    BY <1>1, <1>2, <1>3, <1>4, <1>5 DEF IndInv

LEMMA TypeStep == TypeOK /\ [Next]_vars => TypeOK'
  <1> SUFFICES ASSUME TypeOK, [Next]_vars PROVE TypeOK'
    OBVIOUS
  <1> USE CacheAssumption
  <1>1. \A r \in Requests : /\ now[r] \in 0 .. MaxClock /\ clock \in 0 .. MaxClock
                            /\ 0 \in 0 .. MaxClock
                            /\ got[r] \in [keys : SUBSET Keys, ttl : Nat]
                            /\ got[r].keys \in SUBSET Keys /\ got[r].ttl \in Nat
    BY DEF TypeOK
  <1>2. ASSUME NEW r \in Requests, Invoke(r) PROVE TypeOK'
    BY <1>2, NoAnswerTyped DEF Invoke, ReadClock, Goto, Silent, PCs, TypeOK, state
  <1>3. ASSUME NEW r \in Requests, Check(r) PROVE TypeOK'
    <2>1. CASE GoOn(r, "wait")
      BY <1>3, <2>1, NoAnswerTyped DEF Check, GoOn, Goto, Silent, PCs, TypeOK, state
    <2>2. CASE Finish(r, KeyOrRetry(kid[r], now[r]))
      BY <1>3, <2>2, FinishEffect, KeyOrRetryTyped DEF Check, TypeOK, state
    <2> QED
      BY <1>3, <2>1, <2>2 DEF Check
  <1>4. ASSUME NEW r \in Requests, Acquire(r) PROVE TypeOK'
    BY <1>4, NoAnswerTyped DEF Acquire, ReadClock, Goto, Silent, PCs, TypeOK, state
  <1>5. ASSUME NEW r \in Requests, Recheck(r) PROVE TypeOK'
    <2>1. CASE GoOn(r, "fetch") /\ UNCHANGED guard
      BY <1>5, <2>1, NoAnswerTyped DEF Recheck, GoOn, Goto, Silent, PCs, TypeOK, state
    <2>2. CASE Finish(r, KeyOrRetry(kid[r], now[r])) /\ guard' = NoRequest
      BY <1>5, <2>2, FinishEffect, KeyOrRetryTyped DEF Recheck, TypeOK, state
    <2> QED
      BY <1>5, <2>1, <2>2 DEF Recheck
  <1>6. ASSUME NEW r \in Requests, ProviderReplies(r) PROVE TypeOK'
    <2>1. PICK ttl \in TTLs : got' = [got EXCEPT ![r] = [keys |-> published, ttl |-> ttl]]
      BY <1>6 DEF ProviderReplies
    <2>2. [keys |-> published, ttl |-> ttl] \in [keys : SUBSET Keys, ttl : Nat]
      BY DEF TypeOK
    <2> QED
      BY <1>6, <2>1, <2>2, NoAnswerTyped
         DEF ProviderReplies, Goto, Silent, PCs, TypeOK, state
  <1>7. ASSUME NEW r \in Requests, FetchReturns(r) PROVE TypeOK'
    BY <1>7, NoAnswerTyped DEF FetchReturns, ReadClock, Goto, Silent, PCs, TypeOK, state
  <1>8. ASSUME NEW r \in Requests, FetchFails(r) PROVE TypeOK'
    BY <1>8, NoAnswerTyped DEF FetchFails, ReadClock, Goto, Silent, PCs, TypeOK, state
  <1>9. ASSUME NEW r \in Requests, StoreError(r) PROVE TypeOK'
    <2>1. "certificate_fetch" \in Results
      BY DEF Results
    <2>2. now[r] + Cooldown \in Nat
      BY <1>1
    <2> QED
      BY <1>1, <1>9, <2>1, <2>2, FinishEffect DEF StoreError, TypeOK
  <1>10. ASSUME NEW r \in Requests, Store(r) PROVE TypeOK'
    <2> DEFINE res == IF kid[r] \in got[r].keys THEN "key" ELSE "invalid_token"
    <2>1. res \in Results /\ Finish(r, res)
      BY <1>10 DEF Store, Refreshed, Results
    <2>2. now[r] + Cooldown \in Nat /\ now[r] + got[r].ttl \in Nat
      BY <1>1
    <2>3. cached' \in Cache
      BY <1>1, <1>10, <2>2 DEF Store, Refreshed, Cache
    <2>4. unknownRetry' \in Nat \cup {Never} /\ fetchRetry' \in Nat \cup {Never}
      BY <1>10, <2>2 DEF Store, Refreshed
    <2>5. last' \in [failed : BOOLEAN, at : 0 .. MaxClock]
      BY <1>10 DEF Store, Refreshed, NoFailure
    <2> HIDE DEF res
    <2> QED
      BY <1>10, <2>1, <2>3, <2>4, <2>5, FinishEffect DEF Store, TypeOK
  <1>11. ASSUME NEW r \in Requests, Deadline(r) PROVE TypeOK'
    <2>1. "unavailable" \in Results
      BY DEF Results
    <2> QED
      BY <1>11, <2>1, FinishEffect DEF Deadline, TypeOK, state
  <1>12. ASSUME NEW k \in Rotating, Rotate(k) PROVE TypeOK'
    BY <1>12, NoAnswerTyped DEF Rotate, Silent, TypeOK, state, local
  <1>13. ASSUME Tick PROVE TypeOK'
    BY <1>13, NoAnswerTyped DEF Tick, Silent, TypeOK, state, local
  <1>14. CASE UNCHANGED vars
    BY <1>14 DEF vars, state, local, TypeOK
  <1> QED
    BY <1>2, <1>3, <1>4, <1>5, <1>6, <1>7, <1>8, <1>9, <1>10, <1>11, <1>12, <1>13, <1>14
       DEF Next, Handler

---------------------------------------------------------------------------
(* Which steps touch what.                                                 *)

(* A handler step moves its own request only.                              *)
LEMMA HandlerIsLocal ==
    ASSUME TypeOK, NEW r \in Requests, Handler(r)
    PROVE  Others(r)
  <1>1. CASE Invoke(r)
    BY <1>1 DEF Invoke, ReadClock, Goto, TypeOK, Others
  <1>2. CASE Check(r)
    BY <1>2 DEF Check, GoOn, Finish, Goto, TypeOK, Others
  <1>3. CASE Acquire(r)
    BY <1>3 DEF Acquire, ReadClock, Goto, TypeOK, Others
  <1>4. CASE Recheck(r)
    BY <1>4 DEF Recheck, GoOn, Finish, Goto, TypeOK, Others
  <1>5. CASE ProviderReplies(r)
    BY <1>5 DEF ProviderReplies, Goto, TypeOK, Others
  <1>6. CASE FetchReturns(r)
    BY <1>6 DEF FetchReturns, ReadClock, Goto, TypeOK, Others
  <1>7. CASE FetchFails(r)
    BY <1>7 DEF FetchFails, ReadClock, Goto, TypeOK, Others
  <1>8. CASE Store(r)
    BY <1>8 DEF Store, Refreshed, Finish, Goto, TypeOK, Others
  <1>9. CASE StoreError(r)
    BY <1>9 DEF StoreError, Finish, Goto, TypeOK, Others
  <1>10. CASE Deadline(r)
    BY <1>10 DEF Deadline, Finish, Goto, TypeOK, Others
  <1> QED
    BY <1>1, <1>2, <1>3, <1>4, <1>5, <1>6, <1>7, <1>8, <1>9, <1>10 DEF Handler

(* Time and the provider are not moved by a handler, and the cache only by *)
(* the two ends of a fetch.                                                *)
LEMMA OnlyStoresWrite ==
    ASSUME NEW r \in Requests, Handler(r)
    PROVE  /\ UNCHANGED <<clock, published, since>>
           /\ Store(r) \/ StoreError(r) \/ UNCHANGED state
  BY DEF Handler, Invoke, Check, Acquire, Recheck, ProviderReplies, FetchReturns,
         FetchFails, Store, StoreError, Deadline, state

---------------------------------------------------------------------------
(* The mutex.                                                              *)
LEMMA ExclusiveStep ==
    ASSUME TypeOK, RefreshIsExclusive, [Next]_vars
    PROVE  RefreshIsExclusive'
  <1>1. ASSUME NEW r \in Requests, Handler(r)
        PROVE  RefreshIsExclusive'
    <2>1. Others(r)
      BY <1>1, HandlerIsLocal
    <2>2. CASE UNCHANGED guard /\ (pc[r] \in Refreshing <=> pc'[r] \in Refreshing)
      BY <2>1, <2>2 DEF RefreshIsExclusive, Others
    <2>3. CASE /\ guard = r \/ guard = NoRequest
               /\ guard' = r /\ pc'[r] \in Refreshing
      BY <2>1, <2>3, CacheAssumption DEF RefreshIsExclusive, Others
    <2>4. CASE /\ guard = r \/ guard = NoRequest
               /\ guard' = NoRequest /\ pc'[r] \notin Refreshing
      BY <2>1, <2>4, CacheAssumption DEF RefreshIsExclusive, Others
    <2>5. CASE Invoke(r)
      BY <2>2, <2>5 DEF Invoke, Goto, TypeOK, Refreshing
    <2>6. CASE Check(r)
      BY <2>2, <2>6 DEF Check, GoOn, Finish, Goto, TypeOK, Refreshing
    <2>7. CASE Acquire(r)
      BY <2>3, <2>7 DEF Acquire, Goto, TypeOK, Refreshing
    <2>8. CASE Recheck(r)
      <3>1. guard = r
        BY <2>8 DEF Recheck, RefreshIsExclusive, Refreshing
      <3> QED
        BY <2>2, <2>4, <2>8, <3>1 DEF Recheck, GoOn, Finish, Goto, TypeOK, Refreshing
    <2>9. CASE ProviderReplies(r) \/ FetchReturns(r) \/ FetchFails(r)
      BY <2>2, <2>9 DEF ProviderReplies, FetchReturns, FetchFails, Goto, TypeOK, Refreshing
    <2>10. CASE Store(r) \/ StoreError(r)
      <3>1. guard = r
        BY <2>10 DEF Store, StoreError, RefreshIsExclusive, Refreshing
      <3> QED
        BY <2>4, <2>10, <3>1
           DEF Store, Refreshed, StoreError, Finish, Goto, TypeOK, Refreshing
    <2>11. CASE Deadline(r)
      <3>1. pc'[r] \notin Refreshing
        BY <2>11 DEF Deadline, Finish, Goto, TypeOK, Refreshing
      <3>2. CASE guard = r
        BY <2>4, <2>11, <3>1, <3>2 DEF Deadline
      <3>3. CASE guard # r
        BY <2>2, <2>11, <3>1, <3>3 DEF Deadline, RefreshIsExclusive
      <3> QED
        BY <3>2, <3>3
    <2> QED
      BY <1>1, <2>5, <2>6, <2>7, <2>8, <2>9, <2>10, <2>11 DEF Handler
  <1>2. CASE Tick \/ (\E k \in Rotating : Rotate(k)) \/ UNCHANGED vars
    BY <1>2 DEF Tick, Rotate, vars, local, RefreshIsExclusive
  <1> QED
    BY <1>1, <1>2 DEF Next

---------------------------------------------------------------------------
(* Time.                                                                   *)
LEMMA TimelyStep ==
    ASSUME TypeOK, Timely, RepliesRecent, [Next]_vars
    PROVE  Timely'
  <1> USE CacheAssumption
  <1> DEFINE Own(r) == /\ now[r] <= clock /\ started[r] <= clock
                       /\ Running(r) => clock <= started[r] + Timeout
                       /\ pc[r] \in {"check", "recheck", "store", "failed"} =>
                              started[r] <= now[r]
             Shared == /\ cached # NoCache => cached.expires <= clock + MaxTTL
                       /\ unknownRetry <= clock + Cooldown
  <1>1. /\ clock \in Nat /\ unknownRetry \in Nat \cup {-1}
        /\ cached # NoCache => cached.expires \in Nat
        /\ \A r \in Requests : now[r] \in Nat /\ started[r] \in Nat
        /\ \A k \in Keys : since[k] \in Nat
    BY DEF TypeOK, Cache, Never
  <1>2. ASSUME NEW r \in Requests, Handler(r)
        PROVE  Timely'
    <2>1. Others(r) /\ UNCHANGED <<clock, since>>
      BY <1>2, HandlerIsLocal, OnlyStoresWrite
    <2>2. Own(r)'
      <3>1. CASE Invoke(r) \/ Acquire(r)
        BY <1>1, <3>1 DEF Invoke, Acquire, ReadClock, Goto, TypeOK, Timely, Running
      <3>2. CASE FetchReturns(r) \/ FetchFails(r)
        BY <1>1, <3>2 DEF FetchReturns, FetchFails, ReadClock, Goto, TypeOK, Timely, Running
      <3>3. CASE ProviderReplies(r)
        BY <1>1, <3>3 DEF ProviderReplies, Goto, TypeOK, Timely, Running
      <3>4. ASSUME NEW label \in {"wait", "fetch"}, pc[r] # "idle", GoOn(r, label),
                   UNCHANGED clock
            PROVE  Own(r)'
        BY <1>1, <3>4 DEF GoOn, Goto, TypeOK, Timely, Running
      <3>5. ASSUME NEW res, Finish(r, res), UNCHANGED clock
            PROVE  Own(r)'
        BY <1>1, <3>5 DEF Finish, Goto, TypeOK, Timely, Running
      <3>6. CASE Check(r) \/ Recheck(r)
        BY <3>4, <3>5, <3>6 DEF Check, Recheck
      <3>7. CASE Store(r) \/ StoreError(r) \/ Deadline(r)
        BY <2>1, <3>5, <3>7 DEF Store, Refreshed, StoreError, Deadline
      <3> QED
        BY <1>2, <3>1, <3>2, <3>3, <3>6, <3>7 DEF Handler
    <2>3. Shared'
      <3>1. CASE Store(r)
        <4>1. now[r] <= clock /\ got[r].ttl <= MaxTTL /\ got[r].ttl \in Nat
          BY <3>1 DEF Store, Timely, RepliesRecent, TypeOK
        <4>2. clock' = clock
          BY <2>1
        <4>3. cached'.expires <= clock' + MaxTTL
          BY <1>1, <3>1, <4>1, <4>2 DEF Store, Refreshed
        <4>4. unknownRetry' <= clock' + Cooldown
          BY <1>1, <3>1, <4>1, <4>2 DEF Store, Refreshed, Never
        <4> QED
          BY <4>3, <4>4
      <3>2. CASE StoreError(r)
        BY <3>2 DEF StoreError, Timely
      <3>3. CASE UNCHANGED state
        BY <2>1, <3>3 DEF state, Timely
      <3> QED
        BY <1>2, <3>1, <3>2, <3>3, OnlyStoresWrite
    <2>4. \A q \in Requests \ {r} : Own(q)'
      BY <2>1 DEF Others, Timely, Running
    <2> QED
      BY <2>1, <2>2, <2>3, <2>4 DEF Timely
  <1>3. CASE Tick
    <2>1. clock' = clock + 1 /\ UNCHANGED <<since, state, local>>
      BY <1>3 DEF Tick
    <2>2. \A r \in Requests : Own(r)'
      BY <1>1, <1>3, <2>1 DEF Tick, Timely, local, Running
    <2>3. Shared'
      BY <1>1, <2>1 DEF Timely, state
    <2>4. \A k \in Keys : since'[k] <= clock'
      BY <1>1, <2>1 DEF Timely
    <2> QED
      BY <2>2, <2>3, <2>4 DEF Timely
  <1>4. ASSUME NEW k \in Rotating, Rotate(k)
        PROVE  Timely'
    <2>1. UNCHANGED <<clock, state, local>>
      BY <1>4 DEF Rotate
    <2>2. \A j \in Keys : since'[j] <= clock'
      BY <1>1, <1>4, <2>1 DEF Rotate, TypeOK, Timely
    <2> QED
      BY <2>1, <2>2 DEF Timely, state, local, Running
  <1>5. CASE UNCHANGED vars
    BY <1>5 DEF vars, state, local, Timely, Running
  <1> QED
    BY <1>2, <1>3, <1>4, <1>5 DEF Next

---------------------------------------------------------------------------
(* How far a response and the cache can lag behind the provider.           *)
Recent(r) ==
    pc[r] \in {"reply", "store"} =>
        /\ got[r].ttl <= MaxTTL
        /\ \A k \in Keys : (k \in got[r].keys) # (k \in published) =>
               started[r] <= since[k]

LEMMA RepliesStep ==
    ASSUME TypeOK, Timely, RepliesRecent, [Next]_vars
    PROVE  RepliesRecent'
  <1> USE CacheAssumption
  <1>1. ASSUME NEW r \in Requests, Handler(r)
        PROVE  RepliesRecent'
    <2>1. Others(r) /\ UNCHANGED <<published, since>>
      BY <1>1, HandlerIsLocal, OnlyStoresWrite
    <2>2. Recent(r)'
      <3>1. CASE pc'[r] \notin {"reply", "store"}
        BY <3>1 DEF Recent
      <3>2. CASE ProviderReplies(r)
        <4>1. PICK ttl \in TTLs :
                  got' = [got EXCEPT ![r] = [keys |-> published, ttl |-> ttl]]
          BY <3>2 DEF ProviderReplies
        <4>2. got'[r] = [keys |-> published, ttl |-> ttl]
          BY <4>1 DEF TypeOK
        <4>3. got'[r].ttl <= MaxTTL /\ got'[r].keys = published'
          BY <2>1, <4>1, <4>2
        <4> QED
          BY <4>3 DEF Recent
      <3>3. CASE FetchReturns(r)
        BY <2>1, <3>3 DEF FetchReturns, Goto, TypeOK, RepliesRecent, Recent
      <3>4. CASE ~ProviderReplies(r) /\ ~FetchReturns(r)
        <4>1. pc'[r] \notin {"reply", "store"}
          BY <1>1, <3>4
             DEF Handler, Invoke, Check, Acquire, Recheck, FetchFails, Store, Refreshed,
                 StoreError, Deadline, GoOn, Finish, Goto, TypeOK
        <4> QED
          BY <3>1, <4>1
      <3> QED
        BY <3>2, <3>3, <3>4
    <2>3. \A q \in Requests \ {r} : Recent(q)'
      BY <2>1 DEF Others, RepliesRecent, Recent
    <2> QED
      BY <2>2, <2>3 DEF RepliesRecent, Recent
  <1>2. ASSUME NEW j \in Rotating, Rotate(j)
        PROVE  RepliesRecent'
    <2>1. UNCHANGED local
      BY <1>2 DEF Rotate
    <2>2. /\ \A k \in Keys \ {j} :
                 since'[k] = since[k] /\ (k \in published' <=> k \in published)
          /\ since'[j] = clock
      BY <1>2 DEF Rotate, TypeOK
    <2>3. \A r \in Requests : started[r] <= clock
      BY DEF Timely
    <2> QED
      BY <2>1, <2>2, <2>3 DEF RepliesRecent, local
  <1>3. CASE Tick \/ UNCHANGED vars
    BY <1>3 DEF Tick, vars, local, RepliesRecent
  <1> QED
    BY <1>1, <1>2, <1>3 DEF Next

LEMMA CacheStep ==
    ASSUME TypeOK, Timely, RepliesRecent, CacheRecent, [Next]_vars
    PROVE  CacheRecent'
  <1> USE CacheAssumption
  <1>1. /\ clock \in Nat /\ unknownRetry \in Nat \cup {-1}
        /\ cached # NoCache => cached.expires \in Nat
        /\ \A r \in Requests : now[r] \in Nat /\ started[r] \in Nat /\ got[r].ttl \in Nat
        /\ \A k \in Keys : since[k] \in Nat
    BY DEF TypeOK, Cache, Never
  <1>2. ASSUME NEW r \in Requests, Store(r)
        PROVE  CacheRecent'
    <2>1. UNCHANGED <<clock, published, since>>
      BY <1>2 DEF Store
    <2>2. /\ cached' = [keys |-> got[r].keys, expires |-> now[r] + got[r].ttl]
          /\ unknownRetry' = -1 \/ unknownRetry' = now[r] + Cooldown
      BY <1>2 DEF Store, Refreshed, Never
    <2>3. got[r].ttl <= MaxTTL
      BY <1>2 DEF Store, RepliesRecent
    <2>4. ASSUME NEW k \in Keys, (k \in got[r].keys) # (k \in published)
          PROVE  now[r] <= since[k] + Timeout
      <3>1. started[r] <= since[k]
        BY <1>2, <2>4 DEF Store, RepliesRecent
      <3>2. now[r] <= clock /\ clock <= started[r] + Timeout
        BY <1>2 DEF Store, Timely, Running
      <3> QED
        BY <1>1, <3>1, <3>2
    <2>5. ASSUME NEW k \in Keys, k \in got[r].keys, k \notin published
          PROVE  now[r] + got[r].ttl <= since[k] + MaxTTL + Timeout
      BY <1>1, <2>3, <2>4, <2>5
    <2>6. ASSUME NEW k \in Keys, k \notin got[r].keys, k \in published
          PROVE  unknownRetry' <= since[k] + Cooldown + Timeout
      <3>1. now[r] <= since[k] + Timeout
        BY <2>4, <2>6
      <3> QED
        BY <1>1, <2>2, <3>1
    <2> QED
      BY <2>1, <2>2, <2>5, <2>6 DEF CacheRecent
  <1>3. ASSUME UNCHANGED <<published, since, cached, unknownRetry>>
        PROVE  CacheRecent'
    BY <1>3 DEF CacheRecent
  <1>4. ASSUME NEW r \in Requests, Handler(r)
        PROVE  CacheRecent'
    <2>1. CASE StoreError(r)
      BY <1>3, <2>1 DEF StoreError
    <2>2. CASE UNCHANGED state
      BY <1>3, <1>4, <2>2, OnlyStoresWrite DEF state
    <2> QED
      BY <1>2, <1>4, <2>1, <2>2, OnlyStoresWrite
  <1>5. ASSUME NEW j \in Rotating, Rotate(j)
        PROVE  CacheRecent'
    <2>1. UNCHANGED <<cached, unknownRetry>>
      BY <1>5 DEF Rotate, state
    <2>2. /\ \A k \in Keys \ {j} :
                 since'[k] = since[k] /\ (k \in published' <=> k \in published)
          /\ since'[j] = clock
      BY <1>5 DEF Rotate, TypeOK
    <2>3. /\ cached # NoCache => cached.expires <= clock + MaxTTL + Timeout
          /\ unknownRetry <= clock + Cooldown + Timeout
      BY <1>1 DEF Timely
    <2> QED
      BY <2>1, <2>2, <2>3 DEF CacheRecent
  <1>6. CASE Tick \/ UNCHANGED vars
    BY <1>3, <1>6 DEF Tick, vars, state
  <1> QED
    BY <1>4, <1>5, <1>6 DEF Next

LEMMA FailureStep ==
    ASSUME FailureKept, [Next]_vars
    PROVE  FailureKept'
  <1>1. ASSUME NEW r \in Requests, Store(r)
        PROVE  FailureKept'
    BY <1>1 DEF Store, Refreshed, NoFailure, FailureKept
  <1>2. ASSUME NEW r \in Requests, StoreError(r)
        PROVE  FailureKept'
    BY <1>2 DEF StoreError, FailureKept
  <1>3. ASSUME UNCHANGED state
        PROVE  FailureKept'
    BY <1>3 DEF state, FailureKept
  <1>4. CASE Tick \/ (\E k \in Rotating : Rotate(k)) \/ UNCHANGED vars
    BY <1>3, <1>4 DEF Tick, Rotate, vars
  <1> QED
    BY <1>1, <1>2, <1>3, <1>4, OnlyStoresWrite DEF Next

---------------------------------------------------------------------------
(* The theorems.                                                           *)

(* The inductive invariant: the cache and every response under way lag     *)
(* behind the provider by less than a deadline.                            *)
THEOREM Invariance == Spec => []IndInv
  <1>1. IndInv /\ [Next]_vars => IndInv'
    <2> SUFFICES ASSUME IndInv, [Next]_vars PROVE IndInv'
      OBVIOUS
    <2>1. TypeOK'
      BY TypeStep DEF IndInv
    <2>2. RefreshIsExclusive'
      BY ExclusiveStep DEF IndInv
    <2>3. Timely'
      BY TimelyStep DEF IndInv
    <2>4. RepliesRecent'
      BY RepliesStep DEF IndInv
    <2>5. CacheRecent'
      BY CacheStep DEF IndInv
    <2>6. FailureKept'
      BY FailureStep DEF IndInv
    <2> QED
      BY <2>1, <2>2, <2>3, <2>4, <2>5, <2>6 DEF IndInv
  <1> QED
    BY <1>1, InitIndInv, PTL DEF Spec

(* What the cache answers at either look, and how late it can be.          *)
LEMMA AnswersFromCache ==
    ASSUME IndInv, NEW r \in Requests, NEW k, pc[r] \in {"check", "recheck"}
    PROVE  /\ KeyOrRetry(k, now[r]) = "key" /\ k \notin published =>
                  started[r] <= since[k] + MaxTTL + Timeout
           /\ KeyOrRetry(k, now[r]) = "invalid_token" /\ k \in published =>
                  started[r] <= since[k] + Cooldown + Timeout
  <1>1. /\ unknownRetry \in Nat \cup {-1}
        /\ cached # NoCache => cached.expires \in Nat
        /\ now[r] \in Nat /\ started[r] \in Nat /\ \A q \in Keys : since[q] \in Nat
        /\ cached # NoCache => cached.keys \subseteq Keys
        /\ published \subseteq Keys
    BY DEF IndInv, TypeOK, Cache, Never
  <1>2. started[r] <= now[r]
    BY DEF IndInv, Timely
  <1>3. ASSUME KeyOrRetry(k, now[r]) = "key", k \notin published
        PROVE  started[r] <= since[k] + MaxTTL + Timeout
    <2>1. cached # NoCache /\ now[r] < cached.expires /\ k \in cached.keys /\ k \in Keys
      BY <1>1, <1>3 DEF KeyOrRetry, IsFresh
    <2>2. cached.expires <= since[k] + MaxTTL + Timeout
      BY <1>3, <2>1 DEF IndInv, CacheRecent
    <2> QED
      BY <1>1, <1>2, <2>1, <2>2, CacheAssumption
  <1>4. ASSUME KeyOrRetry(k, now[r]) = "invalid_token", k \in published
        PROVE  started[r] <= since[k] + Cooldown + Timeout
    <2>1. cached # NoCache /\ k \notin cached.keys /\ now[r] < unknownRetry /\ k \in Keys
      BY <1>1, <1>4 DEF KeyOrRetry, IsFresh
    <2>2. unknownRetry <= since[k] + Cooldown + Timeout
      BY <1>4, <2>1 DEF IndInv, CacheRecent
    <2> QED
      BY <1>1, <1>2, <2>1, <2>2, CacheAssumption
  <1> QED
    BY <1>3, <1>4

(* The state keeps its types.                                              *)
THEOREM TypeCorrect == Spec => []TypeOK
  <1>1. IndInv => TypeOK
    BY DEF IndInv
  <1> QED
    BY <1>1, Invariance, PTL

(* At most one request refreshes, and the mutex is never left behind by a  *)
(* request whose deadline dropped it.                                      *)
THEOREM Exclusion == Spec => []RefreshIsExclusive
  <1>1. IndInv => RefreshIsExclusive
    BY DEF IndInv
  <1> QED
    BY <1>1, Invariance, PTL

(* A withdrawn key is refused to every request that began a deadline and a *)
(* lifetime after its withdrawal, and a published one is not called        *)
(* invalid to a request that began a deadline and a cooldown after its     *)
(* publication.                                                            *)
THEOREM KeysFollowRotation == Spec => [](WithdrawnKeysRefused /\ PublishedKeysAccepted)
  <1> USE CacheAssumption
  <1> DEFINE P == WithdrawnKeysRefused /\ PublishedKeysAccepted
  <1>1. Init => P
    BY DEF Init, NoAnswer, WithdrawnKeysRefused, PublishedKeysAccepted
  <1>2. ASSUME IndInv, P, [Next]_vars PROVE P'
    <2>1. ASSUME Silent PROVE P'
      BY <2>1 DEF Silent, NoAnswer, WithdrawnKeysRefused, PublishedKeysAccepted
    <2>2. ASSUME NEW r \in Requests, NEW res, Finish(r, res), UNCHANGED <<published, since>>,
                 res = "key" /\ kid[r] \notin published =>
                     started[r] <= since[kid[r]] + MaxTTL + Timeout,
                 res = "invalid_token" /\ kid[r] \in published =>
                     started[r] <= since[kid[r]] + Cooldown + Timeout
          PROVE  P'
      BY <2>2 DEF Finish, WithdrawnKeysRefused, PublishedKeysAccepted
    <2>3. ASSUME NEW r \in Requests, Check(r) \/ Recheck(r)
          PROVE  P'
      <3>1. pc[r] \in {"check", "recheck"} /\ UNCHANGED <<published, since>>
        BY <2>3 DEF Check, Recheck
      <3>2. CASE Silent
        BY <2>1, <3>2
      <3>3. CASE Finish(r, KeyOrRetry(kid[r], now[r]))
        BY <1>2, <2>2, <3>1, <3>3, AnswersFromCache
      <3> QED
        BY <2>3, <3>2, <3>3 DEF Check, Recheck, GoOn
    <2>4. ASSUME NEW r \in Requests, Store(r)
          PROVE  P'
      <3> DEFINE res == IF kid[r] \in got[r].keys THEN "key" ELSE "invalid_token"
      <3>1. Finish(r, res) /\ UNCHANGED <<published, since>>
        BY <2>4 DEF Store, Refreshed
      <3>2. got[r].keys \subseteq Keys /\ published \subseteq Keys /\ started[r] \in Nat
            /\ \A k \in Keys : since[k] \in Nat
        BY <1>2 DEF IndInv, TypeOK
      <3>3. ASSUME (kid[r] \in got[r].keys) # (kid[r] \in published)
            PROVE  kid[r] \in Keys /\ started[r] <= since[kid[r]]
        BY <1>2, <2>4, <3>2, <3>3 DEF Store, IndInv, RepliesRecent
      <3>4. ASSUME (kid[r] \in got[r].keys) # (kid[r] \in published)
            PROVE  /\ started[r] <= since[kid[r]] + MaxTTL + Timeout
                   /\ started[r] <= since[kid[r]] + Cooldown + Timeout
        BY <3>2, <3>3, <3>4
      <3>5. /\ res = "key" <=> kid[r] \in got[r].keys
            /\ res = "invalid_token" <=> kid[r] \notin got[r].keys
        OBVIOUS
      <3> HIDE DEF res
      <3> QED
        BY <2>2, <3>1, <3>4, <3>5
    <2>5. ASSUME NEW r \in Requests, NEW res \in {"certificate_fetch", "unavailable"},
                 Finish(r, res)
          PROVE  P'
      BY <2>5 DEF Finish, WithdrawnKeysRefused, PublishedKeysAccepted
    <2>6. ASSUME NEW r \in Requests, Handler(r)
          PROVE  P'
      BY <2>1, <2>3, <2>4, <2>5, <2>6
         DEF Handler, Invoke, Acquire, ProviderReplies, FetchReturns, FetchFails,
             StoreError, Deadline
    <2>7. CASE Tick \/ (\E k \in Rotating : Rotate(k))
      BY <2>1, <2>7 DEF Tick, Rotate
    <2>8. CASE UNCHANGED vars
      BY <1>2, <2>8 DEF vars, WithdrawnKeysRefused, PublishedKeysAccepted
    <2> QED
      BY <1>2, <2>6, <2>7, <2>8 DEF Next
  <1>3. IndInv /\ P /\ [Next]_vars => P'
    BY <1>2
  <1> HIDE DEF P
  <1> QED
    BY <1>1, <1>3, Invariance, PTL DEF Spec, P

---------------------------------------------------------------------------
(* The actions that start a fetch and that answer a recorded failure.      *)

(* Those who waited for a refresh never repeat it, and a failure recorded  *)
(* by an earlier fetch is not answered once a fetch succeeded.             *)
THEOREM FetchesAreRationed == Spec => FetchesAreNeeded /\ NoStaleFailure
  <1> USE CacheAssumption
  <1> DEFINE Needed(r) == /\ ~(IsFresh(clock) /\ kid[r] \in cached.keys)
                          /\ last.failed => clock >= last.at + Cooldown
                          /\ IsFresh(clock) => clock >= unknownRetry
             Starts(r) == pc[r] # "fetch" /\ pc'[r] = "fetch"
             Reports(r) == /\ pc[r] \in {"check", "recheck"} /\ pc'[r] = "idle"
                           /\ answer'.result = "certificate_fetch"
  <1>1. ASSUME IndInv, [Next]_vars, NEW r \in Requests
        PROVE  (Starts(r) => Needed(r)) /\ (Reports(r) => last.failed)
    <2>1. CASE pc' = pc
      BY <2>1
    <2>2. CASE \E q \in Requests \ {r} : Handler(q)
      <3>1. pc'[r] = pc[r]
        BY <1>1, <2>2, HandlerIsLocal DEF IndInv, Others
      <3> QED
        BY <3>1
    <2>3. CASE Recheck(r) /\ Starts(r)
      <3>1. KeyOrRetry(kid[r], now[r]) = "none"
        BY <1>1, <2>3 DEF Recheck, Finish, Goto, IndInv, TypeOK
      <3>2. /\ clock \in Nat /\ now[r] \in Nat /\ now[r] <= clock
            /\ unknownRetry \in Nat \cup {-1}
            /\ cached # NoCache => cached.expires \in Nat
            /\ last.at \in Nat
        BY <1>1 DEF IndInv, TypeOK, Timely, Cache, Never
      <3>3. IsFresh(clock) => IsFresh(now[r])
        BY <3>2 DEF IsFresh
      <3>4. ~(IsFresh(now[r]) /\ kid[r] \in cached.keys)
        BY <3>1 DEF KeyOrRetry
      <3>5. ~(fetchRetry # Never /\ now[r] < fetchRetry)
        BY <3>1 DEF KeyOrRetry
      <3>6. ~(IsFresh(now[r]) /\ unknownRetry # Never /\ now[r] < unknownRetry)
        BY <3>1 DEF KeyOrRetry
      <3>7. last.failed => clock >= last.at + Cooldown
        BY <1>1, <3>2, <3>5 DEF IndInv, FailureKept, Never
      <3>8. IsFresh(clock) => clock >= unknownRetry
        BY <3>2, <3>3, <3>6 DEF Never
      <3> QED
        BY <2>3, <3>3, <3>4, <3>7, <3>8
    <2>4. CASE (Check(r) \/ Recheck(r)) /\ Reports(r)
      <3>1. KeyOrRetry(kid[r], now[r]) = "certificate_fetch"
        BY <1>1, <2>4 DEF Check, Recheck, GoOn, Goto, Finish, IndInv, TypeOK
      <3> QED
        BY <1>1, <2>4, <3>1 DEF KeyOrRetry, IndInv, FailureKept
    <2>5. ASSUME Handler(r), ~Recheck(r), Starts(r)
          PROVE  FALSE
      BY <1>1, <2>5
         DEF Handler, Invoke, Check, Acquire, ProviderReplies, FetchReturns, FetchFails,
             Store, Refreshed, StoreError, Deadline, GoOn, Finish, Goto, IndInv, TypeOK
    <2>6. ASSUME Handler(r), ~Check(r), ~Recheck(r), Reports(r)
          PROVE  FALSE
      BY <1>1, <2>6
         DEF Handler, Invoke, Acquire, ProviderReplies, FetchReturns, FetchFails,
             Store, Refreshed, StoreError, Deadline, Finish, Goto, IndInv, TypeOK
    <2>7. CASE Tick \/ (\E k \in Rotating : Rotate(k)) \/ UNCHANGED vars
      BY <2>1, <2>7 DEF Tick, Rotate, vars, local
    <2>8. CASE Handler(r) /\ Starts(r)
      BY <2>3, <2>5, <2>8
    <2>9. CASE Handler(r) /\ Reports(r)
      BY <2>4, <2>6, <2>9
    <2> QED
      BY <1>1, <2>2, <2>7, <2>8, <2>9 DEF Next
  <1>2. IndInv /\ [Next]_vars =>
            [\A r \in Requests :
                pc[r] # "fetch" /\ pc'[r] = "fetch" =>
                    /\ ~(IsFresh(clock) /\ kid[r] \in cached.keys)
                    /\ last.failed => clock >= last.at + Cooldown
                    /\ IsFresh(clock) => clock >= unknownRetry]_vars
    BY <1>1
  <1>3. IndInv /\ [Next]_vars =>
            [\A r \in Requests :
                /\ pc[r] \in {"check", "recheck"}
                /\ pc'[r] = "idle"
                /\ answer'.result = "certificate_fetch"
                => last.failed]_vars
    BY <1>1
  <1> QED
    BY <1>2, <1>3, Invariance, PTL DEF Spec, FetchesAreNeeded, NoStaleFailure

(* A published key is not called invalid to a request that began a cooldown*)
(* and a deadline after its publication: rotated keys are never locked out.*)
THEOREM PublishedKeysComeIn == Spec => []PublishedKeysAccepted
  BY KeysFollowRotation, PTL

(* A recorded failure to fetch is answered to others only until a fetch    *)
(* succeeds.                                                               *)
THEOREM FailuresAreCurrent == Spec => NoStaleFailure
  BY FetchesAreRationed
=============================================================================

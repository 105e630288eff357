------------------------------ MODULE JwksCache ------------------------------
(***************************************************************************)
(* GoogleJwksClient: the signing keys that every token verification needs, *)
(* cached until they expire and refreshed by one request at a time under a *)
(* mutex, with a cooldown after a failed fetch and after a fetch that did  *)
(* not know the key. The provider rotates its keys and answers late; every *)
(* request runs under the deadline of AuthVerifier::verify. Time is a      *)
(* clock of ticks; a request reads it into now and acts on that value      *)
(* later, after the awaits in between.                                     *)
(***************************************************************************)
EXTENDS Integers

CONSTANTS
    Requests,   \* slots of concurrent verifications, reused call after call
    Keys,       \* key ids
    NoKey,      \* no key id
    NoRequest,  \* the refresh mutex is free
    NoCache,    \* nothing was fetched yet
    Rotating,   \* the keys the provider may publish or withdraw
    TTLs,       \* the max-age values the provider may send
    MaxTTL,     \* the largest of them
    Cooldown,   \* JWKS_RETRY_COOLDOWN
    Timeout,    \* AUTH_OPERATION_TIMEOUT
    MaxClock    \* bound on the clock

ASSUME CacheAssumption ==
    /\ Rotating \subseteq Keys
    /\ NoKey \notin Keys /\ NoRequest \notin Requests
    /\ TTLs \subseteq Nat /\ MaxTTL \in Nat /\ \A t \in TTLs : t <= MaxTTL
    /\ Cooldown \in Nat /\ Timeout \in Nat /\ MaxClock \in Nat

Never == -1
Cache == [keys : SUBSET Keys, expires : Nat]

ASSUME NoCacheAssumption == NoCache \notin Cache

VARIABLES
    clock,      \* Instant::now()
    published,  \* the keys the provider publishes
    since,      \* when each key was published last, or withdrawn last
    cached,     \* JwksState::cached
    fetchRetry, \* JwksState::fetch_retry, or Never for None
    unknownRetry, \* JwksState::unknown_key_retry_after, or Never for None
    guard,      \* the holder of the refresh mutex
    pc,         \* where each request is
    kid,        \* the key it needs
    started,    \* when its deadline began to run
    now,        \* the instant it read last
    got,        \* the keys and the max-age of the response to its fetch
    answer,     \* history: the answer the last step gave, to what and since when
    last        \* history: whether the last completed fetch failed, and when

state == <<cached, fetchRetry, unknownRetry, last>>
local == <<pc, kid, started, now, got>>
vars == <<clock, published, since, state, guard, local, answer>>

PCs == {"idle", "check", "wait", "recheck", "fetch", "reply", "store", "failed"}
Results == {"none", "key", "invalid_token", "certificate_fetch", "unavailable"}
NoReply == [keys |-> {}, ttl |-> 0]
NoFailure == [failed |-> FALSE, at |-> 0]
NoAnswer == [result |-> "none", kid |-> NoKey, started |-> 0]

Init ==
    /\ clock = 0
    /\ published \in SUBSET Keys
    /\ since = [k \in Keys |-> 0]
    /\ cached = NoCache
    /\ fetchRetry = Never
    /\ unknownRetry = Never
    /\ guard = NoRequest
    /\ pc = [r \in Requests |-> "idle"]
    /\ kid = [r \in Requests |-> NoKey]
    /\ started = [r \in Requests |-> 0]
    /\ now = [r \in Requests |-> 0]
    /\ got = [r \in Requests |-> NoReply]
    /\ answer = NoAnswer
    /\ last = NoFailure

---------------------------------------------------------------------------
(* JwksState::key_or_retry. "none" is its None: the caller goes on.        *)
IsFresh(t) == cached # NoCache /\ t < cached.expires

KeyOrRetryNoCooldownEnd(k, t) ==                               \* mutant
    IF IsFresh(t) /\ k \in cached.keys THEN "key"
    ELSE IF fetchRetry # Never /\ t < fetchRetry THEN "certificate_fetch"
    ELSE IF unknownRetry # Never THEN "invalid_token"
    ELSE "none"
KeyOrRetryNoExpiry(k, t) ==                                    \* mutant
    IF cached # NoCache /\ k \in cached.keys THEN "key"
    ELSE IF fetchRetry # Never /\ t < fetchRetry THEN "certificate_fetch"
    ELSE IF IsFresh(t) /\ unknownRetry # Never /\ t < unknownRetry THEN "invalid_token"
    ELSE "none"
KeyOrRetry(k, t) ==
    IF IsFresh(t) /\ k \in cached.keys THEN "key"
    ELSE IF fetchRetry # Never /\ t < fetchRetry THEN "certificate_fetch"
    ELSE IF IsFresh(t) /\ unknownRetry # Never /\ t < unknownRetry THEN "invalid_token"
    ELSE "none"

Running(r) == pc[r] # "idle"
Silent == answer' = NoAnswer
Goto(r, label) == pc' = [pc EXCEPT ![r] = label]
Finish(r, res) ==
    /\ Goto(r, "idle")
    /\ answer' = [result |-> res, kid |-> kid[r], started |-> started[r]]
    /\ kid' = [kid EXCEPT ![r] = NoKey]
    /\ started' = [started EXCEPT ![r] = 0]
    /\ now' = [now EXCEPT ![r] = 0]
    /\ got' = [got EXCEPT ![r] = NoReply]
GoOn(r, label) == \* now is not used again before it is read again
    /\ Goto(r, label)
    /\ now' = [now EXCEPT ![r] = 0]
    /\ Silent /\ UNCHANGED <<kid, started, got>>
ReadClock(r) == now' = [now EXCEPT ![r] = clock]

(* A verification begins: its token names a key; the clock is read.        *)
Invoke(r) ==
    /\ pc[r] = "idle"
    /\ \E k \in Keys : kid' = [kid EXCEPT ![r] = k]
    /\ started' = [started EXCEPT ![r] = clock]
    /\ ReadClock(r)
    /\ Goto(r, "check")
    /\ Silent /\ UNCHANGED <<clock, published, since, state, guard, got>>

(* The first look at the cache, under the read lock.                       *)
Check(r) ==
    /\ pc[r] = "check"
    /\ LET res == KeyOrRetry(kid[r], now[r])
       IN  IF res = "none" THEN GoOn(r, "wait") ELSE Finish(r, res)
    /\ UNCHANGED <<clock, published, since, state, guard>>

(* The refresh mutex, and the clock again.                                 *)
Acquire(r) ==
    /\ pc[r] = "wait"
    /\ guard = NoRequest
    /\ guard' = r
    /\ ReadClock(r)
    /\ Goto(r, "recheck")
    /\ Silent /\ UNCHANGED <<clock, published, since, state, kid, started, got>>

(* The second look: another request may have refreshed while it waited.    *)
RecheckNothing(r) ==                                           \* mutant
    /\ pc[r] = "recheck"
    /\ GoOn(r, "fetch")
    /\ UNCHANGED <<clock, published, since, state, guard>>
Recheck(r) ==
    /\ pc[r] = "recheck"
    /\ LET res == KeyOrRetry(kid[r], now[r])
       IN  IF res = "none"
           THEN GoOn(r, "fetch") /\ UNCHANGED guard
           ELSE Finish(r, res) /\ guard' = NoRequest
    /\ UNCHANGED <<clock, published, since, state>>

(* The provider answers with the keys it publishes now; the answer travels *)
(* for a while, or the fetch fails.                                        *)
ProviderReplies(r) ==
    /\ pc[r] = "fetch"
    /\ \E ttl \in TTLs : got' = [got EXCEPT ![r] = [keys |-> published, ttl |-> ttl]]
    /\ Goto(r, "reply")
    /\ Silent /\ UNCHANGED <<clock, published, since, state, guard, kid, started, now>>

FetchReturns(r) ==
    /\ pc[r] = "reply"
    /\ ReadClock(r)
    /\ Goto(r, "store")
    /\ Silent /\ UNCHANGED <<clock, published, since, state, guard, kid, started, got>>

FetchFails(r) ==
    /\ pc[r] \in {"fetch", "reply"}
    /\ ReadClock(r)
    /\ Goto(r, "failed")
    /\ Silent /\ UNCHANGED <<clock, published, since, state, guard, kid, started, got>>

(* The rest of key_for under the write lock, on the instant read when the  *)
(* fetch returned.                                                         *)
StoreErrorSilently(r) ==                                       \* mutant
    /\ pc[r] = "failed"
    /\ last' = [failed |-> TRUE, at |-> now[r]]
    /\ guard' = NoRequest
    /\ Finish(r, "certificate_fetch")
    /\ UNCHANGED <<clock, published, since, cached, fetchRetry, unknownRetry>>
StoreError(r) ==
    /\ pc[r] = "failed"
    /\ fetchRetry' = now[r] + Cooldown
    /\ last' = [failed |-> TRUE, at |-> now[r]]
    /\ guard' = NoRequest
    /\ Finish(r, "certificate_fetch")
    /\ UNCHANGED <<clock, published, since, cached, unknownRetry>>

Refreshed(r) ==
    /\ cached' = [keys |-> got[r].keys, expires |-> now[r] + got[r].ttl]
    /\ unknownRetry' = IF kid[r] \in got[r].keys THEN Never ELSE now[r] + Cooldown
    /\ last' = NoFailure
    /\ Finish(r, IF kid[r] \in got[r].keys THEN "key" ELSE "invalid_token")
StoreKeepingRetry(r) ==                                        \* mutant
    /\ pc[r] = "store"
    /\ Refreshed(r)
    /\ guard' = NoRequest
    /\ UNCHANGED <<clock, published, since, fetchRetry>>
Store(r) ==
    /\ pc[r] = "store"
    /\ Refreshed(r)
    /\ fetchRetry' = Never
    /\ guard' = NoRequest
    /\ UNCHANGED <<clock, published, since>>

(* The deadline of verify drops the future, and with it the mutex guard.   *)
Deadline(r) ==
    /\ Running(r) /\ clock >= started[r] + Timeout
    /\ Finish(r, "unavailable")
    /\ guard' = IF guard = r THEN NoRequest ELSE guard
    /\ UNCHANGED <<clock, published, since, state>>

---------------------------------------------------------------------------
(* The environment: the provider publishes or withdraws a key, time goes   *)
(* on. The runtime fires the timers: the clock never leaves a due deadline *)
(* behind, though a handler may still take its steps at that instant.      *)
Rotate(k) ==
    /\ published' = IF k \in published THEN published \ {k} ELSE published \cup {k}
    /\ since' = [since EXCEPT ![k] = clock]
    /\ Silent /\ UNCHANGED <<clock, state, guard, local>>

Tick ==
    /\ clock < MaxClock
    /\ \A r \in Requests : Running(r) => clock < started[r] + Timeout
    /\ clock' = clock + 1
    /\ Silent /\ UNCHANGED <<published, since, state, guard, local>>

Handler(r) ==
    \/ Invoke(r) \/ Check(r) \/ Acquire(r) \/ Recheck(r) \/ ProviderReplies(r)
    \/ FetchReturns(r) \/ FetchFails(r) \/ Store(r) \/ StoreError(r) \/ Deadline(r)

Next == Tick \/ (\E k \in Rotating : Rotate(k)) \/ (\E r \in Requests : Handler(r))

Spec == Init /\ [][Next]_vars

---------------------------------------------------------------------------
TypeOK ==
    /\ clock \in 0 .. MaxClock
    /\ published \in SUBSET Keys
    /\ since \in [Keys -> 0 .. MaxClock]
    /\ cached \in Cache \cup {NoCache}
    /\ fetchRetry \in Nat \cup {Never}
    /\ unknownRetry \in Nat \cup {Never}
    /\ guard \in Requests \cup {NoRequest}
    /\ pc \in [Requests -> PCs]
    /\ kid \in [Requests -> Keys \cup {NoKey}]
    /\ started \in [Requests -> 0 .. MaxClock]
    /\ now \in [Requests -> 0 .. MaxClock]
    /\ got \in [Requests -> [keys : SUBSET Keys, ttl : Nat]]
    /\ answer \in [result : Results, kid : Keys \cup {NoKey}, started : 0 .. MaxClock]
    /\ last \in [failed : BOOLEAN, at : 0 .. MaxClock]

(* The request that refreshes holds the mutex, and the mutex is held by no *)
(* request that is over: the others are never kept waiting for a dead one. *)
Refreshing == {"recheck", "fetch", "reply", "store", "failed"}
RefreshIsExclusive == \A r \in Requests : guard = r <=> pc[r] \in Refreshing

(* How late the instants kept can be: every running request is within its  *)
(* deadline, and acts on an instant of its own lifetime.                   *)
Timely ==
    /\ \A r \in Requests :
          /\ now[r] <= clock /\ started[r] <= clock
          /\ Running(r) => clock <= started[r] + Timeout
          /\ pc[r] \in {"check", "recheck", "store", "failed"} => started[r] <= now[r]
    /\ \A k \in Keys : since[k] <= clock
    /\ cached # NoCache => cached.expires <= clock + MaxTTL
    /\ unknownRetry <= clock + Cooldown

(* A response under way, or the cache made of one, disagrees with the      *)
(* provider only about keys that changed after the fetch had begun.        *)
RepliesRecent ==
    \A r \in Requests : pc[r] \in {"reply", "store"} =>
        /\ got[r].ttl <= MaxTTL
        /\ \A k \in Keys : (k \in got[r].keys) # (k \in published) =>
               started[r] <= since[k]
CacheRecent ==
    cached # NoCache => \A k \in Keys :
        /\ k \in cached.keys /\ k \notin published =>
               cached.expires <= since[k] + MaxTTL + Timeout
        /\ k \notin cached.keys /\ k \in published =>
               unknownRetry <= since[k] + Cooldown + Timeout

FailureKept == fetchRetry = IF last.failed THEN last.at + Cooldown ELSE Never

(* A withdrawn key is refused by every request that began a lifetime and a *)
(* deadline after its withdrawal.                                          *)
WithdrawnKeysRefused ==
    answer.result = "key" /\ answer.kid \notin published =>
        answer.started <= since[answer.kid] + MaxTTL + Timeout

(* A published key is never called invalid to a request that began a       *)
(* cooldown and a deadline after its publication: the cooldown that guards *)
(* the provider against unknown keys does not lock a rotated key out.      *)
PublishedKeysAccepted ==
    answer.result = "invalid_token" /\ answer.kid \in published =>
        answer.started <= since[answer.kid] + Cooldown + Timeout

(* The inductive invariant of the proofs.                                  *)
IndInv ==
    /\ TypeOK
    /\ RefreshIsExclusive
    /\ Timely
    /\ RepliesRecent
    /\ CacheRecent
    /\ FailureKept

(* A fetch starts only if the fresh keys lack the key, the last fetch did  *)
(* not fail within the cooldown, and no fetch that left fresh keys missed  *)
(* a key within it. So of those who waited for a refresh, one that finds   *)
(* its key among fresh ones does not repeat it, nor does any within the    *)
(* cooldown after a failure, or after a miss while the keys are fresh.     *)
FetchesAreNeeded ==
    [][\A r \in Requests :
           pc[r] # "fetch" /\ pc'[r] = "fetch" =>
               /\ ~(IsFresh(clock) /\ kid[r] \in cached.keys)
               /\ last.failed => clock >= last.at + Cooldown
               /\ IsFresh(clock) => clock >= unknownRetry]_vars

(* A recorded failure is answered to others only until a fetch succeeds.   *)
NoStaleFailure ==
    [][\A r \in Requests :
           /\ pc[r] \in {"check", "recheck"}
           /\ pc'[r] = "idle"
           /\ answer'.result = "certificate_fetch"
           => last.failed]_vars
=============================================================================

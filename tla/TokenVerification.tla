-------------------------- MODULE TokenVerification --------------------------
(***************************************************************************)
(* AuthVerifier::verify: one verification of a bearer token, by the        *)
(* production verifier (header, signing key, signature and claims, then    *)
(* the account as the identity provider has it) or by the emulator's       *)
(* (claims only), under the deadline of the whole operation. While the     *)
(* call waits, time passes, the provider publishes or withdraws the key of *)
(* the token, and the account is disabled, enabled, deleted, restored or   *)
(* has its tokens revoked. Looking up the signing key is module JwksCache; *)
(* here it answers what that module proves of its answers, no more: a key  *)
(* withdrawn for long is not used, and a key published for long is not     *)
(* called unknown.                                                         *)
(*                                                                         *)
(* A token is a record of what the code tells apart: header (whether it is *)
(* three segments, the first of which decodes), payload (whether the       *)
(* second decodes as claims), alg, kid, signer (the key its signature was  *)
(* made with, or "nobody" where it is empty), and the claims sub, tenant,  *)
(* exp, iat, auth_time, iss and aud, each of which may be Missing.         *)
(* Saturating additions of u64 are plain ones here: a sum past the largest *)
(* value compares with the clock as the largest value does.                *)
(***************************************************************************)
EXTENDS Integers

CONSTANTS
    Tokens,         \* the tokens a client may present
    Keys,           \* the ids of the keys Google publishes at some time
    UsableKeys,     \* those whose RSA components make a key
    Missing,        \* a claim, a header field or a provider field left out
    Leeway,         \* JWT_LEEWAY_SECS
    Deadline,       \* AUTH_OPERATION_TIMEOUT
    MaxTTL,         \* the largest max-age of the published keys
    Cooldown,       \* JWKS_RETRY_COOLDOWN
    MaxTime,        \* bound on the clock
    MaxChanges      \* bound on the changes to the account and the key

VARIABLES
    verifier,       \* which verifier AuthVerifier::from_config built
    token,          \* the token to verify
    clock,          \* the time, in seconds
    published,      \* whether the key that the token names is published
    since,          \* when it was published last, or withdrawn last
    account,        \* the account the token's subject names, at the provider
    changes,        \* the changes made to the account and the key
    pc,             \* "idle", "key", "credentials", "lookup", "done"
    began,          \* when the call began
    reply,          \* the provider's answer to the lookup, on its way
    seen,           \* the states of the account during the call
    verdict         \* the result of the call

vars == <<verifier, token, clock, published, since, account, changes, pc,
          began, reply, seen, verdict>>

Times == 0 .. MaxTime
Absent == [status |-> "absent", valid_since |-> Missing]
Accounts ==
    [status : {"enabled", "disabled"}, valid_since : Times \cup {Missing}] \cup {Absent}
NoReply == [status |-> "none", valid_since |-> Missing]

AuthErrors == {"InvalidToken", "TokenExpired", "TokenRevoked", "UserDisabled",
               "CertificateFetch", "ServiceUnavailable"}
Verdicts == AuthErrors \cup {"none", "user"}
Outages == {"CertificateFetch", "ServiceUnavailable"}

ASSUME TokenAssumption ==
    /\ Leeway \in Nat /\ Deadline \in Nat /\ MaxTime \in Nat /\ MaxChanges \in Nat
    /\ MaxTTL \in Nat /\ Cooldown \in Nat
    /\ UsableKeys \subseteq Keys
    /\ Missing \notin Int /\ Missing \notin Keys /\ "nobody" \notin Keys
    /\ \A t \in Tokens : /\ t.exp \in Nat \cup {Missing}
                         /\ t.iat \in Nat \cup {Missing}
                         /\ t.auth_time \in Nat \cup {Missing}

Init ==
    /\ verifier \in {"production", "emulator"}
    /\ token \in Tokens
    /\ clock = 0
    /\ published \in BOOLEAN /\ (published => token.kid \in Keys)
    /\ since = 0
    /\ account \in Accounts
    /\ changes = 0
    /\ pc = "idle"
    /\ began = 0
    /\ reply = NoReply
    /\ seen = {}
    /\ verdict = "none"

---------------------------------------------------------------------------
(* The checks. Each is the error it raises, or "none".                     *)

(* decode_header, which decodes the header alone, and rsa_key_id; a kid    *)
(* that is empty or too long is not told apart from a missing one.         *)
HeaderError(t) ==
    IF ~t.header \/ t.alg # "RS256" \/ t.kid = Missing THEN "InvalidToken" ELSE "none"

(* decode_firebase_claims with firebase_validation and map_jwt_error: only *)
(* a token with a good signature and all the required claims is told that  *)
(* it expired.                                                             *)
DecodeError(t, now) ==
    IF \/ t.kid \notin UsableKeys \/ t.signer # t.kid \/ ~t.payload
       \/ Missing \in {t.exp, t.aud, t.iss, t.sub}
    THEN "InvalidToken"
    ELSE IF t.exp + Leeway < now THEN "TokenExpired"
    ELSE IF t.aud # "ours" \/ t.iss # "ours" THEN "InvalidToken" ELSE "none"

(* validate_common_claims_at                                               *)
CommonClaimsError(t, now) ==
    IF \/ t.sub # "valid" \/ t.tenant
       \/ Missing \in {t.iat, t.auth_time, t.exp, t.iss, t.aud}
    THEN "InvalidToken"
    ELSE IF t.exp + Leeway < now THEN "TokenExpired"
    ELSE IF \/ t.iat > now + Leeway \/ t.auth_time > now + Leeway
            \/ t.iss # "ours" \/ t.aud # "ours"
    THEN "InvalidToken" ELSE "none"

(* EmulatorAuthVerifier::verify, up to the claims.                         *)
EmulatorHeaderError(t) ==
    IF \/ ~t.header \/ ~t.payload \/ t.alg \notin {"none", "RS256", "HS256"}
       \/ t.alg = "none" /\ t.signer # "nobody"
    THEN "InvalidToken" ELSE "none"

(* token_is_revoked                                                        *)
TokenIsRevokedLenient(valid_since, auth_time) ==                   \* mutant
    auth_time + Leeway < valid_since
TokenIsRevoked(valid_since, auth_time) == auth_time < valid_since

(* The verdict on what the lookup found: payload.user, the disabled flag,  *)
(* valid_since_epoch and token_is_revoked.                                 *)
LookupVerdictStrict(t, found) ==                                   \* mutant
    CASE found.status = "absent"       -> "InvalidToken"
      [] found.status = "disabled"     -> "UserDisabled"
      [] found.status = "enabled" /\ found.valid_since = Missing -> "TokenRevoked"
      [] found.status = "enabled" /\ found.valid_since # Missing ->
             IF TokenIsRevoked(found.valid_since, t.auth_time) THEN "TokenRevoked" ELSE "user"
LookupVerdict(t, found) ==
    CASE found.status = "absent"       -> "InvalidToken"
      [] found.status = "disabled"     -> "UserDisabled"
      [] found.status = "enabled" /\ found.valid_since = Missing -> "ServiceUnavailable"
      [] found.status = "enabled" /\ found.valid_since # Missing ->
             IF TokenIsRevoked(found.valid_since, t.auth_time) THEN "TokenRevoked" ELSE "user"

---------------------------------------------------------------------------
Verifying == pc \in {"key", "credentials", "lookup"}

Finish(result) ==
    /\ pc' = "done"
    /\ verdict' = result
    /\ UNCHANGED <<verifier, token, clock, published, since, account, changes, reply>>

Reach(next) ==
    /\ pc' = next
    /\ UNCHANGED <<verifier, token, clock, published, since, account, changes, reply, verdict>>

(* The call begins: what precedes the first await.                         *)
Begin ==
    /\ pc = "idle"
    /\ clock + Deadline <= MaxTime
    /\ began' = clock
    /\ seen' = {account}

VerifyProduction ==
    /\ Begin
    /\ verifier = "production"
    /\ IF HeaderError(token) # "none" THEN Finish(HeaderError(token)) ELSE Reach("key")

VerifyEmulator ==
    /\ Begin
    /\ verifier = "emulator"
    /\ Finish(IF EmulatorHeaderError(token) # "none" THEN EmulatorHeaderError(token)
              ELSE IF CommonClaimsError(token, clock) # "none"
              THEN CommonClaimsError(token, clock) ELSE "user")

(* What the cache may still hold for the token's key: the key itself while *)
(* it is published, and for a lifetime and a deadline after its withdrawal *)
(* (WithdrawnKeysRefused of JwksCache); and that there is no such key while*)
(* it is not published, and for a cooldown and a deadline thereafter       *)
(* (PublishedKeysAccepted of JwksCache).                                   *)
KeyTrusted == token.kid \in Keys /\ (published \/ began <= since + MaxTTL + Deadline)
KeyUnknown == ~published \/ began <= since + Cooldown + Deadline

(* GoogleJwksClient::key_for answers, and the token is checked with it.    *)
KeyFor ==
    /\ pc = "key"
    /\ \/ KeyUnknown /\ Finish("InvalidToken")
       \/ Finish("CertificateFetch")
       \/ /\ KeyTrusted
          /\ IF DecodeError(token, clock) # "none" THEN Finish(DecodeError(token, clock))
             ELSE IF CommonClaimsError(token, clock) # "none"
             THEN Finish(CommonClaimsError(token, clock))
             ELSE Reach("credentials")
    /\ UNCHANGED <<began, seen>>

(* lookup_user: the access token for the identity provider.                *)
AccessToken ==
    /\ pc = "credentials"
    /\ Reach("lookup") \/ Finish("ServiceUnavailable")
    /\ UNCHANGED <<began, seen>>

(* The provider reads the account; its answer is on its way.               *)
ProviderReads ==
    /\ pc = "lookup"
    /\ reply = NoReply
    /\ reply' = account
    /\ UNCHANGED <<verifier, token, clock, published, since, account, changes, pc,
                   began, seen, verdict>>

(* The answer arrives, or the lookup fails: a send error, a status that is *)
(* no success or a body that does not decode.                              *)
LookupUser ==
    /\ pc = "lookup"
    /\ \/ reply # NoReply /\ Finish(LookupVerdict(token, reply))
       \/ Finish("ServiceUnavailable")
    /\ UNCHANGED <<began, seen>>

(* AUTH_OPERATION_TIMEOUT, wherever the call waits.                        *)
TimeoutNever == pc = "timed out" /\ UNCHANGED vars                  \* mutant
Timeout ==
    /\ Verifying
    /\ clock >= began + Deadline
    /\ Finish("ServiceUnavailable")
    /\ UNCHANGED <<began, seen>>

---------------------------------------------------------------------------
(* The world around the call, until the verdict.                           *)
Tick ==
    /\ pc # "done" /\ clock < MaxTime
    /\ clock' = clock + 1
    /\ UNCHANGED <<verifier, token, published, since, account, changes, pc, began,
                   reply, seen, verdict>>

(* Google publishes or withdraws the key. The call looks at it no more     *)
(* once key_for has answered, and the emulator's never does, so that       *)
(* published and since stay as they were at the lookup.                    *)
Rotate ==
    /\ pc \in {"idle", "key"} /\ verifier = "production" /\ token.kid \in Keys
    /\ changes < MaxChanges
    /\ published' = ~published
    /\ since' = clock
    /\ changes' = changes + 1
    /\ UNCHANGED <<verifier, token, clock, account, pc, began, reply, seen, verdict>>

Change(next) ==
    /\ pc # "done" /\ changes < MaxChanges
    /\ account' = next
    /\ changes' = changes + 1
    /\ seen' = IF Verifying THEN seen \cup {next} ELSE seen
    /\ UNCHANGED <<verifier, token, clock, published, since, pc, began, reply, verdict>>

RevokeTokens == account # Absent /\ Change([account EXCEPT !.valid_since = clock])
DisableUser == account.status = "enabled" /\ Change([account EXCEPT !.status = "disabled"])
EnableUser == account.status = "disabled" /\ Change([account EXCEPT !.status = "enabled"])
DeleteUser == account # Absent /\ Change(Absent)
CreateUser ==
    account = Absent /\ Change([status |-> "enabled", valid_since |-> clock])

Verify == VerifyProduction \/ VerifyEmulator \/ KeyFor \/ AccessToken \/ LookupUser \/ Timeout
Provider == ProviderReads \/ RevokeTokens \/ DisableUser \/ EnableUser \/ DeleteUser
            \/ CreateUser \/ Rotate
Next == Verify \/ Provider \/ Tick

Spec == Init /\ [][Next]_vars
(* Time passes, and the runtime wakes the call when its deadline is due.   *)
(* Neither the key service nor the identity provider need ever answer.     *)
FairSpec == Spec /\ WF_vars(Tick) /\ WF_vars(Timeout)

---------------------------------------------------------------------------
(* Every variable has its type.                                            *)
TypeOK ==
    /\ verifier \in {"production", "emulator"}
    /\ token \in Tokens
    /\ clock \in Times
    /\ published \in BOOLEAN /\ since \in Times
    /\ account \in Accounts
    /\ changes \in 0 .. MaxChanges
    /\ pc \in {"idle", "key", "credentials", "lookup", "done"}
    /\ began \in Times
    /\ reply \in Accounts \cup {NoReply}
    /\ seen \subseteq Accounts
    /\ verdict \in Verdicts

(* A token is genuine for production if it decodes and is signed with      *)
(* RS256 by a key of Google's. That the key is still, or already, accepted *)
(* is another matter: KeyTrusted.                                          *)
Genuine(t) ==
    /\ t.header /\ t.payload /\ t.alg = "RS256"
    /\ t.kid \in UsableKeys /\ t.signer = t.kid

(* What its claims must say during a call: this project's user, neither    *)
(* expired when the call began nor from the future by the clock of now.    *)
Claims(t) ==
    /\ t.sub = "valid" /\ ~t.tenant /\ t.iss = "ours" /\ t.aud = "ours"
    /\ t.exp # Missing /\ t.iat # Missing /\ t.auth_time # Missing
    /\ t.exp + Leeway >= began
    /\ t.iat <= clock + Leeway /\ t.auth_time <= clock + Leeway

InGoodStanding(a, t) ==
    a.status = "enabled" /\ a.valid_since # Missing /\ a.valid_since <= t.auth_time

(* Why a token may be refused as invalid.                                  *)
BadClaims(t) ==
    \/ Missing \in {t.exp, t.aud, t.iss, t.sub, t.iat, t.auth_time}
    \/ t.sub # "valid" \/ t.tenant \/ t.iss # "ours" \/ t.aud # "ours"
    \/ t.iat # Missing /\ t.iat > began + Leeway
    \/ t.auth_time # Missing /\ t.auth_time > began + Leeway

(* The identity provider is only asked about the subject of a token whose  *)
(* signature and claims hold, by a key that was not withdrawn for long: an *)
(* unverified subject reaches nobody.                                      *)
LookupOnlyVerified ==
    pc \in {"credentials", "lookup"} \/ reply # NoReply =>
        verifier = "production" /\ Genuine(token) /\ KeyTrusted /\ Claims(token)

(* The strengthening: what is known of the token and of the answer at each *)
(* point of the call.                                                      *)
IndInv ==
    /\ TypeOK
    /\ pc # "idle" => began <= clock
    /\ published => token.kid \in Keys
    /\ Verifying => verifier = "production" /\ account \in seen /\ HeaderError(token) = "none"
    /\ LookupOnlyVerified
    /\ pc \in {"idle", "key", "credentials"} => reply = NoReply
    /\ pc = "lookup" /\ reply # NoReply => reply \in seen
    /\ pc # "done" => verdict = "none"
    /\ pc = "done" => verdict # "none"
    /\ verdict = "user" =>
           /\ Claims(token) /\ token.header /\ token.payload
           /\ verifier = "production" =>
                  /\ Genuine(token) /\ KeyTrusted
                  /\ \E a \in seen : InGoodStanding(a, token)
    /\ verdict = "TokenRevoked" =>
           /\ verifier = "production" /\ Genuine(token)
           /\ \E a \in seen : a.status = "enabled" /\ a.valid_since # Missing
                              /\ a.valid_since > token.auth_time
    /\ verdict = "UserDisabled" =>
           /\ verifier = "production" /\ Genuine(token)
           /\ \E a \in seen : a.status = "disabled"
    /\ verdict = "TokenExpired" =>
           /\ token.exp # Missing /\ token.exp + Leeway < clock
           /\ verifier = "production" => Genuine(token)
    /\ verdict = "InvalidToken" =>
           \/ verifier = "production" /\ (~Genuine(token) \/ KeyUnknown)
           \/ EmulatorHeaderError(token) # "none" /\ verifier = "emulator"
           \/ BadClaims(token)
           \/ \E a \in seen : a.status = "absent" /\ verifier = "production"

(* An accepted token was good: its claims hold, and in production it is    *)
(* genuine, its key was published when it was looked up or was withdrawn   *)
(* at most a lifetime of the cached keys and a deadline before the call,   *)
(* and at some time during the call its account existed, was enabled and   *)
(* had not revoked it. So a token that was expired or revoked, or whose    *)
(* account was disabled or gone, before the call began and throughout it,  *)
(* is never accepted.                                                      *)
AcceptedWasValid ==
    verdict = "user" =>
        /\ Claims(token)
        /\ verifier = "production" =>
               /\ Genuine(token) /\ KeyTrusted
               /\ \E a \in seen : InGoodStanding(a, token)

(* A token is refused for a cause: an expired, revoked or disabled one is  *)
(* genuine and was just that at some time during the call; one refused as  *)
(* invalid is forged, has bad claims or lost its account, or its key was   *)
(* not published when it was looked up, or was published at most a         *)
(* cooldown and a deadline before the call, the window in which the client *)
(* may still answer that it knows no such key. Nothing that failed in the  *)
(* key service or the provider, its own missing data included, is held     *)
(* against the token.                                                      *)
RefusedForCause ==
    /\ verdict \in {"TokenRevoked", "UserDisabled"} =>
           /\ verifier = "production" /\ Genuine(token)
           /\ \E a \in seen :
                  \/ verdict = "UserDisabled" /\ a.status = "disabled"
                  \/ /\ verdict = "TokenRevoked" /\ a.status = "enabled"
                     /\ a.valid_since # Missing /\ a.valid_since > token.auth_time
    /\ verdict = "TokenExpired" =>
           /\ token.exp # Missing /\ token.exp + Leeway < clock
           /\ verifier = "production" => Genuine(token)
    /\ verdict = "InvalidToken" =>
           \/ verifier = "production" /\ (~Genuine(token) \/ KeyUnknown)
           \/ EmulatorHeaderError(token) # "none" /\ verifier = "emulator"
           \/ BadClaims(token)
           \/ \E a \in seen : a.status = "absent" /\ verifier = "production"

(* Every verification ends with a verdict, however long the services it    *)
(* asks stay silent.                                                       *)
EventuallyVerdict == Verifying ~> verdict # "none"
=============================================================================

----------------------- MODULE TokenVerificationProofs -----------------------
(***************************************************************************)
(* Proofs about TokenVerification for every set of tokens and keys, every  *)
(* leeway, deadline, lifetime of the cached keys, cooldown and clock, and  *)
(* any number of changes to the account and the published key.             *)
(***************************************************************************)
EXTENDS TokenVerification, TLAPS

---------------------------------------------------------------------------
(* What the checks establish when they find nothing wrong, and what each   *)
(* of their errors means.                                                  *)
LEMMA HeaderGood ==
    ASSUME NEW t \in Tokens, HeaderError(t) = "none"
    PROVE  t.header /\ t.alg = "RS256" /\ t.kid # Missing
  BY DEF HeaderError

LEMMA DecodeGood ==
    ASSUME NEW t \in Tokens, DecodeError(t, clock) = "none"
    PROVE  t.kid \in UsableKeys /\ t.signer = t.kid /\ t.payload
  BY DEF DecodeError

LEMMA DecodeRefusal ==
    ASSUME NEW t \in Tokens, HeaderError(t) = "none", DecodeError(t, clock) # "none"
    PROVE  \/ DecodeError(t, clock) = "InvalidToken" /\ (~Genuine(t) \/ BadClaims(t))
           \/ /\ DecodeError(t, clock) = "TokenExpired"
              /\ Genuine(t) /\ t.exp # Missing /\ t.exp + Leeway < clock
  BY HeaderGood DEF DecodeError, Genuine, BadClaims

LEMMA ClaimsGood ==
    ASSUME NEW t \in Tokens, CommonClaimsError(t, clock) = "none",
           clock \in Int, began \in Int, began <= clock
    PROVE  Claims(t)
  <1>1. /\ t.exp \in Nat /\ t.iat \in Nat /\ t.auth_time \in Nat
        /\ t.exp # Missing /\ t.iat # Missing /\ t.auth_time # Missing
    BY TokenAssumption DEF CommonClaimsError
  <1>2. t.sub = "valid" /\ ~t.tenant /\ t.iss = "ours" /\ t.aud = "ours"
    BY DEF CommonClaimsError
  <1>3. ~(t.exp + Leeway < clock) /\ ~(t.iat > clock + Leeway) /\ ~(t.auth_time > clock + Leeway)
    BY DEF CommonClaimsError
  <1>4. t.exp + Leeway >= began /\ t.iat <= clock + Leeway /\ t.auth_time <= clock + Leeway
    BY <1>1, <1>3, TokenAssumption
  <1> QED
    BY <1>1, <1>2, <1>4 DEF Claims

LEMMA ClaimsRefusal ==
    ASSUME NEW t \in Tokens, CommonClaimsError(t, clock) # "none",
           clock \in Int, began \in Int, began <= clock
    PROVE  \/ CommonClaimsError(t, clock) = "InvalidToken" /\ BadClaims(t)
           \/ /\ CommonClaimsError(t, clock) = "TokenExpired"
              /\ t.exp # Missing /\ t.exp + Leeway < clock
  <1>1. CASE Missing \in {t.iat, t.auth_time, t.exp, t.iss, t.aud} \/ t.sub # "valid" \/ t.tenant
    BY <1>1 DEF CommonClaimsError, BadClaims
  <1>2. CASE /\ Missing \notin {t.iat, t.auth_time, t.exp, t.iss, t.aud}
             /\ t.sub = "valid" /\ ~t.tenant
    <2>1. t.iat \in Nat /\ t.auth_time \in Nat /\ t.exp \in Nat
      BY <1>2, TokenAssumption
    <2>2. t.iat > clock + Leeway => t.iat > began + Leeway
      BY <2>1, TokenAssumption
    <2>3. t.auth_time > clock + Leeway => t.auth_time > began + Leeway
      BY <2>1, TokenAssumption
    <2> QED
      BY <1>2, <2>2, <2>3 DEF CommonClaimsError, BadClaims
  <1> QED
    BY <1>1, <1>2

---------------------------------------------------------------------------
LEMMA InitIndInv == Init => IndInv
  BY TokenAssumption
     DEF Init, IndInv, TypeOK, Times, Accounts, NoReply, Verdicts, Verifying, LookupOnlyVerified

LEMMA BeginProduction == IndInv /\ VerifyProduction => IndInv'
  <1> SUFFICES ASSUME IndInv, VerifyProduction PROVE IndInv'
    OBVIOUS
  <1>1. /\ pc = "idle" /\ verdict = "none" /\ reply = NoReply /\ verifier = "production"
        /\ began' = clock /\ seen' = {account}
        /\ UNCHANGED <<verifier, token, clock, published, since, account, changes, reply>>
        /\ clock \in Int
    BY TokenAssumption DEF IndInv, TypeOK, Times, VerifyProduction, Begin, Finish, Reach
  <1>2. CASE HeaderError(token) # "none"
    <2>1. pc' = "done" /\ verdict' = "InvalidToken"
      BY <1>2 DEF VerifyProduction, Finish, HeaderError
    <2>2. ~Genuine(token)
      <3>1. ~token.header \/ token.alg # "RS256" \/ token.kid = Missing
        BY <1>2 DEF HeaderError
      <3> QED
        BY <3>1, TokenAssumption DEF Genuine
    <2>3. TypeOK'
      BY <1>1, <2>1 DEF IndInv, TypeOK, Verdicts, AuthErrors
    <2>4. ~Genuine(token)'
      BY <1>1, <2>2 DEF Genuine
    <2> QED
      BY <1>1, <2>1, <2>3, <2>4 DEF IndInv, Verifying, LookupOnlyVerified
  <1>3. CASE HeaderError(token) = "none"
    <2>1. pc' = "key" /\ verdict' = "none"
      BY <1>1, <1>3 DEF VerifyProduction, Reach
    <2>2. TypeOK'
      BY <1>1, <2>1 DEF IndInv, TypeOK
    <2>3. HeaderError(token)' = "none"
      BY <1>1, <1>3 DEF HeaderError
    <2> QED
      BY <1>1, <2>1, <2>2, <2>3 DEF IndInv, Verifying, LookupOnlyVerified
  <1> QED
    BY <1>2, <1>3

LEMMA BeginEmulator == IndInv /\ VerifyEmulator => IndInv'
  <1> SUFFICES ASSUME IndInv, VerifyEmulator PROVE IndInv'
    OBVIOUS
  <1>1. /\ pc = "idle" /\ verdict = "none" /\ reply = NoReply /\ verifier = "emulator"
        /\ began' = clock /\ seen' = {account} /\ pc' = "done"
        /\ UNCHANGED <<verifier, token, clock, published, since, account, changes, reply>>
        /\ clock \in Int /\ token \in Tokens
    BY TokenAssumption DEF IndInv, TypeOK, Times, VerifyEmulator, Begin, Finish
  <1>2. verdict' \in {"InvalidToken", "TokenExpired", "user"}
    BY DEF VerifyEmulator, Finish, EmulatorHeaderError, CommonClaimsError
  <1>3. TypeOK'
    BY <1>1, <1>2 DEF IndInv, TypeOK, Verdicts, AuthErrors
  <1>4. verdict' = "user" => Claims(token)' /\ token'.header /\ token'.payload
    <2> SUFFICES ASSUME verdict' = "user" PROVE Claims(token)' /\ token'.header /\ token'.payload
      OBVIOUS
    <2>1. EmulatorHeaderError(token) = "none" /\ CommonClaimsError(token, clock) = "none"
      BY DEF VerifyEmulator, Finish, EmulatorHeaderError, CommonClaimsError
    <2>2. (CommonClaimsError(token, clock) = "none")'
      BY <1>1, <2>1 DEF CommonClaimsError
    <2>3. clock' \in Int /\ began' \in Int /\ began' <= clock' /\ token' \in Tokens
      BY <1>1
    <2>4. Claims(token)'
      <3>1. /\ token.exp \in Nat /\ token.iat \in Nat /\ token.auth_time \in Nat
            /\ token.exp # Missing /\ token.iat # Missing /\ token.auth_time # Missing
        BY <1>1, <2>1, TokenAssumption DEF CommonClaimsError
      <3>2. ~(token.exp + Leeway < clock) /\ ~(token.iat > clock + Leeway)
            /\ ~(token.auth_time > clock + Leeway)
        BY <2>1 DEF CommonClaimsError
      <3>3. token.exp + Leeway >= clock /\ token.iat <= clock + Leeway
            /\ token.auth_time <= clock + Leeway
        BY <1>1, <3>1, <3>2, TokenAssumption
      <3>4. token.sub = "valid" /\ ~token.tenant /\ token.iss = "ours" /\ token.aud = "ours"
        BY <2>1 DEF CommonClaimsError
      <3> QED
        BY <1>1, <3>1, <3>3, <3>4 DEF Claims
    <2>5. token'.header /\ token'.payload
      BY <1>1, <2>1 DEF EmulatorHeaderError
    <2> QED
      BY <2>4, <2>5
  <1>5. verdict' = "TokenExpired" => token'.exp # Missing /\ token'.exp + Leeway < clock'
    BY <1>1 DEF VerifyEmulator, Finish, EmulatorHeaderError, CommonClaimsError
  <1>6. verdict' = "InvalidToken" => EmulatorHeaderError(token') # "none" \/ BadClaims(token)'
    BY <1>1 DEF VerifyEmulator, Finish, EmulatorHeaderError, CommonClaimsError, BadClaims
  <1> QED
    BY <1>1, <1>2, <1>3, <1>4, <1>5, <1>6 DEF IndInv, Verifying, LookupOnlyVerified

---------------------------------------------------------------------------
(* Facts that survive as long as the token and the start of the call stay  *)
(* and the clock does not go back.                                         *)
LEMMA ClaimsKept ==
    ASSUME TypeOK, UNCHANGED <<token, began>>, clock' \in Int, clock' >= clock, Claims(token)
    PROVE  Claims(token)'
  <1>1. token.iat \in Nat /\ token.auth_time \in Nat /\ token \in Tokens /\ clock \in Int
    BY TokenAssumption DEF Claims, TypeOK, Times
  <1>2. token.iat <= clock' + Leeway /\ token.auth_time <= clock' + Leeway
    BY <1>1, TokenAssumption DEF Claims
  <1> QED
    BY <1>2 DEF Claims

LEMMA KeyKept ==
    ASSUME UNCHANGED <<token, published, since, began>>
    PROVE  /\ KeyTrusted <=> KeyTrusted'
           /\ KeyUnknown <=> KeyUnknown'
           /\ HeaderError(token)' = HeaderError(token)
           /\ Genuine(token) <=> Genuine(token)'
  BY DEF KeyTrusted, KeyUnknown, HeaderError, Genuine

(* A call that ends with an outage leaves nothing to account for.          *)
LEMMA OutageStep ==
    ASSUME IndInv, Verifying, NEW result \in Outages, Finish(result), UNCHANGED <<began, seen>>
    PROVE  IndInv'
  <1>1. /\ UNCHANGED <<verifier, token, clock, published, since, account, changes, reply, began, seen>>
        /\ pc' = "done" /\ verdict' = result /\ result # "none"
        /\ result \notin {"user", "TokenRevoked", "UserDisabled", "TokenExpired", "InvalidToken"}
    BY DEF Finish, Outages
  <1>2. TypeOK'
    BY <1>1 DEF IndInv, TypeOK, Verdicts, AuthErrors, Outages
  <1>3. LookupOnlyVerified'
    BY <1>1 DEF IndInv, LookupOnlyVerified, Genuine, Claims, KeyTrusted
  <1>4. began' <= clock'
    BY <1>1 DEF IndInv, Verifying
  <1> QED
    BY <1>1, <1>2, <1>3, <1>4 DEF IndInv, Verifying

LEMMA KeyForStep == IndInv /\ KeyFor => IndInv'
  <1> SUFFICES ASSUME IndInv, KeyFor PROVE IndInv'
    OBVIOUS
  <1>1. /\ pc = "key" /\ verdict = "none" /\ reply = NoReply /\ verifier = "production"
        /\ UNCHANGED <<verifier, token, clock, published, since, account, changes, reply, began, seen>>
        /\ clock \in Int /\ began \in Int /\ began <= clock /\ token \in Tokens
        /\ HeaderError(token) = "none" /\ account \in seen
    BY TokenAssumption DEF IndInv, TypeOK, Times, KeyFor, Finish, Reach, Verifying
  <1>2. CASE Finish("CertificateFetch")
    BY <1>1, <1>2, OutageStep DEF Outages, Verifying
  <1> DEFINE Bad == \/ /\ verdict' = "InvalidToken"
                       /\ ~Genuine(token) \/ KeyUnknown \/ BadClaims(token)
                    \/ /\ verdict' = "TokenExpired"
                       /\ Genuine(token) /\ token.exp # Missing /\ token.exp + Leeway < clock
  <1>3. ASSUME pc' = "done", Bad PROVE IndInv'
    <2>1. TypeOK'
      BY <1>1, <1>3 DEF IndInv, TypeOK, Verdicts, AuthErrors
    <2>2. /\ Genuine(token) <=> Genuine(token)'
          /\ BadClaims(token) <=> BadClaims(token)'
          /\ KeyUnknown <=> KeyUnknown'
      BY <1>1 DEF Genuine, BadClaims, KeyUnknown
    <2>3. /\ pc' = "done" /\ verifier' = "production" /\ reply' = NoReply
          /\ began' <= clock' /\ (published' => token'.kid \in Keys)
      BY <1>1, <1>3 DEF IndInv
    <2>4. \/ /\ verdict' = "InvalidToken"
             /\ ~Genuine(token)' \/ KeyUnknown' \/ BadClaims(token)'
          \/ /\ verdict' = "TokenExpired" /\ Genuine(token)'
             /\ token'.exp # Missing /\ token'.exp + Leeway < clock'
      <3>1. token' = token /\ clock' = clock
        BY <1>1
      <3>2. CASE /\ verdict' = "InvalidToken"
                 /\ ~Genuine(token) \/ KeyUnknown \/ BadClaims(token)
        BY <2>2, <3>2, Zenon
      <3>3. CASE /\ verdict' = "TokenExpired" /\ Genuine(token)
                 /\ token.exp # Missing /\ token.exp + Leeway < clock
        BY <2>2, <3>1, <3>3
      <3> QED
        BY <1>3, <3>2, <3>3
    <2> HIDE DEF Bad
    <2> QED
      BY <2>1, <2>3, <2>4 DEF IndInv, Verifying, LookupOnlyVerified
  <1>4. CASE KeyUnknown /\ Finish("InvalidToken")
    BY <1>3, <1>4 DEF Finish
  <1>5. CASE KeyTrusted /\ DecodeError(token, clock) # "none"
             /\ Finish(DecodeError(token, clock))
    BY <1>1, <1>3, <1>5, DecodeRefusal DEF Finish
  <1>6. CASE /\ KeyTrusted /\ DecodeError(token, clock) = "none"
             /\ CommonClaimsError(token, clock) # "none"
             /\ Finish(CommonClaimsError(token, clock))
    <2>1. Genuine(token)
      BY <1>1, <1>6, HeaderGood, DecodeGood DEF Genuine
    <2> QED
      BY <1>1, <1>3, <1>6, <2>1, ClaimsRefusal DEF Finish
  <1>7. CASE /\ KeyTrusted /\ DecodeError(token, clock) = "none"
             /\ CommonClaimsError(token, clock) = "none"
             /\ Reach("credentials")
    <2>1. Genuine(token)
      BY <1>1, <1>7, HeaderGood, DecodeGood DEF Genuine
    <2>2. Claims(token)
      BY <1>1, <1>7, ClaimsGood
    <2>3. pc' = "credentials" /\ verdict' = "none" /\ reply' = NoReply
      BY <1>1, <1>7 DEF Reach
    <2>4. TypeOK'
      BY <1>1, <2>3 DEF IndInv, TypeOK
    <2>5. /\ Genuine(token)' /\ Claims(token)' /\ KeyTrusted'
          /\ HeaderError(token)' = "none"
      BY <1>1, <1>7, <2>1, <2>2 DEF Genuine, Claims, HeaderError, KeyTrusted
    <2> QED
      BY <1>1, <2>3, <2>4, <2>5 DEF IndInv, Verifying, LookupOnlyVerified
  <1> QED
    BY <1>2, <1>4, <1>5, <1>6, <1>7 DEF KeyFor

LEMMA AccessTokenStep == IndInv /\ AccessToken => IndInv'
  <1> SUFFICES ASSUME IndInv, AccessToken PROVE IndInv'
    OBVIOUS
  <1>1. CASE Finish("ServiceUnavailable")
    BY <1>1, OutageStep DEF AccessToken, Outages, Verifying
  <1>2. CASE Reach("lookup")
    <2>1. /\ pc = "credentials" /\ pc' = "lookup"
          /\ UNCHANGED <<verifier, token, clock, published, since, account, changes, reply, verdict, began, seen>>
      BY <1>2 DEF AccessToken, Reach
    <2>2. TypeOK' /\ LookupOnlyVerified' /\ HeaderError(token)' = HeaderError(token)
      BY <2>1 DEF IndInv, TypeOK, LookupOnlyVerified, Genuine, Claims, HeaderError, KeyTrusted
    <2> QED
      BY <2>1, <2>2 DEF IndInv, Verifying
  <1> QED
    BY <1>1, <1>2 DEF AccessToken

LEMMA ProviderReadsStep == IndInv /\ ProviderReads => IndInv'
  <1> SUFFICES ASSUME IndInv, ProviderReads PROVE IndInv'
    OBVIOUS
  <1>1. /\ pc = "lookup" /\ reply' = account
        /\ UNCHANGED <<verifier, token, clock, published, since, account, changes, pc, began, seen, verdict>>
    BY DEF ProviderReads
  <1>2. TypeOK' /\ LookupOnlyVerified' /\ HeaderError(token)' = HeaderError(token)
    BY <1>1 DEF IndInv, TypeOK, LookupOnlyVerified, Genuine, Claims, HeaderError, KeyTrusted
  <1> QED
    BY <1>1, <1>2 DEF IndInv, Verifying

LEMMA LookupUserStep == IndInv /\ LookupUser => IndInv'
  <1> SUFFICES ASSUME IndInv, LookupUser PROVE IndInv'
    OBVIOUS
  <1>1. CASE Finish("ServiceUnavailable")
    BY <1>1, OutageStep DEF LookupUser, Outages, Verifying
  <1>2. CASE reply # NoReply /\ Finish(LookupVerdict(token, reply))
    <2>1. /\ pc = "lookup" /\ pc' = "done" /\ verdict' = LookupVerdict(token, reply)
          /\ UNCHANGED <<verifier, token, clock, published, since, account, changes, reply, began, seen>>
          /\ reply \in seen /\ reply \in Accounts /\ verifier = "production"
          /\ Genuine(token) /\ Claims(token) /\ KeyTrusted /\ began <= clock
          /\ HeaderError(token) = "none"
          /\ token \in Tokens
      BY <1>2 DEF LookupUser, Finish, IndInv, TypeOK, LookupOnlyVerified, Verifying
    <2>2. /\ reply.status \in {"enabled", "disabled", "absent"}
          /\ reply.valid_since \in Int \cup {Missing} /\ token.auth_time \in Int
      BY <2>1, TokenAssumption DEF Accounts, Absent, Times, Claims
    <2>3. \/ verdict' = "InvalidToken" /\ reply.status = "absent"
          \/ verdict' = "UserDisabled" /\ reply.status = "disabled"
          \/ verdict' = "ServiceUnavailable"
          \/ /\ verdict' = "TokenRevoked" /\ reply.status = "enabled"
             /\ reply.valid_since # Missing /\ reply.valid_since > token.auth_time
          \/ verdict' = "user" /\ InGoodStanding(reply, token)
      <3>1. CASE reply.status = "absent"
        BY <2>1, <3>1 DEF LookupVerdict
      <3>2. CASE reply.status = "disabled"
        BY <2>1, <3>2 DEF LookupVerdict
      <3>3. CASE reply.status = "enabled" /\ reply.valid_since = Missing
        BY <2>1, <3>3 DEF LookupVerdict
      <3>4. CASE reply.status = "enabled" /\ reply.valid_since # Missing
        <4>1. verdict' = IF TokenIsRevoked(reply.valid_since, token.auth_time)
                         THEN "TokenRevoked" ELSE "user"
          BY <2>1, <3>4 DEF LookupVerdict
        <4>2. reply.valid_since \in Int
          BY <2>2, <3>4
        <4> QED
          BY <2>2, <3>4, <4>1, <4>2 DEF TokenIsRevoked, InGoodStanding
      <3> QED
        BY <2>2, <3>1, <3>2, <3>3, <3>4
    <2>4. TypeOK'
      BY <2>1, <2>3 DEF IndInv, TypeOK, Verdicts, AuthErrors
    <2>5. /\ Genuine(token)' /\ Claims(token)' /\ KeyTrusted'
          /\ token'.header /\ token'.payload
          /\ published' => token'.kid \in Keys
      BY <2>1, KeyKept DEF Genuine, Claims, IndInv
    <2>6. LookupOnlyVerified'
      BY <2>1, <2>5 DEF LookupOnlyVerified
    <2>7. reply \in seen' /\ token' = token /\ verifier' = "production" /\ began' <= clock'
          /\ reply' \in Accounts
      BY <2>1
    <2>8. \/ verdict' = "InvalidToken" /\ \E a \in seen' : a.status = "absent"
          \/ verdict' = "UserDisabled" /\ \E a \in seen' : a.status = "disabled"
          \/ verdict' = "ServiceUnavailable"
          \/ /\ verdict' = "TokenRevoked"
             /\ \E a \in seen' : a.status = "enabled" /\ a.valid_since # Missing
                                 /\ a.valid_since > token'.auth_time
          \/ verdict' = "user" /\ \E a \in seen' : InGoodStanding(a, token')
      BY <2>3, <2>7
    <2> QED
      BY <2>1, <2>4, <2>5, <2>6, <2>7, <2>8 DEF IndInv, Verifying
  <1> QED
    BY <1>1, <1>2 DEF LookupUser

LEMMA TimeoutStep == IndInv /\ Timeout => IndInv'
  BY OutageStep DEF Timeout, Outages

---------------------------------------------------------------------------
LEMMA TickStep == IndInv /\ Tick => IndInv'
  <1> SUFFICES ASSUME IndInv, Tick PROVE IndInv'
    OBVIOUS
  <1>1. /\ UNCHANGED <<verifier, token, published, since, account, changes, pc, began, reply, seen, verdict>>
        /\ clock' = clock + 1 /\ clock \in Int /\ clock' \in Times /\ began \in Int
        /\ token \in Tokens
    BY TokenAssumption DEF Tick, IndInv, TypeOK, Times
  <1>2. TypeOK'
    BY <1>1 DEF IndInv, TypeOK
  <1>3. Claims(token) => Claims(token)'
    BY <1>1, ClaimsKept DEF IndInv
  <1>4. Genuine(token) <=> Genuine(token)'
    BY <1>1 DEF Genuine
  <1>5. BadClaims(token) <=> BadClaims(token)'
    BY <1>1 DEF BadClaims
  <1>0. (KeyTrusted <=> KeyTrusted') /\ (KeyUnknown <=> KeyUnknown')
    BY <1>1, KeyKept
  <1>6. LookupOnlyVerified'
    BY <1>0, <1>1, <1>3, <1>4 DEF IndInv, LookupOnlyVerified
  <1>7. began <= clock => began' <= clock'
    BY <1>1
  <1>8. token.exp # Missing /\ token.exp + Leeway < clock => token.exp + Leeway < clock'
    <2>1. token.exp # Missing => token.exp \in Int
      BY <1>1, TokenAssumption
    <2> QED
      BY <1>1, <2>1, TokenAssumption
  <1>9. /\ HeaderError(token)' = HeaderError(token)
        /\ EmulatorHeaderError(token)' = EmulatorHeaderError(token)
    BY <1>1 DEF HeaderError, EmulatorHeaderError
  <1>10. \A a \in seen : InGoodStanding(a, token) <=> InGoodStanding(a, token)'
    BY <1>1 DEF InGoodStanding
  <1> HIDE DEF Claims
  <1> QED
    BY <1>0, <1>1, <1>2, <1>3, <1>4, <1>5, <1>6, <1>7, <1>8, <1>9, <1>10
    DEF IndInv, Verifying

LEMMA ChangeStep ==
    ASSUME IndInv, NEW next \in Accounts, Change(next)
    PROVE  IndInv'
  <1>1. /\ UNCHANGED <<verifier, token, clock, published, since, pc, began, reply, verdict>>
        /\ account' = next /\ changes' = changes + 1 /\ changes < MaxChanges
        /\ seen \subseteq seen' /\ seen' \subseteq seen \cup {next}
        /\ Verifying => account' \in seen'
    BY DEF Change
  <1>2. TypeOK'
    BY <1>1, TokenAssumption DEF IndInv, TypeOK
  <1>3. LookupOnlyVerified'
    BY <1>1 DEF IndInv, LookupOnlyVerified, Genuine, Claims, KeyTrusted
  <1>4. /\ Claims(token) <=> Claims(token)'
        /\ Genuine(token) <=> Genuine(token)'
        /\ BadClaims(token) <=> BadClaims(token)'
        /\ HeaderError(token)' = HeaderError(token)
        /\ EmulatorHeaderError(token)' = EmulatorHeaderError(token)
        /\ KeyTrusted <=> KeyTrusted'
        /\ KeyUnknown <=> KeyUnknown'
    BY <1>1, KeyKept DEF Claims, Genuine, BadClaims, HeaderError, EmulatorHeaderError
  <1>5. \A a \in seen : a \in seen' /\ (InGoodStanding(a, token) <=> InGoodStanding(a, token)')
    BY <1>1 DEF InGoodStanding
  <1>6. Verifying' <=> Verifying
    BY <1>1 DEF Verifying
  <1> QED
    BY <1>1, <1>2, <1>3, <1>4, <1>5, <1>6 DEF IndInv

LEMMA AccountChanges ==
    ASSUME IndInv, RevokeTokens \/ DisableUser \/ EnableUser \/ DeleteUser \/ CreateUser
    PROVE  IndInv'
  <1>1. account \in Accounts /\ clock \in Times
    BY DEF IndInv, TypeOK
  <1>2. PICK next \in Accounts : Change(next)
    BY <1>1 DEF RevokeTokens, DisableUser, EnableUser, DeleteUser, CreateUser, Accounts, Absent
  <1> QED
    BY <1>2, ChangeStep

(* The key is published or withdrawn: nothing was said of it yet.          *)
LEMMA RotateStep == IndInv /\ Rotate => IndInv'
  <1> SUFFICES ASSUME IndInv, Rotate PROVE IndInv'
    OBVIOUS
  <1>1. /\ pc \in {"idle", "key"} /\ reply = NoReply /\ verdict = "none"
        /\ token.kid \in Keys /\ since' = clock /\ clock \in Times
        /\ published' \in BOOLEAN /\ changes' = changes + 1 /\ changes < MaxChanges
        /\ UNCHANGED <<verifier, token, clock, account, pc, began, reply, seen, verdict>>
    BY DEF Rotate, IndInv, TypeOK
  <1>2. TypeOK'
    BY <1>1, TokenAssumption DEF IndInv, TypeOK
  <1>3. HeaderError(token)' = HeaderError(token)
    BY <1>1 DEF HeaderError
  <1>4. LookupOnlyVerified'
    BY <1>1 DEF LookupOnlyVerified
  <1> QED
    BY <1>1, <1>2, <1>3, <1>4 DEF IndInv, Verifying

LEMMA NextIndInv == IndInv /\ [Next]_vars => IndInv'
  <1> SUFFICES ASSUME IndInv, [Next]_vars PROVE IndInv'
    OBVIOUS
  <1>1. CASE Verify
    BY <1>1, BeginProduction, BeginEmulator, KeyForStep, AccessTokenStep, LookupUserStep,
       TimeoutStep DEF Verify
  <1>2. CASE Provider
    BY <1>2, ProviderReadsStep, AccountChanges, RotateStep DEF Provider
  <1>3. CASE Tick
    BY <1>3, TickStep
  <1>4. CASE UNCHANGED vars
    <2>1. TypeOK' /\ LookupOnlyVerified'
      BY <1>4 DEF vars, IndInv, TypeOK, LookupOnlyVerified, Genuine, Claims, KeyTrusted
    <2>2. (KeyTrusted <=> KeyTrusted') /\ (KeyUnknown <=> KeyUnknown')
      BY <1>4, KeyKept DEF vars
    <2> QED
      BY <1>4, <2>1, <2>2 DEF vars, IndInv, Verifying, Genuine, Claims, BadClaims, HeaderError,
                        EmulatorHeaderError, InGoodStanding
  <1> QED
    BY <1>1, <1>2, <1>3, <1>4 DEF Next

---------------------------------------------------------------------------
(* What is known of the token at each point of a call holds in every       *)
(* behaviour.                                                              *)
THEOREM TokenIndInv == Spec => []IndInv
  BY InitIndInv, NextIndInv, PTL DEF Spec

(* Every variable keeps its type.                                          *)
THEOREM TypeCorrect == Spec => []TypeOK
  <1>1. IndInv => TypeOK
    BY DEF IndInv
  <1> QED
    BY <1>1, TokenIndInv, PTL

(* The provider is asked about a subject only after the token's signature  *)
(* and claims were checked.                                                *)
THEOREM LookupsAreVerified == Spec => []LookupOnlyVerified
  <1>1. IndInv => LookupOnlyVerified
    BY DEF IndInv
  <1> QED
    BY <1>1, TokenIndInv, PTL

(* Whatever happens to the account and the key meanwhile, an accepted      *)
(* token was good, and its key was published or withdrawn not long before. *)
THEOREM AcceptedTokensWereValid == Spec => []AcceptedWasValid
  <1>1. IndInv => AcceptedWasValid
    BY DEF IndInv, AcceptedWasValid
  <1> QED
    BY <1>1, TokenIndInv, PTL

(* Whatever fails meanwhile, a token is refused for a cause of its own, or *)
(* as invalid while its key is not published or was not for long           *)
(* (key_or_retry).                                                         *)
THEOREM RefusalsHaveCauses == Spec => []RefusedForCause
  <1>1. IndInv => RefusedForCause
    BY DEF IndInv, RefusedForCause
  <1> QED
    BY <1>1, TokenIndInv, PTL
=============================================================================

------------------------- MODULE TsaTimestampProofs -------------------------
(***************************************************************************)
(* The proofs about TsaTimestamp: IInv is inductive, and with it a token   *)
(* attests what it seems to and a configuration is recent, for any number  *)
(* of calls, authorities and configurations, and any clocks.               *)
(***************************************************************************)
EXTENDS TsaTimestamp, TLAPS

----------------------------------------------------------------------------
(* Configurations.                                                         *)

(* What is read from S3 is a configuration, whose authorities are valid.   *)
LEMMA ConfigType ==
    /\ \A o \in Objects : ConfigOf(o) \in TsaConfig
    /\ DISABLED \in TsaConfig
    /\ \A f \in TsaConfig : f.tsaUrls \subseteq URLs
<1>1. DISABLED \in TsaConfig
  BY DEF DISABLED, TsaConfig
<1>2. ASSUME NEW o \in Objects PROVE ConfigOf(o) \in TsaConfig
  <2>1. CASE o = Unreadable \/ Invalid \in o.tsaUrls \/ (o.enabled /\ o.tsaUrls = {})
    BY <1>1, <2>1, Zenon DEF ConfigOf
  <2>2. CASE ~(o = Unreadable \/ Invalid \in o.tsaUrls \/ (o.enabled /\ o.tsaUrls = {}))
    <3>1. ConfigOf(o) = o
      BY <2>2, Zenon DEF ConfigOf
    <3>2. o \in TsaConfigDto
      BY <2>2, TsaAssumption
    <3>3. o.tsaUrls \in SUBSET URLs
      BY <2>2, <3>2 DEF TsaConfigDto
    <3>4. o \in TsaConfig
      BY <3>2, <3>3 DEF TsaConfigDto, TsaConfig
    <3>. QED BY <3>1, <3>4
  <2>. QED BY <2>1, <2>2
<1>3. \A f \in TsaConfig : f.tsaUrls \subseteq URLs
  BY DEF TsaConfig
<1>. QED BY <1>1, <1>2, <1>3

LEMMA InitInv == Init => IInv
<1> SUFFICES ASSUME Init PROVE IInv
  OBVIOUS
<1>1. TypeOK
  BY TsaAssumption, ConfigType DEF Init, TypeOK, Steps
<1>2. EffectInv /\ CacheInv /\ LockInv
  BY TsaAssumption, ConfigType DEF Init, EffectInv, CacheInv, LockInv
<1>3. ChoiceInv /\ TokenInv
  BY DEF Init, ChoiceInv, ChoiceOf, TokenInv, TokenOf
<1>4. ConfigIsRecent /\ TokenAttests
  BY DEF Init, ConfigIsRecent, TokenAttests
<1>. QED BY <1>1, <1>2, <1>3, <1>4 DEF IInv

(* Time passes: what the object says stays in effect, and a fetch ends in  *)
(* time.                                                                   *)
LEMMA TickStep ==
    ASSUME IInv, Tick
    PROVE  IInv'
<1>1. TypeOK BY DEF IInv
<1>2. TypeOK'
  BY TsaAssumption, ConfigType DEF IInv, TypeOK, Tick, cacheVars, callVars
<1>3. EffectInv'
  BY ConfigType DEF IInv, TypeOK, EffectInv, Tick
<1>4. CacheInv'
  BY TsaAssumption DEF IInv, TypeOK, EffectInv, CacheInv, Tick, cacheVars
<1>5. LockInv'
  BY TsaAssumption DEF IInv, TypeOK, LockInv, Tick, cacheVars, callVars
<1>6. ChoiceInv'
  BY TsaAssumption DEF IInv, TypeOK, ChoiceInv, ChoiceOf, Expired, Tick, cacheVars, callVars
<1>7. TokenInv'
  BY DEF IInv, TypeOK, TokenInv, TokenOf, Token, Tick, callVars
<1>8. ConfigIsRecent'
  BY TsaAssumption DEF IInv, TypeOK, EffectInv, ConfigIsRecent, Tick, callVars
<1>9. TokenAttests'
  BY DEF IInv, TokenAttests, Tick, callVars
<1>. QED BY <1>2, <1>3, <1>4, <1>5, <1>6, <1>7, <1>8, <1>9 DEF IInv

(* The object is replaced.                                                 *)
LEMMA ReconfigureStep ==
    ASSUME IInv, NEW o \in Objects, Reconfigure(o)
    PROVE  IInv'
<1>1. TypeOK BY DEF IInv
<1>2. TypeOK'
  BY TsaAssumption, ConfigType DEF IInv, TypeOK, Reconfigure, cacheVars, callVars
<1>3. EffectInv'
  BY ConfigType DEF IInv, TypeOK, EffectInv, Reconfigure
<1>4. CacheInv'
  BY TsaAssumption DEF IInv, TypeOK, EffectInv, CacheInv, Reconfigure, cacheVars
<1>5. LockInv'
  BY DEF IInv, LockInv, Reconfigure, cacheVars, callVars
<1>6. ChoiceInv'
  BY TsaAssumption
  DEF IInv, TypeOK, ChoiceInv, ChoiceOf, Expired, Reconfigure, cacheVars, callVars
<1>7. TokenInv'
  BY DEF IInv, TokenInv, TokenOf, Reconfigure, callVars
<1>8. ConfigIsRecent'
  BY TsaAssumption DEF IInv, TypeOK, EffectInv, ConfigIsRecent, Reconfigure, callVars
<1>9. TokenAttests'
  BY DEF IInv, TokenAttests, Reconfigure, callVars
<1>. QED BY <1>2, <1>3, <1>4, <1>5, <1>6, <1>7, <1>8, <1>9 DEF IInv

(* A call begins and sees the expiry as it is.                             *)
LEMMA generateStep ==
    ASSUME IInv, NEW c \in Calls, generate(c)
    PROVE  IInv'
<1>1. TypeOK BY DEF IInv
<1>2. TypeOK'
  BY DEF IInv, TypeOK, Steps, generate, cacheVars, worldVars
<1>3. EffectInv'
  BY DEF IInv, EffectInv, generate, worldVars
<1>4. CacheInv'
  BY DEF IInv, CacheInv, generate, cacheVars, worldVars
<1>5. LockInv'
  BY DEF IInv, LockInv, generate, cacheVars, worldVars
<1>6. ChoiceInv'
  BY DEF IInv, TypeOK, ChoiceInv, ChoiceOf, Expired, generate, cacheVars, worldVars
<1>7. TokenInv'
  BY DEF IInv, TokenInv, TokenOf, generate, worldVars
<1>8. ConfigIsRecent'
  BY DEF IInv, ChoiceInv, ChoiceOf, ConfigIsRecent, generate, worldVars
<1>9. TokenAttests'
  BY DEF IInv, TokenInv, TokenOf, TokenAttests, generate
<1>. QED BY <1>2, <1>3, <1>4, <1>5, <1>6, <1>7, <1>8, <1>9 DEF IInv

(* It uses the value if that has not expired.                              *)
LEMMA getConfigStep ==
    ASSUME IInv, NEW c \in Calls, getConfig(c)
    PROVE  IInv'
<1>1. TypeOK BY DEF IInv
<1>2. TypeOK'
  BY DEF IInv, TypeOK, Steps, getConfig, Uses, cacheVars, worldVars
<1>3. EffectInv'
  BY DEF IInv, EffectInv, getConfig, worldVars
<1>4. CacheInv'
  BY DEF IInv, CacheInv, getConfig, cacheVars, worldVars
<1>5. LockInv'
  BY DEF IInv, TypeOK, LockInv, getConfig, Uses, cacheVars, worldVars
<1>6. ChoiceInv'
  BY DEF IInv, TypeOK, CacheInv, ChoiceInv, ChoiceOf, getConfig, Uses, Expired, cacheVars,
     worldVars
<1>7. TokenInv'
  BY DEF IInv, TypeOK, TokenInv, TokenOf, getConfig, Uses, worldVars
<1>8. ConfigIsRecent'
  BY TsaAssumption
  DEF IInv, TypeOK, CacheInv, ChoiceInv, ChoiceOf, ConfigIsRecent, getConfig, Uses, Expired,
      worldVars
<1>9. TokenAttests'
  BY DEF IInv, TokenAttests, getConfig
<1>. QED BY <1>2, <1>3, <1>4, <1>5, <1>6, <1>7, <1>8, <1>9 DEF IInv

(* With the lock it uses what another call has fetched meanwhile, or       *)
(* fetches.                                                                *)
LEMMA LocksStep ==
    ASSUME IInv, NEW c \in Calls, Locks(c)
    PROVE  IInv'
<1>1. TypeOK BY DEF IInv
<1>2. TypeOK'
  BY DEF IInv, TypeOK, Steps, Locks, Uses, worldVars
<1>3. EffectInv'
  BY DEF IInv, EffectInv, Locks, worldVars
<1>4. CacheInv'
  BY DEF IInv, CacheInv, Locks, worldVars
<1>5. LockInv'
  BY TsaAssumption DEF IInv, TypeOK, LockInv, ChoiceInv, ChoiceOf, Locks, Uses
<1>6. ChoiceInv'
  BY DEF IInv, TypeOK, CacheInv, ChoiceInv, ChoiceOf, Locks, Uses, Expired, worldVars
<1>7. TokenInv'
  BY DEF IInv, TypeOK, TokenInv, TokenOf, Locks, Uses, worldVars
<1>8. ConfigIsRecent'
  BY DEF IInv, TypeOK, ChoiceInv, ChoiceOf, ConfigIsRecent, Locks, Uses, worldVars
<1>9. TokenAttests'
  BY DEF IInv, TokenAttests, Locks
<1>. QED BY <1>2, <1>3, <1>4, <1>5, <1>6, <1>7, <1>8, <1>9 DEF IInv

(* The object is read.                                                     *)
LEMMA fetchConfigStep ==
    ASSUME IInv, NEW c \in Calls, fetchConfig(c)
    PROVE  IInv'
<1>1. TypeOK BY DEF IInv
<1>2. TypeOK'
  BY ConfigType DEF IInv, TypeOK, fetchConfig, callVars, worldVars
<1>3. EffectInv'
  BY DEF IInv, EffectInv, fetchConfig, worldVars
<1>4. CacheInv'
  BY DEF IInv, CacheInv, fetchConfig, worldVars
<1>5. LockInv'
  BY TsaAssumption DEF IInv, EffectInv, LockInv, fetchConfig, callVars, worldVars
<1>6. ChoiceInv'
  BY DEF IInv, ChoiceInv, ChoiceOf, Expired, fetchConfig, callVars, worldVars
<1>7. TokenInv'
  BY DEF IInv, TokenInv, TokenOf, fetchConfig, callVars, worldVars
<1>8. ConfigIsRecent'
  BY DEF IInv, ConfigIsRecent, fetchConfig, callVars, worldVars
<1>9. TokenAttests'
  BY DEF IInv, TokenAttests, fetchConfig, callVars
<1>. QED BY <1>2, <1>3, <1>4, <1>5, <1>6, <1>7, <1>8, <1>9 DEF IInv

(* Reading it fails.                                                       *)
LEMMA fetchFailsStep ==
    ASSUME IInv, NEW c \in Calls, fetchFails(c)
    PROVE  IInv'
<1>1. TypeOK BY DEF IInv
<1>2. TypeOK'
  BY TsaAssumption, ConfigType DEF IInv, TypeOK, fetchFails, callVars
<1>3. EffectInv'
  BY DEF IInv, TypeOK, EffectInv, fetchFails
<1>4. CacheInv'
  BY TsaAssumption DEF IInv, TypeOK, EffectInv, CacheInv, fetchFails
<1>5. LockInv'
  BY TsaAssumption, ConfigType DEF IInv, TypeOK, LockInv, fetchFails, callVars
<1>6. ChoiceInv'
  BY TsaAssumption DEF IInv, TypeOK, ChoiceInv, ChoiceOf, Expired, fetchFails, callVars
<1>7. TokenInv'
  BY DEF IInv, TokenInv, TokenOf, fetchFails, callVars
<1>8. ConfigIsRecent'
  BY TsaAssumption DEF IInv, TypeOK, EffectInv, ConfigIsRecent, fetchFails, callVars
<1>9. TokenAttests'
  BY DEF IInv, TokenAttests, fetchFails, callVars
<1>. QED BY <1>2, <1>3, <1>4, <1>5, <1>6, <1>7, <1>8, <1>9 DEF IInv

(* The value and its expiry are replaced; the expiry never goes back.      *)
LEMMA MemoizesStep ==
    ASSUME IInv, NEW c \in Calls, Memoizes(c)
    PROVE  IInv'
<1>1. TypeOK BY DEF IInv
<1>2. TypeOK'
  BY TsaAssumption DEF IInv, TypeOK, Steps, Memoizes, Uses, memoizeWithExpiration, worldVars
<1>3. EffectInv'
  BY DEF IInv, EffectInv, Memoizes, worldVars
<1>4. CacheInv'
  BY TsaAssumption
  DEF IInv, TypeOK, CacheInv, LockInv, Memoizes, memoizeWithExpiration, worldVars
<1>5. LockInv'
  BY DEF IInv, TypeOK, LockInv, Memoizes, Uses
<1>6. ChoiceInv'
  BY TsaAssumption
  DEF IInv, TypeOK, LockInv, ChoiceInv, ChoiceOf, Memoizes, Uses, Expired,
      memoizeWithExpiration, worldVars
<1>7. TokenInv'
  BY DEF IInv, TokenInv, TokenOf, Memoizes, Uses, worldVars
<1>8. ConfigIsRecent'
  BY TsaAssumption DEF IInv, TypeOK, LockInv, ConfigIsRecent, Memoizes, Uses, worldVars
<1>9. TokenAttests'
  BY DEF IInv, TokenAttests, Memoizes
<1>. QED BY <1>2, <1>3, <1>4, <1>5, <1>6, <1>7, <1>8, <1>9 DEF IInv

(* An authority is chosen.                                                 *)
LEMMA selectUrlStep ==
    ASSUME IInv, NEW c \in Calls, selectUrl(c)
    PROVE  IInv'
<1>1. TypeOK BY DEF IInv
<1>2. TypeOK'
  <2>1. config[c] \in TsaConfig
    BY <1>1 DEF IInv, TypeOK, ChoiceInv, ChoiceOf, selectUrl
  <2>2. PICK u \in config[c].tsaUrls : url' = [url EXCEPT ![c] = u]
    BY DEF selectUrl
  <2>3. url' \in [Calls -> URLs \cup {Invalid}]
    BY <1>1, <2>1, <2>2, ConfigType DEF TypeOK
  <2>. QED BY <1>1, <2>3 DEF TypeOK, Steps, selectUrl, cacheVars, worldVars
<1>3. EffectInv'
  BY DEF IInv, EffectInv, selectUrl, worldVars
<1>4. CacheInv'
  BY DEF IInv, CacheInv, selectUrl, cacheVars, worldVars
<1>5. LockInv'
  BY DEF IInv, LockInv, selectUrl, cacheVars, worldVars
<1>6. ChoiceInv'
  BY DEF IInv, ChoiceInv, ChoiceOf, Expired, selectUrl, cacheVars, worldVars
<1>7. TokenInv'
  BY ConfigType
  DEF IInv, TypeOK, ChoiceInv, ChoiceOf, TokenInv, TokenOf, selectUrl, worldVars
<1>8. ConfigIsRecent'
  BY DEF IInv, ConfigIsRecent, selectUrl, worldVars
<1>9. TokenAttests'
  BY DEF IInv, TokenAttests, selectUrl
<1>. QED BY <1>2, <1>3, <1>4, <1>5, <1>6, <1>7, <1>8, <1>9 DEF IInv

(* An authority makes a token.                                             *)
LEMMA IssueStep ==
    ASSUME IInv, NEW c \in Calls, NEW offset \in Offsets, Issue(c, offset)
    PROVE  IInv'
<1>1. TypeOK BY DEF IInv
<1>2. TypeOK'
  <2> DEFINE t == [nonce |-> c, imprint |-> data[c], url |-> url[c],
                   genTime |-> now + offset, issuedAt |-> now]
  <2>1. t \in Token
    BY TsaAssumption DEF IInv, TypeOK, TokenInv, TokenOf, Token, Issue
  <2>2. issued' = issued \cup {t} /\ UNCHANGED <<now, cacheVars, callVars, object, inEffect, changes, faults>>
    BY DEF Issue
  <2> HIDE DEF t
  <2>3. result' \in [Calls -> issued' \cup {NoToken}]
    BY <1>1, <2>2 DEF TypeOK, callVars
  <2>. QED BY <1>1, <2>1, <2>2, <2>3 DEF TypeOK, cacheVars, callVars
<1>3. EffectInv'
  BY DEF IInv, EffectInv, Issue
<1>4. CacheInv'
  BY DEF IInv, CacheInv, Issue, cacheVars
<1>5. LockInv'
  BY DEF IInv, LockInv, Issue, cacheVars, callVars
<1>6. ChoiceInv'
  BY DEF IInv, ChoiceInv, ChoiceOf, Expired, Issue, cacheVars, callVars
<1>7. TokenInv'
  BY DEF IInv, TypeOK, ChoiceInv, ChoiceOf, TokenInv, TokenOf, Issue, callVars
<1>8. ConfigIsRecent'
  BY DEF IInv, ConfigIsRecent, Issue, callVars
<1>9. TokenAttests'
  BY DEF IInv, TokenAttests, Issue, callVars
<1>. QED BY <1>2, <1>3, <1>4, <1>5, <1>6, <1>7, <1>8, <1>9 DEF IInv

(* A call ends with a token that has passed the checks, or without one.    *)
LEMMA EndsStep ==
    ASSUME IInv, NEW c \in Calls, step[c] \in {"select", "sending"},
           NEW r \in issued \cup {NoToken}, Ends(c, r),
           r # NoToken => \E status \in PKIStatus : extractTokenAndVerify(status, r, c)
    PROVE  IInv'
<1>1. TypeOK BY DEF IInv
<1>2. TypeOK'
  BY <1>1 DEF TypeOK, Steps, Ends, cacheVars, worldVars
<1>3. EffectInv' /\ CacheInv'
  BY DEF IInv, EffectInv, CacheInv, Ends, cacheVars, worldVars
<1>4. LockInv'
  BY <1>1 DEF IInv, TypeOK, LockInv, Ends, cacheVars, worldVars
<1>5. ChoiceInv' /\ ConfigIsRecent'
  BY DEF IInv, ChoiceInv, ChoiceOf, Expired, ConfigIsRecent, Ends, cacheVars, worldVars
<1>6. TokenInv'
  BY <1>1 DEF IInv, TypeOK, TokenInv, TokenOf, Ends, worldVars
<1>7. TokenAttests'
  <2>1. ASSUME r # NoToken
        PROVE  /\ Trusted(r)
               /\ r.imprint = data[c]
               /\ begun[c] <= r.issuedAt /\ r.issuedAt <= now
               /\ -(MAX_CLOCK_SKEW + now - begun[c]) <= r.genTime - r.issuedAt
               /\ r.genTime - r.issuedAt <= MAX_CLOCK_SKEW + now - begun[c]
    <3>1. r \in issued /\ r \in Token
      BY <1>1, <2>1 DEF TypeOK
    <3>2. verifyResponseMatchesRequest(r, c) /\ verifyTimeSkew(r) /\ verify(r)
      BY <2>1 DEF extractTokenAndVerify
    <3>3. Trusted(r)
      BY <3>2, TsaAssumption
      DEF verify, extractSignerCertificates, verifyTokenSignature, verifyCertificateChain,
          isTrustAnchorValidAt, Trusted
    <3>4. /\ r.imprint = data[c]
          /\ begun[c] <= r.issuedAt /\ r.issuedAt <= now
      BY <3>1, <3>2 DEF IInv, TokenInv, TokenOf, verifyResponseMatchesRequest
    <3>5. /\ r.genTime \in Int /\ r.issuedAt \in Nat /\ now \in Nat /\ begun[c] \in Nat
          /\ MAX_CLOCK_SKEW \in Nat
      BY <1>1, <3>1, TsaAssumption DEF TypeOK, Token
    <3>6. -MAX_CLOCK_SKEW <= now - r.genTime /\ now - r.genTime <= MAX_CLOCK_SKEW
      BY <3>2, <3>5 DEF verifyTimeSkew
    <3>. QED BY <3>3, <3>4, <3>5, <3>6
  <2>2. /\ \A d \in Calls : d # c => result'[d] = result[d] /\ ended'[d] = ended[d]
        /\ result'[c] = r /\ ended'[c] = now
        /\ UNCHANGED <<begun, data>>
    BY <1>1 DEF TypeOK, Ends
  <2>. QED BY <2>1, <2>2 DEF IInv, TokenAttests, Trusted
<1>. QED BY <1>2, <1>3, <1>4, <1>5, <1>6, <1>7 DEF IInv

LEMMA RequestStep ==
    ASSUME IInv, NEW c \in Calls,
           \/ selectsNone(c) \/ requestFails(c)
           \/ \E status \in PKIStatus, t \in issued \cup {NoToken} :
                 requestTimeStampToken(c, status, t)
    PROVE  IInv'
<1>1. CASE selectsNone(c)
  BY <1>1, EndsStep DEF selectsNone
<1>2. CASE requestFails(c)
  BY <1>2, EndsStep DEF requestFails
<1>3. ASSUME NEW status \in PKIStatus, NEW t \in issued \cup {NoToken},
             requestTimeStampToken(c, status, t)
      PROVE  IInv'
  <2>1. CASE extractTokenAndVerify(status, t, c)
    BY <1>3, <2>1, EndsStep DEF requestTimeStampToken
  <2>2. CASE ~extractTokenAndVerify(status, t, c)
    BY <1>3, <2>2, EndsStep DEF requestTimeStampToken
  <2>. QED BY <2>1, <2>2
<1>. QED BY <1>1, <1>2, <1>3

(* Every step keeps the invariant.                                         *)
LEMMA StepInv == IInv /\ [Next]_vars => IInv'
<1> SUFFICES ASSUME IInv, [Next]_vars PROVE IInv'
  OBVIOUS
<1>1. CASE UNCHANGED vars
  BY <1>1
  DEF IInv, TypeOK, EffectInv, CacheInv, LockInv, ChoiceInv, ChoiceOf, Expired, TokenInv,
      TokenOf, ConfigIsRecent, TokenAttests, vars, cacheVars, callVars, worldVars
<1>2. CASE Tick
  BY <1>2, TickStep
<1>3. ASSUME NEW o \in Objects, Reconfigure(o) PROVE IInv'
  BY <1>3, ReconfigureStep
<1>4. ASSUME NEW c \in Calls, generate(c) \/ getConfig(c) \/ Locks(c) PROVE IInv'
  BY <1>4, generateStep, getConfigStep, LocksStep
<1>5. ASSUME NEW c \in Calls, fetchConfig(c) \/ fetchFails(c) \/ Memoizes(c) PROVE IInv'
  BY <1>5, fetchConfigStep, fetchFailsStep, MemoizesStep
<1>6. ASSUME NEW c \in Calls, selectsNone(c) \/ selectUrl(c) \/ requestFails(c) PROVE IInv'
  BY <1>6, selectUrlStep, RequestStep
<1>7. ASSUME NEW c \in Calls, NEW offset \in Offsets, Issue(c, offset) PROVE IInv'
  BY <1>7, IssueStep
<1>8. ASSUME NEW c \in Calls, NEW status \in PKIStatus, NEW t \in issued \cup {NoToken},
             requestTimeStampToken(c, status, t)
      PROVE  IInv'
  BY <1>8, RequestStep
<1>. QED BY <1>1, <1>2, <1>3, <1>4, <1>5, <1>6, <1>7, <1>8 DEF Next

----------------------------------------------------------------------------
(* IInv is an invariant of the time stamps.                                *)
THEOREM Invariance == Spec => []IInv
  BY InitInv, StepInv, PTL DEF Spec

(* Types, for any calls, authorities and configurations.                   *)
THEOREM TypeCorrect == Spec => []TypeOK
<1>1. IInv => TypeOK BY DEF IInv
<1>. QED BY <1>1, Invariance, PTL

(* A time stamp attests what it seems to (extractTokenAndVerify), whatever *)
(* answers are mixed up and however far the authorities' clocks are off.   *)
THEOREM TokensAttest == Spec => []TokenAttests
<1>1. IInv => TokenAttests BY DEF IInv
<1>. QED BY <1>1, Invariance, PTL

(* A call's configuration is at most CACHE_TTL older than the call         *)
(* (S3TsaConfigProvider), if reading the object takes no longer than that. *)
THEOREM ConfigsAreRecent == Spec => []ConfigIsRecent
<1>1. IInv => ConfigIsRecent BY DEF IInv
<1>. QED BY <1>1, Invariance, PTL
=============================================================================

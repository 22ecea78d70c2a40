---------------------------- MODULE TsaTimestamp ----------------------------
(***************************************************************************)
(* The time stamps of endorsement signatures (adapters/tsa): where the     *)
(* configuration comes from (S3TsaConfigProvider, RandomTsaUrlSelector),   *)
(* the request (SimpleTsaClient), what is checked of the answer            *)
(* (TsaTimestampVerifierImpl), and the signature that is made with or      *)
(* without it (SignatureGeneratorImpl.generate).                           *)
(*                                                                         *)
(* The configuration is memoised for CACHE_TTL; concurrent calls share the *)
(* value, and one of them at a time fetches it, while the operator may     *)
(* replace the object and S3 may fail.  The answer to a request may be any *)
(* token ever issued, the one of another request included, or none.  A     *)
(* request is identified by its nonce, and a call makes at most one: the   *)
(* nonce is the call.                                                      *)
(***************************************************************************)
EXTENDS Integers

CONSTANTS Calls,            \* the calls of generate
          Data,             \* the signatures to be time-stamped
          URLs,             \* the authorities an operator can configure
          Invalid,          \* what parseAndValidateUri rejects
          Unreadable,       \* an object that is absent or cannot be parsed
          Anchors,          \* the trust anchors
          AnchorNotAfter,   \* how long each of them is valid
          Certificates,     \* what authority u signs with and sends along
          Objects,          \* the configuration objects the operator stores
          Offsets,          \* how far the authorities' clocks are off
          CACHE_TTL, MAX_CLOCK_SKEW,
          FetchTime,        \* how long reading the object may take
          NoCall, NoConfig, NoToken,
          MaxTime,          \* bound: when the clock stops
          MaxChanges,       \* bound: how often the object is replaced
          MaxFaults         \* bound: failing reads of the object

TsaConfig == [enabled : BOOLEAN, tsaUrls : SUBSET URLs]
TsaConfigDto == [enabled : BOOLEAN, tsaUrls : SUBSET (URLs \cup {Invalid})]

(* A candidate: whether it verifies the token's signature (with approved   *)
(* algorithms), the anchor its chain leads to, if any, and whether the     *)
(* keys and signatures of the chain are strong enough.                     *)
Candidate == [signs : BOOLEAN, anchor : Anchors \cup {NoToken}, strong : BOOLEAN]

ASSUME TsaAssumption ==
    /\ Invalid \notin URLs
    /\ AnchorNotAfter \in [Anchors -> Int]
    /\ Certificates \in [URLs -> SUBSET Candidate]
    /\ Objects \subseteq TsaConfigDto \cup {Unreadable}
    /\ Offsets \subseteq Int
    /\ CACHE_TTL \in Nat /\ MAX_CLOCK_SKEW \in Nat
    /\ FetchTime \in Nat /\ FetchTime <= CACHE_TTL
    /\ NoCall \notin Calls /\ NoConfig \notin TsaConfig /\ NoToken \notin Anchors
    /\ MaxTime \in Nat /\ MaxChanges \in Nat /\ MaxFaults \in Nat

DISABLED == [enabled |-> FALSE, tsaUrls |-> {}]

(* A token; issuedAt is when it was really made.                           *)
Token == [nonce : Calls, imprint : Data, url : URLs, genTime : Int, issuedAt : Nat]

VARIABLES
    now,
    object,      \* what the bucket holds
    inEffect,    \* inEffect[f]: when a read last gave, or would have given, f; -1 for never
    value,       \* the memoised configuration
    expiration,  \* expirationNanos, -1 before the first fetch
    lock,        \* the call that fetches
    lockedAt,    \* since when
    fetched,     \* the configuration it has read
    step, data, begun, seen, config, url, result, ended,   \* of each call
    issued,      \* the tokens the authorities have made
    changes, faults

cacheVars == <<value, expiration, lock, lockedAt, fetched>>
callVars == <<step, data, begun, seen, config, url, result, ended>>
worldVars == <<object, inEffect, issued, changes, faults>>
vars == <<now, cacheVars, callVars, worldVars>>

Steps == {"idle", "get", "locking", "fetching", "select", "sending", "done"}

TypeOK ==
    /\ now \in 0..MaxTime
    /\ object \in Objects
    /\ inEffect \in [TsaConfig -> -1..MaxTime]
    /\ value \in TsaConfig \cup {NoConfig}
    /\ expiration \in -1..(MaxTime + CACHE_TTL)
    /\ lock \in Calls \cup {NoCall}
    /\ lockedAt \in 0..MaxTime
    /\ fetched \in TsaConfig \cup {NoConfig}
    /\ step \in [Calls -> Steps]
    /\ data \in [Calls -> Data]
    /\ begun \in [Calls -> 0..MaxTime]
    /\ seen \in [Calls -> -1..(MaxTime + CACHE_TTL)]
    /\ config \in [Calls -> TsaConfig \cup {NoConfig}]
    /\ url \in [Calls -> URLs \cup {Invalid}]
    /\ result \in [Calls -> issued \cup {NoToken}]
    /\ ended \in [Calls -> 0..MaxTime]
    /\ issued \subseteq Token
    /\ changes \in 0..MaxChanges
    /\ faults \in 0..MaxFaults

----------------------------------------------------------------------------
(* What fetchConfig makes of the object.                                   *)
ConfigOf(o) ==
    IF \/ o = Unreadable
       \/ Invalid \in o.tsaUrls
       \/ o.enabled /\ o.tsaUrls = {}
    THEN DISABLED
    ELSE o

Init ==
    /\ now = 0
    /\ object \in Objects
    /\ inEffect = [f \in TsaConfig |-> IF f = ConfigOf(object) THEN 0 ELSE -1]
    /\ value = NoConfig
    /\ expiration = -1
    /\ lock = NoCall
    /\ lockedAt = 0
    /\ fetched = NoConfig
    /\ step = [c \in Calls |-> "idle"]
    /\ data \in [Calls -> Data]
    /\ begun = [c \in Calls |-> 0]
    /\ seen = [c \in Calls |-> -1]
    /\ config = [c \in Calls |-> NoConfig]
    /\ url = [c \in Calls |-> Invalid]
    /\ result = [c \in Calls |-> NoToken]
    /\ ended = [c \in Calls |-> 0]
    /\ issued = {}
    /\ changes = 0
    /\ faults = 0

(* Time passes; a read of the object is over after FetchTime.              *)
Tick ==
    /\ now < MaxTime
    /\ lock # NoCall => now < lockedAt + FetchTime
    /\ now' = now + 1
    /\ inEffect' = [inEffect EXCEPT ![ConfigOf(object)] = now + 1]
    /\ UNCHANGED <<cacheVars, callVars, object, issued, changes, faults>>

(* The operator replaces the object.                                       *)
Reconfigure(o) ==
    /\ o # object
    /\ changes < MaxChanges
    /\ changes' = changes + 1
    /\ object' = o
    /\ inEffect' = [inEffect EXCEPT ![ConfigOf(o)] = now]
    /\ UNCHANGED <<now, cacheVars, callVars, issued, faults>>

----------------------------------------------------------------------------
(* The configuration of a call.                                            *)

Uses(c, f) ==
    /\ config' = [config EXCEPT ![c] = f]
    /\ step' = [step EXCEPT ![c] = "select"]

(* The signature is made, and getConfig asks the memoising supplier, which *)
(* looks at the clock and at the expiry.                                   *)
generate(c) ==
    /\ step[c] = "idle"
    /\ step' = [step EXCEPT ![c] = "get"]
    /\ begun' = [begun EXCEPT ![c] = now]
    /\ seen' = [seen EXCEPT ![c] = expiration]
    /\ UNCHANGED <<now, cacheVars, data, config, url, result, ended, worldVars>>

Expired(c) == seen[c] = -1 \/ begun[c] >= seen[c]

getConfig(c) ==
    /\ step[c] = "get"
    /\ \/ Expired(c) /\ step' = [step EXCEPT ![c] = "locking"] /\ UNCHANGED config
       \/ ~Expired(c) /\ Uses(c, value)
    /\ UNCHANGED <<now, cacheVars, data, begun, seen, url, result, ended, worldVars>>

(* With the lock: somebody else may have fetched meanwhile.                *)
Locks(c) ==
    /\ step[c] = "locking"
    /\ lock = NoCall
    /\ \/ expiration # seen[c] /\ Uses(c, value) /\ UNCHANGED <<lock, lockedAt>>
       \/ /\ expiration = seen[c]
          /\ step' = [step EXCEPT ![c] = "fetching"]
          /\ lock' = c
          /\ lockedAt' = now
          /\ UNCHANGED config
    /\ UNCHANGED <<now, value, expiration, fetched, data, begun, seen, url, result, ended, worldVars>>

(* The request to S3, and its failure, which counts as DISABLED.           *)
fetchConfig(c) ==
    /\ step[c] = "fetching"
    /\ fetched = NoConfig
    /\ fetched' = ConfigOf(object)
    /\ UNCHANGED <<now, value, expiration, lock, lockedAt, callVars, worldVars>>

fetchFails(c) ==
    /\ step[c] = "fetching"
    /\ fetched = NoConfig
    /\ faults < MaxFaults
    /\ faults' = faults + 1
    /\ fetched' = DISABLED
    /\ inEffect' = [inEffect EXCEPT ![DISABLED] = now]
    /\ UNCHANGED <<now, value, expiration, lock, lockedAt, callVars, object, issued, changes>>

memoizeWithExpiration_Never(c) == MaxTime + CACHE_TTL      \* mutant: Suppliers.memoize

(* The value expires CACHE_TTL after the call asked for it.                *)
memoizeWithExpiration(c) == begun[c] + CACHE_TTL

Memoizes(c) ==
    /\ step[c] = "fetching"
    /\ fetched # NoConfig
    /\ value' = fetched
    /\ expiration' = memoizeWithExpiration(c)
    /\ lock' = NoCall
    /\ UNCHANGED lockedAt
    /\ fetched' = NoConfig
    /\ Uses(c, fetched)
    /\ UNCHANGED <<now, data, begun, seen, url, result, ended, worldVars>>

----------------------------------------------------------------------------
(* The request.                                                            *)

Ends(c, r) ==
    /\ step' = [step EXCEPT ![c] = "done"]
    /\ result' = [result EXCEPT ![c] = r]
    /\ ended' = [ended EXCEPT ![c] = now]
    /\ UNCHANGED <<now, cacheVars, data, begun, seen, config, url, worldVars>>

(* Nothing is to be done if time stamps are disabled.                      *)
selectsNone(c) ==
    /\ step[c] = "select"
    /\ ~config[c].enabled
    /\ Ends(c, NoToken)

selectUrl(c) ==
    /\ step[c] = "select"
    /\ config[c].enabled
    /\ \E u \in config[c].tsaUrls : url' = [url EXCEPT ![c] = u]
    /\ step' = [step EXCEPT ![c] = "sending"]
    /\ UNCHANGED <<now, cacheVars, data, begun, seen, config, result, ended, worldVars>>

(* The authority makes a token for a request it has got.                   *)
Issue(c, offset) ==
    /\ step[c] = "sending"
    /\ ~\E t \in issued : t.nonce = c
    /\ issued' = issued \cup {[nonce |-> c, imprint |-> data[c], url |-> url[c],
                               genTime |-> now + offset, issuedAt |-> now]}
    /\ UNCHANGED <<now, cacheVars, callVars, object, inEffect, changes, faults>>

verifyResponseMatchesRequest_ImprintOnly(t, c) == t.imprint = data[c]   \* mutant: no nonce

verifyResponseMatchesRequest(t, c) == t.nonce = c /\ t.imprint = data[c]

verifyTimeSkew(t) == now - t.genTime \in -MAX_CLOCK_SKEW..MAX_CLOCK_SKEW

isTrustAnchorValidAt(a, date) == a \in Anchors /\ date <= AnchorNotAfter[a]

verifyCertificateChain(t, cert) == isTrustAnchorValidAt(cert.anchor, t.genTime) /\ cert.strong

(* The certificates in the token that its signer id names.                 *)
extractSignerCertificates(t) == Certificates[t.url]

verifyTokenSignature(cert) == cert.signs

(* One certificate both signed the token and can be trusted.               *)
verify(t) ==
    \E cert \in extractSignerCertificates(t) :
        verifyTokenSignature(cert) /\ verifyCertificateChain(t, cert)

(* A response states a status, and has a token or not, whatever its status.*)
PKIStatus == {"granted", "grantedWithMods", "rejection", "waiting"}

verifyResponseStatus(status) == status \in {"granted", "grantedWithMods"}

extractTimeStampToken(t) == t # NoToken

extractTokenAndVerify(status, t, c) ==
    /\ verifyResponseStatus(status)
    /\ extractTimeStampToken(t)
    /\ verifyResponseMatchesRequest(t, c)
    /\ verifyTimeSkew(t)
    /\ verify(t)

(* A response, whose token is used or rejected.                            *)
requestTimeStampToken(c, status, t) ==
    /\ step[c] = "sending"
    /\ Ends(c, IF extractTokenAndVerify(status, t, c) THEN t ELSE NoToken)

(* Any other end of the request: no response in time, or one that is not   *)
(* 200, not a time-stamp reply, too long, empty or malformed; the          *)
(* signature goes without a time stamp.                                    *)
requestFails(c) == step[c] = "sending" /\ Ends(c, NoToken)

----------------------------------------------------------------------------
Next ==
    \/ Tick
    \/ \E o \in Objects : Reconfigure(o)
    \/ \E c \in Calls :
          \/ generate(c) \/ getConfig(c) \/ Locks(c)
          \/ fetchConfig(c) \/ fetchFails(c) \/ Memoizes(c)
          \/ selectsNone(c) \/ selectUrl(c)
          \/ \E offset \in Offsets : Issue(c, offset)
          \/ \E status \in PKIStatus, t \in issued \cup {NoToken} :
                requestTimeStampToken(c, status, t)
          \/ requestFails(c)

Spec == Init /\ [][Next]_vars

----------------------------------------------------------------------------
(* Properties.                                                             *)

(* An authority that holds a strong key of a trusted chain.                *)
Trusted(t) ==
    \E cert \in Certificates[t.url] :
        /\ cert.signs /\ cert.strong
        /\ cert.anchor # NoToken /\ t.genTime <= AnchorNotAfter[cert.anchor]

(* A time stamp in an endorsement attests what it seems to: a trusted      *)
(* authority made it, for this signature, while this call was waiting for  *)
(* it, and the time it states is off by no more than the accepted skew and *)
(* the length of the call, whatever answers were mixed up or repeated.     *)
TokenAttests ==
    \A c \in Calls :
        LET t == result[c]
            error == t.genTime - t.issuedAt
            limit == MAX_CLOCK_SKEW + ended[c] - begun[c]
        IN  t # NoToken =>
                /\ Trusted(t)
                /\ t.imprint = data[c]
                /\ begun[c] <= t.issuedAt /\ t.issuedAt <= ended[c]
                /\ -limit <= error /\ error <= limit

(* A call goes by a configuration that S3 gave at most CACHE_TTL before    *)
(* the call began: a withdrawn authority, and timestamping switched off by *)
(* a failing read, are history after that, however the calls that fetch    *)
(* and the ones that wait for them interleave.                             *)
ConfigIsRecent ==
    \A c \in Calls : config[c] # NoConfig => inEffect[config[c]] >= begun[c] - CACHE_TTL

----------------------------------------------------------------------------
(* The inductive invariant of TsaTimestampProofs.                          *)

(* What the object says now is in effect now, nothing is in the future.    *)
EffectInv ==
    /\ inEffect[ConfigOf(object)] = now
    /\ \A f \in TsaConfig : inEffect[f] <= now

(* The memoised value was in effect CACHE_TTL before it expires: the call  *)
(* whose clock the expiry is counted from had begun when it was fetched.   *)
CacheInv ==
    /\ value = NoConfig <=> expiration = -1
    /\ value # NoConfig => inEffect[value] >= expiration - CACHE_TTL

(* One call fetches, for at most FetchTime, what it found expired; what it *)
(* has read was in effect under its lock.                                  *)
LockInv ==
    /\ lock # NoCall => /\ step[lock] = "fetching"
                        /\ begun[lock] <= lockedAt
                        /\ lockedAt <= now /\ now <= lockedAt + FetchTime
                        /\ seen[lock] = expiration
    /\ \A c \in Calls : step[c] = "fetching" => lock = c
    /\ fetched # NoConfig => lock # NoCall /\ inEffect[fetched] >= lockedAt

(* A call that has still to choose its configuration has seen the expiry   *)
(* as it is, or an earlier one; then the value has been replaced since the *)
(* call began, by a fetch that was not over before.                        *)
ChoiceOf(c) ==
    /\ begun[c] <= now
    /\ step[c] \in {"idle", "get", "locking", "fetching"} => config[c] = NoConfig
    /\ step[c] \in {"select", "sending"} => config[c] # NoConfig
    /\ step[c] \in {"get", "locking", "fetching"} =>
          /\ seen[c] <= expiration
          /\ expiration # seen[c] => inEffect[value] >= begun[c] - CACHE_TTL
    /\ step[c] \in {"locking", "fetching"} => Expired(c)

(* A token was made for a request under way, with what was sent.           *)
TokenOf(c) ==
    /\ step[c] = "sending" => url[c] \in URLs
    /\ step[c] # "done" => result[c] = NoToken
    /\ \A t \in issued : t.nonce = c =>
          /\ step[c] \in {"sending", "done"}
          /\ t.imprint = data[c]
          /\ begun[c] <= t.issuedAt /\ t.issuedAt <= now

ChoiceInv == \A c \in Calls : ChoiceOf(c)
TokenInv == \A c \in Calls : TokenOf(c)

IInv ==
    /\ TypeOK /\ EffectInv /\ CacheInv /\ LockInv /\ ChoiceInv /\ TokenInv
    /\ ConfigIsRecent /\ TokenAttests
=============================================================================

--------------------------- MODULE PesEndorsement ---------------------------
(***************************************************************************)
(* CreatePublicEndorsement, from JwtInterceptor to the answer.             *)
(*                                                                         *)
(* Every call runs in a thread of its own.  A call reads the active trust  *)
(* package, the publisher's policy and the ledger's certificate at         *)
(* different moments, each of which may be replaced meanwhile, writes to   *)
(* the transparency ledger, which cannot be undone, and may fail at any of *)
(* these steps.                                                            *)
(*                                                                         *)
(* What a client sends is a record of the facts the checks tell apart: its *)
(* token and the audiences in it, the statement (module Statements), the   *)
(* verification material, and whether the statement signature verifies     *)
(* under that material.                                                    *)
(***************************************************************************)
EXTENDS Naturals, Sequences, FiniteSets, Statements

CONSTANTS
    Calls,                  \* the calls clients make, one thread each
    Certificates,           \* root certificates the provider may activate
    NotAfter,               \* when each certificate expires
    TrustDomain,            \* the trust domain in its subject alternative name
    NoTrustDomain,          \* there is none, or not one of PES
    ServiceHosts,           \* the global and the regional hostname
    Audiences,              \* hosts that tokens may be meant for
    Identities,             \* (issuer, subject) pairs of verified tokens
    Materials,              \* verification materials
    PublicKeys,             \* those that hold a key of a supported type
    Requests,               \* what a client may send
    PolicyFiles,            \* what an administrator may store for a publisher
    NoPolicy,               \* no object under the publisher's key
    MAX_APPROVED_PUBLISHERS,
    MaxChanges,             \* bound: certificate and policy replacements
    MaxFaults               \* bound: failures of what PES depends on

Policies == [publisherId : Publishers, oidcTokenClaims : SUBSET Identities,
             verificationMaterialList : SUBSET Materials]

ASSUME ConstantsAssumption ==
    /\ IsFiniteSet(Calls)
    /\ NotAfter \in [Certificates -> Nat]
    /\ Requests \subseteq
         [token : {"absent", "invalid", "nullClaim", "blankClaim", "valid"},
          audiences : SUBSET Audiences,
          identity : Identities,
          format : {"FORMAT_UNSPECIFIED", "JSON_INTOTO", "UNRECOGNIZED"},
          statement : Statements,
          material : Materials,
          signature : {"valid", "invalid"}]
    /\ PolicyFiles \subseteq Policies
    /\ NoPolicy \notin Policies
    /\ MAX_APPROVED_PUBLISHERS \in Nat
    /\ MaxChanges \in Nat
    /\ MaxFaults \in Nat

Statuses == {"OK", "INVALID_ARGUMENT", "UNAUTHENTICATED", "PERMISSION_DENIED",
             "FAILED_PRECONDITION", "UNAVAILABLE", "UNKNOWN"}

AuthenticationStatus == {"SUCCESS", "FAILURE"}

Phases == {"intercept", "create", "parse", "publisher", "signature", "post", "receipt", "sign",
           "keySetStalls", "timeStampStalls"}

VARIABLES
    request,            \* what each call carries
    pc,                 \* where each call is, or "done"
    status,             \* the gRPC status it was answered with, or "none"
    mbcs,               \* the trust package createEndorsement read
    signed,             \* whether the answer to the post has the ledger's signature
    signedBy,           \* the certificates that signed the endorsement returned
    active,             \* the provider's active trust package
    policy,             \* the policy bucket
    authorised,         \* history: calls, and publishers whose policy has allowed them
    ledger,             \* the calls whose endorsement it recorded, in order
    approvedPublishers,
    endorsementCounters,
    authenticationCounter,
    changes,
    faults

callVars == <<request, pc, status, mbcs, signed, signedBy>>
storeVars == <<active, policy, authorised, ledger>>
metricVars == <<approvedPublishers, endorsementCounters, authenticationCounter>>
vars == <<callVars, storeVars, metricVars, changes, faults>>

\* StatementMapper: a format that is not known is none.
mapFormatToRecord(format) == IF format = "JSON_INTOTO" THEN format ELSE "FORMAT_UNSPECIFIED"

\* Whom a request is for.
publisherId(r) == getValidPublisherId(r.statement)

\* PublisherVerifier.verify on the file under the escaped id of p.
Allows(file, r, p) ==
    /\ file # NoPolicy
    /\ r.identity \in file.oidcTokenClaims
    /\ p = file.publisherId
    /\ r.material \in file.verificationMaterialList

\* validateNotAfter against getEarliestCertificateExpiry of the package.
WithinExpiry(r, package) ==
    /\ r.statement.notAfter # ILL_FORMED
    /\ \A c \in package : r.statement.notAfter <= NotAfter[c]

\* A statement publisher's key: the material is a key of a supported type, or
\* a certificate with one.
PublicKey(material) == material \in PublicKeys

-----------------------------------------------------------------------------
\* A policy in the bucket allows a call for a publisher its statement names.
Authorises(file, k, p) == p \in Named(request[k].statement) /\ Allows(file, request[k], p)

metricsInit ==
    /\ approvedPublishers = {}
    /\ endorsementCounters = [p \in Publishers |-> 0]
    /\ authenticationCounter = [s \in AuthenticationStatus |-> 0]

Init ==
    /\ request \in [Calls -> Requests]
    /\ pc = [k \in Calls |-> "intercept"]
    /\ status = [k \in Calls |-> "none"]
    /\ mbcs = [k \in Calls |-> {}]
    /\ signed = [k \in Calls |-> FALSE]
    /\ signedBy = [k \in Calls |-> {}]
    /\ active = {}
    /\ policy \in [Publishers -> PolicyFiles \cup {NoPolicy}]
    /\ authorised = {kp \in Calls \X Publishers : Authorises(policy[kp[2]], kp[1], kp[2])}
    /\ ledger = <<>>
    /\ metricsInit
    /\ changes = 0
    /\ faults = 0

\* The call is answered and its thread returns.
Answer(k, s) ==
    /\ pc' = [pc EXCEPT ![k] = "done"]
    /\ status' = [status EXCEPT ![k] = s]

Goto(k, phase) ==
    /\ pc' = [pc EXCEPT ![k] = phase]
    /\ UNCHANGED status

Fault ==
    /\ faults < MaxFaults
    /\ faults' = faults + 1

incrementAuthenticationCounter(s) ==
    authenticationCounter' = [authenticationCounter EXCEPT ![s] = @ + 1]

-----------------------------------------------------------------------------
(* JwtInterceptor.interceptCall.                                           *)

\* The token is rejected: no bearer header, a JwtException, a blank claim.
RejectToken(k) ==
    /\ pc[k] = "intercept"
    /\ \/ request[k].token \in {"absent", "invalid"} /\ Answer(k, "UNAUTHENTICATED")
       \/ request[k].token = "blankClaim" /\ Answer(k, "INVALID_ARGUMENT")
    /\ incrementAuthenticationCounter("FAILURE")
    /\ UNCHANGED <<request, mbcs, signed, signedBy, storeVars, approvedPublishers,
                   endorsementCounters, changes, faults>>

\* An exception interceptCall has no clause for reaches the gRPC framework:
\* a claim CallerIdentity requires is null, or the key set cannot be fetched.
InterceptorThrows(k) ==
    /\ pc[k] = "intercept"
    /\ \/ request[k].token = "nullClaim" /\ UNCHANGED faults
       \/ request[k].token # "absent" /\ Fault
    /\ Answer(k, "UNKNOWN")
    /\ UNCHANGED <<request, mbcs, signed, signedBy, storeVars, metricVars, changes>>

\* What the provider of the keys does wrong, or has just done, is put down to
\* the caller as well: an address or an age that cannot be parsed is an
\* IllegalArgumentException of fetchJwks, and a key that was rotated within
\* MIN_REFRESH_INTERVAL of the last fetch is not looked for.
KeySetRejects(k) ==
    /\ pc[k] = "intercept"
    /\ request[k].token # "absent"
    /\ Fault
    /\ Answer(k, "INVALID_ARGUMENT") \/ Answer(k, "UNAUTHENTICATED")
    /\ incrementAuthenticationCounter("FAILURE")
    /\ UNCHANGED <<request, mbcs, signed, signedBy, storeVars, approvedPublishers,
                   endorsementCounters, changes>>

\* TrustDomainExtractor: the certificate names a trust domain of PES.
HasTrustDomain(c) == TrustDomain[c] # NoTrustDomain

isValidHostname(hostname, c) == hostname \in ServiceHosts \cup {TrustDomain[c]}

\* Mutant: the call is left open when the service is not ready.
NotReady_LeavesCallOpen(k) ==
    /\ ~\E c \in active : HasTrustDomain(c)
    /\ Goto(k, "done")
    /\ UNCHANGED authenticationCounter

\* Without a certificate that has a trust domain the call is UNAVAILABLE and
\* no authentication is counted.
NotReady(k) ==
    /\ ~\E c \in active : HasTrustDomain(c)
    /\ Answer(k, "UNAVAILABLE")
    /\ UNCHANGED authenticationCounter

\* An audience of the token has to be a host of the service, or the trust
\* domain of the active certificate.
validateAudience(k) ==
    /\ pc[k] = "intercept"
    /\ request[k].token = "valid"
    /\ \/ NotReady(k)
       \/ \E c \in active :
             /\ HasTrustDomain(c)
             /\ \/ /\ \E hostname \in request[k].audiences : isValidHostname(hostname, c)
                   /\ Goto(k, "create")
                   /\ incrementAuthenticationCounter("SUCCESS")
                \/ /\ \A hostname \in request[k].audiences : ~isValidHostname(hostname, c)
                   /\ Answer(k, "PERMISSION_DENIED")
                   /\ incrementAuthenticationCounter("FAILURE")
    /\ UNCHANGED <<request, mbcs, signed, signedBy, storeVars, approvedPublishers,
                   endorsementCounters, changes, faults>>

-----------------------------------------------------------------------------
(* PublicEndorsementService.createEndorsement, with the statuses           *)
(* PesGrpcHandler maps its exceptions to.                                  *)

\* The format is checked, then the trust package is read, once.
createEndorsement(k) ==
    /\ pc[k] = "create"
    /\ \/ /\ mapFormatToRecord(request[k].format) = "FORMAT_UNSPECIFIED"
          /\ Answer(k, "INVALID_ARGUMENT")
          /\ UNCHANGED mbcs
       \/ /\ mapFormatToRecord(request[k].format) # "FORMAT_UNSPECIFIED"
          /\ active = {}
          /\ Answer(k, "UNAVAILABLE")
          /\ UNCHANGED mbcs
       \/ /\ mapFormatToRecord(request[k].format) # "FORMAT_UNSPECIFIED"
          /\ active # {}
          /\ mbcs' = [mbcs EXCEPT ![k] = active]
          /\ Goto(k, "parse")
    /\ UNCHANGED <<request, signed, signedBy, storeVars, metricVars, changes, faults>>

\* What parseAndVerify asks of a request before it looks for a policy.
Acceptable(r, package) ==
    /\ r.statement.json
    /\ InTotoStatement(r.statement)
    /\ WithinExpiry(r, package)
    /\ HasPublisherId(r.statement)

parseAndVerify(k) ==
    /\ pc[k] = "parse"
    /\ \/ Acceptable(request[k], mbcs[k]) /\ Goto(k, "publisher")
       \/ ~Acceptable(request[k], mbcs[k]) /\ Answer(k, "INVALID_ARGUMENT")
    /\ UNCHANGED <<request, mbcs, signed, signedBy, storeVars, metricVars, changes, faults>>

\* Mutant: the limit is not enforced.
approvePublisher_Unlimited(p) == approvedPublishers' = approvedPublishers \cup {p}

\* SystemMetrics.approvePublisher: at most MAX_APPROVED_PUBLISHERS, first come.
approvePublisher(p) ==
    approvedPublishers' =
        IF Cardinality(approvedPublishers) < MAX_APPROVED_PUBLISHERS
        THEN approvedPublishers \cup {p}
        ELSE approvedPublishers

\* PublisherVerifier.verify, its policy fetched from S3.
verifyPublisher(k) ==
    /\ pc[k] = "publisher"
    /\ LET p == publisherId(request[k])
       IN  \/ /\ Allows(policy[p], request[k], p)
              /\ approvePublisher(p)
              /\ Goto(k, "signature")
           \/ /\ ~Allows(policy[p], request[k], p)
              /\ Answer(k, "INVALID_ARGUMENT")
              /\ UNCHANGED approvedPublishers
    /\ UNCHANGED <<request, mbcs, signed, signedBy, storeVars, endorsementCounters,
                   authenticationCounter, changes, faults>>

\* S3 answers with an error or the file cannot be parsed: PolicyException.
\* A client-side SDK failure is no S3Exception and reaches the framework.
PolicyUnavailable(k) ==
    /\ pc[k] = "publisher"
    /\ Fault
    /\ Answer(k, "FAILED_PRECONDITION") \/ Answer(k, "UNKNOWN")
    /\ UNCHANGED <<request, mbcs, signed, signedBy, storeVars, metricVars, changes>>

\* SignatureVerifier.verify on the statement signature.
verifySignature(k) ==
    /\ pc[k] = "signature"
    /\ LET verifies == PublicKey(request[k].material) /\ request[k].signature = "valid"
       IN  \/ verifies /\ Goto(k, "post")
           \/ ~verifies /\ Answer(k, "INVALID_ARGUMENT")
    /\ UNCHANGED <<request, mbcs, signed, signedBy, storeVars, metricVars, changes, faults>>

-----------------------------------------------------------------------------
(* TLedger.post.  The raw entry holds the fresh name of the endorsement, so *)
(* no two calls send the same one, and stands for its call.  The ledger     *)
(* signs raw entries it has recorded; the entry's own name, which the       *)
(* receipt passes on, is neither compared nor signed, and is left out.      *)

Recorded(entries) == {entries[n] : n \in DOMAIN entries}

\* Mutant: whatever entry the ledger answers with is taken.
RawEntryMatches_Unchecked(raw, k) == TRUE

\* The answer is for what was sent.
RawEntryMatches(raw, k) == raw = k

\* An answer that can be parsed: its raw entry, and whether the signature on
\* that is the ledger's.
LedgerAnswers(k, raw, isSigned) ==
    \/ /\ RawEntryMatches(raw, k)
       /\ signed' = [signed EXCEPT ![k] = isSigned]
       /\ Goto(k, "receipt")
    \/ /\ ~RawEntryMatches(raw, k)
       /\ Answer(k, "UNAVAILABLE")
       /\ UNCHANGED signed

post(k) ==
    /\ pc[k] = "post"
    /\ ledger' = Append(ledger, k)
    /\ LedgerAnswers(k, k, TRUE)
    /\ UNCHANGED <<request, mbcs, signedBy, active, policy, authorised, metricVars, changes, faults>>

\* The request is lost, or recorded but not answered; the HTTP client repeats
\* it after a 503; the answer is an error or cannot be parsed; it has no body,
\* which is a NullPointerException; it is that to another request, or its
\* signature is not the ledger's.
PostFails(k) ==
    /\ pc[k] = "post"
    /\ Fault
    /\ ledger' \in {ledger, Append(ledger, k), Append(Append(ledger, k), k)}
    /\ \/ Answer(k, "UNAVAILABLE") /\ UNCHANGED signed
       \/ Answer(k, "UNKNOWN") /\ UNCHANGED signed
       \/ \E raw \in Calls : LedgerAnswers(k, raw, FALSE)
       \/ \E raw \in Recorded(ledger') : LedgerAnswers(k, raw, TRUE)
    /\ UNCHANGED <<request, mbcs, signedBy, active, policy, authorised, metricVars, changes>>

\* verifyTLedgerSignature with the ledger's certificate from S3.
verifyTLedgerSignature(k) ==
    /\ pc[k] = "receipt"
    /\ \/ signed[k] /\ Goto(k, "sign")
       \/ ~signed[k] /\ Answer(k, "UNAVAILABLE")
    /\ UNCHANGED <<request, mbcs, signed, signedBy, storeVars, metricVars, changes, faults>>

\* The certificate cannot be fetched or the signature does not verify under
\* it (TLogException); the SDK fails on its side; the certificate is empty or
\* cannot be parsed, which verifyTLedgerSignature does not catch.
LedgerUnverified(k) ==
    /\ pc[k] = "receipt"
    /\ Fault
    /\ \/ Answer(k, "UNAVAILABLE")
       \/ Answer(k, "UNKNOWN")
       \/ Answer(k, "INVALID_ARGUMENT")
    /\ UNCHANGED <<request, mbcs, signed, signedBy, storeVars, metricVars, changes>>

-----------------------------------------------------------------------------
(* Signing and the answer.                                                  *)

\* SystemMetrics.incrementEndorsementCounter: approved publishers only.
incrementEndorsementCounter(p) ==
    endorsementCounters' =
        IF p \in approvedPublishers
        THEN [endorsementCounters EXCEPT ![p] = @ + 1]
        ELSE endorsementCounters

\* Mutant: the package is read again when signing.
SigningPackage_ReadAgain(k) == active

\* The certificates createEndorsement signs with: those read at its start.
SigningPackage(k) == mbcs[k]

\* One signature per certificate over the encoding of statement, statement
\* signature and ledger entry; a missing time stamp is tolerated.
sign(k) ==
    /\ pc[k] = "sign"
    /\ signedBy' = [signedBy EXCEPT ![k] = SigningPackage(k)]
    /\ incrementEndorsementCounter(publisherId(request[k]))
    /\ Answer(k, "OK")
    /\ UNCHANGED <<request, mbcs, signed, storeVars, approvedPublishers,
                   authenticationCounter, changes, faults>>

\* PesSignatureException has no clause in PesGrpcHandler.
SigningFails(k) ==
    /\ pc[k] = "sign"
    /\ Fault
    /\ Answer(k, "UNKNOWN")
    /\ UNCHANGED <<request, mbcs, signed, signedBy, storeVars, metricVars, changes>>

-----------------------------------------------------------------------------
(* The limits of the HTTP clients end with the headers of a response: a     *)
(* body that never ends holds the call that reads it.  The one of a key set *)
(* is read under the cache's lock, and holds the calls that need the set    *)
(* as well.                                                                 *)

KeySetStalls(k) ==
    /\ pc[k] = "intercept"
    /\ request[k].token # "absent"
    /\ \/ Fault
       \/ (\E j \in Calls : pc[j] = "keySetStalls") /\ UNCHANGED faults
    /\ Goto(k, "keySetStalls")
    /\ UNCHANGED <<request, mbcs, signed, signedBy, storeVars, metricVars, changes>>

TimeStampStalls(k) ==
    /\ pc[k] = "sign"
    /\ Fault
    /\ Goto(k, "timeStampStalls")
    /\ UNCHANGED <<request, mbcs, signed, signedBy, storeVars, metricVars, changes>>

-----------------------------------------------------------------------------
(* What changes under the calls' feet.                                      *)

\* The certificate monitor activates a certificate; a package holds one.
ReloadCertificate(c) ==
    /\ changes < MaxChanges
    /\ changes' = changes + 1
    /\ active' = {c}
    /\ UNCHANGED <<callVars, policy, authorised, ledger, metricVars, faults>>

\* An administrator stores or removes a publisher's policy.
StorePolicy(p, file) ==
    /\ changes < MaxChanges
    /\ changes' = changes + 1
    /\ policy' = [policy EXCEPT ![p] = file]
    /\ authorised' = authorised \cup {kp \in Calls \X {p} : Authorises(file, kp[1], p)}
    /\ UNCHANGED <<callVars, active, ledger, metricVars, faults>>

-----------------------------------------------------------------------------
Handle(k) ==
    \/ RejectToken(k)
    \/ validateAudience(k)
    \/ createEndorsement(k)
    \/ parseAndVerify(k)
    \/ verifyPublisher(k)
    \/ verifySignature(k)
    \/ post(k)
    \/ verifyTLedgerSignature(k)
    \/ sign(k)
    \/ InterceptorThrows(k)
    \/ KeySetRejects(k)
    \/ PolicyUnavailable(k)
    \/ PostFails(k)
    \/ LedgerUnverified(k)
    \/ SigningFails(k)

Stalls(k) == KeySetStalls(k) \/ TimeStampStalls(k)

Next ==
    \/ \E k \in Calls : Handle(k) \/ Stalls(k)
    \/ \E c \in Certificates : ReloadCertificate(c)
    \/ \E p \in Publishers, file \in PolicyFiles \cup {NoPolicy} : StorePolicy(p, file)

Spec == Init /\ [][Next]_vars

\* Every call has a thread, and every request it makes ends, answered or
\* failed by the time limits of the HTTP and S3 clients, unless it stalls.
Fairness == \A k \in Calls : WF_vars(Handle(k))

FairSpec == Spec /\ Fairness

-----------------------------------------------------------------------------
(* Properties.                                                              *)

TypeOK ==
    /\ request \in [Calls -> Requests]
    /\ pc \in [Calls -> Phases \cup {"done"}]
    /\ status \in [Calls -> Statuses \cup {"none"}]
    /\ mbcs \in [Calls -> SUBSET Certificates]
    /\ signed \in [Calls -> BOOLEAN]
    /\ signedBy \in [Calls -> SUBSET Certificates]
    /\ active \in SUBSET Certificates
    /\ policy \in [Publishers -> PolicyFiles \cup {NoPolicy}]
    /\ authorised \in SUBSET (Calls \X Publishers)
    /\ ledger \in Seq(Calls)
    /\ approvedPublishers \in SUBSET Publishers
    /\ endorsementCounters \in [Publishers -> Nat]
    /\ authenticationCounter \in [AuthenticationStatus -> Nat]
    /\ changes \in Nat
    /\ faults \in Nat

\* The token is good, and for a host of this service or of a certificate.
Authentic(r) ==
    /\ r.token = "valid"
    /\ \/ r.audiences \cap ServiceHosts # {}
       \/ \E c \in Certificates : HasTrustDomain(c) /\ TrustDomain[c] \in r.audiences

\* A request the ledger may hold: its token is for this service, and its
\* statement is sound and signed.
Sound(r) ==
    /\ Authentic(r)
    /\ r.format = "JSON_INTOTO"
    /\ r.statement.json /\ InTotoStatement(r.statement)
    /\ PublicKey(r.material) /\ r.signature = "valid"

\* Nothing reaches the ledger, where it stays for good, before every check
\* of createEndorsement: the request is sound, its statement names a
\* publisher, every publisher it names had a policy that allowed this caller
\* and this key, and the service held a certificate that outlives it.
LedgerOnlyVerified ==
    \A n \in DOMAIN ledger :
        LET k == ledger[n] IN
        /\ Sound(request[k])
        /\ Named(request[k].statement) # {}
        /\ \A p \in Named(request[k].statement) : <<k, p>> \in authorised
        /\ mbcs[k] # {}
        /\ WithinExpiry(request[k], mbcs[k])

\* An endorsement returned to a client is signed, only by certificates that
\* do not expire before the statement, however the active certificate
\* changed while it was being made.
SignaturesOutliveStatement ==
    \A k \in Calls :
        status[k] = "OK" => signedBy[k] # {} /\ WithinExpiry(request[k], signedBy[k])

\* No endorsement without a trace: an endorsement that is returned is in the
\* ledger, although the post may be lost and its answer damaged, made up or
\* that to another call.  The raw entry and the ledger's signature on it are
\* checked at different places (TLedger.post, verifyTLedgerSignature), and
\* neither is enough.
EndorsedIsLogged == \A k \in Calls : status[k] = "OK" => k \in Recorded(ledger)

Endorsed(p) == {k \in Calls : status[k] = "OK" /\ publisherId(request[k]) = p}

\* The endorsement counters stay within the limit on publishers and are
\* exact for the approved ones: approval always precedes the first count.
CountersExact ==
    /\ Cardinality(approvedPublishers) <= MAX_APPROVED_PUBLISHERS
    /\ \A p \in Publishers :
          endorsementCounters[p] =
              IF p \in approvedPublishers THEN Cardinality(Endorsed(p)) ELSE 0

\* Every call is answered, whatever fails, except one that is held up in a
\* response whose body never ends.
EveryCallAnswered ==
    \A k \in Calls : <>(status[k] # "none" \/ pc[k] \in {"keySetStalls", "timeStampStalls"})

\* "Invalid request" blames the caller: a call answered INVALID_ARGUMENT is
\* one whose request fails a check of its own.
InvalidArgumentMeansInvalidRequest ==
    \A k \in Calls :
        status[k] = "INVALID_ARGUMENT"
            => \A n \in DOMAIN ledger : ledger[n] # k

-----------------------------------------------------------------------------
(* The inductive invariant.                                                 *)

Checked == {"parse", "publisher", "signature", "post", "receipt", "sign"}
Parsed == Checked \ {"parse"}
Approved == Parsed \ {"publisher"}
Verified == Approved \ {"signature"}

\* A call is past a phase of createEndorsement, or was answered OK.
Past(k, phases) == pc[k] \in phases \/ status[k] = "OK"

\* What a call has established by the phase it is in.
CallProgress(k) ==
    /\ status[k] = "OK" => pc[k] = "done"
    /\ Past(k, Checked \cup {"create"}) => Authentic(request[k])
    /\ Past(k, Checked) => request[k].format = "JSON_INTOTO" /\ mbcs[k] # {}
    /\ Past(k, Parsed) => Acceptable(request[k], mbcs[k])
    /\ Past(k, Approved) => <<k, publisherId(request[k])>> \in authorised
    /\ Past(k, Verified) => PublicKey(request[k].material) /\ request[k].signature = "valid"
    /\ pc[k] = "receipt" /\ signed[k] => k \in Recorded(ledger)
    /\ Past(k, {"sign"}) => k \in Recorded(ledger)
    /\ status[k] = "OK" => signedBy[k] = mbcs[k]

Progress == \A k \in Calls : CallProgress(k)

\* A call that is in the ledger never comes back to posting.
AfterPosting == {"receipt", "sign", "timeStampStalls", "done"}
PostsOnce == \A n \in DOMAIN ledger : pc[ledger[n]] \in AfterPosting

\* A policy in the bucket has authorised the calls it allows.
AuthorisedByPolicy ==
    \A k \in Calls, p \in Publishers : Authorises(policy[p], k, p) => <<k, p>> \in authorised

\* A call that passed approvePublisher found its publisher approved or the
\* limit reached, and both are for good.
ApprovedOrFull ==
    /\ IsFiniteSet(approvedPublishers)
    /\ \A k \in Calls :
          Past(k, Approved) => \/ publisherId(request[k]) \in approvedPublishers
                              \/ Cardinality(approvedPublishers) >= MAX_APPROVED_PUBLISHERS

IInv ==
    /\ TypeOK
    /\ LedgerOnlyVerified
    /\ Progress
    /\ PostsOnce
    /\ AuthorisedByPolicy
    /\ ApprovedOrFull
    /\ CountersExact
=============================================================================

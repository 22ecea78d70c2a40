------------------------ MODULE PesEndorsementProofs ------------------------
(***************************************************************************)
(* Proofs about PesEndorsement: the inductive invariant IInv, and from it  *)
(* the safety properties, for any number of calls, certificates and        *)
(* publishers and any bounds.                                              *)
(***************************************************************************)
EXTENDS PesEndorsement, FiniteSetTheorems, SequenceTheorems, TLAPS

\* A call whose statement is acceptable is for a publisher, the only one its
\* statement names.
LEMMA OnePublisher ==
    ASSUME NEW r \in Requests, NEW package, Acceptable(r, package)
    PROVE  publisherId(r) \in Publishers /\ Named(r.statement) = {publisherId(r)}
<1> DEFINE s == r.statement
           places == ClaimsOf(s, "PUBLISHER")
<1>1. s \in Statements
  BY ConstantsAssumption
<1>2. places # {} /\ \A m, n \in places : m = n
  BY DEF Acceptable, HasPublisherId, AtMostOne
<1>3. PICK n \in places : places = {n}
  BY <1>2
<1>4. n \in DOMAIN s.claims /\ s.claims[n].type = "PUBLISHER" /\ n \in Nat
  BY <1>1, <1>3 DEF ClaimsOf, Statements
<1>5. (CHOOSE i \in places : \A m \in places : i <= m) = n
  BY <1>3, <1>4
<1>6. publisherId(r) = s.claims[n].annotation
  BY <1>5 DEF publisherId, getValidPublisherId
<1>7. s.claims[n] \in Claims
  BY <1>1, <1>4 DEF Statements
<1>8. s.claims[n].annotation # ILL_FORMED
  BY <1>4 DEF Acceptable, InTotoStatement, OakPredicate, Claim
<1>9. s.claims[n].annotation \in Publishers
  BY <1>4, <1>7, <1>8 DEF Claims
<1>10. Named(s) = {s.claims[n].annotation}
  BY <1>3 DEF Named
<1> QED
  BY <1>6, <1>9, <1>10

\* The initial states satisfy the invariant: no call has got anywhere.
LEMMA InitIInv == Init => IInv
<1> SUFFICES ASSUME Init PROVE IInv
  OBVIOUS
<1>1. TypeOK
  BY ConstantsAssumption DEF Init, metricsInit, TypeOK, Phases
<1>2. LedgerOnlyVerified
  BY DEF Init, LedgerOnlyVerified
<1>3. Progress /\ PostsOnce
  BY DEF Init, Progress, PostsOnce, CallProgress, Past, Checked, Parsed, Approved, Verified
<1>4. AuthorisedByPolicy
  BY DEF Init, AuthorisedByPolicy, Authorises
<1>5. ApprovedOrFull
  BY FS_EmptySet DEF Init, metricsInit, ApprovedOrFull, Past, Checked, Parsed, Approved
<1>6. CountersExact
  <2>1. Cardinality({}) = 0
    BY FS_EmptySet
  <2> QED
    BY <2>1, ConstantsAssumption DEF Init, metricsInit, CountersExact
<1> QED
  BY <1>1, <1>2, <1>3, <1>4, <1>5, <1>6 DEF IInv

\* Answering and moving on keep the control state in its type.
LEMMA ControlType ==
    ASSUME TypeOK, NEW k \in Calls
    PROVE  /\ \A s \in Statuses : Answer(k, s) => /\ pc' \in [Calls -> Phases \cup {"done"}]
                                                /\ status' \in [Calls -> Statuses \cup {"none"}]
           /\ \A phase \in Phases : Goto(k, phase) => /\ pc' \in [Calls -> Phases \cup {"done"}]
                                                    /\ status' \in [Calls -> Statuses \cup {"none"}]
  BY DEF TypeOK, Answer, Goto

\* A call that stalls leaves everything but its own control state alone.
LEMMA StallFrame ==
    ASSUME TypeOK, NEW k \in Calls, Stalls(k)
    PROVE  /\ UNCHANGED <<request, status, mbcs, signed, signedBy, storeVars, metricVars, changes>>
           /\ \/ pc[k] = "intercept" /\ pc' = [pc EXCEPT ![k] = "keySetStalls"]
              \/ pc[k] = "sign" /\ pc' = [pc EXCEPT ![k] = "timeStampStalls"]
           /\ faults' \in Nat
  BY DEF TypeOK, Stalls, KeySetStalls, TimeStampStalls, Goto, Fault

\* Every step keeps the variables in their types.
LEMMA TypeStep == IInv /\ [Next]_vars => TypeOK'
<1> SUFFICES ASSUME TypeOK, Progress, [Next]_vars PROVE TypeOK'
  BY DEF IInv
<1> USE ConstantsAssumption
<1>1. ASSUME NEW k \in Calls, Handle(k) PROVE TypeOK'
  <2> USE DEF TypeOK, Statuses, Phases, AuthenticationStatus, storeVars, metricVars
  <2>1. CASE RejectToken(k)
    BY <2>1, ControlType DEF RejectToken, incrementAuthenticationCounter
  <2>2. CASE validateAudience(k)
    <3>1. pc' \in [Calls -> Phases \cup {"done"}] /\ status' \in [Calls -> Statuses \cup {"none"}]
      BY <2>2, ControlType DEF validateAudience, NotReady
    <3>2. authenticationCounter' \in [AuthenticationStatus -> Nat]
      BY <2>2 DEF validateAudience, NotReady, incrementAuthenticationCounter
    <3> QED
      BY <2>2, <3>1, <3>2 DEF validateAudience, NotReady
  <2>3. CASE createEndorsement(k)
    BY <2>3, ControlType DEF createEndorsement
  <2>4. CASE parseAndVerify(k)
    BY <2>4, ControlType DEF parseAndVerify
  <2>5. CASE verifyPublisher(k)
    <3>1. Acceptable(request[k], mbcs[k])
      BY <2>5 DEF verifyPublisher, Progress, CallProgress, Past, Parsed, Checked
    <3>2. publisherId(request[k]) \in Publishers
      BY <3>1, OnePublisher
    <3>3. approvedPublishers' \in SUBSET Publishers
      BY <2>5, <3>2 DEF verifyPublisher, approvePublisher
    <3>4. pc' \in [Calls -> Phases \cup {"done"}] /\ status' \in [Calls -> Statuses \cup {"none"}]
      BY <2>5, ControlType DEF verifyPublisher
    <3> QED
      BY <2>5, <3>3, <3>4 DEF verifyPublisher
  <2>6. CASE verifySignature(k)
    BY <2>6, ControlType DEF verifySignature
  <2>7. ASSUME NEW raw, NEW s \in BOOLEAN, LedgerAnswers(k, raw, s)
        PROVE  /\ pc' \in [Calls -> Phases \cup {"done"}]
               /\ status' \in [Calls -> Statuses \cup {"none"}]
               /\ signed' \in [Calls -> BOOLEAN]
    <3>1. pc' \in [Calls -> Phases \cup {"done"}] /\ status' \in [Calls -> Statuses \cup {"none"}]
      BY <2>7, ControlType DEF LedgerAnswers
    <3>2. signed' \in [Calls -> BOOLEAN]
      BY <2>7 DEF LedgerAnswers
    <3> QED
      BY <3>1, <3>2
  <2>8. CASE post(k)
    <3>1. Append(ledger, k) \in Seq(Calls)
      BY AppendProperties
    <3> QED
      BY <2>7, <2>8, <3>1 DEF post
  <2>9. CASE PostFails(k)
    <3>1. Append(ledger, k) \in Seq(Calls)
      BY AppendProperties
    <3>2. Append(Append(ledger, k), k) \in Seq(Calls)
      BY <3>1, AppendProperties
    <3>3. ledger' \in Seq(Calls)
      BY <2>9, <3>1, <3>2 DEF PostFails
    <3>4. /\ pc' \in [Calls -> Phases \cup {"done"}]
          /\ status' \in [Calls -> Statuses \cup {"none"}]
          /\ signed' \in [Calls -> BOOLEAN]
      BY <2>7, <2>9, ControlType DEF PostFails
    <3>5. faults' \in Nat
      BY <2>9 DEF PostFails, Fault
    <3> QED
      BY <2>9, <3>3, <3>4, <3>5 DEF PostFails
  <2>10. CASE verifyTLedgerSignature(k)
    BY <2>10, ControlType DEF verifyTLedgerSignature
  <2>11. CASE LedgerUnverified(k)
    BY <2>11, ControlType DEF LedgerUnverified, Fault
  <2>12. CASE sign(k)
    BY <2>12, ControlType DEF sign, incrementEndorsementCounter, SigningPackage
  <2>13. CASE InterceptorThrows(k)
    BY <2>13, ControlType DEF InterceptorThrows, Fault
  <2>14. CASE PolicyUnavailable(k)
    BY <2>14, ControlType DEF PolicyUnavailable, Fault
  <2>15. CASE SigningFails(k)
    BY <2>15, ControlType DEF SigningFails, Fault
  <2>16. CASE KeySetRejects(k)
    BY <2>16, ControlType DEF KeySetRejects, Fault, incrementAuthenticationCounter
  <2> QED
    BY <1>1, <2>1, <2>2, <2>3, <2>4, <2>5, <2>6, <2>8, <2>9, <2>10, <2>11, <2>12,
       <2>13, <2>14, <2>15, <2>16 DEF Handle
<1>2. ASSUME NEW c \in Certificates, ReloadCertificate(c) PROVE TypeOK'
  BY <1>2 DEF ReloadCertificate, TypeOK, callVars, metricVars
<1>3. ASSUME NEW p \in Publishers, NEW file \in PolicyFiles \cup {NoPolicy}, StorePolicy(p, file)
      PROVE TypeOK'
  BY <1>3 DEF StorePolicy, TypeOK, callVars, metricVars
<1>4. CASE UNCHANGED vars
  BY <1>4 DEF TypeOK, vars, callVars, storeVars, metricVars
<1>5. ASSUME NEW k \in Calls, Stalls(k) PROVE TypeOK'
  BY <1>5, StallFrame DEF TypeOK, Phases, storeVars, metricVars
<1> QED
  BY <1>1, <1>2, <1>3, <1>4, <1>5 DEF Next

\* A step of one call leaves the other calls, the stores it only reads and
\* what any call asked for alone.
LEMMA Frame ==
    ASSUME TypeOK, NEW k \in Calls, Handle(k)
    PROVE  /\ request' = request
           /\ <<active, policy, authorised, changes>>' = <<active, policy, authorised, changes>>
           /\ \A j \in Calls \ {k} :
                 /\ pc'[j] = pc[j]
                 /\ status'[j] = status[j]
                 /\ mbcs'[j] = mbcs[j]
                 /\ signed'[j] = signed[j]
                 /\ signedBy'[j] = signedBy[j]
<1> USE DEF TypeOK, Answer, Goto, storeVars, metricVars
<1>1. CASE RejectToken(k)
  BY <1>1 DEF RejectToken
<1>2. CASE validateAudience(k)
  BY <1>2 DEF validateAudience, NotReady
<1>3. CASE createEndorsement(k)
  BY <1>3 DEF createEndorsement
<1>4. CASE parseAndVerify(k)
  BY <1>4 DEF parseAndVerify
<1>5. CASE verifyPublisher(k)
  BY <1>5 DEF verifyPublisher
<1>6. CASE verifySignature(k)
  BY <1>6 DEF verifySignature
<1>7. CASE post(k)
  BY <1>7 DEF post, LedgerAnswers
<1>8. CASE PostFails(k)
  BY <1>8 DEF PostFails, LedgerAnswers
<1>9. CASE verifyTLedgerSignature(k)
  BY <1>9 DEF verifyTLedgerSignature
<1>10. CASE LedgerUnverified(k)
  BY <1>10 DEF LedgerUnverified
<1>11. CASE sign(k)
  BY <1>11 DEF sign
<1>12. CASE InterceptorThrows(k)
  BY <1>12 DEF InterceptorThrows
<1>13. CASE PolicyUnavailable(k)
  BY <1>13 DEF PolicyUnavailable
<1>14. CASE SigningFails(k)
  BY <1>14 DEF SigningFails
<1>15. CASE KeySetRejects(k)
  BY <1>15 DEF KeySetRejects
<1> QED
  BY <1>1, <1>2, <1>3, <1>4, <1>5, <1>6, <1>7, <1>8, <1>9, <1>10, <1>11, <1>12, <1>13,
     <1>14, <1>15 DEF Handle

\* The ledger only grows, by entries of the call that is posting.
LEMMA LedgerGrows ==
    ASSUME TypeOK, NEW k \in Calls, Handle(k)
    PROVE  /\ DOMAIN ledger \subseteq DOMAIN ledger'
           /\ \A n \in DOMAIN ledger : ledger'[n] = ledger[n]
           /\ \A n \in DOMAIN ledger' \ DOMAIN ledger : ledger'[n] = k /\ pc[k] = "post"
<1>1. CASE UNCHANGED ledger
  BY <1>1
<1>2. CASE pc[k] = "post" /\ ledger' = Append(ledger, k)
  BY <1>2, AppendProperties DEF TypeOK
<1>3. CASE pc[k] = "post" /\ ledger' = Append(Append(ledger, k), k)
  <2>1. Append(ledger, k) \in Seq(Calls)
    BY AppendProperties DEF TypeOK
  <2> QED
    BY <1>3, <2>1, AppendProperties DEF TypeOK
<1>4. pc[k] = "post" \/ UNCHANGED ledger
  BY DEF Handle, RejectToken, validateAudience, NotReady, createEndorsement, parseAndVerify,
     verifyPublisher, verifySignature, post, PostFails, LedgerAnswers,
     verifyTLedgerSignature, LedgerUnverified, sign, InterceptorThrows, PolicyUnavailable,
     SigningFails, KeySetRejects, storeVars
<1>5. pc[k] = "post" => ledger' \in {ledger, Append(ledger, k), Append(Append(ledger, k), k)}
  BY DEF Handle, RejectToken, validateAudience, NotReady, createEndorsement, parseAndVerify,
     verifyPublisher, verifySignature, post, PostFails, LedgerAnswers,
     verifyTLedgerSignature, LedgerUnverified, sign, InterceptorThrows, PolicyUnavailable,
     SigningFails, KeySetRejects, storeVars
<1> QED
  BY <1>1, <1>2, <1>3, <1>4, <1>5

\* The acting call has established what its new phase promises.
LEMMA CallStep ==
    ASSUME IInv, NEW k \in Calls, Handle(k)
    PROVE  CallProgress(k)'
<1> USE DEF IInv, TypeOK, Progress, CallProgress, Past, Checked, Parsed, Approved, Verified,
            Answer, Goto, storeVars
<1>1. CASE RejectToken(k)
  BY <1>1 DEF RejectToken
<1>2. CASE validateAudience(k)
  BY <1>2 DEF validateAudience, NotReady, Authentic, isValidHostname
<1>3. CASE createEndorsement(k)
  BY <1>3 DEF createEndorsement, mapFormatToRecord
<1>4. CASE parseAndVerify(k)
  BY <1>4 DEF parseAndVerify
<1>5. CASE verifyPublisher(k)
  <2> DEFINE p == publisherId(request[k])
  <2>1. p \in Publishers /\ Named(request[k].statement) = {p}
    BY <1>5, OnePublisher DEF verifyPublisher
  <2>2. Allows(policy[p], request[k], p) => <<k, p>> \in authorised
    BY <2>1 DEF AuthorisedByPolicy, Authorises
  <2> QED
    BY <1>5, <2>2 DEF verifyPublisher
<1>6. CASE verifySignature(k)
  BY <1>6 DEF verifySignature
<1>7. CASE verifyTLedgerSignature(k)
  BY <1>7 DEF verifyTLedgerSignature
<1>8. CASE LedgerUnverified(k)
  BY <1>8 DEF LedgerUnverified
<1>9. CASE sign(k)
  BY <1>9 DEF sign, SigningPackage
<1>10. CASE InterceptorThrows(k)
  BY <1>10 DEF InterceptorThrows
<1>11. CASE PolicyUnavailable(k)
  BY <1>11 DEF PolicyUnavailable
<1>12. CASE SigningFails(k)
  BY <1>12 DEF SigningFails
<1>13. ASSUME pc[k] = "post", NEW raw, NEW s \in BOOLEAN, LedgerAnswers(k, raw, s),
              s => raw \in Recorded(ledger'),
              UNCHANGED <<request, mbcs, signedBy, authorised>>
      PROVE  CallProgress(k)'
  BY <1>13 DEF LedgerAnswers, RawEntryMatches, Recorded
<1>14. CASE post(k)
  <2>1. Len(ledger) + 1 \in DOMAIN Append(ledger, k) /\ Append(ledger, k)[Len(ledger) + 1] = k
    BY AppendProperties, LenProperties
  <2>2. k \in Recorded(ledger')
    BY <1>14, <2>1 DEF post, Recorded
  <2> QED
    BY <1>13, <1>14, <2>2 DEF post
<1>15. CASE PostFails(k)
  <2>1. CASE \E raw \in Calls : LedgerAnswers(k, raw, FALSE)
    BY <1>13, <1>15, <2>1 DEF PostFails
  <2>2. CASE \E raw \in Recorded(ledger') : LedgerAnswers(k, raw, TRUE)
    BY <1>13, <1>15, <2>2 DEF PostFails
  <2>3. CASE Answer(k, "UNAVAILABLE") \/ Answer(k, "UNKNOWN")
    BY <1>15, <2>3 DEF PostFails
  <2> QED
    BY <1>15, <2>1, <2>2, <2>3 DEF PostFails
<1>16. CASE KeySetRejects(k)
  BY <1>16 DEF KeySetRejects
<1> QED
  BY <1>1, <1>2, <1>3, <1>4, <1>5, <1>6, <1>7, <1>8, <1>9, <1>10, <1>11, <1>12, <1>14, <1>15,
     <1>16 DEF Handle

\* What changes under the calls: certificates, and policies that authorise
\* more calls.
LEMMA ChangeFrame ==
    ASSUME TypeOK,
           \/ \E c \in Certificates : ReloadCertificate(c)
           \/ \E p \in Publishers, file \in PolicyFiles \cup {NoPolicy} : StorePolicy(p, file)
           \/ UNCHANGED vars
    PROVE  /\ UNCHANGED <<callVars, ledger, metricVars>>
           /\ authorised \subseteq authorised'
  BY DEF ReloadCertificate, StorePolicy, vars, callVars, storeVars, metricVars

\* Every call keeps what it has established.
LEMMA ProgressStep == IInv /\ [Next]_vars => Progress'
<1> SUFFICES ASSUME IInv, [Next]_vars, NEW j \in Calls PROVE CallProgress(j)'
  BY DEF Progress
<1>1. CallProgress(j)
  BY DEF IInv, Progress
<1>2. ASSUME NEW k \in Calls, Handle(k) PROVE CallProgress(j)'
  <2>1. CASE j = k
    BY <1>2, <2>1, CallStep
  <2>2. CASE j # k
    <3>1. /\ <<pc[j], status[j], mbcs[j], signed[j], signedBy[j], request[j]>>'
               = <<pc[j], status[j], mbcs[j], signed[j], signedBy[j], request[j]>>
          /\ authorised' = authorised
      BY <1>2, <2>2, Frame DEF IInv
    <3>2. /\ DOMAIN ledger \subseteq DOMAIN ledger'
          /\ \A n \in DOMAIN ledger : ledger'[n] = ledger[n]
      BY <1>2, LedgerGrows DEF IInv
    <3> QED
      BY <1>1, <3>1, <3>2 DEF CallProgress, Past, Recorded
  <2> QED
    BY <2>1, <2>2
<1>3. CASE UNCHANGED <<callVars, ledger, metricVars>> /\ authorised \subseteq authorised'
  BY <1>1, <1>3 DEF CallProgress, Past, callVars
<1>4. ASSUME NEW k \in Calls, Stalls(k) PROVE CallProgress(j)'
  <2>1. /\ UNCHANGED <<request, status, mbcs, signed, signedBy, authorised, ledger>>
        /\ \/ pc'[j] = pc[j]
           \/ pc[j] = "intercept" /\ pc'[j] = "keySetStalls"
           \/ pc[j] = "sign" /\ pc'[j] = "timeStampStalls"
    BY <1>4, StallFrame DEF IInv, TypeOK, storeVars
  <2>2. \A phases \in {Checked \cup {"create"}, Checked, Parsed, Approved, Verified, {"sign"}} :
           Past(j, phases)' => Past(j, phases)
    BY <2>1 DEF Past, Checked, Parsed, Approved, Verified
  <2>3. status[j] # "OK" \/ pc'[j] = pc[j]
    BY <1>1, <2>1 DEF CallProgress
  <2>4. pc'[j] = "receipt" => pc[j] = "receipt"
    BY <2>1
  <2> QED
    BY <1>1, <2>1, <2>2, <2>3, <2>4 DEF CallProgress, Recorded
<1> QED
  BY <1>2, <1>3, <1>4, ChangeFrame DEF Next, IInv

\* A call at one of the last phases goes on from there: it does not post
\* again and does not read another trust package.
LEMMA AfterPost ==
    ASSUME TypeOK, NEW k \in Calls, Handle(k), pc[k] \in AfterPosting \cup {"post"}
    PROVE  pc'[k] \in AfterPosting /\ mbcs'[k] = mbcs[k]
<1> USE DEF TypeOK, Answer, Goto, AfterPosting
<1>1. CASE post(k) \/ PostFails(k)
  BY <1>1 DEF post, PostFails, LedgerAnswers
<1>2. CASE verifyTLedgerSignature(k) \/ LedgerUnverified(k)
  BY <1>2 DEF verifyTLedgerSignature, LedgerUnverified
<1>3. CASE sign(k) \/ SigningFails(k)
  BY <1>3 DEF sign, SigningFails
<1>4. post(k) \/ PostFails(k) \/ verifyTLedgerSignature(k) \/ LedgerUnverified(k)
        \/ sign(k) \/ SigningFails(k)
  BY DEF Handle, RejectToken, validateAudience, NotReady, createEndorsement, parseAndVerify,
     verifyPublisher, verifySignature, InterceptorThrows, KeySetRejects, PolicyUnavailable
<1> QED
  BY <1>1, <1>2, <1>3, <1>4

\* What is in the ledger stays verified, and what is added is.
LEMMA LedgerStep == IInv /\ [Next]_vars => LedgerOnlyVerified' /\ PostsOnce'
<1> SUFFICES ASSUME IInv, [Next]_vars PROVE LedgerOnlyVerified' /\ PostsOnce'
  OBVIOUS
<1>1. ASSUME NEW k \in Calls, Handle(k), NEW n \in DOMAIN ledger'
      PROVE  /\ pc'[ledger'[n]] \in AfterPosting
             /\ Sound(request'[ledger'[n]])
             /\ Named(request'[ledger'[n]].statement) # {}
             /\ \A p \in Named(request'[ledger'[n]].statement) : <<ledger'[n], p>> \in authorised'
             /\ mbcs'[ledger'[n]] # {}
             /\ WithinExpiry(request'[ledger'[n]], mbcs'[ledger'[n]])
  <2>1. CASE n \in DOMAIN ledger
    <3>1. ledger'[n] = ledger[n] /\ ledger[n] \in Calls
      BY <1>1, <2>1, LedgerGrows DEF IInv, TypeOK
    <3>2. pc[ledger[n]] \in AfterPosting
      BY <2>1 DEF IInv, PostsOnce
    <3>3. pc'[ledger[n]] \in AfterPosting /\ mbcs'[ledger[n]] = mbcs[ledger[n]]
      BY <1>1, <3>1, <3>2, AfterPost, Frame DEF IInv
    <3>4. request' = request /\ authorised' = authorised
      BY <1>1, Frame DEF IInv
    <3> QED
      BY <2>1, <3>1, <3>3, <3>4 DEF IInv, LedgerOnlyVerified
  <2>2. CASE n \notin DOMAIN ledger
    <3>1. ledger'[n] = k /\ pc[k] = "post"
      BY <1>1, <2>2, LedgerGrows DEF IInv
    <3>2. pc'[k] \in AfterPosting /\ mbcs'[k] = mbcs[k]
      BY <1>1, <3>1, AfterPost DEF IInv
    <3>3. CallProgress(k)
      BY DEF IInv, Progress
    <3>4. request' = request /\ authorised' = authorised
      BY <1>1, Frame DEF IInv
    <3>5. /\ Acceptable(request[k], mbcs[k])
          /\ <<k, publisherId(request[k])>> \in authorised
          /\ mbcs[k] # {}
          /\ Sound(request[k])
      BY <3>1, <3>3
      DEF CallProgress, Past, Checked, Parsed, Approved, Verified, Sound, Acceptable
    <3>6. Named(request[k].statement) = {publisherId(request[k])}
      BY <3>5, OnePublisher DEF IInv, TypeOK
    <3> QED
      BY <3>1, <3>2, <3>4, <3>5, <3>6 DEF Acceptable
  <2> QED
    BY <2>1, <2>2
<1>2. CASE UNCHANGED <<callVars, ledger, metricVars>> /\ authorised \subseteq authorised'
  BY <1>2 DEF IInv, LedgerOnlyVerified, PostsOnce, callVars
<1>3. ASSUME NEW k \in Calls, Stalls(k) PROVE LedgerOnlyVerified' /\ PostsOnce'
  <2>1. \A n \in DOMAIN ledger : ledger[n] \in Calls
    BY DEF IInv, TypeOK
  <2> QED
    <3>1. UNCHANGED <<request, mbcs, authorised, ledger>>
      BY <1>3, StallFrame DEF IInv, storeVars
    <3>2. LedgerOnlyVerified'
      BY <3>1 DEF IInv, LedgerOnlyVerified
    <3>3. \A j \in Calls : pc[j] \in AfterPosting => pc'[j] \in AfterPosting
      BY <1>3, StallFrame DEF IInv, TypeOK, AfterPosting
    <3>4. PostsOnce'
      BY <2>1, <3>1, <3>3 DEF IInv, PostsOnce
    <3> QED
      BY <3>2, <3>4
<1> QED
  BY <1>1, <1>2, <1>3, ChangeFrame DEF Next, LedgerOnlyVerified, PostsOnce, IInv

\* The history of authorisations follows the policy bucket.
LEMMA AuthorisedStep == IInv /\ [Next]_vars => AuthorisedByPolicy'
<1> SUFFICES ASSUME IInv, [Next]_vars PROVE AuthorisedByPolicy'
  OBVIOUS
<1> USE DEF IInv, AuthorisedByPolicy
<1>1. ASSUME NEW k \in Calls, Handle(k) PROVE AuthorisedByPolicy'
  BY <1>1, Frame DEF Authorises
<1>2. ASSUME NEW c \in Certificates, ReloadCertificate(c) PROVE AuthorisedByPolicy'
  BY <1>2 DEF ReloadCertificate, callVars, Authorises
<1>3. ASSUME NEW p \in Publishers, NEW file \in PolicyFiles \cup {NoPolicy}, StorePolicy(p, file)
      PROVE AuthorisedByPolicy'
  <2> SUFFICES ASSUME NEW j \in Calls, NEW q \in Publishers, Authorises(policy'[q], j, q)
               PROVE  <<j, q>> \in authorised'
    BY <1>3 DEF StorePolicy, callVars, Authorises
  <2>1. authorised \subseteq authorised'
    BY <1>3 DEF StorePolicy
  <2>2. CASE q = p
    <3>1. policy'[p] = file
      BY <1>3 DEF StorePolicy, TypeOK
    <3> QED
      BY <1>3, <2>2, <3>1 DEF StorePolicy
  <2>3. CASE q # p
    <3>1. policy'[q] = policy[q]
      BY <1>3, <2>3 DEF StorePolicy, TypeOK
    <3> QED
      BY <2>1, <3>1
  <2> QED
    BY <2>2, <2>3
<1>4. CASE UNCHANGED vars
  BY <1>4 DEF vars, callVars, storeVars, Authorises
<1>5. ASSUME NEW k \in Calls, Stalls(k) PROVE AuthorisedByPolicy'
  BY <1>5, StallFrame DEF storeVars, Authorises
<1> QED
  BY <1>1, <1>2, <1>3, <1>4, <1>5 DEF Next

\* Only verifyPublisher brings a call past approval or approves a publisher,
\* only sign answers OK or counts.
LEMMA MetricsFrame ==
    ASSUME IInv, NEW k \in Calls, Handle(k)
    PROVE  /\ \/ verifyPublisher(k)
              \/ /\ approvedPublishers' = approvedPublishers
                 /\ Past(k, Approved)' => Past(k, Approved)
           /\ \/ sign(k)
              \/ /\ endorsementCounters' = endorsementCounters
                 /\ status'[k] = "OK" <=> status[k] = "OK"
<1> USE DEF IInv, TypeOK, Progress, CallProgress, Past, Checked, Parsed, Approved,
            Answer, Goto, metricVars
<1>1. CASE RejectToken(k)
  BY <1>1 DEF RejectToken
<1>2. CASE validateAudience(k)
  BY <1>2 DEF validateAudience, NotReady
<1>3. CASE createEndorsement(k)
  BY <1>3 DEF createEndorsement
<1>4. CASE parseAndVerify(k)
  BY <1>4 DEF parseAndVerify
<1>5. CASE verifyPublisher(k)
  BY <1>5 DEF verifyPublisher
<1>6. CASE verifySignature(k)
  BY <1>6 DEF verifySignature
<1>7. CASE verifyTLedgerSignature(k)
  BY <1>7 DEF verifyTLedgerSignature
<1>8. CASE LedgerUnverified(k)
  BY <1>8 DEF LedgerUnverified
<1>9. CASE sign(k)
  BY <1>9 DEF sign
<1>10. CASE InterceptorThrows(k)
  BY <1>10 DEF InterceptorThrows
<1>11. CASE PolicyUnavailable(k)
  BY <1>11 DEF PolicyUnavailable
<1>12. CASE SigningFails(k)
  BY <1>12 DEF SigningFails
<1>13. CASE post(k)
  BY <1>13 DEF post, LedgerAnswers
<1>14. CASE PostFails(k)
  BY <1>14 DEF PostFails, LedgerAnswers
<1>15. CASE KeySetRejects(k)
  BY <1>15 DEF KeySetRejects
<1> QED
  BY <1>1, <1>2, <1>3, <1>4, <1>5, <1>6, <1>7, <1>8, <1>9, <1>10, <1>11, <1>12, <1>13,
     <1>14, <1>15 DEF Handle

\* Approval is for good and so is a limit that is reached.
LEMMA ApprovedStep == IInv /\ [Next]_vars => ApprovedOrFull'
<1> SUFFICES ASSUME IInv, [Next]_vars PROVE ApprovedOrFull'
  OBVIOUS
<1>1. ASSUME NEW k \in Calls, Handle(k) PROVE ApprovedOrFull'
  <2>1. CASE approvedPublishers' = approvedPublishers /\ (Past(k, Approved)' => Past(k, Approved))
    BY <1>1, <2>1, Frame DEF IInv, ApprovedOrFull, Past
  <2>2. CASE verifyPublisher(k)
    <3> DEFINE p == publisherId(request[k])
    <3>1. CASE Cardinality(approvedPublishers) < MAX_APPROVED_PUBLISHERS
      <4>1. approvedPublishers' \in {approvedPublishers, approvedPublishers \cup {p}}
        BY <2>2, <3>1 DEF verifyPublisher, approvePublisher
      <4>2. IsFiniteSet(approvedPublishers')
        BY <4>1, FS_AddElement DEF IInv, ApprovedOrFull
      <4>3. ASSUME NEW j \in Calls, Past(j, Approved)'
            PROVE publisherId(request'[j]) \in approvedPublishers'
        <5>1. CASE j # k
          <6>1. Past(j, Approved) /\ request'[j] = request[j]
            BY <1>1, <4>3, <5>1, Frame DEF IInv, Past
          <6>2. publisherId(request[j]) \in approvedPublishers
            BY <3>1, <6>1, FS_CardinalityType, ConstantsAssumption DEF IInv, ApprovedOrFull
          <6> QED
            BY <4>1, <6>1, <6>2
        <5>2. CASE j = k
          BY <2>2, <3>1, <4>3, <5>2
          DEF verifyPublisher, approvePublisher, Answer, Past, Approved, Parsed, Checked,
              IInv, TypeOK
        <5> QED
          BY <5>1, <5>2
      <4> QED
        BY <4>2, <4>3 DEF ApprovedOrFull
    <3>2. CASE ~(Cardinality(approvedPublishers) < MAX_APPROVED_PUBLISHERS)
      <4>1. approvedPublishers' = approvedPublishers
        BY <2>2, <3>2 DEF verifyPublisher, approvePublisher
      <4>2. Cardinality(approvedPublishers) >= MAX_APPROVED_PUBLISHERS
        BY <3>2, FS_CardinalityType, ConstantsAssumption DEF IInv, ApprovedOrFull
      <4> QED
        BY <4>1, <4>2 DEF IInv, ApprovedOrFull
    <3> QED
      BY <3>1, <3>2
  <2> QED
    BY <1>1, <2>1, <2>2, MetricsFrame
<1>2. CASE UNCHANGED <<callVars, ledger, metricVars>>
  BY <1>2 DEF IInv, ApprovedOrFull, callVars, metricVars, Past
<1>3. ASSUME NEW k \in Calls, Stalls(k) PROVE ApprovedOrFull'
  BY <1>3, StallFrame
  DEF IInv, TypeOK, ApprovedOrFull, Past, Approved, Parsed, Checked, metricVars
<1> QED
  BY <1>1, <1>2, <1>3, ChangeFrame DEF Next, IInv

\* The endorsements counted: one more for the publisher of a call that is
\* answered OK, otherwise the same.
LEMMA EndorsedFinite == \A p \in Publishers : IsFiniteSet(Endorsed(p))
  BY ConstantsAssumption, FS_Subset DEF Endorsed

\* The counters stay exact.
LEMMA CountersStep == IInv /\ [Next]_vars => CountersExact'
<1> SUFFICES ASSUME IInv, [Next]_vars PROVE CountersExact'
  OBVIOUS
<1>1. ASSUME NEW k \in Calls, Handle(k) PROVE CountersExact'
  <2> DEFINE q == publisherId(request[k])
  <2>1. CASE sign(k)
    <3>1. approvedPublishers' = approvedPublishers /\ request' = request
      BY <2>1 DEF sign
    <3>2. status[k] # "OK" /\ status'[k] = "OK" /\ \A j \in Calls \ {k} : status'[j] = status[j]
      BY <2>1 DEF sign, Answer, IInv, TypeOK, Progress, CallProgress
    <3>3. ASSUME NEW p \in Publishers, p # q PROVE Endorsed(p)' = Endorsed(p)
      BY <3>1, <3>2, <3>3 DEF Endorsed
    <3>4. Endorsed(q)' = Endorsed(q) \cup {k} /\ k \notin Endorsed(q)
      BY <3>1, <3>2 DEF Endorsed
    <3>5. q \in Publishers
      BY <2>1, OnePublisher DEF sign, IInv, TypeOK, Progress, CallProgress, Past, Parsed, Checked
    <3>6. Cardinality(Endorsed(q)') = Cardinality(Endorsed(q)) + 1
      BY <3>4, <3>5, EndorsedFinite, FS_AddElement
    <3>7. endorsementCounters' = IF q \in approvedPublishers
                                 THEN [endorsementCounters EXCEPT ![q] = @ + 1]
                                 ELSE endorsementCounters
      BY <2>1 DEF sign, incrementEndorsementCounter
    <3>8. ASSUME NEW p \in Publishers
          PROVE  endorsementCounters'[p] =
                     IF p \in approvedPublishers' THEN Cardinality(Endorsed(p)') ELSE 0
      <4>1. CASE p = q
        BY <3>1, <3>5, <3>6, <3>7, <4>1 DEF IInv, TypeOK, CountersExact
      <4>2. CASE p # q
        BY <3>1, <3>3, <3>7, <4>2 DEF IInv, TypeOK, CountersExact
      <4> QED
        BY <4>1, <4>2
    <3> QED
      BY <3>1, <3>8 DEF CountersExact, IInv
  <2>2. CASE ~sign(k)
    <3>1. endorsementCounters' = endorsementCounters
      BY <1>1, <2>2, MetricsFrame
    <3>2. \A p \in Publishers : Endorsed(p)' = Endorsed(p)
      BY <1>1, <2>2, MetricsFrame, Frame DEF Endorsed, IInv
    <3>3. CASE approvedPublishers' = approvedPublishers
      BY <3>1, <3>2, <3>3 DEF IInv, CountersExact
    <3>4. CASE verifyPublisher(k) /\ approvedPublishers' # approvedPublishers
      <4>1. /\ Cardinality(approvedPublishers) < MAX_APPROVED_PUBLISHERS
            /\ approvedPublishers' = approvedPublishers \cup {q}
            /\ q \notin approvedPublishers
        BY <3>4 DEF verifyPublisher, approvePublisher
      <4>2. q \in Publishers
        BY <3>4, OnePublisher
        DEF verifyPublisher, IInv, TypeOK, Progress, CallProgress, Past, Parsed, Checked
      <4>3. /\ Cardinality(approvedPublishers) \in Nat
            /\ Cardinality(approvedPublishers') = Cardinality(approvedPublishers) + 1
        BY <4>1, FS_AddElement, FS_CardinalityType DEF IInv, ApprovedOrFull
      <4>4. Endorsed(q) = {}
        BY <4>1, <4>3, ConstantsAssumption DEF IInv, ApprovedOrFull, Past, Endorsed
      <4>5. Cardinality(Endorsed(q)) = 0
        BY <4>4, FS_EmptySet
      <4>6. endorsementCounters[q] = 0
        BY <4>1, <4>2 DEF IInv, CountersExact
      <4>7. \A p \in Publishers : endorsementCounters'[p] =
               IF p \in approvedPublishers' THEN Cardinality(Endorsed(p)') ELSE 0
        BY <3>1, <3>2, <4>1, <4>2, <4>5, <4>6 DEF IInv, CountersExact
      <4>8. Cardinality(approvedPublishers') <= MAX_APPROVED_PUBLISHERS
        BY <4>1, <4>3, ConstantsAssumption
      <4> QED
        BY <4>7, <4>8 DEF CountersExact
    <3> QED
      BY <1>1, <3>3, <3>4, MetricsFrame
  <2> QED
    BY <2>1, <2>2
<1>2. CASE UNCHANGED <<callVars, ledger, metricVars>>
  <2>1. \A p \in Publishers : Endorsed(p)' = Endorsed(p)
    BY <1>2 DEF Endorsed, callVars
  <2> QED
    BY <1>2, <2>1 DEF IInv, CountersExact, metricVars
<1>3. ASSUME NEW k \in Calls, Stalls(k) PROVE CountersExact'
  <2>1. UNCHANGED <<request, status, metricVars>>
    BY <1>3, StallFrame DEF IInv
  <2>2. \A p \in Publishers : Endorsed(p)' = Endorsed(p)
    BY <2>1 DEF Endorsed
  <2> QED
    BY <2>1, <2>2 DEF IInv, CountersExact, metricVars
<1> QED
  BY <1>1, <1>2, <1>3, ChangeFrame DEF Next, IInv

\* IInv is an invariant of PesEndorsement.
THEOREM Invariance == Spec => []IInv
<1>1. IInv /\ [Next]_vars => IInv'
  BY TypeStep, ProgressStep, LedgerStep, AuthorisedStep, ApprovedStep, CountersStep DEF IInv
<1> QED
  BY InitIInv, <1>1, PTL DEF Spec

\* TypeOK holds in every reachable state of PesEndorsement.
THEOREM TypeCorrect == Spec => []TypeOK
<1>1. IInv => TypeOK
  BY DEF IInv
<1> QED
  BY <1>1, Invariance, PTL

\* Nothing unverified ever reaches the ledger (createEndorsement's order of
\* checks), for any number of concurrent calls and any changes of policies
\* and certificates under them.
THEOREM LedgerCorrect == Spec => []LedgerOnlyVerified
<1>1. IInv => LedgerOnlyVerified
  BY DEF IInv
<1> QED
  BY <1>1, Invariance, PTL

\* Endorsements are signed only by certificates that outlive the statement:
\* createEndorsement signs with the package it checked the expiry against.
THEOREM SignaturesCorrect == Spec => []SignaturesOutliveStatement
<1>1. IInv => SignaturesOutliveStatement
  BY DEF IInv, Progress, CallProgress, Past, Acceptable, SignaturesOutliveStatement
<1> QED
  BY <1>1, Invariance, PTL

\* An endorsement that is returned is in the ledger: the answer holds the raw
\* entry that was sent, and the ledger's signature on it.
THEOREM LoggedCorrect == Spec => []EndorsedIsLogged
<1>1. IInv => EndorsedIsLogged
  BY DEF IInv, Progress, CallProgress, Past, EndorsedIsLogged
<1> QED
  BY <1>1, Invariance, PTL

\* The endorsement counters are exact and bounded.
THEOREM CountersCorrect == Spec => []CountersExact
<1>1. IInv => CountersExact
  BY DEF IInv
<1> QED
  BY <1>1, Invariance, PTL
=============================================================================

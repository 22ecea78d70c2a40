------------------------- MODULE MbsKeyBackupProofs -------------------------
(***************************************************************************)
(* Proofs about MbsKeyBackup, MbsDamage and EnclaveLife, for any set of    *)
(* instances and any bounds.                                               *)
(***************************************************************************)
EXTENDS MbsDamage, EnclaveLife, TLAPS

\* The read and write orders visit exactly the four artifacts.
LEMMA Orders ==
    /\ \A k \in 1 .. ArtifactCount : WriteOrder[k] \in Artifacts /\ ReadOrder[k] \in Artifacts
    /\ WriteOrder[1] = "aesEncryptedPrivateKey"
    /\ WriteOrder[2] = "kmsEncryptedDataKey"
    /\ WriteOrder[3] = "attestationDoc"
    /\ WriteOrder[4] = "cert"
    /\ ReadOrder[1] = "cert"
    /\ ReadOrder[2] = "kmsEncryptedDataKey"
    /\ ReadOrder[3] = "aesEncryptedPrivateKey"
    /\ ReadOrder[4] = "attestationDoc"
  BY DEF WriteOrder, ReadOrder, Artifacts, ArtifactCount

\* The initial state satisfies the inductive invariant: empty buckets, idle
\* instances, nothing loaded (the state before the first runOneIteration).
LEMMA InitIInv == Init => IInv
  BY ConstantsAssumption DEF Init, IInv, TypeOK, SentinelComplete, LeftoversStayLocked, LockHeld, WriterProgress,
     OneGeneration, UnlockAfterPublication, ReadsPublished, LoadedPublished, PutsInFlight,
     Pristine, Loaded, NoBackup, KeyBackups, Stored, None, Artifacts, Phases, Reading, ArtifactCount,
     Whole, Requests

\* Typing of the request records the handlers build.
LEMMA RequestTypes ==
    /\ \A i \in Instances : [op |-> "lock", by |-> i] \in Requests
    /\ [op |-> "unlock"] \in Requests
    /\ \A a \in Artifacts, g \in Generations : [op |-> "put", artifact |-> a, gen |-> g] \in PutRequests
    /\ PutRequests \subseteq Requests
    /\ \A i \in Instances : [op |-> "lock", by |-> i] \notin PutRequests
    /\ [op |-> "unlock"] \notin PutRequests
    /\ \A r \in PutRequests : r.op = "put" /\ r.artifact \in Artifacts /\ r.gen \in Nat /\ r.gen # None
  BY DEF Requests, PutRequests, LockRequests, UnlockRequests, Generations

\* Well-typed control state of the instances.
LocalTypeOK ==
    /\ pc \in [Instances -> Phases]
    /\ step \in [Instances -> 1 .. ArtifactCount + 1]
    /\ got \in [Instances -> KeyBackups]
    /\ mine \in [Instances -> Stored]
    /\ retried \in [Instances -> BOOLEAN]
    /\ reloadStatus \in [Instances -> {"UNSET", "SUCCESS", "FAILURE"}]

\* NoBackup is a backup with no object.
LEMMA NoBackupType == NoBackup \in KeyBackups /\ \A a \in Artifacts : NoBackup[a] = None
  BY DEF NoBackup, KeyBackups, Stored, None

\* Goto enters a phase with well-typed control state (every transition of
\* reloadCertificateOnce).
LEMMA GotoType ==
    ASSUME LocalTypeOK, NEW i \in Instances, NEW phase \in Phases, Goto(i, phase),
           reloadStatus' = reloadStatus
    PROVE  LocalTypeOK'
  BY NoBackupType DEF LocalTypeOK, Goto, ArtifactCount, Stored, None

\* Fail and FailTransient keep the control state well typed.
LEMMA FailType ==
    ASSUME LocalTypeOK, NEW i \in Instances, Fail(i) \/ FailTransient(i)
    PROVE  LocalTypeOK'
  <1>1. CASE Fail(i)
    BY <1>1, NoBackupType DEF LocalTypeOK, Fail, Goto, ArtifactCount, Stored, None, Phases
  <1>2. CASE FailTransient(i)
    <2>1. CASE retried[i]
      BY <1>1, <1>2, <2>1 DEF FailTransient
    <2>2. CASE ~retried[i]
      <3>1. retried' \in [Instances -> BOOLEAN] /\ reloadStatus' = reloadStatus
        BY <1>2, <2>2, Zenon DEF LocalTypeOK, FailTransient
      <3>2. /\ pc' = [pc EXCEPT ![i] = "backoff"]
            /\ step' = [step EXCEPT ![i] = 1]
            /\ got' = [got EXCEPT ![i] = NoBackup]
            /\ mine' = [mine EXCEPT ![i] = None]
        BY <1>2, <2>2 DEF FailTransient
      <3> QED BY <3>1, <3>2, NoBackupType DEF LocalTypeOK, ArtifactCount, Stored, None, Phases
    <2> QED BY <2>1, <2>2
  <1> QED BY <1>1, <1>2

\* A request that reaches S3 leaves the buckets well typed.
LEMMA ApplyType ==
    ASSUME s3 \in KeyBackups, lock \in Instances \cup {NoLock}, NEW r \in Requests, Apply(r)
    PROVE  s3' \in KeyBackups /\ lock' \in Instances \cup {NoLock}
  BY DEF Apply, Requests, PutRequests, LockRequests, UnlockRequests, Generations, KeyBackups, Stored

\* The outcomes of a request keep buckets and fault count well typed.
LEMMA OutcomeType ==
    ASSUME s3 \in KeyBackups, lock \in Instances \cup {NoLock}, inflight \subseteq Requests,
           faults \in Nat, NEW r \in Requests, Answered(r) \/ AnsweredTwice(r) \/ Unanswered(r)
    PROVE  /\ s3' \in KeyBackups
           /\ lock' \in Instances \cup {NoLock}
           /\ inflight' \subseteq Requests
           /\ faults' \in Nat
  BY ApplyType DEF Answered, AnsweredTwice, Unanswered, Fault, bucketVars

\* Type correctness of every step: no handler stores anything but a
\* generation number, and every request is one of the three kinds.
LEMMA TypeStep == TypeOK /\ WriterProgress /\ [Next]_vars => TypeOK'
  <1> SUFFICES ASSUME TypeOK, WriterProgress, [Next]_vars PROVE TypeOK'
    OBVIOUS
  <1>0. LocalTypeOK
    BY DEF TypeOK, LocalTypeOK
  <1> USE DEF bucketVars, localVars
  <1>1. ASSUME NEW i \in Instances, Reload(i) PROVE TypeOK'
    <2> USE <1>0
    <2>1. CASE StartReload(i)
      BY <2>1 DEF StartReload, TypeOK, Phases, Reading
    <2>2. CASE RetryAfterBackoff(i)
      BY <2>2, GotoType DEF RetryAfterBackoff, TypeOK, LocalTypeOK, Phases, Reading
    <2>3. CASE tryGetS3Object(i)
      <3>1. ReadOrder[step[i]] \in Artifacts /\ step[i] + 1 \in 1 .. ArtifactCount + 1
        BY <2>3, Orders DEF tryGetS3Object, TypeOK, ArtifactCount
      <3>2. [got[i] EXCEPT ![ReadOrder[step[i]]] = s3[ReadOrder[step[i]]]] \in KeyBackups
        BY <3>1 DEF TypeOK, KeyBackups
      <3> QED BY <2>3, <3>1, <3>2 DEF tryGetS3Object, TypeOK
    <2>4. CASE BackupExists(i)
      BY <2>4, GotoType DEF BackupExists, TypeOK, LocalTypeOK, Phases, Reading
    <2>5. CASE BackupAbsent(i)
      BY <2>5, GotoType DEF BackupAbsent, TypeOK, LocalTypeOK, Phases, Reading
    <2>6. CASE BackupPartiallyWritten(i)
      BY <2>6, FailType DEF BackupPartiallyWritten, TypeOK, LocalTypeOK
    <2>7. CASE BackupUnusable(i)
      BY <2>7, FailType DEF BackupUnusable, TypeOK, LocalTypeOK
    <2>8. CASE acquireLock(i)
      <3> DEFINE r == [op |-> "lock", by |-> i]
      <3>1. r \in Requests
        BY RequestTypes
      <3>2. LocalTypeOK'
        BY <2>8, GotoType, FailType DEF acquireLock, PhaseUnderLock, Phases, Reading
      <3>3. /\ s3' \in KeyBackups
            /\ lock' \in Instances \cup {NoLock}
            /\ inflight' \subseteq Requests
            /\ faults' \in Nat
        <4> HIDE DEF r
        <4> QED BY <2>8, <3>1, OutcomeType, ApplyType DEF acquireLock, TypeOK, Fault, r
      <3> QED BY <2>8, <3>2, <3>3 DEF acquireLock, TypeOK, LocalTypeOK
    <2>9. CASE GenerateKeyBackup(i)
      BY <2>9 DEF GenerateKeyBackup, FreshCertificate, TypeOK, Stored, Phases
    <2>10. CASE putS3Object(i)
      <3> DEFINE r == [op |-> "put", artifact |-> WriteOrder[step[i]], gen |-> mine[i]]
      <3>1. r \in Requests
        BY <2>10, Orders, RequestTypes DEF putS3Object, WriterProgress, TypeOK, Stored, Generations
      <3>2. LocalTypeOK'
        <4>1. CASE Fail(i)
          BY <4>1, FailType
        <4>2. CASE Goto(i, "release") /\ reloadStatus' = reloadStatus
          BY <4>2, GotoType DEF Phases
        <4>3. CASE ~Fail(i) /\ ~Goto(i, "release")
          <5>1. /\ step[i] \in 1 .. ArtifactCount /\ step' = [step EXCEPT ![i] = @ + 1]
                /\ UNCHANGED <<pc, got, mine, retried, reloadStatus>>
            BY <2>10, <4>3 DEF putS3Object, WriterProgress
          <5> QED BY <5>1 DEF LocalTypeOK, ArtifactCount
        <4> QED BY <2>10, <4>1, <4>2, <4>3 DEF putS3Object
      <3>3. /\ s3' \in KeyBackups
            /\ lock' \in Instances \cup {NoLock}
            /\ inflight' \subseteq Requests
            /\ faults' \in Nat
        BY <2>10, <3>1, OutcomeType DEF putS3Object, TypeOK
      <3> QED BY <2>10, <3>2, <3>3 DEF putS3Object, TypeOK, LocalTypeOK
    <2>11. CASE releaseLock(i)
      <3> DEFINE r == [op |-> "unlock"]
      <3>1. r \in Requests
        BY RequestTypes
      <3>2. LocalTypeOK'
        BY <2>11, GotoType, FailType DEF releaseLock, Phases, Reading
      <3>3. /\ s3' \in KeyBackups
            /\ lock' \in Instances \cup {NoLock}
            /\ inflight' \subseteq Requests
            /\ faults' \in Nat
        BY <2>11, <3>1, OutcomeType DEF releaseLock, TypeOK
      <3> QED BY <2>11, <3>2, <3>3 DEF releaseLock, TypeOK, LocalTypeOK
    <2>12. CASE loadExistingKeyBackup(i)
      <3>1. LocalTypeOK'
        <4>1. CASE Fail(i)
          BY <4>1, FailType
        <4>2. CASE ~Fail(i)
          BY <2>12, <4>2, NoBackupType DEF loadExistingKeyBackup, DecryptFails, LocalTypeOK, Goto, ArtifactCount, Stored, None, Phases
        <4> QED BY <4>1, <4>2
      <3> QED BY <2>12, <3>1 DEF loadExistingKeyBackup, DecryptFails, TypeOK, LocalTypeOK, Fault
    <2> QED BY <1>1, <2>1, <2>2, <2>3, <2>4, <2>5, <2>6, <2>7, <2>8, <2>9, <2>10, <2>11, <2>12 DEF Reload
  <1>2. ASSUME NEW i \in Instances, Environment(i) PROVE TypeOK'
    <2>1. CASE FetchFails(i) \/ GenerateFails(i)
      BY <1>0, <2>1, FailType DEF FetchFails, GenerateFails, TypeOK, LocalTypeOK, Fault
    <2>2. CASE CrashRestart(i)
      BY <2>2, NoBackupType DEF CrashRestart, TypeOK, Fault, Phases, Stored, None, ArtifactCount
    <2> QED BY <1>2, <2>1, <2>2 DEF Environment
  <1>3. ASSUME Operator PROVE TypeOK'
    BY <1>3 DEF Operator, OperatorRemovesLock, OperatorRemovesLeftover, TypeOK, KeyBackups, Stored, None
  <1>4. ASSUME NEW r \in inflight, LateArrival(r) PROVE TypeOK'
    BY <1>4, ApplyType DEF LateArrival, TypeOK
  <1>5. ASSUME NEW r \in inflight, LateLoss(r) PROVE TypeOK'
    BY <1>5 DEF LateLoss, TypeOK
  <1>6. CASE UNCHANGED vars
    BY <1>6 DEF vars, TypeOK
  <1> QED BY <1>1, <1>2, <1>3, <1>4, <1>5, <1>6 DEF Next, Late

\* The part of the invariant that only speaks of the buckets.
BucketInv ==
    SentinelComplete /\ LeftoversStayLocked /\ OneGeneration /\ UnlockAfterPublication

\* The part that ties the instances to the buckets.
InstanceInv == LockHeld /\ WriterProgress /\ ReadsPublished /\ LoadedPublished

\* A step that sends no request keeps the bucket part.
LEMMA BucketsUnchanged ==
    ASSUME BucketInv, UNCHANGED bucketVars
    PROVE  BucketInv'
  BY DEF BucketInv, SentinelComplete, LeftoversStayLocked, OneGeneration, UnlockAfterPublication,
         PutsInFlight, Whole, bucketVars

\* The instance leaves whatever it was doing, and has nothing read or
\* generated: a failed reload, a retry, the way to the lock, a restart.
Outside == {"idle", "backoff", "exists", "acquire"}

\* The instance enters a phase with nothing read or generated.
Enters(i, phase) ==
    /\ pc' = [pc EXCEPT ![i] = phase]
    /\ step' = [step EXCEPT ![i] = 1]
    /\ got' = [got EXCEPT ![i] = NoBackup]
    /\ mine' = [mine EXCEPT ![i] = None]

Retreats(i) == \E phase \in Outside : Enters(i, phase)

\* Fail, FailTransient and Goto to an outside phase are retreats.
LEMMA Retreating ==
    ASSUME NEW i \in Instances,
           \/ Fail(i) \/ FailTransient(i)
           \/ Goto(i, "exists") \/ Goto(i, "acquire") \/ Goto(i, "idle")
    PROVE  Retreats(i)
  BY DEF Fail, FailTransient, Goto, Retreats, Enters, Outside

\* Failing never claims success.
LEMMA FailingStatus ==
    ASSUME TypeOK, NEW i \in Instances, Fail(i) \/ FailTransient(i)
    PROVE  \A j \in Instances : reloadStatus'[j] = "SUCCESS" => reloadStatus[j] = "SUCCESS"
  BY DEF Fail, FailTransient, TypeOK

\* A retreat disturbs nothing, however the buckets look.
LEMMA RetreatStep ==
    ASSUME TypeOK, InstanceInv, NEW i \in Instances, Retreats(i), UNCHANGED bucketVars,
           UNCHANGED currentCertificate,
           \A j \in Instances : reloadStatus'[j] = "SUCCESS" => reloadStatus[j] = "SUCCESS"
    PROVE  InstanceInv'
  <1> USE DEF InstanceInv, Enters, bucketVars
  <1>0. PICK phase \in Outside : Enters(i, phase)
    BY DEF Retreats
  <1>1. LockHeld'
    BY <1>0 DEF LockHeld, TypeOK, Outside, Pristine, PutsInFlight
  <1>2. WriterProgress'
    BY <1>0 DEF WriterProgress, TypeOK, Outside, PutsInFlight
  <1>3. ReadsPublished'
    BY <1>0, NoBackupType DEF ReadsPublished, TypeOK, Outside, Artifacts
  <1>4. LoadedPublished'
    BY DEF LoadedPublished, Loaded
  <1> QED BY <1>1, <1>2, <1>3, <1>4
\* The steps of a reload that send no changing request.
LEMMA LocalSteps ==
    ASSUME TypeOK, BucketInv, InstanceInv, NEW i \in Instances,
           \/ StartReload(i) \/ RetryAfterBackoff(i) \/ tryGetS3Object(i)
           \/ BackupExists(i) \/ BackupAbsent(i) \/ BackupPartiallyWritten(i)
           \/ BackupUnusable(i) \/ GenerateKeyBackup(i) \/ loadExistingKeyBackup(i)
           \/ FetchFails(i) \/ GenerateFails(i) \/ CrashRestart(i)
    PROVE  BucketInv' /\ InstanceInv'
  <1>0. BucketInv' /\ UNCHANGED bucketVars
    <2>1. UNCHANGED bucketVars
      BY DEF StartReload, RetryAfterBackoff, tryGetS3Object, BackupExists, BackupAbsent,
             BackupPartiallyWritten, BackupUnusable, GenerateKeyBackup, FreshCertificate, loadExistingKeyBackup, DecryptFails,
             FetchFails, GenerateFails, CrashRestart
    <2> QED BY <2>1, BucketsUnchanged
  <1>1. CASE StartReload(i)
    <2> USE <1>1 DEF StartReload, bucketVars, InstanceInv
    <2>1. LockHeld'
      BY DEF LockHeld, TypeOK, Pristine, PutsInFlight
    <2>2. WriterProgress'
      BY DEF WriterProgress, TypeOK, PutsInFlight
    <2>3. ReadsPublished'
      BY DEF ReadsPublished, TypeOK
    <2>4. LoadedPublished'
      BY DEF LoadedPublished, Loaded
    <2> QED BY <1>0, <2>1, <2>2, <2>3, <2>4
  <1>2. CASE RetryAfterBackoff(i)
    BY <1>0, <1>2, Retreating, RetreatStep DEF RetryAfterBackoff
  <1>3. CASE tryGetS3Object(i)
    <2> USE <1>3 DEF tryGetS3Object, bucketVars, InstanceInv
    <2>1. LockHeld'
      BY DEF LockHeld, Pristine, PutsInFlight
    <2>2. WriterProgress'
      BY DEF WriterProgress, TypeOK, PutsInFlight, Reading
    <2>3. ReadsPublished'
      <3> SUFFICES ASSUME NEW j \in Instances
                   PROVE  /\ got'[j]["cert"] # None => s3["cert"] # None
                          /\ pc[j] = "recheck" /\ step'[j] > 1 /\ s3["cert"] # None
                               => got'[j]["cert"] # None
                          /\ pc[j] = "load" =>
                               \A k \in 1 .. ArtifactCount :
                                   k < step'[j] => got'[j][ReadOrder[k]] = s3["cert"]
        BY DEF ReadsPublished
      <3>1. CASE j # i
        BY <3>1 DEF ReadsPublished, TypeOK
      <3>2. CASE j = i
        <4> DEFINE a == ReadOrder[step[i]]
        <4>1. step[i] \in 1 .. ArtifactCount /\ a \in Artifacts /\ step'[i] = step[i] + 1
          BY Orders DEF TypeOK, ArtifactCount
        <4>2. /\ got'[i][a] = s3[a]
              /\ \A b \in Artifacts : b # a => got'[i][b] = got[i][b]
          BY <4>1 DEF TypeOK, KeyBackups
        <4>3. a = "cert" <=> step[i] = 1
          BY <4>1, Orders DEF ArtifactCount
        <4>4. got'[i]["cert"] # None => s3["cert"] # None
          BY <4>2 DEF ReadsPublished, Artifacts
        <4>5. pc[i] = "recheck" /\ s3["cert"] # None => got'[i]["cert"] # None
          BY <4>1, <4>2, <4>3 DEF ReadsPublished, Artifacts, ArtifactCount
        <4>6. ASSUME pc[i] = "load", NEW k \in 1 .. ArtifactCount, k < step'[i]
              PROVE  got'[i][ReadOrder[k]] = s3["cert"]
          <5>1. s3[a] = s3["cert"]
            BY <4>1, <4>6 DEF LockHeld, BucketInv, SentinelComplete, Whole
          <5>2. CASE k = step[i]
            BY <4>2, <5>1, <5>2
          <5>3. CASE k < step[i]
            <6>1. ReadOrder[k] # a /\ ReadOrder[k] \in Artifacts
              BY <4>1, <5>3, Orders DEF ArtifactCount
            <6> QED BY <4>2, <4>6, <5>3, <6>1 DEF ReadsPublished
          <5> QED BY <4>1, <4>6, <5>2, <5>3
        <4> QED BY <3>2, <4>4, <4>5, <4>6
      <3> QED BY <3>1, <3>2
    <2>4. LoadedPublished'
      BY DEF LoadedPublished, Loaded
    <2> QED BY <1>0, <2>1, <2>2, <2>3, <2>4
  <1>4. CASE BackupExists(i)
    <2>0. s3["cert"] # None
      BY <1>4 DEF BackupExists, Found, Missing, InstanceInv, ReadsPublished, Artifacts
    <2>1. PICK phase \in {"load", "release"} : Goto(i, phase)
      BY <1>4 DEF BackupExists
    <2> USE <2>1, <1>4 DEF BackupExists, Goto, bucketVars, InstanceInv
    <2>2. LockHeld'
      BY <2>0 DEF LockHeld, TypeOK, Pristine, PutsInFlight
    <2>3. WriterProgress'
      BY DEF WriterProgress, TypeOK, PutsInFlight
    <2>4. ReadsPublished'
      BY NoBackupType DEF ReadsPublished, TypeOK, Artifacts, ArtifactCount
    <2>5. LoadedPublished'
      BY DEF LoadedPublished, Loaded
    <2> QED BY <1>0, <2>2, <2>3, <2>4, <2>5
  <1>5. CASE BackupAbsent(i)
    <2>1. CASE Goto(i, "acquire")
      BY <1>0, <1>5, <2>1, Retreating, RetreatStep DEF BackupAbsent
    <2>2. CASE pc[i] = "recheck" /\ Goto(i, "generate")
      <3>0. s3["cert"] = None /\ lock = i /\ Pristine
        <4>1. got[i]["cert"] = None /\ step[i] > 1
          BY <1>5 DEF BackupAbsent, NotFound, Missing, Artifacts, GetReturns, ArtifactCount
        <4> QED BY <2>2, <4>1 DEF InstanceInv, ReadsPublished, LockHeld
      <3> USE <2>2, <1>5 DEF BackupAbsent, Goto, bucketVars, InstanceInv
      <3>1. LockHeld'
        BY <3>0 DEF LockHeld, TypeOK, Pristine, PutsInFlight
      <3>2. WriterProgress'
        BY DEF WriterProgress, TypeOK, PutsInFlight
      <3>3. ReadsPublished'
        BY NoBackupType DEF ReadsPublished, TypeOK, Artifacts
      <3>4. LoadedPublished'
        BY DEF LoadedPublished, Loaded
      <3> QED BY <1>0, <3>1, <3>2, <3>3, <3>4
    <2> QED BY <1>5, <2>1, <2>2 DEF BackupAbsent
  <1>6. CASE BackupPartiallyWritten(i) \/ BackupUnusable(i) \/ FetchFails(i) \/ GenerateFails(i)
    <2>1. (Fail(i) \/ FailTransient(i)) /\ UNCHANGED currentCertificate
      BY <1>6 DEF BackupPartiallyWritten, BackupUnusable, FetchFails, GenerateFails
    <2> QED BY <1>0, <2>1, Retreating, FailingStatus, RetreatStep
  <1>7. CASE GenerateKeyBackup(i)
    <2> USE <1>7 DEF GenerateKeyBackup, FreshCertificate, bucketVars, InstanceInv
    <2>1. LockHeld'
      BY DEF LockHeld, TypeOK, Pristine, PutsInFlight
    <2>2. WriterProgress'
      <3>1. mine'[i] # None /\ lock = i /\ s3 = NoBackup /\ PutsInFlight = {}
        BY DEF TypeOK, None, LockHeld, Pristine
      <3>2. step[i] = 1
        BY DEF WriterProgress
      <3> QED BY <3>1, <3>2, NoBackupType, Orders
              DEF WriterProgress, LockHeld, TypeOK, PutsInFlight, ArtifactCount
    <2>3. ReadsPublished'
      BY DEF ReadsPublished, TypeOK
    <2>4. LoadedPublished'
      BY DEF LoadedPublished, Loaded
    <2> QED BY <1>0, <2>1, <2>2, <2>3, <2>4
  <1>8. CASE loadExistingKeyBackup(i)
    <2>1. CASE Fail(i) /\ UNCHANGED currentCertificate
      BY <1>0, <2>1, Retreating, FailingStatus, RetreatStep
    <2>2. CASE /\ currentCertificate' = [currentCertificate EXCEPT ![i] = got[i]]
               /\ reloadStatus' = [reloadStatus EXCEPT ![i] = "SUCCESS"]
               /\ Goto(i, "idle")
      <3>0. got[i] = s3 /\ s3["cert"] # None
        <4>1. pc[i] = "load" /\ step[i] = ArtifactCount + 1
          BY <1>8 DEF loadExistingKeyBackup, DecryptFails, GetReturns
        <4>2. s3["cert"] # None /\ \A k \in 1 .. ArtifactCount : got[i][ReadOrder[k]] = s3["cert"]
          BY <4>1 DEF InstanceInv, LockHeld, ReadsPublished, ArtifactCount
        <4>3. \A a \in Artifacts : got[i][a] = s3[a]
          BY <4>2, Orders DEF BucketInv, SentinelComplete, Whole, Artifacts, ArtifactCount
        <4> QED BY <4>2, <4>3 DEF TypeOK, KeyBackups
      <3> USE <2>2 DEF Goto, bucketVars, InstanceInv
      <3>1. LockHeld'
        BY <1>0 DEF LockHeld, TypeOK, Pristine, PutsInFlight
      <3>2. WriterProgress'
        BY <1>0 DEF WriterProgress, TypeOK, PutsInFlight
      <3>3. ReadsPublished'
        BY <1>0, NoBackupType DEF ReadsPublished, TypeOK, Artifacts
      <3>4. LoadedPublished'
        <4>1. s3 # NoBackup
          BY <3>0, NoBackupType DEF Artifacts
        <4> QED BY <1>0, <3>0, <4>1 DEF LoadedPublished, Loaded, TypeOK
      <3> QED BY <1>0, <3>1, <3>2, <3>3, <3>4
    <2> QED BY <1>8, <2>1, <2>2 DEF loadExistingKeyBackup, DecryptFails
  <1>9. CASE CrashRestart(i)
    <2> USE <1>9 DEF CrashRestart, bucketVars, InstanceInv
    <2>1. LockHeld'
      BY DEF LockHeld, TypeOK, Pristine, PutsInFlight
    <2>2. WriterProgress'
      BY DEF WriterProgress, TypeOK, PutsInFlight
    <2>3. ReadsPublished'
      BY NoBackupType DEF ReadsPublished, TypeOK, Artifacts
    <2>4. LoadedPublished'
      BY DEF LoadedPublished, Loaded, TypeOK
    <2> QED BY <1>0, <2>1, <2>2, <2>3, <2>4
  <1> QED BY <1>1, <1>2, <1>3, <1>4, <1>5, <1>6, <1>7, <1>8, <1>9
\* Nothing is published while somebody generates or writes a backup.
LEMMA WritersUnpublished ==
    ASSUME TypeOK, InstanceInv, NEW i \in Instances, pc[i] \in {"generate", "put"}
    PROVE  s3["cert"] = None
  <1>1. CASE pc[i] = "generate"
    BY <1>1, NoBackupType DEF InstanceInv, LockHeld, Pristine, Artifacts
  <1>2. CASE pc[i] = "put"
    BY <1>2, Orders DEF InstanceInv, WriterProgress, ArtifactCount
  <1> QED BY <1>1, <1>2

\* Putting or removing the lock object, in a way that keeps whoever works
\* under it: nothing changes for the rest of the invariant.
LEMMA LockStep ==
    ASSUME TypeOK, BucketInv, InstanceInv, s3' = s3,
           inflight' \cap PutRequests = inflight \cap PutRequests,
           [op |-> "unlock"] \in inflight' => s3["cert"] # None,
           s3["cert"] # None \/ lock' = lock \/ lock = NoLock \/ (pc[lock] \notin Locked /\ Pristine),
           s3["cert"] # None \/ Pristine \/ lock' # NoLock,
           UNCHANGED <<pc, step, got, mine, currentCertificate, reloadStatus>>
    PROVE  BucketInv' /\ InstanceInv'
  <1>1. BucketInv'
    BY DEF BucketInv, SentinelComplete, LeftoversStayLocked, OneGeneration, UnlockAfterPublication,
           PutsInFlight, Whole, Pristine
  <1>2. LockHeld'
    <2>1. \A i \in Instances : pc[i] \in {"generate", "put"} => s3["cert"] = None
      BY WritersUnpublished
    <2>2. ASSUME NEW i \in Instances, s3["cert"] = None, pc[i] \in {"recheck", "generate", "put"}
          PROVE  lock' = i
      BY <2>2, ConstantsAssumption DEF InstanceInv, LockHeld, Locked
    <2> QED BY <2>1, <2>2 DEF InstanceInv, LockHeld, Pristine, PutsInFlight
  <1>3. WriterProgress'
    BY DEF InstanceInv, WriterProgress, PutsInFlight
  <1>4. ReadsPublished'
    BY DEF InstanceInv, ReadsPublished
  <1>5. LoadedPublished'
    BY DEF InstanceInv, LoadedPublished, Loaded
  <1> QED BY <1>1, <1>2, <1>3, <1>4, <1>5 DEF InstanceInv
\* Putting or removing the lock object with the move of the instance that
\* asked for it: acquireLock and releaseLock.
LEMMA LockRequestStep ==
    ASSUME TypeOK, BucketInv, InstanceInv, NEW i \in Instances,
           NEW phase \in Outside \cup {"recheck", "load"}, Enters(i, phase),
           s3' = s3,
           inflight' \cap PutRequests = inflight \cap PutRequests,
           [op |-> "unlock"] \in inflight' => s3["cert"] # None,
           s3["cert"] # None \/ lock' = lock \/ lock = NoLock,
           s3["cert"] # None \/ lock' # NoLock \/ lock' = lock,
           phase = "recheck" => lock' = i /\ lock = NoLock,
           phase = "load" => s3["cert"] # None,
           UNCHANGED currentCertificate,
           \A j \in Instances : reloadStatus'[j] = "SUCCESS" => reloadStatus[j] = "SUCCESS"
    PROVE  BucketInv' /\ InstanceInv'
  <1> USE DEF Enters
  <1>1. BucketInv'
    BY DEF BucketInv, SentinelComplete, LeftoversStayLocked, OneGeneration, UnlockAfterPublication,
           PutsInFlight, Whole
  <1>2. LockHeld'
    <2>1. \A j \in Instances : pc[j] \in {"generate", "put"} => s3["cert"] = None
      BY WritersUnpublished
    <2>2. ASSUME NEW j \in Instances, s3["cert"] = None, pc[j] \in {"recheck", "generate", "put"}
          PROVE  lock' = j
      BY <2>2, ConstantsAssumption DEF InstanceInv, LockHeld
    <2>3. phase = "recheck" /\ s3["cert"] = None => Pristine
      BY DEF BucketInv, LeftoversStayLocked, Pristine, PutsInFlight
    <2>4. \A j \in Instances : pc'[j] = IF j = i THEN phase ELSE pc[j]
      BY DEF TypeOK
    <2>5. phase \notin {"generate", "put", "release"}
      BY DEF Outside
    <2> QED BY <2>1, <2>2, <2>3, <2>4, <2>5 DEF InstanceInv, LockHeld, Pristine, PutsInFlight
  <1>3. WriterProgress'
    BY DEF InstanceInv, WriterProgress, PutsInFlight, TypeOK, Outside
  <1>4. ReadsPublished'
    BY NoBackupType DEF InstanceInv, ReadsPublished, TypeOK, Artifacts, Outside, ArtifactCount
  <1>5. LoadedPublished'
    BY DEF InstanceInv, LoadedPublished, Loaded
  <1> QED BY <1>1, <1>2, <1>3, <1>4, <1>5 DEF InstanceInv

\* While one instance writes, every other is outside, nobody has read a
\* certificate, and nobody has loaded one.
LEMMA SoleWriter ==
    ASSUME TypeOK, BucketInv, InstanceInv, NEW i \in Instances, pc[i] = "put"
    PROVE  /\ s3["cert"] = None /\ lock = i /\ [op |-> "unlock"] \notin inflight
           /\ \A j \in Instances : j # i => pc[j] \in Outside
           /\ \A j \in Instances : got[j]["cert"] = None /\ ~Loaded(j) /\ reloadStatus[j] # "SUCCESS"
  <1>1. s3["cert"] = None /\ lock = i
    BY WritersUnpublished DEF InstanceInv, LockHeld
  <1>2. ASSUME NEW j \in Instances, j # i PROVE pc[j] \in Outside
    BY <1>1, <1>2 DEF InstanceInv, LockHeld, Outside, TypeOK, Phases, Reading
  <1> QED BY <1>1, <1>2 DEF InstanceInv, ReadsPublished, LoadedPublished, BucketInv, UnlockAfterPublication

\* acquireLock.
LEMMA AcquireStep ==
    ASSUME TypeOK, BucketInv, InstanceInv, NEW i \in Instances, acquireLock(i)
    PROVE  BucketInv' /\ InstanceInv'
  <1> DEFINE r == [op |-> "lock", by |-> i]
  <1>1. Apply(r) => s3' = s3 /\ lock' = IF lock = NoLock THEN i ELSE lock
    BY DEF Apply
  <1>2. r \notin PutRequests /\ r # [op |-> "unlock"]
    BY RequestTypes
  <1>3. /\ s3' = s3
        /\ lock' = lock \/ (lock = NoLock /\ lock' = i)
        /\ inflight' = inflight \/ inflight' = inflight \cup {r}
    BY <1>1 DEF acquireLock, Answered, AnsweredTwice, Unanswered, bucketVars
  <1>4. /\ inflight' \cap PutRequests = inflight \cap PutRequests
        /\ [op |-> "unlock"] \in inflight' => s3["cert"] # None
    BY <1>2, <1>3 DEF BucketInv, UnlockAfterPublication
  <1>5. \E phase \in Outside \cup {"recheck"} :
          Enters(i, phase) /\ (phase = "recheck" => lock = NoLock /\ lock' = i)
    <2>1. CASE Fail(i) \/ FailTransient(i)
      BY <2>1, Retreating DEF Retreats, Enters, Outside
    <2>2. CASE ~Fail(i) /\ ~FailTransient(i)
      <3>1. Goto(i, "recheck") /\ lock = NoLock /\ lock' = i
        BY <1>1, <2>2 DEF acquireLock, PhaseUnderLock, Answered, AnsweredTwice
      <3> QED BY <3>1 DEF Goto, Enters
    <2> QED BY <2>1, <2>2
  <1>6. /\ UNCHANGED currentCertificate
        /\ \A j \in Instances : reloadStatus'[j] = "SUCCESS" => reloadStatus[j] = "SUCCESS"
    BY FailingStatus DEF acquireLock
  <1> HIDE DEF r
  <1>7. PICK phase \in Outside \cup {"recheck"} :
          Enters(i, phase) /\ (phase = "recheck" => lock = NoLock /\ lock' = i)
    BY <1>5
  <1>8. phase # "load" /\ i # NoLock
    BY ConstantsAssumption DEF Outside
  <1> QED BY <1>3, <1>4, <1>6, <1>7, <1>8, LockRequestStep

\* releaseLock, by then always of a published backup.
LEMMA ReleaseStep ==
    ASSUME TypeOK, BucketInv, InstanceInv, NEW i \in Instances, releaseLock(i)
    PROVE  BucketInv' /\ InstanceInv'
  <1> DEFINE r == [op |-> "unlock"]
  <1>1. s3["cert"] # None
    BY DEF releaseLock, InstanceInv, LockHeld
  <1>2. s3' = s3 /\ (inflight' = inflight \/ inflight' = inflight \cup {r})
    BY DEF releaseLock, Answered, AnsweredTwice, Unanswered, bucketVars, Apply
  <1>3. inflight' \cap PutRequests = inflight \cap PutRequests
    BY <1>2, RequestTypes
  <1>4. \E phase \in Outside \cup {"load"} : Enters(i, phase)
    <2>1. CASE Fail(i)
      BY <2>1, Retreating DEF Retreats, Enters, Outside
    <2>2. CASE Goto(i, "load")
      BY <2>2 DEF Goto, Enters
    <2> QED BY <2>1, <2>2 DEF releaseLock
  <1>5. /\ UNCHANGED currentCertificate
        /\ \A j \in Instances : reloadStatus'[j] = "SUCCESS" => reloadStatus[j] = "SUCCESS"
    BY FailingStatus DEF releaseLock
  <1>6. PICK phase \in Outside \cup {"load"} : Enters(i, phase)
    BY <1>4
  <1>7. phase # "recheck"
    BY DEF Outside
  <1> QED BY <1>1, <1>2, <1>3, <1>5, <1>6, <1>7, LockRequestStep
\* A put by the sole writer, whatever became of the request, keeps the
\* bucket part of the invariant.
LEMMA PutKeepsBuckets ==
    ASSUME TypeOK, BucketInv, InstanceInv, NEW i \in Instances, pc[i] = "put",
           NEW r, r = [op |-> "put", artifact |-> WriteOrder[step[i]], gen |-> mine[i]],
           s3' = s3 \/ s3' = [s3 EXCEPT ![WriteOrder[step[i]]] = mine[i]],
           lock' = lock,
           inflight' = inflight \/ inflight' = inflight \cup {r}
    PROVE  BucketInv'
  <1> DEFINE g == mine[i]
             a == WriteOrder[step[i]]
  <1>1. /\ s3["cert"] = None /\ lock = i /\ [op |-> "unlock"] \notin inflight
        /\ g # None /\ step[i] \in 1 .. ArtifactCount /\ a \in Artifacts
        /\ \A b \in Artifacts : s3[b] \in {None, g}
        /\ \A q \in PutsInFlight : q.gen = g /\ q.artifact # "cert"
    <2>1. /\ s3["cert"] = None /\ lock = i /\ [op |-> "unlock"] \notin inflight
      BY SoleWriter
    <2>2. g # None /\ step[i] \in 1 .. ArtifactCount /\ a \in Artifacts
      BY Orders DEF InstanceInv, WriterProgress
    <2>3. \A b \in Artifacts : s3[b] \in {None, g}
      BY Orders DEF InstanceInv, WriterProgress, Artifacts, ArtifactCount
    <2>4. \A q \in PutsInFlight : q.gen = g /\ q.artifact # "cert"
      <3>1. \A k \in 1 .. ArtifactCount : k < step[i] => WriteOrder[k] # "cert"
        BY <2>2, Orders DEF ArtifactCount
      <3> QED BY <3>1 DEF InstanceInv, WriterProgress
    <2> QED BY <2>1, <2>2, <2>3, <2>4
  <1>2. a = "cert" => \A b \in Artifacts : b # "cert" => s3[b] = g
    <2>1. a = "cert" => step[i] = 4
      BY <1>1, Orders DEF ArtifactCount
    <2> QED BY <1>1, <2>1, Orders DEF InstanceInv, WriterProgress, Artifacts, ArtifactCount
  <1>3. \A b \in Artifacts : s3'[b] \in {s3[b], g} /\ s3'[b] = IF b = a THEN s3'[a] ELSE s3[b]
    BY <1>1 DEF TypeOK, KeyBackups
  <1>4. /\ r.gen = g /\ r.artifact = a /\ r \in PutRequests /\ r # [op |-> "unlock"]
    BY <1>1, RequestTypes DEF TypeOK, Stored, Generations
  <1>5. PutsInFlight' = PutsInFlight \/ PutsInFlight' = PutsInFlight \cup {r}
    BY <1>4 DEF PutsInFlight
  <1> HIDE DEF g, a
  <1>6. SentinelComplete'
    <2>1. s3'["cert"] # None => a = "cert" /\ s3'["cert"] = g
      BY <1>1, <1>3 DEF Artifacts
    <2> QED BY <1>1, <1>2, <1>3, <2>1 DEF SentinelComplete, Whole
  <1>7. LeftoversStayLocked'
    BY <1>1, ConstantsAssumption DEF LeftoversStayLocked
  <1>8. OneGeneration'
    BY <1>1, <1>2, <1>3, <1>4, <1>5 DEF OneGeneration
  <1>9. UnlockAfterPublication'
    BY <1>1, <1>4 DEF UnlockAfterPublication
  <1> QED BY <1>6, <1>7, <1>8, <1>9 DEF BucketInv

\* putS3Object.
LEMMA PutStep ==
    ASSUME TypeOK, BucketInv, InstanceInv, NEW i \in Instances, putS3Object(i)
    PROVE  BucketInv' /\ InstanceInv'
  <1> DEFINE r == [op |-> "put", artifact |-> WriteOrder[step[i]], gen |-> mine[i]]
             a == WriteOrder[step[i]]
  <1>0. pc[i] = "put"
    BY DEF putS3Object
  <1>1. Apply(r) => s3' = [s3 EXCEPT ![a] = mine[i]] /\ lock' = lock
    BY DEF Apply
  <1>2. /\ s3' = s3 \/ s3' = [s3 EXCEPT ![a] = mine[i]]
        /\ lock' = lock
        /\ inflight' = inflight \/ inflight' = inflight \cup {r}
    BY <1>1 DEF putS3Object, Answered, AnsweredTwice, Unanswered, bucketVars
  <1>3. BucketInv'
    BY <1>0, <1>2, PutKeepsBuckets
  <1>4. /\ s3["cert"] = None /\ lock = i
        /\ \A j \in Instances : j # i => pc[j] \in Outside
        /\ \A j \in Instances : got[j]["cert"] = None /\ ~Loaded(j) /\ reloadStatus[j] # "SUCCESS"
    BY <1>0, SoleWriter
  <1>5. /\ mine[i] # None /\ step[i] \in 1 .. ArtifactCount
        /\ \A k \in 1 .. ArtifactCount : s3[WriteOrder[k]] = IF k < step[i] THEN mine[i] ELSE None
        /\ \A q \in PutsInFlight :
              /\ q.gen = mine[i]
              /\ \E k \in 1 .. ArtifactCount : k < step[i] /\ q.artifact = WriteOrder[k]
        /\ a \in Artifacts
    BY <1>0, Orders DEF InstanceInv, WriterProgress
  <1>6. LoadedPublished'
    <2>1. \A j \in Instances : reloadStatus'[j] = "SUCCESS" => reloadStatus[j] = "SUCCESS"
      BY FailingStatus DEF putS3Object
    <2> QED BY <1>4, <2>1 DEF putS3Object, LoadedPublished, Loaded
  <1>7. CASE Fail(i)
    <2>1. Retreats(i)
      BY <1>7, Retreating
    <2>2. PICK phase \in Outside : Enters(i, phase)
      BY <2>1 DEF Retreats
    <2>3. \A j \in Instances : pc'[j] \in Outside
      BY <1>4, <2>2 DEF TypeOK, Enters
    <2>4. LockHeld' /\ WriterProgress'
      BY <2>3 DEF LockHeld, WriterProgress, Outside
    <2>5. ReadsPublished'
      BY <1>4, <2>2, <2>3, NoBackupType DEF ReadsPublished, Enters, Outside, TypeOK, Artifacts
    <2> QED BY <1>3, <1>6, <2>4, <2>5 DEF InstanceInv
  <1>8. CASE ~Fail(i)
    <2>0. (Answered(r) \/ AnsweredTwice(r)) /\ s3' = [s3 EXCEPT ![a] = mine[i]]
      BY <1>1, <1>8 DEF putS3Object, Answered, AnsweredTwice
    <2>1. CASE step[i] < ArtifactCount
      <3>1. step' = [step EXCEPT ![i] = @ + 1] /\ UNCHANGED <<pc, got, mine, retried>>
        BY <1>8, <2>1 DEF putS3Object
      <3>2. LockHeld'
        BY <1>2, <1>4, <3>1, <1>0 DEF LockHeld, Outside
      <3>3. WriterProgress'
        <4> SUFFICES ASSUME NEW j \in Instances
                     PROVE  /\ pc[j] = "generate" => step'[j] = 1
                            /\ pc[j] = "put" =>
                                 /\ mine[j] # None
                                 /\ step'[j] \in 1 .. ArtifactCount
                                 /\ \A k \in 1 .. ArtifactCount :
                                       s3'[WriteOrder[k]] = IF k < step'[j] THEN mine[j] ELSE None
                                 /\ \A q \in PutsInFlight' :
                                       /\ q.gen = mine[j]
                                       /\ \E k \in 1 .. ArtifactCount :
                                             k < step'[j] /\ q.artifact = WriteOrder[k]
          BY <3>1 DEF WriterProgress
        <4>1. CASE j # i
          BY <1>4, <4>1 DEF Outside
        <4>2. CASE j = i
          <5>1. step'[i] = step[i] + 1 /\ step'[i] \in 1 .. ArtifactCount
            BY <1>5, <2>1, <3>1 DEF TypeOK, ArtifactCount
          <5>2. \A k \in 1 .. ArtifactCount : WriteOrder[k] = a <=> k = step[i]
            BY <1>5, Orders DEF ArtifactCount
          <5>3. ASSUME NEW k \in 1 .. ArtifactCount
                PROVE  s3'[WriteOrder[k]] = IF k < step'[i] THEN mine[i] ELSE None
            BY <1>5, <2>0, <5>1, <5>2, Orders DEF TypeOK, KeyBackups, ArtifactCount
          <5>4. ASSUME NEW q \in PutsInFlight'
                PROVE  /\ q.gen = mine[i]
                       /\ \E k \in 1 .. ArtifactCount : k < step'[i] /\ q.artifact = WriteOrder[k]
            <6>1. CASE q \in PutsInFlight
              BY <1>5, <5>1, <6>1 DEF ArtifactCount
            <6>2. CASE q = r
              BY <1>5, <5>1, <6>2 DEF ArtifactCount
            <6> QED BY <1>2, <6>1, <6>2 DEF PutsInFlight
          <5> QED BY <1>0, <1>5, <4>2, <5>1, <5>3, <5>4
        <4> QED BY <4>1, <4>2
      <3>4. ReadsPublished'
        BY <1>0, <1>4, <3>1 DEF ReadsPublished, Outside
      <3> QED BY <1>3, <1>6, <3>2, <3>3, <3>4 DEF InstanceInv
    <2>2. CASE ~(step[i] < ArtifactCount)
      <3>1. Goto(i, "release") /\ step[i] = ArtifactCount
        BY <1>5, <1>8, <2>2 DEF putS3Object, ArtifactCount
      <3>2. s3'["cert"] # None
        BY <1>5, <2>0, <3>1, Orders DEF TypeOK, KeyBackups, ArtifactCount
      <3>3. \A j \in Instances : pc'[j] \in Outside \cup {"release"}
        BY <1>4, <3>1 DEF Goto, TypeOK
      <3>4. LockHeld' /\ WriterProgress'
        BY <3>2, <3>3 DEF LockHeld, WriterProgress, Outside
      <3>5. ReadsPublished'
        BY <3>2, <3>3 DEF ReadsPublished, Outside
      <3> QED BY <1>3, <1>6, <3>4, <3>5 DEF InstanceInv
    <2> QED BY <2>1, <2>2
  <1> QED BY <1>7, <1>8
\* When all instances are outside and nothing was published, what happens to
\* unpublished objects concerns no instance.
LEMMA NobodyAtWork ==
    ASSUME InstanceInv, s3["cert"] = None, \A j \in Instances : pc[j] \in Outside,
           UNCHANGED <<pc, step, got, mine, currentCertificate, reloadStatus>>
    PROVE  InstanceInv'
  <1>1. LockHeld' /\ WriterProgress'
    BY DEF LockHeld, WriterProgress, Outside
  <1>2. ReadsPublished' /\ LoadedPublished'
    BY DEF InstanceInv, ReadsPublished, LoadedPublished, Loaded, Outside
  <1> QED BY <1>1, <1>2 DEF InstanceInv

\* Requests that disappear without effect.
LEMMA FewerInFlight ==
    ASSUME BucketInv, InstanceInv, s3' = s3, lock' = lock, inflight' \subseteq inflight,
           UNCHANGED <<pc, step, got, mine, currentCertificate, reloadStatus>>
    PROVE  BucketInv' /\ InstanceInv'
  <1>0. PutsInFlight' \subseteq PutsInFlight
    BY DEF PutsInFlight
  <1>1. BucketInv'
    BY <1>0 DEF BucketInv, SentinelComplete, Whole, LeftoversStayLocked, OneGeneration,
                UnlockAfterPublication, PutsInFlight
  <1>2. LockHeld' /\ WriterProgress'
    BY <1>0 DEF InstanceInv, LockHeld, WriterProgress, Pristine
  <1>3. ReadsPublished' /\ LoadedPublished'
    BY DEF InstanceInv, ReadsPublished, LoadedPublished, Loaded
  <1> QED BY <1>1, <1>2, <1>3 DEF InstanceInv

\* A late request arrives: the put of an object that is already there, or of
\* one that a failed writer left unfinished; a lock; a repeated unlock.
LEMMA LateArrivalStep ==
    ASSUME TypeOK, BucketInv, InstanceInv, NEW r \in inflight, LateArrival(r)
    PROVE  BucketInv' /\ InstanceInv'
  <1>0. /\ UNCHANGED <<pc, step, got, mine, currentCertificate, reloadStatus>>
        /\ inflight' = inflight \ {r}
        /\ Apply(r)
        /\ r \in Requests
    BY DEF LateArrival, localVars, TypeOK
  <1>1. CASE r \in PutRequests
    <2>1. /\ s3' = [s3 EXCEPT ![r.artifact] = r.gen] /\ lock' = lock /\ r \in PutsInFlight
          /\ r.artifact \in Artifacts /\ r.gen # None
      BY <1>0, <1>1, RequestTypes DEF Apply, PutsInFlight
    <2>2. CASE s3[r.artifact] = r.gen
      <3>1. s3' = s3
        BY <2>1, <2>2 DEF TypeOK, KeyBackups
      <3> QED BY <1>0, <2>1, <3>1, FewerInFlight
    <2>3. CASE s3[r.artifact] # r.gen
      <3>1. s3["cert"] = None
        BY <2>1, <2>3 DEF BucketInv, SentinelComplete, Whole, OneGeneration, Artifacts
      <3>2. \A j \in Instances : pc[j] \in Outside
        <4> SUFFICES ASSUME NEW j \in Instances PROVE pc[j] \in Outside
          OBVIOUS
        <4>1. pc[j] # "put"
          BY <2>1, <2>3 DEF InstanceInv, WriterProgress
        <4>2. pc[j] \notin {"recheck", "generate", "release", "load"}
          BY <2>1, <3>1 DEF InstanceInv, LockHeld, Pristine
        <4> QED BY <4>1, <4>2 DEF TypeOK, Phases, Reading, Outside
      <3>3. InstanceInv'
        BY <1>0, <3>1, <3>2, NobodyAtWork
      <3>4. PutsInFlight' \subseteq PutsInFlight
        BY <1>0 DEF PutsInFlight
      <3>5. \A b \in Artifacts : s3'[b] = IF b = r.artifact THEN r.gen ELSE s3[b]
        BY <2>1 DEF TypeOK, KeyBackups
      <3>6. SentinelComplete'
        BY <2>1, <3>1, <3>5 DEF SentinelComplete, Whole, BucketInv, OneGeneration, Artifacts
      <3>7. LeftoversStayLocked'
        BY <2>1, <3>1 DEF LeftoversStayLocked, BucketInv, PutsInFlight
      <3>8. OneGeneration'
        BY <2>1, <3>4, <3>5 DEF OneGeneration, BucketInv
      <3>9. UnlockAfterPublication'
        BY <1>0, <3>1 DEF UnlockAfterPublication, BucketInv
      <3> QED BY <3>3, <3>6, <3>7, <3>8, <3>9 DEF BucketInv
    <2> QED BY <2>2, <2>3
  <1>2. CASE r \notin PutRequests
    <2>0. r \in LockRequests \/ r = [op |-> "unlock"]
      BY <1>0, <1>2 DEF Requests, UnlockRequests
    <2>1. /\ s3' = s3
          /\ inflight' \cap PutRequests = inflight \cap PutRequests
          /\ [op |-> "unlock"] \in inflight' => s3["cert"] # None
      <3>1. r.op # "put"
        BY <2>0 DEF LockRequests
      <3> QED BY <1>0, <1>2, <3>1 DEF Apply, BucketInv, UnlockAfterPublication
    <2>2. CASE r = [op |-> "unlock"]
      BY <1>0, <2>1, <2>2, LockStep DEF BucketInv, UnlockAfterPublication
    <2>3. CASE r \in LockRequests
      <3>1. lock' = IF lock = NoLock THEN r.by ELSE lock
        BY <1>0, <2>3 DEF Apply, LockRequests
      <3>2. lock' # NoLock
        BY <2>3, <3>1, ConstantsAssumption DEF LockRequests
      <3> QED BY <1>0, <2>1, <3>1, <3>2, LockStep
    <2> QED BY <2>0, <2>2, <2>3
  <1> QED BY <1>1, <1>2

\* The operator removes what an abandoned generation left, and its lock.
LEMMA OperatorStep ==
    ASSUME TypeOK, BucketInv, InstanceInv, Operator
    PROVE  BucketInv' /\ InstanceInv'
  <1>1. CASE OperatorRemovesLock
    <2>1. s3["cert"] # None \/ Pristine
      BY <1>1 DEF OperatorRemovesLock, Investigated, Pristine, PutsInFlight
    <2>2. lock' = NoLock /\ s3' = s3 /\ inflight' = inflight /\ pc[lock] \notin Locked
          /\ UNCHANGED <<pc, step, got, mine, currentCertificate, reloadStatus>>
      BY <1>1 DEF OperatorRemovesLock, Investigated, localVars
    <2>3. [op |-> "unlock"] \in inflight' => s3["cert"] # None
      BY <2>2 DEF BucketInv, UnlockAfterPublication
    <2> QED BY <2>1, <2>2, <2>3, LockStep
  <1>2. ASSUME NEW a \in Artifacts, OperatorRemovesLeftover(a)
        PROVE  BucketInv' /\ InstanceInv'
    <2>1. /\ s3["cert"] = None /\ s3[a] # None /\ s3' = [s3 EXCEPT ![a] = None]
          /\ lock' = lock /\ lock # NoLock /\ inflight' = inflight /\ PutsInFlight = {}
          /\ pc[lock] \notin Locked
          /\ UNCHANGED <<pc, step, got, mine, currentCertificate, reloadStatus>>
      BY <1>2 DEF OperatorRemovesLeftover, Investigated, localVars, PutsInFlight
    <2>2. \A j \in Instances : pc[j] \in Outside
      BY <2>1 DEF InstanceInv, LockHeld, Locked, TypeOK, Phases, Reading, Outside
    <2>3. InstanceInv'
      BY <2>1, <2>2, NobodyAtWork
    <2>4. s3'["cert"] = None
      BY <2>1 DEF TypeOK, KeyBackups, Artifacts
    <2>5. BucketInv'
      BY <2>1, <2>4 DEF BucketInv, SentinelComplete, LeftoversStayLocked, OneGeneration,
                        UnlockAfterPublication, PutsInFlight
    <2> QED BY <2>3, <2>5
  <1> QED BY <1>1, <1>2 DEF Operator

\* The invariant is inductive.
LEMMA NextIInv == IInv /\ [Next]_vars => IInv'
  <1> SUFFICES ASSUME IInv, [Next]_vars PROVE IInv'
    OBVIOUS
  <1>0. TypeOK /\ BucketInv /\ InstanceInv
    BY DEF IInv, BucketInv, InstanceInv
  <1>1. TypeOK'
    BY <1>0, TypeStep DEF InstanceInv
  <1> SUFFICES BucketInv' /\ InstanceInv'
    BY <1>1 DEF IInv, BucketInv, InstanceInv
  <1>2. ASSUME NEW i \in Instances, Reload(i) \/ Environment(i)
        PROVE  BucketInv' /\ InstanceInv'
    BY <1>0, <1>2, LocalSteps, AcquireStep, PutStep, ReleaseStep DEF Reload, Environment
  <1>3. CASE Operator
    BY <1>0, <1>3, OperatorStep
  <1>4. CASE Late
    BY <1>0, <1>4, LateArrivalStep, FewerInFlight DEF Late, LateLoss, localVars
  <1>5. CASE UNCHANGED vars
    BY <1>0, <1>5, FewerInFlight DEF vars
  <1> QED BY <1>2, <1>3, <1>4, <1>5 DEF Next

\* The protocol invariant, for every fleet and every bound.
THEOREM Invariance == Spec => []IInv
  BY InitIInv, NextIInv, PTL DEF Spec

\* Type correctness.
THEOREM TypeCorrect == Spec => []TypeOK
  BY Invariance, PTL DEF IInv

\* Key material is only generated into empty buckets.
THEOREM PristineCorrect == Spec => []GeneratesOnPristineStorage
  <1>1. IInv => GeneratesOnPristineStorage
    BY DEF IInv, LockHeld, Pristine, PutsInFlight, GeneratesOnPristineStorage
  <1> QED BY <1>1, Invariance, PTL

\* The buckets hold nothing, a whole backup of one generation under its
\* certificate, or leftovers of a failed generation under a lock.
THEOREM StorageCorrect == Spec => []StoredIsWholeOrLocked
  <1>1. IInv => StoredIsWholeOrLocked
    BY DEF IInv, StoredIsWholeOrLocked
  <1> QED BY <1>1, Invariance, PTL

\* Every loaded certificate is the published one, so any two instances that
\* serve do so with the same key and attestation document.
THEOREM FleetAgreement == Spec => []LoadedIsPublished
  <1>1. IInv => LoadedIsPublished
    BY DEF IInv, LoadedPublished, LoadedIsPublished
  <1> QED BY <1>1, Invariance, PTL

\* The SUCCESS gauge is honest.
THEOREM GaugeCorrect == Spec => []GaugeHonest
  <1>1. IInv => GaugeHonest
    BY DEF IInv, LoadedPublished, GaugeHonest
  <1> QED BY <1>1, Invariance, PTL
\* Once published, no request of any instance, on time or late, and no action
\* of the operator changes any of the four objects.
LEMMA PublishedStep == IInv /\ [Next]_vars => (s3["cert"] # None => s3' = s3)
  <1> SUFFICES ASSUME IInv, Next, s3["cert"] # None PROVE s3' = s3
    BY DEF vars
  <1>0. TypeOK /\ BucketInv /\ InstanceInv
    BY DEF IInv, BucketInv, InstanceInv
  <1>1. ASSUME NEW i \in Instances, Reload(i) \/ Environment(i) PROVE s3' = s3
    <2>1. ~putS3Object(i)
      BY <1>0, WritersUnpublished DEF putS3Object
    <2>2. CASE acquireLock(i) \/ releaseLock(i)
      BY <2>2 DEF acquireLock, releaseLock, Answered, AnsweredTwice, Unanswered, Apply, bucketVars
    <2>3. CASE ~(acquireLock(i) \/ releaseLock(i))
      BY <1>1, <2>1, <2>3 DEF Reload, Environment, StartReload, RetryAfterBackoff, tryGetS3Object,
         BackupExists, BackupAbsent, BackupPartiallyWritten, BackupUnusable, GenerateKeyBackup, FreshCertificate,
         loadExistingKeyBackup, DecryptFails, FetchFails, GenerateFails, CrashRestart, bucketVars
    <2> QED BY <2>2, <2>3
  <1>2. ASSUME Operator PROVE s3' = s3
    BY <1>2 DEF Operator, OperatorRemovesLock, OperatorRemovesLeftover
  <1>3. ASSUME NEW r \in inflight, LateArrival(r) PROVE s3' = s3
    <2>1. CASE r \in PutRequests
      <3>1. s3' = [s3 EXCEPT ![r.artifact] = r.gen] /\ r \in PutsInFlight /\ r.artifact \in Artifacts
        BY <1>3, <2>1, RequestTypes DEF LateArrival, Apply, PutsInFlight
      <3>2. s3[r.artifact] = r.gen
        BY <1>0, <3>1 DEF BucketInv, SentinelComplete, Whole, OneGeneration
      <3> QED BY <1>0, <3>1, <3>2 DEF TypeOK, KeyBackups
    <2>2. CASE r \notin PutRequests
      <3>1. r.op # "put"
        BY <1>0, <2>2 DEF TypeOK, Requests, LockRequests, UnlockRequests
      <3> QED BY <1>3, <3>1 DEF LateArrival, Apply
    <2> QED BY <2>1, <2>2
  <1>4. ASSUME NEW r \in inflight, LateLoss(r) PROVE s3' = s3
    BY <1>4 DEF LateLoss
  <1> QED BY <1>1, <1>2, <1>3, <1>4 DEF Next, Late

\* The objects of a published backup are final.
THEOREM PublicationIsFinal == Spec => PublishedOnce
  <1>1. IInv /\ [Next]_vars => [s3["cert"] # None => s3' = s3]_vars
    BY PublishedStep
  <1> QED BY <1>1, Invariance, PTL DEF Spec, PublishedOnce
\* The identity an instance serves with, as MbsIdentity sees it.
View == [i \in Instances |-> currentCertificate[i]["cert"]]

\* The protocol implements MbsIdentity: the fleet has one identity, published
\* once; instances adopt it when they load and lose it when they restart.
THEOREM Refinement == Spec => ImplementsIdentity
  <1>1. Init => Identity!Init
    BY NoBackupType DEF Init, Identity!Init, Artifacts, None
  <1>2. IInv /\ IInv' /\ [Next]_vars => [Identity!Next]_(Identity!identityVars)
    <2> SUFFICES ASSUME IInv, IInv', [Next]_vars
                 PROVE  [Identity!Next]_(Identity!identityVars)
      OBVIOUS
    <2>1. CASE currentCertificate' = currentCertificate
      <3>1. View' = View
        BY <2>1 DEF View
      <3>2. CASE s3'["cert"] = s3["cert"]
        BY <3>1, <3>2 DEF Identity!identityVars, View
      <3>3. CASE s3'["cert"] # s3["cert"]
        <4>1. s3["cert"] = 0
          BY <3>3, PublishedStep DEF None
        <4>2. s3'["cert"] \in Nat \ {0}
          BY <3>3, <4>1 DEF IInv, TypeOK, KeyBackups, Stored, Artifacts
        <4>3. Identity!Publish
          BY <3>1, <4>1, <4>2 DEF Identity!Publish, View
        <4> QED BY <4>3 DEF Identity!Next
      <3> QED BY <3>2, <3>3
    <2>2. CASE currentCertificate' # currentCertificate
      <3>1. PICK i \in Instances : loadExistingKeyBackup(i) \/ CrashRestart(i)
        BY <2>2 DEF Next, Reload, Environment, Operator, Late, StartReload, RetryAfterBackoff,
           tryGetS3Object, BackupExists, BackupAbsent, BackupPartiallyWritten, BackupUnusable,
           acquireLock, GenerateKeyBackup, FreshCertificate, putS3Object, releaseLock, FetchFails, GenerateFails,
           OperatorRemovesLock, OperatorRemovesLeftover, LateArrival, LateLoss, vars
      <3>2. s3' = s3
        BY <3>1 DEF loadExistingKeyBackup, DecryptFails, CrashRestart, bucketVars
      <3>3. CASE loadExistingKeyBackup(i)
        <4>1. currentCertificate' = [currentCertificate EXCEPT ![i] = got[i]]
          BY <2>2, <3>3 DEF loadExistingKeyBackup, DecryptFails
        <4>2. got[i] # NoBackup
          <5>1. got[i]["cert"] # None
            BY <3>3 DEF loadExistingKeyBackup, DecryptFails, Found, Missing, Artifacts
          <5> QED BY <5>1, NoBackupType DEF Artifacts
        <4>3. currentCertificate'[i] = s3 /\ s3["cert"] # None
          BY <3>2, <4>1, <4>2 DEF IInv, LoadedPublished, Loaded, TypeOK
        <4>4. View' = [View EXCEPT ![i] = s3["cert"]]
          BY <4>1, <4>3 DEF View, IInv, TypeOK
        <4>5. Identity!Adopt(i)
          BY <3>2, <4>3, <4>4 DEF Identity!Adopt, View, None
        <4> QED BY <4>5 DEF Identity!Next
      <3>4. CASE CrashRestart(i)
        <4>1. View' = [View EXCEPT ![i] = 0]
          BY <3>4, NoBackupType DEF CrashRestart, View, IInv, TypeOK, None, Artifacts
        <4>2. Identity!Forget(i)
          BY <3>2, <4>1 DEF Identity!Forget, View
        <4> QED BY <4>2 DEF Identity!Next
      <3> QED BY <3>1, <3>3, <3>4
    <2> QED BY <2>1, <2>2
  <1> QED BY <1>1, <1>2, Invariance, PTL DEF Spec, ImplementsIdentity, Identity!Spec

-----------------------------------------------------------------------------
(* Damaged storage (MbsDamage).  Most of IInv is lost with the objects, but *)
(* what an instance has in use depends on what it has checked itself.      *)

\* The certificate in use changes when the process dies, and when a complete
\* and consistent backup has been read.
LEMMA CertificateStep ==
    ASSUME [DamageNext]_vars
    PROVE  \/ UNCHANGED currentCertificate
           \/ \E i \in Instances :
                 /\ currentCertificate' = [currentCertificate EXCEPT ![i] = NoBackup]
                 /\ reloadStatus' = [reloadStatus EXCEPT ![i] = "UNSET"]
           \/ \E i \in Instances :
                 /\ Found(got[i]) /\ KeyMaterialConsistent(got[i])
                 /\ currentCertificate' = [currentCertificate EXCEPT ![i] = got[i]]
                 /\ reloadStatus' = [reloadStatus EXCEPT ![i] = "SUCCESS"]
<1>1. CASE UNCHANGED vars
  BY <1>1 DEF vars
<1>2. ASSUME NEW i \in Instances, loadExistingKeyBackup(i)
      PROVE  \/ UNCHANGED currentCertificate
             \/ /\ Found(got[i]) /\ KeyMaterialConsistent(got[i])
                /\ currentCertificate' = [currentCertificate EXCEPT ![i] = got[i]]
                /\ reloadStatus' = [reloadStatus EXCEPT ![i] = "SUCCESS"]
  BY <1>2 DEF loadExistingKeyBackup, DecryptFails
<1>3. ASSUME NEW i \in Instances, Reload(i), ~loadExistingKeyBackup(i)
      PROVE  UNCHANGED currentCertificate
  BY <1>3 DEF Reload, StartReload, RetryAfterBackoff, tryGetS3Object, BackupExists, BackupAbsent,
     BackupPartiallyWritten, BackupUnusable, acquireLock, GenerateKeyBackup, FreshCertificate, putS3Object, releaseLock
<1>4. ASSUME NEW i \in Instances, FetchFails(i) \/ GenerateFails(i)
      PROVE  UNCHANGED currentCertificate
  BY <1>4 DEF FetchFails, GenerateFails
<1>5. ASSUME NEW i \in Instances, CrashRestart(i)
      PROVE  /\ currentCertificate' = [currentCertificate EXCEPT ![i] = NoBackup]
             /\ reloadStatus' = [reloadStatus EXCEPT ![i] = "UNSET"]
  BY <1>5 DEF CrashRestart
<1>6. CASE Operator \/ Late
  BY <1>6 DEF Operator, OperatorRemovesLock, OperatorRemovesLeftover, Late, LateArrival, LateLoss
<1>7. ASSUME (\E lost \in SUBSET Artifacts : ObjectsLost(lost)) \/ \E a \in Artifacts : ObjectGarbled(a)
      PROVE  UNCHANGED currentCertificate
  BY <1>7 DEF ObjectsLost, ObjectGarbled, Damage
<1> QED
  BY <1>1, <1>2, <1>3, <1>4, <1>5, <1>6, <1>7 DEF DamageNext, Next, Environment

\* Whatever happens to the objects.
DamageInv ==
    /\ currentCertificate = [i \in Instances |-> currentCertificate[i]]
    /\ reloadStatus \in [Instances -> {"UNSET", "SUCCESS", "FAILURE"}]

\* The gauge keeps its type.
LEMMA GaugeStep ==
    ASSUME reloadStatus \in [Instances -> {"UNSET", "SUCCESS", "FAILURE"}], [DamageNext]_vars
    PROVE  reloadStatus' \in [Instances -> {"UNSET", "SUCCESS", "FAILURE"}]
<1>1. CASE UNCHANGED reloadStatus
  BY <1>1
<1>2. ASSUME NEW i \in Instances, NEW value \in {"UNSET", "SUCCESS", "FAILURE"},
             reloadStatus' = [reloadStatus EXCEPT ![i] = value]
      PROVE  reloadStatus' \in [Instances -> {"UNSET", "SUCCESS", "FAILURE"}]
  BY <1>2
<1>3. ASSUME NEW i \in Instances, Reload(i) \/ Environment(i)
      PROVE  \/ UNCHANGED reloadStatus
             \/ \E value \in {"UNSET", "SUCCESS", "FAILURE"} :
                    reloadStatus' = [reloadStatus EXCEPT ![i] = value]
  BY <1>3 DEF Reload, StartReload, RetryAfterBackoff, tryGetS3Object, BackupExists, BackupAbsent,
     BackupPartiallyWritten, BackupUnusable, acquireLock, GenerateKeyBackup, FreshCertificate, putS3Object,
     releaseLock, loadExistingKeyBackup, DecryptFails, Fail, FailTransient, Environment, FetchFails,
     GenerateFails, CrashRestart
<1>4. CASE Operator \/ Late
  BY <1>1, <1>4 DEF Operator, OperatorRemovesLock, OperatorRemovesLeftover, Late, LateArrival, LateLoss
<1>5. CASE (\E lost \in SUBSET Artifacts : ObjectsLost(lost)) \/ \E a \in Artifacts : ObjectGarbled(a)
  BY <1>1, <1>5 DEF ObjectsLost, ObjectGarbled, Damage
<1> QED
  BY <1>1, <1>2, <1>3, <1>4, <1>5 DEF DamageNext, Next, vars

LEMMA DamageStep == DamageInv /\ [DamageNext]_vars => DamageInv'
<1> SUFFICES ASSUME DamageInv, [DamageNext]_vars PROVE DamageInv'
  OBVIOUS
<1>1. reloadStatus' \in [Instances -> {"UNSET", "SUCCESS", "FAILURE"}]
  BY GaugeStep DEF DamageInv
<1>2. CASE UNCHANGED currentCertificate
  BY <1>1, <1>2 DEF DamageInv
<1>3. ASSUME NEW i \in Instances, NEW backup,
             currentCertificate' = [currentCertificate EXCEPT ![i] = backup]
      PROVE  DamageInv'
  BY <1>1, <1>3 DEF DamageInv
<1> QED
  BY <1>2, <1>3, CertificateStep

LEMMA DamageInit == Init => DamageInv
  BY DEF Init, DamageInv

\* An instance that serves goes on serving, short of a restart
\* (reloadCertificate keeps the certificate when a reload fails).
THEOREM ServiceCorrect == DamageSpec => KeepsServing
<1>1. ASSUME DamageInv, [DamageNext]_vars, NEW i \in Instances,
             currentCertificate'[i] # currentCertificate[i]
      PROVE  \/ reloadStatus'[i] = "UNSET"
             \/ reloadStatus'[i] = "SUCCESS" /\ currentCertificate'[i]["cert"] # None
  <2>1. CASE \E j \in Instances :
               /\ currentCertificate' = [currentCertificate EXCEPT ![j] = NoBackup]
               /\ reloadStatus' = [reloadStatus EXCEPT ![j] = "UNSET"]
    BY <1>1, <2>1 DEF DamageInv
  <2>2. CASE \E j \in Instances :
               /\ Found(got[j])
               /\ currentCertificate' = [currentCertificate EXCEPT ![j] = got[j]]
               /\ reloadStatus' = [reloadStatus EXCEPT ![j] = "SUCCESS"]
    <3>1. PICK j \in Instances :
             /\ Found(got[j])
             /\ currentCertificate' = [currentCertificate EXCEPT ![j] = got[j]]
             /\ reloadStatus' = [reloadStatus EXCEPT ![j] = "SUCCESS"]
      BY <2>2
    <3>2. got[j]["cert"] # None
      BY <3>1 DEF Found, Missing, Artifacts
    <3> QED
      BY <1>1, <3>1, <3>2 DEF DamageInv
  <2> QED
    BY <1>1, <2>1, <2>2, CertificateStep
<1>2. DamageInv /\ [DamageNext]_vars =>
        [\A i \in Instances :
            Loaded(i) /\ currentCertificate'[i] # currentCertificate[i]
                => \/ reloadStatus'[i] = "UNSET"
                   \/ reloadStatus'[i] = "SUCCESS" /\ currentCertificate'[i]["cert"] # None]_vars
  BY <1>1
<1> QED
  BY <1>2, DamageInit, DamageStep, PTL DEF DamageSpec, KeepsServing

-----------------------------------------------------------------------------
\* EnclaveLife.

\* No check is a check that has not been answered.
LEMMA NoCheckType == NoCheck \in Checks /\ ~NoCheck.ok /\ NoCheck.at = "none"
  BY DEF NoCheck, Checks

\* A new enclave, and none at all, satisfy what HealthInv says of the server.
LEMMA FreshHealth ==
    ASSUME HealthInv, Launch \/ EndEnclave,
           LifeTypeOK'
    PROVE  HealthInv'
  BY NoCheckType DEF HealthInv, HealthIsHonest, Launch, EndEnclave

\* What leaves the enclave's inside alone keeps its part of the invariant.
LEMMA InsideUnchanged ==
    ASSUME HealthInv, UNCHANGED insideVars, LifeTypeOK'
    PROVE  HealthInv'
  BY DEF HealthInv, HealthIsHonest, insideVars, serverVars

\* The types of what is inside.
LEMMA FreshTypes ==
    ASSUME Launch \/ EndEnclave
    PROVE  /\ enclave' \in BOOLEAN /\ loaded' \in BOOLEAN /\ vendor' = "none"
           /\ main' \in {"none", "proxify"} /\ server' = "new" /\ status' = "UNKNOWN"
           /\ check' \in Checks
  BY NoCheckType DEF Launch, EndEnclave

\* An end of the script: the unit is to be restarted, with or without the
\* enclave.
LEMMA ExitTypes ==
    ASSUME LifeTypeOK, Exit \/ ExitAfterSleep
    PROVE  /\ watcher' = "ended" /\ unit' = "restart" /\ quick' \in 0 .. StartBurst
           /\ EndEnclave \/ UNCHANGED insideVars
  BY LifeAssumption DEF LifeTypeOK, Exit, ExitAfterSleep

\* Every step of the host keeps the types, and either leaves the inside of
\* the enclave alone or makes it fresh.
LEMMA HostStep ==
    ASSUME HealthInv, Host
    PROVE  LifeTypeOK' /\ (Launch \/ EndEnclave \/ UNCHANGED insideVars)
<1> USE LifeAssumption DEF HealthInv
<1>1. CASE StartUnit
  BY <1>1 DEF StartUnit, LifeTypeOK, instanceVars, insideVars, serverVars
<1>2. CASE StartTimesOut
  BY <1>2, ExitTypes, FreshTypes DEF StartTimesOut, LifeTypeOK, instanceVars, insideVars, serverVars, Mishap, NoMishap
<1>3. CASE WatchdogExpires
  BY <1>3, ExitTypes, FreshTypes DEF WatchdogExpires, LifeTypeOK, instanceVars, insideVars, serverVars
<1>4. CASE stop_enclave
  BY <1>4, FreshTypes DEF stop_enclave, LifeTypeOK, instanceVars, insideVars, serverVars, Mishap
<1>5. CASE OperatorStarts
  BY <1>5 DEF OperatorStarts, LifeTypeOK, instanceVars, insideVars, serverVars
<1>6. CASE Replace
  BY <1>6, FreshTypes DEF Replace, LifeTypeOK, instanceVars, insideVars, serverVars, NoMishap
<1>7. CASE Hangs
  BY <1>7 DEF Hangs, LifeTypeOK, instanceVars, insideVars, serverVars, Mishap
<1>8. CASE check_permissions
  BY <1>8, ExitTypes, FreshTypes DEF check_permissions, LifeTypeOK, instanceVars, insideVars, serverVars,
     Mishap, NoMishap
<1>9. CASE update_allocator_config
  BY <1>9, ExitTypes, FreshTypes DEF update_allocator_config, fetch_tag_value, LifeTypeOK, insideVars, serverVars,
     Mishap, NoMishap
<1>10. CASE run_enclave
  BY <1>10, FreshTypes DEF run_enclave, LifeTypeOK, instanceVars, insideVars, serverVars, Mishap, NoMishap
<1>11. CASE start_enclave_ready
  BY <1>11 DEF start_enclave_ready, LifeTypeOK, insideVars, serverVars
<1>12. CASE handle_enclave_startup_failure
  BY <1>12, ExitTypes, FreshTypes DEF handle_enclave_startup_failure, Counted, LifeTypeOK, insideVars, serverVars
<1>13. CASE set_instance_health
  BY <1>13, ExitTypes, FreshTypes DEF set_instance_health, wait_for_instance_replacement, LifeTypeOK, insideVars,
     serverVars, Mishap, NoMishap
<1>14. CASE watch_enclave
  BY <1>14, ExitTypes, FreshTypes DEF watch_enclave, LifeTypeOK, unitVars, instanceVars, insideVars, serverVars,
     Mishap, NoMishap
<1> QED
  BY <1>1, <1>2, <1>3, <1>4, <1>5, <1>6, <1>7, <1>8, <1>9, <1>10, <1>11, <1>12, <1>13, <1>14 DEF Host, Watcher

\* Every step inside the enclave keeps the invariant.
LEMMA InsideStep ==
    ASSUME HealthInv, Inside, UNCHANGED <<unitVars, instanceVars>>
    PROVE  HealthInv'
<1> USE LifeAssumption DEF HealthInv, HealthIsHonest, LifeTypeOK, unitVars, instanceVars, serverVars, Mishap, NoMishap
<1>1. CASE EndEnclave /\ (Mishap \/ NoMishap)
  <2>1. LifeTypeOK'
    BY <1>1, FreshTypes
  <2> QED
    BY <1>1, <2>1, FreshHealth
<1>2. CASE proxify
  BY <1>1, <1>2 DEF proxify
<1>3. CASE socket_vendor
  BY <1>3 DEF socket_vendor
<1>4. CASE getAwsInstanceMetadata
  BY <1>1, <1>4 DEF getAwsInstanceMetadata
<1>5. CASE CreateInjector
  BY <1>1, <1>5 DEF CreateInjector
<1>6. CASE StartMonitor \/ AddShutdownHook
  BY <1>6 DEF StartMonitor, AddShutdownHook
<1>7. CASE StartServer
  BY <1>7 DEF StartServer
<1>8. CASE SetServing
  BY <1>8 DEF SetServing
<1>9. CASE Stop
  BY <1>9 DEF Stop
<1>10. CASE Stopped
  BY <1>1, <1>10 DEF Stopped
<1>11. CASE Reloaded
  BY <1>11 DEF Reloaded
<1>12. CASE Terminate
  BY <1>1, <1>12 DEF Terminate
<1>13. CASE VendorDies
  BY <1>13 DEF VendorDies
<1>14. CASE EnclaveDies
  BY <1>1, <1>14 DEF EnclaveDies
<1>15. CASE isHealthy
  <2>1. CASE CheckBegins
    <3>1. check' \in Checks /\ ~check'.ok /\ (check'.stopping <=> server = "stopping")
      BY <2>1 DEF CheckBegins, Checks
    <3>2. check'.at \in {"ledger", "certificate"} => status = "SERVING"
      BY <2>1 DEF CheckBegins
    <3> QED
      BY <1>15, <3>1, <3>2 DEF isHealthy
  <2>2. CASE LedgerAnswers
    <3>1. check' \in Checks /\ check'.ok = check.ok /\ check'.stopping = check.stopping
      BY <2>2 DEF LedgerAnswers, Checks
    <3> QED
      BY <1>15, <2>2, <3>1 DEF isHealthy, LedgerAnswers
  <2>3. CASE CheckAnswered
    <3>1. check' \in Checks /\ check'.ok = loaded /\ check'.stopping = check.stopping /\ check'.at = "answered"
      BY <2>3 DEF CheckAnswered, Checks
    <3> QED
      BY <1>15, <2>3, <3>1 DEF isHealthy, CheckAnswered
  <2> QED
    BY <1>15, <2>1, <2>2, <2>3 DEF isHealthy
<1> QED
  BY <1>2, <1>3, <1>4, <1>5, <1>6, <1>7, <1>8, <1>9, <1>10, <1>11, <1>12, <1>13, <1>14, <1>15 DEF Inside, Main

\* /healthz answers OK only with a certificate, and not if the server was
\* being stopped when the check began (PesServer.isHealthy, start and stop,
\* and the place of the shutdown hook in ServerMain.main).
THEOREM HealthCorrect == LifeSpec => []HealthIsHonest
<1>1. LifeInit => HealthInv
  <2> SUFFICES ASSUME LifeInit
               PROVE  HealthInv
    OBVIOUS
  <2>1. check \in Checks /\ ~check.ok /\ check.at = "none" /\ loaded \in BOOLEAN /\ enclave \in BOOLEAN
    BY NoCheckType DEF LifeInit
  <2> QED
    BY LifeAssumption, <2>1 DEF LifeInit, HealthInv, HealthIsHonest, LifeTypeOK
<1>2. HealthInv /\ [LifeNext]_lifeVars => HealthInv'
  <2> SUFFICES ASSUME HealthInv, [LifeNext]_lifeVars
               PROVE  HealthInv'
    OBVIOUS
  <2>1. CASE Host
    BY <2>1, HostStep, FreshHealth, InsideUnchanged
  <2>2. CASE Inside /\ UNCHANGED <<unitVars, instanceVars>>
    BY <2>2, InsideStep
  <2>3. CASE UNCHANGED lifeVars
    BY <2>3 DEF lifeVars, unitVars, instanceVars, insideVars, serverVars, HealthInv, HealthIsHonest, LifeTypeOK
  <2> QED
    BY <2>1, <2>2, <2>3 DEF LifeNext
<1>3. HealthInv => HealthIsHonest
  BY DEF HealthInv
<1> QED
  BY <1>1, <1>2, <1>3, PTL DEF LifeSpec
=============================================================================
